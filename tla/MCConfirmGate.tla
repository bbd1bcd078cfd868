--------------------------- MODULE MCConfirmGate ---------------------------
(* Small instances of ConfirmGate for TLC. *)
EXTENDS ConfirmGate, TLC

CONSTANTS a, b, c, t1, t2, u, w

Two == {a, b}
Three == {a, b, c}
TwoTokens == {t1, t2}
OneUser == {u}
OneWorker == {w}

AllByU == [r \in Requests |-> u]
\* The third request has a token of its own.
ThirdForT2 == a :> t1 @@ b :> t1 @@ c :> t2
EachItsOwn == [r \in Requests |-> IF r = a THEN t1 ELSE t2]
OneWorkerServes == [r \in Requests |-> w]
AllOwnedByU == [t \in Tokens |-> u]

Nothing == {}
SecondRequest == {b}
ThirdRequest == {c}
SecondToken == {t2}
AllCalls == Calls
WritesSwitch == {"writes"}
ShadowSwitch == {"shadow"}

OneHour == [t \in 0 .. MaxTime |-> 0]
=============================================================================
