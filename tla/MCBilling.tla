----------------------------- MODULE MCBilling -----------------------------
(* Small instances of Billing for TLC. *)
EXTENDS Billing, TLC

CONSTANTS e1, e2, e3, d1, d2, d3, d4, p1, p2

TwoEvents == {e1, e2}
ThreeEvents == {e1, e2, e3}
TwoReferences == {p1, p2}
TwoDeliveries == {d1, d2}
ThreeDeliveries == {d1, d2, d3}
FourDeliveries == {d1, d2, d3, d4}

\* The first event is delivered twice.
AllOfFirst == [d \in Deliveries |-> e1]
FirstTwiceOfTwo == d1 :> e1 @@ d2 :> e1 @@ d3 :> e2
FirstTwiceOfThree == d1 :> e1 @@ d2 :> e1 @@ d3 :> e2 @@ d4 :> e3

\* The two deliveries of the first event are interchangeable.
SameEvent == Permutations({d1, d2})

\* Two events may report the same payment.
SamePayment == [e \in Events |-> p1]
OwnPayment == [e \in Events |-> IF e = e1 THEN p1 ELSE p2]

TopupsOnly == [e \in Events |-> "topup"]
TopupAndCancellation == e1 :> "topup" @@ e2 :> "cancelled"
TopupAndSubscription == e1 :> "topup" @@ e2 :> "activated" @@ e3 :> "charged"

\* The last event says too little.
AllButSecond == Events \ {e2}
AllButThird == Events \ {e3}

HandlerFaults == {"handler", "deletion"}
CrashFaults == {"crash"}
AllFaults == {"journal", "handler", "crash"}
=============================================================================
