---------------------------- MODULE MCFeeLedger ----------------------------
(* Small instances of FeeLedger for TLC. *)
EXTENDS FeeLedger, TLC

CONSTANTS a, b, c

ThreeCallers == {a, b, c}
AnyCaller == Permutations(Callers)

\* Who raises bills or pays online means the first quarter, alone or with others;
\* who corrects or deletes, the first quarter, the joining bill or a payment.
FirstQuarter == \A i \in Callers :
    /\ pc[i] \in {"preview", "link"} => 1 \in mem[i].on
    /\ pc[i] \in {"original", "target"} => mem[i].on \cap Quarters \subseteq {1}
Billed == {i \in Bills : Exists(i)}
FewCalls == [][Next /\ FirstQuarter']_vars

\* The child starts without bills or, where there is a period, with the joining
\* bill and the first quarter's.
FewBills == Init /\ Billed \in (IF status = "open" THEN {{}, {1, Joining}} ELSE {{}})
MCSpec == FewBills /\ FewCalls

\* The child starts with the bills of all quarters.
AllQuarters == Init /\ status = "open" /\ Billed = Quarters
OneTimeSpec == AllQuarters /\ FewCalls
=============================================================================
