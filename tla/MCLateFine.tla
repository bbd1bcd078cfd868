----------------------------- MODULE MCLateFine -----------------------------
(* One session for TLC, with the payment days around which the rule changes. *)
EXTENDS LateFine

MCPayDays == {15, 20, 92, 290}

\* Every quarter is billed alike: with the bus or without.
MCInit ==
    /\ bill \in {[q \in Quarters |-> b] : b \in {Charges, {"school"}}}
    /\ Init
MCSpec == MCInit /\ [][Next]_vars
=============================================================================
