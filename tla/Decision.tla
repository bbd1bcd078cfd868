------------------------------ MODULE Decision ------------------------------
(***************************************************************************)
(* What the approvals of src/backend promise of a request, whatever its    *)
(* kind: it is decided at most once, a decision stands, and what it asks   *)
(* for is carried out at most once, and only if it was agreed to.          *)
(***************************************************************************)
CONSTANT Requests

VARIABLES
    verdict,  \* verdict[q]: "waiting", "agreed" or "refused"
    carried   \* the requests that have been carried out

vars == <<verdict, carried>>

Verdicts == {"agreed", "refused"}

Init ==
    /\ verdict \in [Requests -> {"waiting"} \cup Verdicts]
    /\ carried = {}

Decide(q) ==
    /\ verdict[q] = "waiting"
    /\ \E v \in Verdicts : verdict' = [verdict EXCEPT ![q] = v]
    /\ UNCHANGED carried

CarryOut(q) ==
    /\ verdict[q] = "agreed"
    /\ q \notin carried
    /\ carried' = carried \cup {q}
    /\ UNCHANGED verdict

Next == \E q \in Requests : Decide(q) \/ CarryOut(q)

Spec == Init /\ [][Next]_vars
=============================================================================
