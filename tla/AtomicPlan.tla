----------------------------- MODULE AtomicPlan -----------------------------
(***************************************************************************)
(* What the plan executor promises its caller (the docstring of            *)
(* src/backend/ai/plan_executor.py): a plan is applied by at most one of   *)
(* the runs that execute it, in one step, and what a run answers is true   *)
(* of the plan.  "unknown" is the answer to a run whose end nobody saw.    *)
(***************************************************************************)
CONSTANTS Runs, Plans, PlanOf

VARIABLES
    by,     \* by[p]: the runs that applied plan p
    told    \* told[r]: what run r has answered

Answers == {"done", "nothing", "unknown"}

Init ==
    /\ by = [p \in Plans |-> {}]
    /\ told = [r \in Runs |-> "waiting"]

\* The run applies its plan, and may answer in the same step.
Apply(r) ==
    /\ told[r] = "waiting" /\ by[PlanOf[r]] = {}
    /\ by' = [by EXCEPT ![PlanOf[r]] = {r}]
    /\ \E a \in {"waiting", "done", "unknown"} : told' = [told EXCEPT ![r] = a]

\* "done" is answered of an applied plan, "nothing" by a run that did not
\* apply it.
Answer(r, a) ==
    /\ told[r] = "waiting"
    /\ a = "done" => by[PlanOf[r]] # {}
    /\ a = "nothing" => r \notin by[PlanOf[r]]
    /\ told' = [told EXCEPT ![r] = a]
    /\ UNCHANGED by

Next == \E r \in Runs : Apply(r) \/ \E a \in Answers : Answer(r, a)

Spec == Init /\ [][Next]_<<by, told>>
=============================================================================
