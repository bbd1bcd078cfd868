--------------------------- MODULE MCPlanExecutor ---------------------------
(* Small instances of PlanExecutor for TLC. *)
EXTENDS PlanExecutor, TLC

CONSTANTS r1, r2, r3, p1, p2, x

Leave == [target |-> x, guard |-> "home", enlisted |-> TRUE, scoped |-> TRUE]
Fee == [target |-> x, guard |-> "none", enlisted |-> TRUE, scoped |-> FALSE]
\* A step whose tool does not pass the session on.
Notice == [target |-> x, guard |-> "none", enlisted |-> FALSE, scoped |-> FALSE]

MCRuns == {r1, r2, r3}
MCPlans == {p1, p2}
MCRecords == {x}

\* A duplicate confirm of one plan, and a shadow run of another.
MCPlanOf == r1 :> p1 @@ r2 :> p1 @@ r3 :> p2
MCStepsOf == p1 :> <<Leave, Fee, Notice>> @@ p2 :> <<Fee>>
MCDryRuns == {r3}
=============================================================================
