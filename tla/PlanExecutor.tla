---------------------------- MODULE PlanExecutor ----------------------------
(***************************************************************************)
(* The atomic plan executor of the assistant's write path                  *)
(* (src/backend/ai/plan_executor.py).  A run executes the write steps of   *)
(* one approved plan inside one MongoDB transaction; before each step it   *)
(* re-reads the step's precondition and claims the step's idempotency key. *)
(* Several runs may execute the same plan (a duplicate or concurrent       *)
(* confirm), and other users change the records meanwhile.                 *)
(*                                                                         *)
(* MongoDB is modelled by what the code relies on: a transaction reads a   *)
(* snapshot, its writes become durable together at commit or not at all,   *)
(* and a statement that meets another writer fails with a write conflict.  *)
(***************************************************************************)
EXTENDS Naturals, Sequences, FiniteSets

CONSTANTS
    Runs,       \* calls of run()
    Plans,      \* approved plans, one per confirm token
    Records,    \* the domain records the steps are about
    PlanOf,     \* PlanOf[r]: the plan run r executes
    StepsOf,    \* StepsOf[p]: the write steps of plan p, in order
    DryRuns     \* the runs made in shadow mode

(***************************************************************************)
(* What the executor can tell of a write step.  "guard" is the             *)
(* precondition the planner attached: none, one that looks the record up   *)
(* where it is stored, or one that names a collection the record is not    *)
(* stored in.  "enlisted" says whether the services behind the step's tool *)
(* pass the ambient session to their writes; a write made without it is    *)
(* outside the transaction.  "scoped" says that the step's parameters name *)
(* a school or a branch: it may not be the one the run is bound to, which  *)
(* is the confirming user's at the time.                                   *)
(***************************************************************************)
Step == [target : Records, guard : {"none", "home", "misfiled"},
         enlisted : BOOLEAN, scoped : BOOLEAN]

ASSUME PlanOfAssumption == PlanOf \in [Runs -> Plans]
ASSUME StepsAssumption ==
    StepsOf \in [Plans -> Seq(Step)] /\ \A p \in Plans : Len(StepsOf[p]) > 0
ASSUME DryRunsAssumption == DryRuns \subseteq Runs

VARIABLES
    pc,       \* pc[r]: what run r does next, or how it ended
    idx,      \* idx[r]: the step run r is at
    snap,     \* snap[r]: the records as run r's transaction sees them
    held,     \* held[r]: keys run r has claimed and not yet committed
    keys,     \* the committed documents of ai_write_idempotency
    effects,  \* <<r, i>>: run r's i-th write is durable
    records   \* records[x]: what became of x since the plans were built

vars == <<pc, idx, snap, held, keys, effects, records>>

InTxn == {"check", "claim", "run", "commit"}
Working == InTxn \cup {"conflict"}

\* Endings after which the caller tells the user that nothing was applied.
Refusals == {"plan_stale", "scope_violation", "step_failed",
             "txn_unavailable", "dry_run"}
Endings == Refusals \cup {"committed", "already_applied", "internal", "crashed"}

NoSnapshot == <<>>
RecordState == {"same", "edited", "gone"}

StepsIn(p) == DOMAIN StepsOf[p]
CurrentStep(r) == StepsOf[PlanOf[r]][idx[r]]
Key(p, i) == <<p, i>>
FirstKey(r) == Key(PlanOf[r], 1)
CurrentKey(r) == Key(PlanOf[r], idx[r])
EnlistedSteps(p) == {i \in StepsIn(p) : StepsOf[p][i].enlisted}

Init ==
    /\ pc = [r \in Runs |-> "idle"]
    /\ idx = [r \in Runs |-> 1]
    /\ snap = [r \in Runs |-> NoSnapshot]
    /\ held = [r \in Runs |-> {}]
    /\ keys = {}
    /\ effects = {}
    /\ records = [x \in Records |-> "same"]

(***************************************************************************)
(* Starting, and leaving the transaction without committing.               *)
(***************************************************************************)
\* get_txn_session() returned a real session and the transaction began.
StartSession(r) ==
    /\ pc[r] = "idle"
    /\ pc' = [pc EXCEPT ![r] = "check"]
    /\ UNCHANGED <<idx, snap, held, keys, effects, records>>

\* The run leaves its transaction: no claimed key is held any longer.
EndTxn(r, ending) ==
    /\ pc' = [pc EXCEPT ![r] = ending]
    /\ held' = [held EXCEPT ![r] = {}]

\* The transaction is rolled back, and its snapshot is gone with it.
Abort(r, ending) ==
    /\ EndTxn(r, ending)
    /\ snap' = [snap EXCEPT ![r] = NoSnapshot]

\* start_session() failed outside development: the executor refuses to run.
SessionUnavailable(r) ==
    /\ pc[r] = "idle"
    /\ Abort(r, "txn_unavailable")
    /\ UNCHANGED <<idx, keys, effects, records>>

(***************************************************************************)
(* One step: scope, precondition, claim, write.                            *)
(***************************************************************************)
\* The first statement of the transaction fixes its snapshot.
Seen(r) == IF snap[r] = NoSnapshot THEN records ELSE snap[r]

\* The check of the current step sends a read to the server.
ReadsRecord(r) == CurrentStep(r).guard # "none"

\* Mutated form of Found: the precondition is not revalidated.
Found_Unread(r) == TRUE

\* _revalidate_precondition finds the record: it only asks for existence,
\* because no planner attaches a version to compare.
Found(r) ==
    CASE CurrentStep(r).guard = "none" -> TRUE
      [] CurrentStep(r).guard = "misfiled" -> FALSE
      [] OTHER -> Seen(r)[CurrentStep(r).target] # "gone"

CheckStep(r) ==
    /\ pc[r] = "check"
    /\ \/ CurrentStep(r).scoped /\ Abort(r, "scope_violation")
       \/ ~Found(r) /\ Abort(r, "plan_stale")
       \/ /\ Found(r)
          /\ pc' = [pc EXCEPT ![r] = IF r \in DryRuns THEN "run" ELSE "claim"]
          /\ snap' = [snap EXCEPT ![r] = Seen(r)]
          /\ UNCHANGED held
    /\ UNCHANGED <<idx, keys, effects, records>>

HeldByAnother(r, k) == \E q \in Runs \ {r} : k \in held[q]

\* Mutated form of ClaimKey: the claim is recorded without being unique.
ClaimKey_NotUnique(r) ==
    /\ pc[r] = "claim"
    /\ held' = [held EXCEPT ![r] = @ \cup {CurrentKey(r)}]
    /\ pc' = [pc EXCEPT ![r] = "run"]
    /\ UNCHANGED <<idx, snap, keys, effects, records>>

ClaimKey(r) ==
    /\ pc[r] = "claim"
    /\ CurrentKey(r) \notin keys
    /\ ~HeldByAnother(r, CurrentKey(r))
    /\ held' = [held EXCEPT ![r] = @ \cup {CurrentKey(r)}]
    /\ pc' = [pc EXCEPT ![r] = "run"]
    /\ UNCHANGED <<idx, snap, keys, effects, records>>

\* DuplicateKeyError on the claim: a run of this plan has committed.
ClaimDuplicate(r) ==
    /\ pc[r] = "claim"
    /\ CurrentKey(r) \in keys
    /\ Abort(r, "already_applied")
    /\ UNCHANGED <<idx, keys, effects, records>>

\* The key is held by a transaction still open: the server aborts this one.
ClaimContended(r) ==
    /\ pc[r] = "claim"
    /\ HeldByAnother(r, CurrentKey(r))
    /\ Abort(r, "conflict")
    /\ UNCHANGED <<idx, keys, effects, records>>

\* Mutated form of WritesOutside: no service enlists its write.
WritesOutside_NoSession(r) == {<<r, idx[r]>>}

\* What becomes durable although the transaction has not committed.
WritesOutside(r) == IF CurrentStep(r).enlisted THEN {} ELSE {<<r, idx[r]>>}

\* Mutated form of RunStep: the loop runs one step too far.
RunStep_PastEnd(r) ==
    /\ pc[r] = "run"
    /\ effects' = effects \cup WritesOutside(r)
    /\ pc' = [pc EXCEPT ![r] = "check"]
    /\ idx' = [idx EXCEPT ![r] = @ + 1]
    /\ UNCHANGED <<snap, held, keys, records>>

RunStep(r) ==
    /\ pc[r] = "run"
    /\ effects' = effects \cup WritesOutside(r)
    /\ IF idx[r] = Len(StepsOf[PlanOf[r]])
       THEN /\ pc' = [pc EXCEPT ![r] = "commit"]
            /\ UNCHANGED idx
       ELSE /\ pc' = [pc EXCEPT ![r] = "check"]
            /\ idx' = [idx EXCEPT ![r] = @ + 1]
    /\ UNCHANGED <<snap, held, keys, records>>

\* The tool answers success: False, or its write meets a unique index.
StepFails(r) ==
    /\ pc[r] = "run"
    /\ Abort(r, "step_failed")
    /\ UNCHANGED <<idx, keys, effects, records>>

\* The tool raises, before or after a write of its own left the transaction.
StepRaises(r) ==
    /\ pc[r] = "run"
    /\ effects' \in {effects, effects \cup WritesOutside(r)}
    /\ Abort(r, "internal")
    /\ UNCHANGED <<idx, keys, records>>

(***************************************************************************)
(* The end of the transaction.                                             *)
(***************************************************************************)
\* Mutated form of DryRunAbort: the shadow transaction commits.
DryRunAbort_Commits(r) ==
    /\ pc[r] = "commit" /\ r \in DryRuns
    /\ effects' = effects \cup ({r} \X StepsIn(PlanOf[r]))
    /\ Abort(r, "dry_run")
    /\ UNCHANGED <<idx, keys, records>>

DryRunAbort(r) ==
    /\ pc[r] = "commit" /\ r \in DryRuns
    /\ Abort(r, "dry_run")
    /\ UNCHANGED <<idx, keys, effects, records>>

\* Mutated form of Commit: the idempotency keys are not committed with it.
Commit_ForgetsKeys(r) ==
    /\ pc[r] = "commit" /\ r \notin DryRuns
    /\ effects' = effects \cup ({r} \X StepsIn(PlanOf[r]))
    /\ EndTxn(r, "committed")
    /\ UNCHANGED <<idx, snap, keys, records>>

\* The commit takes effect.  Its acknowledgement may be lost, and then the
\* driver raises: an error without the transient label, or one with it.
Commit(r) ==
    /\ pc[r] = "commit" /\ r \notin DryRuns
    /\ keys' = keys \cup held[r]
    /\ effects' = effects \cup ({r} \X StepsIn(PlanOf[r]))
    /\ \E ending \in {"committed", "internal", "conflict"} : EndTxn(r, ending)
    /\ UNCHANGED <<idx, snap, records>>

\* A statement meets another writer's uncommitted or newer document, or fails
\* with a transient label: the read of a precondition, the claim, a write or
\* the commit.
WriteConflict(r) ==
    /\ pc[r] \in InTxn
    /\ pc[r] = "check" => ReadsRecord(r)
    /\ Abort(r, "conflict")
    /\ UNCHANGED <<idx, keys, effects, records>>

\* Any other exception: the transaction is rolled back and the error raised.
StatementFails(r) ==
    /\ pc[r] \in InTxn
    /\ Abort(r, "internal")
    /\ UNCHANGED <<idx, keys, effects, records>>

\* Mutated form of ResolveConflict: every conflict counts as a replay.
ResolveConflict_Unread(r) ==
    /\ pc[r] = "conflict"
    /\ Abort(r, "already_applied")
    /\ UNCHANGED <<idx, keys, effects, records>>

\* Mutated form of ResolveConflict: the transaction is retried without bound.
ResolveConflict_Retries(r) ==
    /\ pc[r] = "conflict"
    /\ pc' = [pc EXCEPT ![r] = "check"]
    /\ idx' = [idx EXCEPT ![r] = 1]
    /\ UNCHANGED <<snap, held, keys, effects, records>>

\* After a conflict the plan's first key is looked up outside the session; a
\* lookup that fails counts as "not committed".
ResolveConflict(r) ==
    /\ pc[r] = "conflict"
    /\ \/ FirstKey(r) \in keys /\ Abort(r, "already_applied")
       \/ Abort(r, "internal")
    /\ UNCHANGED <<idx, keys, effects, records>>

\* The worker process dies; the server discards the open transaction.
Crash(r) ==
    /\ pc[r] \in Working
    /\ Abort(r, "crashed")
    /\ UNCHANGED <<idx, keys, effects, records>>

(***************************************************************************)
(* Other users of the same records.                                        *)
(***************************************************************************)
ChangeRecord(x, s) ==
    /\ records[x] # "gone" /\ s \in {"edited", "gone"}
    /\ records' = [records EXCEPT ![x] = s]
    /\ UNCHANGED <<pc, idx, snap, held, keys, effects>>

\* What the executor does when nothing goes wrong around it.
Proceed(r) ==
    \/ StartSession(r) \/ CheckStep(r)
    \/ ClaimKey(r) \/ ClaimDuplicate(r) \/ ClaimContended(r)
    \/ RunStep(r) \/ DryRunAbort(r) \/ Commit(r) \/ ResolveConflict(r)

Disturb(r) ==
    \/ SessionUnavailable(r) \/ StepFails(r) \/ StepRaises(r)
    \/ WriteConflict(r) \/ StatementFails(r) \/ Crash(r)

Next ==
    \/ \E r \in Runs : Proceed(r) \/ Disturb(r)
    \/ \E x \in Records, s \in RecordState : ChangeRecord(x, s)

Spec == Init /\ [][Next]_vars

\* The event loop keeps scheduling the coroutine of a run that can go on.
FairSpec == Spec /\ \A r \in Runs : WF_vars(Proceed(r))
-----------------------------------------------------------------------------
TypeOK ==
    /\ pc \in [Runs -> {"idle"} \cup Working \cup Endings]
    /\ idx \in [Runs -> Nat]
    /\ \A r \in Runs : idx[r] \in StepsIn(PlanOf[r])
    /\ snap \in [Runs -> {NoSnapshot} \cup [Records -> RecordState]]
    /\ held \in [Runs -> SUBSET (Plans \X Nat)]
    /\ keys \subseteq Plans \X Nat
    /\ effects \subseteq Runs \X Nat
    /\ records \in [Records -> RecordState]

\* The steps run r's transaction carries that are durable.  What a step whose
\* tool ignores the session wrote is durable whatever becomes of the run, and
\* nothing is claimed of it.
DurableSteps(r) == {i \in EnlistedSteps(PlanOf[r]) : <<r, i>> \in effects}

\* Every step of run r's plan is durable, enlisted or not.
Whole(r) == {r} \X StepsIn(PlanOf[r]) \subseteq effects

\* However many runs execute a plan, and whatever fails around them, at most
\* one of them has its enlisted writes applied: a duplicate or concurrent
\* confirm never applies an approved plan twice (plan_executor.py, D.4).
AppliedAtMostOnce ==
    \A r, q \in Runs :
        PlanOf[r] = PlanOf[q] /\ DurableSteps(r) # {} /\ DurableSteps(q) # {} => r = q

\* A plan's enlisted steps are applied all or none (plan_executor.py, D.3).
AllOrNothing ==
    \A r \in Runs : DurableSteps(r) \in {{}, EnlistedSteps(PlanOf[r])}

\* A run that ends in one of the refusals, after which the user is told that
\* no change was made, has made none inside its transaction.
RefusalsAreHonest == \A r \in Runs : pc[r] \in Refusals => DurableSteps(r) = {}

\* "already applied" is only said of a plan whose every step is durable,
\* whichever of the two ways (duplicate key, write conflict) led to it.
AlreadyAppliedIsTrue ==
    \A r \in Runs :
        pc[r] = "already_applied" => \E q \in Runs : PlanOf[q] = PlanOf[r] /\ Whole(q)

\* A run that committed saw every record its preconditions name.
CommittedSawItsRecords ==
    \A r \in Runs : pc[r] = "committed" =>
        \A i \in StepsIn(PlanOf[r]) :
            StepsOf[PlanOf[r]][i].guard = "home" =>
                snap[r][StepsOf[PlanOf[r]][i].target] # "gone"

\* Every run that starts ends: contention for a key never leaves two runs
\* waiting for each other, because the loser is aborted.
EveryRunEnds == \A r \in Runs : pc[r] # "idle" ~> pc[r] \in Endings
-----------------------------------------------------------------------------
(***************************************************************************)
(* The inductive invariant behind the safety properties.                   *)
(***************************************************************************)
\* Run r has passed the check of step i of its plan.
Checked(r, i) ==
    \/ i < idx[r]
    \/ i = idx[r] /\ pc[r] \in {"claim", "run", "commit", "committed"}

\* The keys of an open transaction are its own plan's, start with the plan's
\* first key, and are in nobody else's hands.
ClaimsAreExclusive ==
    \A r \in Runs :
        /\ \A k \in held[r] : pc[r] \in InTxn /\ k[1] = PlanOf[r] /\ k \notin keys
        /\ \A q \in Runs \ {r} : held[r] \cap held[q] = {}
        /\ r \notin DryRuns /\ pc[r] \in InTxn
           /\ (idx[r] > 1 \/ pc[r] \in {"run", "commit"}) => FirstKey(r) \in held[r]

\* A committed key stands for a plan some run has made durable as a whole.
KeysStandForPlans ==
    \A k \in keys :
        /\ <<k[1], 1>> \in keys
        /\ \E q \in Runs : PlanOf[q] = k[1] /\ Whole(q)

\* A durable enlisted write belongs to a run that committed.
EffectsAreCommitted ==
    \A r \in Runs : DurableSteps(r) # {} =>
        /\ FirstKey(r) \in keys
        /\ DurableSteps(r) = EnlistedSteps(PlanOf[r])
        /\ pc[r] \notin {"idle"} \cup InTxn \cup Refusals

\* Every guarded step run r is past exists in the snapshot r reads.
SnapshotChecked(r) ==
    /\ pc[r] = "idle" => idx[r] = 1
    /\ pc[r] \in {"commit", "committed"} => idx[r] = Len(StepsOf[PlanOf[r]])
    /\ pc[r] \in InTxn \cup {"committed"} =>
        \A i \in StepsIn(PlanOf[r]) :
            Checked(r, i) /\ StepsOf[PlanOf[r]][i].guard = "home" =>
                /\ snap[r] \in [Records -> RecordState]
                /\ snap[r][StepsOf[PlanOf[r]][i].target] # "gone"

SnapshotsWereChecked == \A r \in Runs : SnapshotChecked(r)

\* The executor's inductive invariant: claims exclude each other, committed
\* keys and durable effects imply each other, checks outlive their step.
IInv ==
    /\ ClaimsAreExclusive
    /\ KeysStandForPlans
    /\ EffectsAreCommitted
    /\ AppliedAtMostOnce
    /\ SnapshotsWereChecked
    /\ \A r \in Runs : pc[r] = "already_applied" => FirstKey(r) \in keys
-----------------------------------------------------------------------------
(***************************************************************************)
(* The abstract specification, implemented by what the transactions carry. *)
(***************************************************************************)
Appliers(p) == {r \in Runs : PlanOf[r] = p /\ DurableSteps(r) # {}}

Told == [r \in Runs |->
    CASE pc[r] \in {"committed", "already_applied"} -> "done"
      [] pc[r] \in Refusals -> "nothing"
      [] pc[r] \in {"internal", "crashed"} -> "unknown"
      [] OTHER -> "waiting"]

Atomic == INSTANCE AtomicPlan WITH by <- [p \in Plans |-> Appliers(p)], told <- Told

\* The executor implements the abstract promise: the enlisted steps of a plan
\* are applied in one step, by one run, and every answer is true of them.
ImplementsAtomicPlan == Atomic!Spec
=============================================================================
