------------------------- MODULE PlanExecutorProofs -------------------------
(* Theorems about the plan executor, for any runs, plans and records. *)
EXTENDS PlanExecutor, TLAPS

USE PlanOfAssumption, StepsAssumption, DryRunsAssumption

\* The indices of a plan's steps are natural numbers starting at one.
LEMMA StepIndices ==
    ASSUME NEW p \in Plans
    PROVE  /\ StepsIn(p) = 1 .. Len(StepsOf[p])
           /\ Len(StepsOf[p]) \in Nat \ {0}
           /\ StepsIn(p) \subseteq Nat
           /\ 1 \in StepsIn(p)
  BY DEF StepsIn

\* Leaving the transaction keeps the types.
LEMMA InitTypeOK == Init => TypeOK
  BY StepIndices DEF Init, TypeOK, Working, InTxn, Endings, Refusals, RecordState

LEMMA StepTypeOK == TypeOK /\ [Next]_vars => TypeOK'
<1> SUFFICES ASSUME TypeOK, [Next]_vars PROVE TypeOK'
  OBVIOUS
<1> USE DEF TypeOK, Working, InTxn, Endings, Refusals, RecordState
<1>1. ASSUME NEW r \in Runs, Proceed(r) PROVE TypeOK'
  <2> PlanOf[r] \in Plans
    OBVIOUS
  <2> USE StepIndices
  <2>1. CASE StartSession(r)
    BY <2>1 DEF StartSession
  <2>2. CASE CheckStep(r)
    <3>1. Seen(r) \in [Records -> RecordState]
      BY DEF Seen
    <3>2. CASE \E e \in {"scope_violation", "plan_stale"} : Abort(r, e)
      BY <2>2, <3>2 DEF CheckStep, Abort, EndTxn
    <3>3. CASE \E s \in {"run", "claim"} : pc' = [pc EXCEPT ![r] = s]
               /\ snap' = [snap EXCEPT ![r] = Seen(r)] /\ UNCHANGED held
      BY <2>2, <3>1, <3>3 DEF CheckStep
    <3> QED
      BY <2>2, <3>2, <3>3 DEF CheckStep
  <2>3. CASE ClaimKey(r)
    BY <2>3 DEF ClaimKey, CurrentKey, Key
  <2>4. CASE ClaimDuplicate(r)
    BY <2>4 DEF ClaimDuplicate, Abort, EndTxn
  <2>5. CASE ClaimContended(r)
    BY <2>5 DEF ClaimContended, Abort, EndTxn
  <2>6. CASE RunStep(r)
    <3>1. effects' \subseteq Runs \X Nat
      BY <2>6 DEF RunStep, WritesOutside
    <3>2. /\ idx' \in [Runs -> Nat]
          /\ \A q \in Runs : idx'[q] \in StepsIn(PlanOf[q])
      <4>1. StepsIn(PlanOf[r]) = 1 .. Len(StepsOf[PlanOf[r]])
        OBVIOUS
      <4>2. idx[r] \in Nat /\ idx[r] \in StepsIn(PlanOf[r])
        OBVIOUS
      <4>3. CASE idx[r] = Len(StepsOf[PlanOf[r]])
        BY <2>6, <4>3 DEF RunStep
      <4>4. CASE idx[r] # Len(StepsOf[PlanOf[r]])
        <5>1. idx' = [idx EXCEPT ![r] = @ + 1]
          BY <2>6, <4>4 DEF RunStep
        <5>2. idx[r] + 1 \in 1 .. Len(StepsOf[PlanOf[r]])
          BY <4>1, <4>2, <4>4
        <5> QED
          BY <5>1, <5>2, <4>1
      <4> QED
        BY <4>3, <4>4
    <3> QED
      BY <2>6, <3>1, <3>2 DEF RunStep
  <2>7. CASE DryRunAbort(r)
    BY <2>7 DEF DryRunAbort, Abort, EndTxn
  <2>8. CASE Commit(r)
    BY <2>8 DEF Commit, Abort, EndTxn
  <2>9. CASE ResolveConflict(r)
    BY <2>9 DEF ResolveConflict, Abort, EndTxn
  <2> QED
    BY <1>1, <2>1, <2>2, <2>3, <2>4, <2>5, <2>6, <2>7, <2>8, <2>9 DEF Proceed
<1>2. ASSUME NEW r \in Runs, Disturb(r) PROVE TypeOK'
  <2> PlanOf[r] \in Plans
    OBVIOUS
  <2> USE StepIndices
  <2>1. CASE SessionUnavailable(r)
    BY <2>1 DEF SessionUnavailable, Abort, EndTxn
  <2>2. CASE StepFails(r) \/ WriteConflict(r) \/ StatementFails(r) \/ Crash(r)
    BY <2>2 DEF StepFails, WriteConflict, StatementFails, Crash, Abort, EndTxn
  <2>3. CASE StepRaises(r)
    BY <2>3 DEF StepRaises, WritesOutside, Abort, EndTxn
  <2> QED
    BY <1>2, <2>1, <2>2, <2>3 DEF Disturb
<1>3. ASSUME NEW x \in Records, NEW s \in RecordState, ChangeRecord(x, s)
      PROVE  TypeOK'
  BY <1>3 DEF ChangeRecord
<1>4. CASE UNCHANGED vars
  BY <1>4 DEF vars
<1> QED
  BY <1>1, <1>2, <1>3, <1>4 DEF Next

\* Every variable of the executor keeps its type.
THEOREM TypeCorrect == Spec => []TypeOK
  BY InitTypeOK, StepTypeOK, PTL DEF Spec
-----------------------------------------------------------------------------
(***************************************************************************)
(* The inductive invariant.                                                *)
(***************************************************************************)
LEMMA InitIInv == Init => IInv
<1> SUFFICES ASSUME Init PROVE IInv
  OBVIOUS
<1>1. \A r \in Runs : DurableSteps(r) = {}
  BY DEF Init, DurableSteps
<1>2. ClaimsAreExclusive
  BY DEF Init, ClaimsAreExclusive, InTxn
<1>3. KeysStandForPlans /\ EffectsAreCommitted /\ AppliedAtMostOnce
  BY <1>1 DEF Init, KeysStandForPlans, EffectsAreCommitted, AppliedAtMostOnce
<1>4. SnapshotsWereChecked
  BY DEF Init, SnapshotsWereChecked, SnapshotChecked, InTxn
<1> QED
  BY <1>2, <1>3, <1>4 DEF Init, IInv

\* Effects that only grow keep every committed key's plan durable.
LEMMA KeysKeepTheirPlans ==
    ASSUME KeysStandForPlans, UNCHANGED keys, effects \subseteq effects'
    PROVE  KeysStandForPlans'
<1>1. ASSUME NEW q \in Runs, Whole(q)
      PROVE  Whole(q)'
  BY <1>1 DEF Whole, StepsIn
<1> QED
  BY <1>1 DEF KeysStandForPlans

\* A run whose own position and snapshot do not change stays checked.
LEMMA OthersStayChecked ==
    ASSUME SnapshotsWereChecked, NEW q \in Runs,
           pc'[q] = pc[q], idx'[q] = idx[q], snap'[q] = snap[q]
    PROVE  SnapshotChecked(q)'
  BY DEF SnapshotsWereChecked, SnapshotChecked, Checked, StepsIn

\* A run that leaves its transaction without committing keeps the invariant,
\* provided its answer is one its state allows.
LEMMA LeavingKeepsIInv ==
    ASSUME TypeOK, IInv, NEW r \in Runs,
           NEW ending \in {"conflict"} \cup (Endings \ {"committed"}),
           Abort(r, ending),
           ending = "already_applied" => FirstKey(r) \in keys,
           ending \in Refusals => pc[r] \in {"idle"} \cup InTxn,
           UNCHANGED <<idx, keys>>,
           effects \subseteq effects',
           \A q \in Runs : DurableSteps(q)' = DurableSteps(q)
    PROVE  IInv'
<1> USE DEF IInv
<1>1. /\ pc' = [pc EXCEPT ![r] = ending]
      /\ held' = [held EXCEPT ![r] = {}]
      /\ pc'[r] = ending /\ held'[r] = {}
      /\ \A q \in Runs \ {r} : pc'[q] = pc[q] /\ held'[q] = held[q] /\ snap'[q] = snap[q]
      /\ ending \notin InTxn /\ ending # "committed" /\ ending # "commit"
  BY DEF Abort, EndTxn, TypeOK, InTxn, Endings, Refusals
<1>2. ClaimsAreExclusive'
  <2>1. \A q \in Runs : held'[q] \subseteq held[q]
    BY <1>1
  <2>2. \A q \in Runs : \A k \in held'[q] :
            pc'[q] \in InTxn /\ k[1] = PlanOf[q] /\ k \notin keys
    BY <1>1 DEF ClaimsAreExclusive
  <2>3. \A q \in Runs : \A o \in Runs \ {q} : held'[q] \cap held'[o] = {}
    BY <2>1 DEF ClaimsAreExclusive
  <2>4. ASSUME NEW q \in Runs, q \notin DryRuns, pc'[q] \in InTxn,
               idx[q] > 1 \/ pc'[q] \in {"run", "commit"}
        PROVE  FirstKey(q) \in held'[q]
    BY <1>1, <2>4 DEF ClaimsAreExclusive
  <2> QED
    BY <2>2, <2>3, <2>4 DEF ClaimsAreExclusive, FirstKey, Key
<1>3. KeysStandForPlans'
  BY KeysKeepTheirPlans
<1>4. EffectsAreCommitted'
  <2> SUFFICES ASSUME NEW q \in Runs, DurableSteps(q)' # {}
               PROVE  /\ FirstKey(q) \in keys
                      /\ DurableSteps(q)' = EnlistedSteps(PlanOf[q])
                      /\ pc'[q] \notin {"idle"} \cup InTxn \cup Refusals
    BY DEF EffectsAreCommitted, FirstKey, Key, EnlistedSteps, StepsIn
  <2>1. /\ FirstKey(q) \in keys
        /\ DurableSteps(q) = EnlistedSteps(PlanOf[q])
        /\ pc[q] \notin {"idle"} \cup InTxn \cup Refusals
    BY DEF EffectsAreCommitted
  <2>2. CASE q = r
    BY <1>1, <2>1, <2>2 DEF InTxn, Endings, Refusals
  <2>3. CASE q # r
    BY <1>1, <2>1, <2>3
  <2> QED
    BY <2>2, <2>3
<1>5. AppliedAtMostOnce'
  BY DEF AppliedAtMostOnce, EnlistedSteps, StepsIn
<1>6. SnapshotsWereChecked'
  <2>1. SnapshotChecked(r)'
    BY <1>1 DEF SnapshotChecked, Endings, Refusals
  <2>2. \A q \in Runs \ {r} : SnapshotChecked(q)'
    BY <1>1, OthersStayChecked DEF TypeOK
  <2> QED
    BY <2>1, <2>2 DEF SnapshotsWereChecked
<1>7. \A q \in Runs : pc'[q] = "already_applied" => FirstKey(q) \in keys
  BY <1>1
<1> QED
  BY <1>2, <1>3, <1>4, <1>5, <1>6, <1>7 DEF FirstKey, Key

\* A step of the run that touches neither keys nor claims nor effects.
LEMMA QuietKeeps ==
    ASSUME IInv, UNCHANGED <<keys, effects>>
    PROVE  /\ KeysStandForPlans'
           /\ AppliedAtMostOnce'
           /\ \A q \in Runs : DurableSteps(q)' = DurableSteps(q)
<1>1. \A q \in Runs : DurableSteps(q)' = DurableSteps(q)
  BY DEF DurableSteps, EnlistedSteps, StepsIn
<1>2. KeysStandForPlans'
  BY KeysKeepTheirPlans DEF IInv
<1> QED
  BY <1>1, <1>2 DEF IInv, AppliedAtMostOnce, EnlistedSteps, StepsIn

\* Effects of an open run that has not committed belong to steps that are
\* not enlisted.
LEMMA OutsideWrites ==
    ASSUME TypeOK, NEW r \in Runs, effects' \subseteq effects \cup WritesOutside(r),
           effects \subseteq effects'
    PROVE  \A q \in Runs : DurableSteps(q)' = DurableSteps(q)
<1> SUFFICES ASSUME NEW q \in Runs, NEW i \in StepsIn(PlanOf[q]),
                    StepsOf[PlanOf[q]][i].enlisted, <<q, i>> \in effects'
             PROVE  <<q, i>> \in effects
  BY DEF DurableSteps, EnlistedSteps, StepsIn
<1>1. CASE <<q, i>> \in WritesOutside(r)
  <2>1. ~CurrentStep(r).enlisted /\ WritesOutside(r) = {<<r, idx[r]>>}
    BY <1>1 DEF WritesOutside
  <2>2. q = r /\ i = idx[r]
    BY <1>1, <2>1
  <2> QED
    BY <2>1, <2>2 DEF CurrentStep
<1> QED
  BY <1>1

LEMMA StartKeepsIInv ==
    ASSUME TypeOK, IInv, NEW r \in Runs, StartSession(r)
    PROVE  IInv'
<1>1. /\ pc[r] = "idle" /\ pc' = [pc EXCEPT ![r] = "check"]
      /\ UNCHANGED <<idx, snap, held, keys, effects, records>>
      /\ idx[r] = 1
  BY DEF StartSession, IInv, SnapshotsWereChecked, SnapshotChecked
<1>2. ClaimsAreExclusive'
  <2>1. /\ pc'[r] = "check" /\ ~(idx[r] > 1)
        /\ \A q \in Runs \ {r} : pc'[q] = pc[q]
        /\ pc[r] \notin InTxn
    BY <1>1 DEF TypeOK, InTxn
  <2>2. held[r] = {}
    BY <2>1 DEF IInv, ClaimsAreExclusive
  <2>3. \A q \in Runs : FirstKey(q)' = FirstKey(q)
    BY DEF FirstKey, Key
  <2> QED
    BY <1>1, <2>1, <2>2, <2>3 DEF IInv, ClaimsAreExclusive
<1>3. EffectsAreCommitted'
  BY <1>1, QuietKeeps DEF IInv, EffectsAreCommitted, TypeOK, EnlistedSteps,
     FirstKey, Key, StepsIn
<1>4. SnapshotsWereChecked'
  <2> SUFFICES ASSUME NEW q \in Runs PROVE SnapshotChecked(q)'
    BY DEF SnapshotsWereChecked
  <2>1. CASE q = r
    <3>1. \A i \in StepsIn(PlanOf[r]) : ~Checked(r, i)'
      <4>1. PlanOf[r] \in Plans /\ pc'[r] = "check" /\ idx'[r] = 1
        BY <1>1 DEF TypeOK
      <4> QED
        BY <4>1, StepIndices DEF Checked
    <3> QED
      BY <1>1, <2>1, <3>1 DEF SnapshotChecked, TypeOK, StepsIn
  <2>2. CASE q # r
    BY <1>1, <2>2, OthersStayChecked DEF IInv, TypeOK
  <2> QED
    BY <2>1, <2>2
<1> QED
  BY <1>1, <1>2, <1>3, <1>4, QuietKeeps DEF IInv, TypeOK, FirstKey, Key

LEMMA CheckKeepsIInv ==
    ASSUME TypeOK, IInv, NEW r \in Runs, CheckStep(r)
    PROVE  IInv'
<1>1. /\ pc[r] = "check"
      /\ UNCHANGED <<idx, keys, effects, records>>
  BY DEF CheckStep
<1>3. CASE \E ending \in {"scope_violation", "plan_stale"} : Abort(r, ending)
  BY <1>1, <1>3, QuietKeeps, LeavingKeepsIInv DEF Endings, Refusals, InTxn
<1>4. CASE /\ pc' = [pc EXCEPT ![r] = IF r \in DryRuns THEN "run" ELSE "claim"]
           /\ snap' = [snap EXCEPT ![r] = Seen(r)]
           /\ UNCHANGED held
           /\ Found(r)
  <2>1. ClaimsAreExclusive'
    <3>1. /\ pc[r] = "check" /\ pc'[r] \in {"run", "claim"}
          /\ (pc'[r] = "run" => r \in DryRuns)
          /\ \A q \in Runs \ {r} : pc'[q] = pc[q]
      BY <1>1, <1>4 DEF TypeOK
    <3> QED
      BY <1>1, <1>4, <3>1 DEF IInv, ClaimsAreExclusive, InTxn, FirstKey, Key
  <2>2. EffectsAreCommitted'
    BY <1>1, <1>4, QuietKeeps DEF IInv, EffectsAreCommitted, TypeOK, InTxn,
       EnlistedSteps, FirstKey, Key, StepsIn, Refusals
  <2>3. SnapshotsWereChecked'
    <3> SUFFICES ASSUME NEW q \in Runs PROVE SnapshotChecked(q)'
      BY DEF SnapshotsWereChecked
    <3>1. CASE q = r
      <4> SUFFICES ASSUME NEW i \in StepsIn(PlanOf[r]), i \in 1 .. idx[r],
                          StepsOf[PlanOf[r]][i].guard = "home"
                   PROVE  /\ snap'[r] \in [Records -> RecordState]
                          /\ snap'[r][StepsOf[PlanOf[r]][i].target] # "gone"
        <5>1. /\ pc'[r] \in {"run", "claim"} /\ idx'[r] = idx[r]
              /\ idx[r] \in Nat /\ StepsIn(PlanOf[r])' = StepsIn(PlanOf[r])
          BY <1>1, <1>4 DEF TypeOK, StepsIn
        <5>2. \A i \in StepsIn(PlanOf[r]) : Checked(r, i)' => i \in 1 .. idx[r]
          <6> PlanOf[r] \in Plans
            OBVIOUS
          <6> QED
            BY <5>1, StepIndices DEF Checked
        <5> QED
          BY <3>1, <5>1, <5>2 DEF SnapshotChecked
      <4>1. snap'[r] = IF snap[r] = NoSnapshot THEN records ELSE snap[r]
        BY <1>4 DEF Seen, TypeOK
      <4>2. snap'[r] \in [Records -> RecordState]
        BY <4>1 DEF TypeOK
      <4>3. CASE i = idx[r]
        BY <1>4, <4>1, <4>2, <4>3 DEF Found, Seen, CurrentStep
      <4>4. CASE i < idx[r]
        <5>1. /\ snap[r] \in [Records -> RecordState]
              /\ snap[r][StepsOf[PlanOf[r]][i].target] # "gone"
          BY <1>1, <4>4 DEF IInv, SnapshotsWereChecked, SnapshotChecked, Checked, InTxn
        <5>2. StepsOf[PlanOf[r]][i].target \in Records
          <6>1. PlanOf[r] \in Plans /\ StepsOf[PlanOf[r]] \in Seq(Step)
            OBVIOUS
          <6>2. StepsOf[PlanOf[r]][i] \in Step
            BY <6>1 DEF StepsIn
          <6> QED
            BY <6>2 DEF Step
        <5>3. snap[r] # NoSnapshot
          BY <5>1, <5>2 DEF NoSnapshot
        <5> QED
          BY <4>1, <5>1, <5>3
      <4> QED
        BY <4>2, <4>3, <4>4 DEF TypeOK
    <3>2. CASE q # r
      BY <1>1, <1>4, <3>2, OthersStayChecked DEF IInv, TypeOK
    <3> QED
      BY <3>1, <3>2
  <2> QED
    BY <1>1, <1>4, <2>1, <2>2, <2>3, QuietKeeps DEF IInv, TypeOK, FirstKey, Key
<1> QED
  BY <1>3, <1>4 DEF CheckStep

LEMMA ClaimKeepsIInv ==
    ASSUME TypeOK, IInv, NEW r \in Runs, ClaimKey(r)
    PROVE  IInv'
<1>1. /\ pc[r] = "claim" /\ pc' = [pc EXCEPT ![r] = "run"]
      /\ CurrentKey(r) \notin keys
      /\ \A q \in Runs \ {r} : CurrentKey(r) \notin held[q]
      /\ held' = [held EXCEPT ![r] = @ \cup {CurrentKey(r)}]
      /\ UNCHANGED <<idx, snap, keys, effects, records>>
  BY DEF ClaimKey, HeldByAnother
<1>2. ClaimsAreExclusive'
  <2>1. /\ held'[r] = held[r] \cup {CurrentKey(r)}
        /\ \A q \in Runs \ {r} : held'[q] = held[q] /\ pc'[q] = pc[q]
        /\ pc'[r] = "run"
    BY <1>1 DEF TypeOK
  <2>2. \A q \in Runs : \A k \in held'[q] :
            pc'[q] \in InTxn /\ k[1] = PlanOf[q] /\ k \notin keys
    <3> SUFFICES ASSUME NEW q \in Runs, NEW k \in held'[q]
                 PROVE  pc'[q] \in InTxn /\ k[1] = PlanOf[q] /\ k \notin keys
      OBVIOUS
    <3>1. CASE k \in held[q]
      BY <2>1, <3>1 DEF IInv, ClaimsAreExclusive, InTxn
    <3>2. CASE q = r /\ k = CurrentKey(r)
      BY <1>1, <2>1, <3>2 DEF CurrentKey, Key, InTxn
    <3> QED
      BY <2>1, <3>1, <3>2
  <2>3. \A q \in Runs : \A o \in Runs \ {q} : held'[q] \cap held'[o] = {}
    BY <1>1, <2>1 DEF IInv, ClaimsAreExclusive
  <2>4. ASSUME NEW q \in Runs, q \notin DryRuns, pc'[q] \in InTxn,
               idx[q] > 1 \/ pc'[q] \in {"run", "commit"}
        PROVE  FirstKey(q) \in held'[q]
    <3>1. CASE q # r
      BY <2>1, <2>4, <3>1 DEF IInv, ClaimsAreExclusive
    <3>2. CASE q = r /\ idx[r] > 1
      BY <1>1, <2>1, <2>4, <3>2 DEF IInv, ClaimsAreExclusive, InTxn
    <3>3. CASE q = r /\ ~(idx[r] > 1)
      <4>1. idx[r] = 1
        BY <3>3, StepIndices DEF TypeOK, StepsIn
      <4> QED
        BY <2>1, <3>3, <4>1 DEF CurrentKey, FirstKey
    <3> QED
      BY <3>1, <3>2, <3>3
  <2> QED
    BY <1>1, <2>2, <2>3, <2>4 DEF ClaimsAreExclusive, FirstKey, Key
<1>3. EffectsAreCommitted'
  BY <1>1, QuietKeeps DEF IInv, EffectsAreCommitted, TypeOK, InTxn,
     EnlistedSteps, FirstKey, Key, StepsIn, Refusals
<1>4. SnapshotsWereChecked'
  <2>1. SnapshotChecked(r)'
    <3>1. \A i \in StepsIn(PlanOf[r]) : Checked(r, i)' => Checked(r, i)
      BY <1>1 DEF Checked, TypeOK, StepsIn
    <3> QED
      BY <1>1, <3>1 DEF IInv, SnapshotsWereChecked, SnapshotChecked, TypeOK, StepsIn, InTxn
  <2>2. \A q \in Runs \ {r} : SnapshotChecked(q)'
    BY <1>1, OthersStayChecked DEF IInv, TypeOK
  <2> QED
    BY <2>1, <2>2 DEF SnapshotsWereChecked
<1> QED
  BY <1>1, <1>2, <1>3, <1>4, QuietKeeps DEF IInv, TypeOK, FirstKey, Key

LEMMA RunKeepsIInv ==
    ASSUME TypeOK, IInv, NEW r \in Runs, RunStep(r)
    PROVE  IInv'
<1>1. /\ pc[r] = "run"
      /\ effects' = effects \cup WritesOutside(r)
      /\ UNCHANGED <<snap, held, keys, records>>
      /\ \/ /\ idx[r] = Len(StepsOf[PlanOf[r]]) /\ idx' = idx
            /\ pc' = [pc EXCEPT ![r] = "commit"]
         \/ /\ idx' = [idx EXCEPT ![r] = @ + 1]
            /\ pc' = [pc EXCEPT ![r] = "check"]
  BY DEF RunStep
<1>2. \A q \in Runs : DurableSteps(q)' = DurableSteps(q)
  BY <1>1, OutsideWrites
<1>3. ClaimsAreExclusive'
  <2>1. \A q \in Runs : pc'[q] \in InTxn <=> pc[q] \in InTxn
    BY <1>1 DEF TypeOK, InTxn
  <2>2. \A q \in Runs \ {r} : pc'[q] = pc[q] /\ idx'[q] = idx[q]
    BY <1>1 DEF TypeOK
  <2>3. r \notin DryRuns => FirstKey(r) \in held[r]
    BY <1>1 DEF IInv, ClaimsAreExclusive, InTxn
  <2> QED
    BY <1>1, <2>1, <2>2, <2>3 DEF IInv, ClaimsAreExclusive, FirstKey, Key
<1>4. KeysStandForPlans'
  BY <1>1, KeysKeepTheirPlans DEF IInv
<1>5. EffectsAreCommitted'
  BY <1>1, <1>2 DEF IInv, EffectsAreCommitted, TypeOK, InTxn, EnlistedSteps,
     FirstKey, Key, StepsIn, Refusals
<1>6. AppliedAtMostOnce'
  BY <1>2 DEF IInv, AppliedAtMostOnce, EnlistedSteps, StepsIn
<1>7. SnapshotsWereChecked'
  <2> SUFFICES ASSUME NEW q \in Runs PROVE SnapshotChecked(q)'
    BY DEF SnapshotsWereChecked
  <2>1. CASE q # r
    BY <1>1, <2>1, OthersStayChecked DEF IInv, TypeOK
  <2>2. CASE q = r
    <3>1. \A i \in StepsIn(PlanOf[r]) : Checked(r, i)' => Checked(r, i)
      BY <1>1, StepIndices DEF Checked, TypeOK, StepsIn
    <3>2. pc'[r] \in {"check", "commit"}
          /\ (pc'[r] = "commit" => idx'[r] = Len(StepsOf[PlanOf[r]]))
      BY <1>1 DEF TypeOK
    <3> QED
      BY <1>1, <2>2, <3>1, <3>2 DEF IInv, SnapshotsWereChecked, SnapshotChecked, InTxn, StepsIn
  <2> QED
    BY <2>1, <2>2
<1>8. \A q \in Runs : pc'[q] = "already_applied" => FirstKey(q) \in keys
  BY <1>1 DEF IInv, TypeOK
<1> QED
  BY <1>1, <1>3, <1>4, <1>5, <1>6, <1>7, <1>8 DEF IInv, FirstKey, Key

\* The commit.  The run holds its plan's first key, so no run of that plan has
\* committed before it, and from now on every other run of it is a replay.
LEMMA CommitKeepsIInv ==
    ASSUME TypeOK, IInv, NEW r \in Runs, Commit(r)
    PROVE  IInv'
<1> USE DEF IInv
<1>1. /\ pc[r] = "commit" /\ r \notin DryRuns
      /\ keys' = keys \cup held[r]
      /\ effects' = effects \cup ({r} \X StepsIn(PlanOf[r]))
      /\ UNCHANGED <<idx, snap, records>>
      /\ pc'[r] \in {"committed", "internal", "conflict"} /\ held'[r] = {}
      /\ \A q \in Runs \ {r} : pc'[q] = pc[q] /\ held'[q] = held[q]
  BY DEF Commit, EndTxn, TypeOK
<1>2. FirstKey(r) \in held[r] /\ FirstKey(r) \notin keys
  BY <1>1 DEF ClaimsAreExclusive, InTxn
<1>3. /\ DurableSteps(r)' = EnlistedSteps(PlanOf[r])
      /\ \A q \in Runs \ {r} : DurableSteps(q)' = DurableSteps(q)
  BY <1>1 DEF DurableSteps, EnlistedSteps, StepsIn
<1>4. \A q \in Runs : /\ FirstKey(q)' = FirstKey(q)
                      /\ EnlistedSteps(PlanOf[q])' = EnlistedSteps(PlanOf[q])
                      /\ StepsIn(PlanOf[q])' = StepsIn(PlanOf[q])
  BY DEF FirstKey, Key, EnlistedSteps, StepsIn
<1>5. \A q \in Runs \ {r} : PlanOf[q] = PlanOf[r]
                                => DurableSteps(q) = {}
  BY <1>2 DEF EffectsAreCommitted, FirstKey
<1>6. ClaimsAreExclusive'
  <2>1. \A q \in Runs : \A k \in held'[q] :
            pc'[q] \in InTxn /\ k[1] = PlanOf[q] /\ k \notin keys'
    BY <1>1 DEF ClaimsAreExclusive
  <2>2. \A q \in Runs : \A o \in Runs \ {q} : held'[q] \cap held'[o] = {}
    BY <1>1 DEF ClaimsAreExclusive
  <2>3. pc'[r] \notin InTxn
    BY <1>1 DEF InTxn
  <2> QED
    BY <1>1, <1>4, <2>1, <2>2, <2>3 DEF ClaimsAreExclusive
<1>7. KeysStandForPlans'
  <2> SUFFICES ASSUME NEW k \in keys'
               PROVE  /\ <<k[1], 1>> \in keys'
                      /\ \E q \in Runs : PlanOf[q] = k[1]
                                      /\ Whole(q)'
    BY DEF KeysStandForPlans
  <2>1. CASE k \in keys
    <3>1. PICK q \in Runs : PlanOf[q] = k[1] /\ Whole(q)
      BY <2>1 DEF KeysStandForPlans
    <3>2. Whole(q)'
      BY <1>1, <3>1 DEF Whole, StepsIn
    <3> QED
      BY <1>1, <1>4, <2>1, <3>1, <3>2 DEF KeysStandForPlans
  <2>2. CASE k \in held[r]
    <3>1. k[1] = PlanOf[r]
      BY <2>2 DEF ClaimsAreExclusive
    <3>2. Whole(r)'
      BY <1>1 DEF Whole, StepsIn
    <3> QED
      BY <1>1, <1>2, <3>1, <3>2 DEF FirstKey, Key
  <2> QED
    BY <1>1, <2>1, <2>2
<1>8. EffectsAreCommitted'
  <2> SUFFICES ASSUME NEW q \in Runs, DurableSteps(q)' # {}
               PROVE  /\ FirstKey(q) \in keys'
                      /\ DurableSteps(q)' = EnlistedSteps(PlanOf[q])
                      /\ pc'[q] \notin {"idle"} \cup InTxn \cup Refusals
    BY <1>4 DEF EffectsAreCommitted
  <2>1. CASE q = r
    BY <1>1, <1>2, <1>3, <2>1 DEF InTxn, Refusals
  <2>2. CASE q # r
    BY <1>1, <1>3, <2>2 DEF EffectsAreCommitted
  <2> QED
    BY <2>1, <2>2
<1>9. AppliedAtMostOnce'
  BY <1>3, <1>4, <1>5 DEF AppliedAtMostOnce
<1>10. SnapshotsWereChecked'
  <2>1. SnapshotChecked(r)'
    <3>1. \A i \in StepsIn(PlanOf[r]) : Checked(r, i)' => Checked(r, i)
      BY <1>1 DEF Checked
    <3> QED
      BY <1>1, <1>4, <3>1 DEF SnapshotsWereChecked, SnapshotChecked, InTxn
  <2>2. \A q \in Runs \ {r} : SnapshotChecked(q)'
    BY <1>1, OthersStayChecked
  <2> QED
    BY <2>1, <2>2 DEF SnapshotsWereChecked
<1>11. \A q \in Runs : pc'[q] = "already_applied" => FirstKey(q)' \in keys'
  BY <1>1, <1>4
<1> QED
  BY <1>6, <1>7, <1>8, <1>9, <1>10, <1>11

\* Every way of leaving the transaction other than the commit.
LEMMA LeavingStepsKeepIInv ==
    ASSUME TypeOK, IInv, NEW r \in Runs,
           \/ ClaimDuplicate(r) \/ ClaimContended(r) \/ DryRunAbort(r)
           \/ ResolveConflict(r) \/ Disturb(r)
    PROVE  IInv'
<1> USE DEF Endings, Refusals, InTxn
<1>1. ASSUME UNCHANGED <<idx, keys, effects>>,
             NEW ending \in {"conflict"} \cup (Endings \ {"committed"}),
             Abort(r, ending),
             ending = "already_applied" => FirstKey(r) \in keys,
             ending \in Refusals => pc[r] \in {"idle"} \cup InTxn
      PROVE  IInv'
  BY <1>1, QuietKeeps, LeavingKeepsIInv
<1>2. CASE ClaimDuplicate(r)
  <2>1. FirstKey(r) \in keys
    BY <1>2 DEF ClaimDuplicate, IInv, KeysStandForPlans, CurrentKey, FirstKey, Key
  <2> QED
    BY <1>1, <1>2, <2>1 DEF ClaimDuplicate
<1>3. CASE ClaimContended(r)
  BY <1>1, <1>3 DEF ClaimContended
<1>4. CASE DryRunAbort(r)
  BY <1>1, <1>4 DEF DryRunAbort
<1>5. CASE ResolveConflict(r)
  BY <1>1, <1>5 DEF ResolveConflict
<1>6. CASE SessionUnavailable(r)
  BY <1>1, <1>6 DEF SessionUnavailable
<1>7. CASE StepFails(r)
  BY <1>1, <1>7 DEF StepFails
<1>8. CASE WriteConflict(r)
  BY <1>1, <1>8 DEF WriteConflict
<1>9. CASE StatementFails(r)
  BY <1>1, <1>9 DEF StatementFails
<1>10. CASE Crash(r)
  BY <1>1, <1>10 DEF Crash
<1>11. CASE StepRaises(r)
  <2>1. /\ effects \subseteq effects' /\ effects' \subseteq effects \cup WritesOutside(r)
        /\ Abort(r, "internal") /\ UNCHANGED <<idx, keys>>
    BY <1>11 DEF StepRaises
  <2>2. \A q \in Runs : DurableSteps(q)' = DurableSteps(q)
    BY <2>1, OutsideWrites
  <2> QED
    BY <2>1, <2>2, LeavingKeepsIInv
<1> QED
  BY <1>2, <1>3, <1>4, <1>5, <1>6, <1>7, <1>8, <1>9, <1>10, <1>11 DEF Disturb

\* A step that leaves everything but the records alone.
LEMMA BystanderKeepsIInv ==
    ASSUME TypeOK, IInv, UNCHANGED <<pc, idx, snap, held, keys, effects>>
    PROVE  IInv'
<1>1. \A q \in Runs : FirstKey(q)' = FirstKey(q)
  BY DEF FirstKey, Key
<1>2. ClaimsAreExclusive'
  BY <1>1 DEF IInv, ClaimsAreExclusive
<1>3. EffectsAreCommitted'
  BY <1>1, QuietKeeps DEF IInv, EffectsAreCommitted, EnlistedSteps, StepsIn
<1>4. SnapshotsWereChecked'
  BY OthersStayChecked DEF IInv, SnapshotsWereChecked
<1> QED
  BY <1>1, <1>2, <1>3, <1>4, QuietKeeps DEF IInv

LEMMA StepIInv == TypeOK /\ IInv /\ [Next]_vars => IInv'
<1> SUFFICES ASSUME TypeOK, IInv, [Next]_vars PROVE IInv'
  OBVIOUS
<1>1. ASSUME NEW r \in Runs, Proceed(r) PROVE IInv'
  BY <1>1, StartKeepsIInv, CheckKeepsIInv, ClaimKeepsIInv, RunKeepsIInv,
     CommitKeepsIInv, LeavingStepsKeepIInv DEF Proceed
<1>2. ASSUME NEW r \in Runs, Disturb(r) PROVE IInv'
  BY <1>2, LeavingStepsKeepIInv
<1>3. ASSUME NEW x \in Records, NEW s \in RecordState, ChangeRecord(x, s)
      PROVE  IInv'
  BY <1>3, BystanderKeepsIInv DEF ChangeRecord
<1>4. CASE UNCHANGED vars
  BY <1>4, BystanderKeepsIInv DEF vars
<1> QED
  BY <1>1, <1>2, <1>3, <1>4 DEF Next

\* The executor's inductive invariant holds of every execution.
THEOREM InvariantHolds == Spec => [](TypeOK /\ IInv)
<1>1. Init => TypeOK /\ IInv
  BY InitTypeOK, InitIInv
<1>2. (TypeOK /\ IInv) /\ [Next]_vars => (TypeOK /\ IInv)'
  BY StepTypeOK, StepIInv
<1> QED
  BY <1>1, <1>2, PTL DEF Spec
-----------------------------------------------------------------------------
(***************************************************************************)
(* What follows from it.                                                   *)
(***************************************************************************)
\* However many runs execute a plan, at most one of them has writes applied.
THEOREM AppliedOnce == Spec => []AppliedAtMostOnce
<1>1. IInv => AppliedAtMostOnce
  BY DEF IInv
<1> QED
  BY <1>1, InvariantHolds, PTL

\* The enlisted steps of a plan are applied all or none.
THEOREM WholeOrNothing == Spec => []AllOrNothing
<1>1. IInv => AllOrNothing
  BY DEF IInv, AllOrNothing, EffectsAreCommitted
<1> QED
  BY <1>1, InvariantHolds, PTL

\* A run that answers with a refusal has changed nothing in its transaction.
THEOREM HonestRefusals == Spec => []RefusalsAreHonest
<1>1. IInv => RefusalsAreHonest
  BY DEF IInv, RefusalsAreHonest, EffectsAreCommitted
<1> QED
  BY <1>1, InvariantHolds, PTL

\* "already applied" is only said of a plan that is wholly durable.
THEOREM TrueReplays == Spec => []AlreadyAppliedIsTrue
<1>1. IInv => AlreadyAppliedIsTrue
  BY DEF IInv, AlreadyAppliedIsTrue, KeysStandForPlans, FirstKey, Key
<1> QED
  BY <1>1, InvariantHolds, PTL

\* A committed run saw every record its preconditions name.
THEOREM GuardedCommits == Spec => []CommittedSawItsRecords
<1>1. TypeOK /\ IInv => CommittedSawItsRecords
  <2> SUFFICES ASSUME TypeOK, IInv, NEW r \in Runs, pc[r] = "committed",
                      NEW i \in StepsIn(PlanOf[r]),
                      StepsOf[PlanOf[r]][i].guard = "home"
               PROVE  snap[r][StepsOf[PlanOf[r]][i].target] # "gone"
    BY DEF CommittedSawItsRecords
  <2>1. idx[r] = Len(StepsOf[PlanOf[r]])
    BY DEF IInv, SnapshotsWereChecked, SnapshotChecked
  <2>2. Checked(r, i)
    <3> PlanOf[r] \in Plans
      OBVIOUS
    <3> QED
      BY <2>1, StepIndices DEF Checked, TypeOK
  <2> QED
    BY <2>2 DEF IInv, SnapshotsWereChecked, SnapshotChecked
<1> QED
  BY <1>1, InvariantHolds, PTL
-----------------------------------------------------------------------------
(***************************************************************************)
(* The executor implements AtomicPlan when every plan has a step that      *)
(* enlists its write.                                                      *)
(***************************************************************************)
SomeEnlisted == \A p \in Plans : EnlistedSteps(p) # {}
By == [p \in Plans |-> Appliers(p)]
Safe == TypeOK /\ IInv /\ RefusalsAreHonest /\ AlreadyAppliedIsTrue

LEMMA SafeHolds == Spec => []Safe
  BY InvariantHolds, HonestRefusals, TrueReplays, PTL DEF Safe

LEMMA InitRefines == Init => Atomic!Init
<1> SUFFICES ASSUME Init PROVE Atomic!Init
  OBVIOUS
<1>1. \A p \in Plans : Appliers(p) = {}
  BY DEF Init, Appliers, DurableSteps
<1>2. \A r \in Runs : Told[r] = "waiting"
  BY DEF Init, Told, Refusals
<1>3. Told = [r \in Runs |-> "waiting"]
  BY <1>2 DEF Told
<1> QED
  BY <1>1, <1>3 DEF Atomic!Init

\* What is told depends on the run's own position only.
LEMMA ToldByPosition ==
    ASSUME NEW q \in Runs, pc'[q] = pc[q]
    PROVE  Told'[q] = Told[q]
  BY DEF Told

\* A step that makes nothing durable answers, or changes nothing abstract.
LEMMA AnswerRefines ==
    ASSUME TypeOK, Safe', NEW r \in Runs, SomeEnlisted,
           NEW e, pc' = [pc EXCEPT ![r] = e],
           e \in Working \cup (Endings \ {"committed"}),
           pc[r] \in {"idle"} \cup Working,
           \A q \in Runs : DurableSteps(q)' = DurableSteps(q)
    PROVE  Atomic!Next \/ UNCHANGED <<By, Told>>
<1>1. By' = By
  BY DEF By, Appliers
<1>2. /\ pc'[r] = e
      /\ \A q \in Runs \ {r} : Told'[q] = Told[q]
  BY ToldByPosition DEF TypeOK
<1>3. /\ Told = [q \in Runs |-> Told[q]]
      /\ Told' = [q \in Runs |-> Told'[q]]
  BY DEF Told
<1>4. Told[r] = "waiting"
  BY DEF Told, Working, InTxn, Refusals
<1>5. Told' = [Told EXCEPT ![r] = Told'[r]]
  BY <1>2, <1>3
<1>6. CASE e \in Working
  <2>1. Told'[r] = "waiting"
    BY <1>2, <1>6 DEF Told, Working, InTxn, Refusals
  <2> QED
    BY <1>1, <1>3, <1>4, <1>5, <2>1
<1>7. CASE e = "already_applied"
  <2>1. Told'[r] = "done"
    BY <1>2, <1>7 DEF Told, Refusals
  <2>2. By[PlanOf[r]] # {}
    <3>1. PICK q \in Runs : /\ PlanOf[q] = PlanOf[r]
                           /\ Whole(q)'
      BY <1>2, <1>7 DEF Safe, AlreadyAppliedIsTrue
    <3>2. DurableSteps(q)' # {} /\ PlanOf[r] \in Plans
      BY <3>1 DEF SomeEnlisted, Whole, DurableSteps, EnlistedSteps, StepsIn
    <3>3. q \in Appliers(PlanOf[r])
      BY <3>1, <3>2 DEF Appliers
    <3> QED
      BY <3>2, <3>3 DEF By
  <2>3. Atomic!Answer(r, "done")
    BY <1>1, <1>4, <1>5, <2>1, <2>2 DEF Atomic!Answer, By
  <2> QED
    BY <2>3 DEF Atomic!Next, Atomic!Answers
<1>8. CASE e \in Refusals
  <2>1. Told'[r] = "nothing"
    BY <1>2, <1>8 DEF Told, Refusals
  <2>2. DurableSteps(r)' = {}
    BY <1>2, <1>8 DEF Safe, RefusalsAreHonest
  <2>3. r \notin By[PlanOf[r]]
    BY <2>2 DEF By, Appliers
  <2>4. Atomic!Answer(r, "nothing")
    BY <1>1, <1>4, <1>5, <2>1, <2>3 DEF Atomic!Answer, By
  <2> QED
    BY <2>4 DEF Atomic!Next, Atomic!Answers
<1>9. CASE e \in {"internal", "crashed"}
  <2>1. Told'[r] = "unknown"
    BY <1>2, <1>9 DEF Told, Refusals
  <2>2. Atomic!Answer(r, "unknown")
    BY <1>1, <1>4, <1>5, <2>1 DEF Atomic!Answer, By
  <2> QED
    BY <2>2 DEF Atomic!Next, Atomic!Answers
<1> QED
  BY <1>6, <1>7, <1>8, <1>9 DEF Endings

\* The commit applies the plan.
LEMMA CommitRefines ==
    ASSUME TypeOK, IInv, NEW r \in Runs, SomeEnlisted, Commit(r)
    PROVE  Atomic!Next
<1>1. /\ pc[r] = "commit" /\ r \notin DryRuns
      /\ effects' = effects \cup ({r} \X StepsIn(PlanOf[r]))
      /\ pc'[r] \in {"committed", "internal", "conflict"}
      /\ \A q \in Runs \ {r} : pc'[q] = pc[q]
  BY DEF Commit, EndTxn, TypeOK
<1>2. FirstKey(r) \notin keys
  BY <1>1 DEF IInv, ClaimsAreExclusive, InTxn
<1>3. \A q \in Runs : PlanOf[q] = PlanOf[r] => DurableSteps(q) = {}
  BY <1>2 DEF IInv, EffectsAreCommitted, FirstKey
<1>4. /\ DurableSteps(r)' = EnlistedSteps(PlanOf[r])
      /\ \A q \in Runs \ {r} : DurableSteps(q)' = DurableSteps(q)
  BY <1>1 DEF DurableSteps, EnlistedSteps, StepsIn
<1>5. EnlistedSteps(PlanOf[r]) # {} /\ PlanOf[r] \in Plans
  BY DEF SomeEnlisted
<1>6. By[PlanOf[r]] = {}
  BY <1>3, <1>5 DEF By, Appliers
<1>7. By' = [By EXCEPT ![PlanOf[r]] = {r}]
  <2>1. Appliers(PlanOf[r])' = {r}
    BY <1>3, <1>4, <1>5 DEF Appliers
  <2>2. \A p \in Plans \ {PlanOf[r]} : Appliers(p)' = Appliers(p)
    BY <1>4 DEF Appliers
  <2> QED
    BY <1>5, <2>1, <2>2 DEF By
<1>8. Told[r] = "waiting" /\ Told'[r] \in {"waiting", "done", "unknown"}
  BY <1>1 DEF Told, Refusals
<1>9. Told' = [Told EXCEPT ![r] = Told'[r]]
  <2>1. \A q \in Runs \ {r} : Told'[q] = Told[q]
    BY <1>1, ToldByPosition
  <2>2. /\ Told = [q \in Runs |-> Told[q]]
        /\ Told' = [q \in Runs |-> Told'[q]]
    BY DEF Told
  <2> QED
    BY <2>1, <2>2
<1>10. Atomic!Apply(r)
  BY <1>6, <1>7, <1>8, <1>9 DEF Atomic!Apply, By
<1> QED
  BY <1>10 DEF Atomic!Next

\* Every other step of a run moves it, and makes nothing durable.
LEMMA OtherStepsMove ==
    ASSUME TypeOK, NEW r \in Runs, SomeEnlisted,
           Proceed(r) \/ Disturb(r), ~Commit(r)
    PROVE  /\ \E e \in Working \cup (Endings \ {"committed"}) :
                 pc' = [pc EXCEPT ![r] = e]
           /\ pc[r] \in {"idle"} \cup Working
           /\ \A q \in Runs : DurableSteps(q)' = DurableSteps(q)
<1> USE DEF Working, InTxn, Endings, Refusals
<1>1. CASE RunStep(r) \/ StepRaises(r)
  <2>1. effects \subseteq effects' /\ effects' \subseteq effects \cup WritesOutside(r)
    BY <1>1 DEF RunStep, StepRaises
  <2>2. \A q \in Runs : DurableSteps(q)' = DurableSteps(q)
    BY <2>1, OutsideWrites
  <2> QED
    BY <1>1, <2>2 DEF RunStep, StepRaises, Abort, EndTxn
<1>2. CASE StartSession(r) \/ CheckStep(r) \/ ClaimKey(r)
  BY <1>2 DEF StartSession, CheckStep, ClaimKey, Abort, EndTxn, DurableSteps, EnlistedSteps, StepsIn
<1>3. CASE ClaimDuplicate(r) \/ ClaimContended(r) \/ DryRunAbort(r) \/ ResolveConflict(r)
  BY <1>3 DEF ClaimDuplicate, ClaimContended, DryRunAbort, ResolveConflict, Abort, EndTxn,
     DurableSteps, EnlistedSteps, StepsIn
<1>4. CASE SessionUnavailable(r) \/ StepFails(r) \/ WriteConflict(r)
           \/ StatementFails(r) \/ Crash(r)
  BY <1>4 DEF SessionUnavailable, StepFails, WriteConflict, StatementFails, Crash,
     Abort, EndTxn, DurableSteps, EnlistedSteps, StepsIn
<1> QED
  BY <1>1, <1>2, <1>3, <1>4 DEF Proceed, Disturb

LEMMA StepRefines ==
    ASSUME SomeEnlisted, Safe, Safe', [Next]_vars
    PROVE  Atomic!Next \/ UNCHANGED <<By, Told>>
<1>1. ASSUME NEW r \in Runs, Proceed(r) \/ Disturb(r)
      PROVE  Atomic!Next \/ UNCHANGED <<By, Told>>
  <2>1. CASE Commit(r)
    BY <2>1, CommitRefines DEF Safe
  <2>2. CASE ~Commit(r)
    BY <1>1, <2>2, OtherStepsMove, AnswerRefines DEF Safe
  <2> QED
    BY <2>1, <2>2
<1>2. ASSUME UNCHANGED <<pc, effects>> PROVE UNCHANGED <<By, Told>>
  BY <1>2 DEF By, Told, Appliers, DurableSteps, EnlistedSteps, StepsIn
<1>3. ASSUME NEW x \in Records, NEW s \in RecordState, ChangeRecord(x, s)
      PROVE  UNCHANGED <<By, Told>>
  BY <1>2, <1>3 DEF ChangeRecord
<1>4. CASE UNCHANGED vars
  BY <1>2, <1>4 DEF vars
<1> QED
  BY <1>1, <1>3, <1>4 DEF Next

\* When every plan has a step whose tool passes the session on, every execution of the executor is
\* one of the abstract plan: applied in one step, by one run, and told truly.
THEOREM Refinement == ASSUME SomeEnlisted PROVE Spec => ImplementsAtomicPlan
<1>1. Init => Atomic!Init
  BY InitRefines
<1>2. Safe /\ Safe' /\ [Next]_vars => [Atomic!Next]_<<By, Told>>
  BY StepRefines
<1> QED
  BY <1>1, <1>2, SafeHolds, PTL DEF Spec, ImplementsAtomicPlan, Atomic!Spec, By
-----------------------------------------------------------------------------
(***************************************************************************)
(* How far a run has to go.  Every step of a run brings its end nearer and *)
(* nobody else's step takes it away again, so that no conflict, replay or  *)
(* fault keeps a run going: it makes at most 3 * Last + 3 steps.           *)
(***************************************************************************)
Last(r) == Len(StepsOf[PlanOf[r]])

\* At a stage, with n steps of the plan after the present one.
ToGo(stage, n) ==
    CASE stage = "idle" -> 3 * n + 6
      [] stage = "check" -> 3 * n + 5
      [] stage = "claim" -> 3 * n + 4
      [] stage = "run" -> 3 * n + 3
      [] stage = "commit" -> 2
      [] stage = "conflict" -> 1
      [] OTHER -> 0

Rest(p, i, r) == ToGo(p[r], Last(r) - i[r])
Left(r) == Rest(pc, idx, r)

\* A run that has not begun is at its first step.
Fresh == \A r \in Runs : pc[r] = "idle" => idx[r] = 1

EndsWithin ==
    \A r \in Runs : Left(r) \in 0 .. 3 * Last(r) + 3 /\ (Left(r) = 0 <=> pc[r] \in Endings)

RunsShorten ==
    [][/\ \A r \in Runs : Left(r)' <= Left(r)
       /\ (\E r \in Runs : Left(r)' < Left(r)) \/ UNCHANGED <<pc, idx, snap, held, keys, effects>>
      ]_vars

LEMMA AtStep ==
    ASSUME TypeOK, NEW r \in Runs
    PROVE  /\ Last(r) \in Nat \ {0} /\ idx[r] \in 1 .. Last(r)
           /\ pc[r] \in {"idle"} \cup Working \cup Endings
BY StepIndices DEF TypeOK, Last

LEMMA StagesToGo ==
    ASSUME NEW n \in Nat
    PROVE  /\ ToGo("idle", n) = 3 * n + 6 /\ ToGo("check", n) = 3 * n + 5
           /\ ToGo("claim", n) = 3 * n + 4 /\ ToGo("run", n) = 3 * n + 3
           /\ ToGo("commit", n) = 2 /\ ToGo("conflict", n) = 1
           /\ \A e \in Endings : ToGo(e, n) = 0
<1>1. /\ ToGo("idle", n) = 3 * n + 6 /\ ToGo("check", n) = 3 * n + 5
      /\ ToGo("claim", n) = 3 * n + 4 /\ ToGo("run", n) = 3 * n + 3
      /\ ToGo("commit", n) = 2 /\ ToGo("conflict", n) = 1
  BY DEF ToGo
<1>2. \A e \in Endings : ToGo(e, n) = 0
  BY DEF ToGo, Endings, Refusals
<1> QED BY <1>1, <1>2

LEMMA LeftBounded ==
    ASSUME TypeOK, Fresh, NEW r \in Runs
    PROVE  /\ Left(r) \in Nat /\ Left(r) <= 3 * Last(r) + 3
           /\ Left(r) = 0 <=> pc[r] \in Endings
<1> DEFINE n == Last(r) - idx[r]
<1>1. n \in Nat /\ n + 1 <= Last(r) /\ (pc[r] = "idle" => n = Last(r) - 1) /\ Last(r) \in Nat
  BY AtStep DEF Fresh
<1> HIDE DEF n
<1>2. CASE pc[r] \in Endings
  <2>1. ToGo(pc[r], n) = 0
    BY <1>1, <1>2, StagesToGo
  <2> QED BY <1>1, <1>2, <2>1 DEF Left, Rest, n
<1>3. CASE pc[r] \in {"idle"} \cup Working
  <2>1. pc[r] \notin Endings
    BY <1>3 DEF Working, InTxn, Endings, Refusals
  <2>2. pc[r] \in {"idle", "check", "claim", "run", "commit", "conflict"}
    BY <1>3 DEF Working, InTxn
  <2>3. \/ pc[r] = "idle" /\ ToGo(pc[r], n) = 3 * n + 6
        \/ ToGo(pc[r], n) \in {3 * n + 5, 3 * n + 4, 3 * n + 3, 2, 1}
    <3>1. /\ ToGo("idle", n) = 3 * n + 6 /\ ToGo("check", n) = 3 * n + 5
          /\ ToGo("claim", n) = 3 * n + 4 /\ ToGo("run", n) = 3 * n + 3
          /\ ToGo("commit", n) = 2 /\ ToGo("conflict", n) = 1
      BY <1>1, StagesToGo
    <3> QED BY <2>2, <3>1, Zenon
  <2>4. ToGo(pc[r], n) \in Nat \ {0} /\ ToGo(pc[r], n) <= 3 * Last(r) + 3
    BY <1>1, <2>3
  <2> QED BY <2>1, <2>4 DEF Left, Rest, n
<1> QED BY <1>2, <1>3, AtStep

\* Whoever leaves the transaction has at most to ask whether the plan is applied.
LEMMA LeavingShortens ==
    ASSUME TypeOK, NEW r \in Runs, pc[r] \in {"idle"} \cup Working,
           NEW e \in Endings \cup {"conflict"}, pc' = [pc EXCEPT ![r] = e], UNCHANGED idx,
           pc[r] = "conflict" => e # "conflict"
    PROVE  Rest(pc', idx', r) < Rest(pc, idx, r)
<1> DEFINE n == Last(r) - idx[r]
<1>1. n \in Nat
  BY AtStep
<1>2. Rest(pc, idx, r) = ToGo(pc[r], n) /\ Rest(pc', idx', r) = ToGo(e, n)
  BY DEF Rest, TypeOK
<1> HIDE DEF n
<1>3. ToGo(e, n) \in {0, 1} /\ (e # "conflict" => ToGo(e, n) = 0)
  BY <1>1, StagesToGo
<1>4. pc[r] \in {"idle", "check", "claim", "run", "commit", "conflict"}
  BY DEF Working, InTxn
<1>5. \/ pc[r] = "conflict" /\ ToGo(pc[r], n) = 1
      \/ ToGo(pc[r], n) \in {3 * n + 6, 3 * n + 5, 3 * n + 4, 3 * n + 3, 2}
  <2>1. /\ ToGo("idle", n) = 3 * n + 6 /\ ToGo("check", n) = 3 * n + 5
        /\ ToGo("claim", n) = 3 * n + 4 /\ ToGo("run", n) = 3 * n + 3
        /\ ToGo("commit", n) = 2 /\ ToGo("conflict", n) = 1
    BY <1>1, StagesToGo
  <2> QED BY <1>4, <2>1, Zenon
<1> QED BY <1>1, <1>2, <1>3, <1>5

\* Whoever goes on within the step at hand, or begins.
LEMMA GoingOnShortens ==
    ASSUME TypeOK, NEW r \in Runs, NEW s, UNCHANGED idx, pc' = [pc EXCEPT ![r] = s],
           \/ pc[r] = "idle" /\ s = "check"
           \/ pc[r] = "check" /\ s \in {"claim", "run"}
           \/ pc[r] = "claim" /\ s = "run"
           \/ pc[r] = "run" /\ s = "commit"
    PROVE  Rest(pc', idx', r) < Rest(pc, idx, r)
<1> DEFINE n == Last(r) - idx[r]
<1>1. n \in Nat
  BY AtStep
<1>2. Rest(pc, idx, r) = ToGo(pc[r], n) /\ Rest(pc', idx', r) = ToGo(s, n)
  BY DEF Rest, TypeOK
<1> HIDE DEF n
<1>3. /\ ToGo("idle", n) = 3 * n + 6 /\ ToGo("check", n) = 3 * n + 5
      /\ ToGo("claim", n) = 3 * n + 4 /\ ToGo("run", n) = 3 * n + 3
      /\ ToGo("commit", n) = 2
  BY <1>1, StagesToGo
<1>4. \/ ToGo(pc[r], n) = 3 * n + 6 /\ ToGo(s, n) = 3 * n + 5
      \/ ToGo(pc[r], n) = 3 * n + 5 /\ ToGo(s, n) \in {3 * n + 4, 3 * n + 3}
      \/ ToGo(pc[r], n) = 3 * n + 4 /\ ToGo(s, n) = 3 * n + 3
      \/ ToGo(pc[r], n) = 3 * n + 3 /\ ToGo(s, n) = 2
  BY <1>3, Zenon
<1> QED BY <1>1, <1>2, <1>4

LEMMA StepShortens ==
    ASSUME TypeOK, NEW r \in Runs, Proceed(r) \/ Disturb(r)
    PROVE  /\ Rest(pc', idx', r) < Rest(pc, idx, r)
           /\ \A q \in Runs \ {r} : Rest(pc', idx', q) = Rest(pc, idx, q)
<1>1. /\ \A q \in Runs \ {r} : pc'[q] = pc[q] /\ idx'[q] = idx[q]
      /\ ~RunStep(r) => UNCHANGED idx
  BY DEF Proceed, Disturb, StartSession, CheckStep, ClaimKey, ClaimDuplicate, ClaimContended,
     RunStep, DryRunAbort, Commit, ResolveConflict, SessionUnavailable, StepFails,
     StepRaises, WriteConflict, StatementFails, Crash, Abort, EndTxn, TypeOK
<1>2. \A q \in Runs \ {r} : Rest(pc', idx', q) = Rest(pc, idx, q)
  BY <1>1 DEF Rest
<1> SUFFICES Rest(pc', idx', r) < Rest(pc, idx, r)
  BY <1>2
<1>3. CASE StartSession(r) \/ ClaimKey(r)
  BY <1>3, GoingOnShortens DEF StartSession, ClaimKey
<1>4. CASE CheckStep(r)
  <2>1. pc[r] = "check" /\ UNCHANGED idx
    BY <1>4 DEF CheckStep
  <2>2. CASE \E e \in {"scope_violation", "plan_stale"} : pc' = [pc EXCEPT ![r] = e]
    BY <2>1, <2>2, LeavingShortens DEF Working, InTxn, Endings, Refusals
  <2>3. CASE \E s \in {"claim", "run"} : pc' = [pc EXCEPT ![r] = s]
    BY <2>1, <2>3, GoingOnShortens
  <2> QED BY <1>4, <2>2, <2>3 DEF CheckStep, Abort, EndTxn
<1>5. CASE RunStep(r)
  <2>1. CASE idx[r] = Last(r)
    BY <1>5, <2>1, GoingOnShortens DEF RunStep, Last
  <2>2. CASE idx[r] # Last(r)
    <3>1. pc[r] = "run" /\ pc'[r] = "check" /\ idx'[r] = idx[r] + 1
      BY <1>5, <2>2 DEF RunStep, Last, TypeOK
    <3>2. Last(r) \in Nat /\ idx[r] \in 1 .. Last(r)
      BY AtStep
    <3> DEFINE n == Last(r) - idx[r]
    <3>3. n \in Nat /\ n - 1 \in Nat /\ Last(r) - (idx[r] + 1) = n - 1
      BY <2>2, <3>2
    <3>4. Rest(pc, idx, r) = ToGo("run", n) /\ Rest(pc', idx', r) = ToGo("check", n - 1)
      BY <3>1, <3>3 DEF Rest
    <3> HIDE DEF n
    <3>5. ToGo("run", n) = 3 * n + 3 /\ ToGo("check", n - 1) = 3 * (n - 1) + 5
      BY <3>3, StagesToGo
    <3> QED BY <3>3, <3>4, <3>5
  <2> QED BY <2>1, <2>2
<1>6. CASE \/ ClaimDuplicate(r) \/ ClaimContended(r) \/ DryRunAbort(r) \/ Commit(r)
           \/ ResolveConflict(r) \/ Disturb(r)
  <2>1. pc[r] \in {"idle"} \cup Working /\ UNCHANGED idx
    BY <1>6
    DEF ClaimDuplicate, ClaimContended, DryRunAbort, Commit, ResolveConflict, Disturb,
        SessionUnavailable, StepFails, StepRaises, WriteConflict, StatementFails, Crash,
        Working, InTxn
  <2>2. PICK e \in Endings \cup {"conflict"} :
            pc' = [pc EXCEPT ![r] = e] /\ (pc[r] = "conflict" => e # "conflict")
    BY <1>6
    DEF ClaimDuplicate, ClaimContended, DryRunAbort, Commit, ResolveConflict, Disturb,
        SessionUnavailable, StepFails, StepRaises, WriteConflict, StatementFails, Crash,
        Abort, EndTxn, InTxn, Endings, Refusals
  <2> QED BY <2>1, <2>2, LeavingShortens
<1> QED BY <1>3, <1>4, <1>5, <1>6 DEF Proceed

LEMMA StepFresh == TypeOK /\ Fresh /\ [Next]_vars => Fresh'
<1> SUFFICES ASSUME TypeOK, Fresh, [Next]_vars PROVE Fresh'
  OBVIOUS
<1>1. ASSUME NEW r \in Runs, Proceed(r) \/ Disturb(r) PROVE Fresh'
  <2>1. pc'[r] # "idle" /\ \A q \in Runs \ {r} : pc'[q] = pc[q] /\ idx'[q] = idx[q]
    BY <1>1 DEF Proceed, Disturb, StartSession, CheckStep, ClaimKey, ClaimDuplicate,
       ClaimContended, RunStep, DryRunAbort, Commit, ResolveConflict, SessionUnavailable,
       StepFails, StepRaises, WriteConflict, StatementFails, Crash, Abort, EndTxn, TypeOK
  <2> QED BY <2>1 DEF Fresh
<1>2. CASE UNCHANGED <<pc, idx>>
  BY <1>2 DEF Fresh
<1> QED BY <1>1, <1>2 DEF Next, ChangeRecord, vars

\* Every run has a bound on the steps it still makes, each step of it lowers that
\* bound, and nothing anybody else does raises it: a run that is scheduled ends.
THEOREM RunsAreBounded == Spec => []EndsWithin /\ RunsShorten
<1>1. Init => Fresh
  BY DEF Init, Fresh
<1>2. TypeOK /\ Fresh => EndsWithin /\ \A r \in Runs : Rest(pc, idx, r) \in Nat
  BY LeftBounded, AtStep DEF EndsWithin, Left
<1>3. (TypeOK /\ Fresh)' => (\A r \in Runs : Rest(pc, idx, r) \in Nat)'
  BY <1>2, PTL
<1>4. TypeOK /\ Fresh /\ [Next]_vars =>
        [/\ \A r \in Runs : Left(r)' <= Left(r)
         /\ (\E r \in Runs : Left(r)' < Left(r))
              \/ UNCHANGED <<pc, idx, snap, held, keys, effects>>]_vars
  <2> SUFFICES ASSUME TypeOK, Fresh, Next
               PROVE  /\ \A r \in Runs : Rest(pc', idx', r) <= Rest(pc, idx, r)
                      /\ \/ \E r \in Runs : Rest(pc', idx', r) < Rest(pc, idx, r)
                         \/ UNCHANGED <<pc, idx, snap, held, keys, effects>>
    BY DEF Left
  <2>1. \A r \in Runs : Rest(pc, idx, r) \in Nat /\ Rest(pc', idx', r) \in Nat
    BY <1>2, <1>3, StepTypeOK, StepFresh
  <2>2. ASSUME NEW r \in Runs, Proceed(r) \/ Disturb(r)
        PROVE  /\ \A q \in Runs : Rest(pc', idx', q) <= Rest(pc, idx, q)
               /\ \E q \in Runs : Rest(pc', idx', q) < Rest(pc, idx, q)
    <3>1. /\ Rest(pc', idx', r) < Rest(pc, idx, r)
          /\ \A q \in Runs \ {r} : Rest(pc', idx', q) = Rest(pc, idx, q)
      BY <2>2, StepShortens
    <3>2. ASSUME NEW q \in Runs PROVE Rest(pc', idx', q) <= Rest(pc, idx, q)
      <4>1. Rest(pc', idx', q) \in Nat /\ Rest(pc, idx, q) \in Nat
        BY <2>1
      <4>2. Rest(pc', idx', q) < Rest(pc, idx, q) \/ Rest(pc', idx', q) = Rest(pc, idx, q)
        BY <3>1
      <4> QED BY <4>1, <4>2
    <3> QED BY <3>1, <3>2
  <2>3. ASSUME NEW x \in Records, NEW s \in RecordState, ChangeRecord(x, s)
        PROVE  /\ \A q \in Runs : Rest(pc', idx', q) = Rest(pc, idx, q)
               /\ UNCHANGED <<pc, idx, snap, held, keys, effects>>
    BY <2>3 DEF ChangeRecord
  <2> QED BY <2>1, <2>2, <2>3 DEF Next
<1> QED BY <1>1, <1>2, <1>4, StepFresh, TypeCorrect, PTL DEF Spec, RunsShorten
=============================================================================
