------------------------- MODULE ConfirmGateProofs -------------------------
(* Theorems about the confirmation gate, for any requests, tokens and users. *)
EXTENDS ConfirmGate, TLAPS

USE RequestsAssumption, TimesAssumption, SwitchesAssumption

Labels == {"idle"} \cup Stages \cup Replies

\* What the two tables of delayed replies lead to.
LEMMA Tables ==
    /\ DOMAIN Undo = {"undo_used", "undo_expired", "undo_mismatch"}
    /\ DOMAIN Closing = {"close_ok", "close_dry", "close_refused", "close_internal"}
    /\ \A s \in DOMAIN Undo : Undo[s] \in {"used", "expired", "mismatch"}
    /\ \A s \in DOMAIN Closing : Closing[s] \in {"ok", "dry_run", "refused", "internal"}
  BY DEF Undo, Closing

LEMMA InitTypeOK == Init => TypeOK
<1> SUFFICES ASSUME Init PROVE TypeOK
  OBVIOUS
<1>1. by = [t \in Tokens |-> {}] /\ told = [r \in Requests |-> "waiting"]
  BY DEF Init, Plan!Init
<1>2. count \in [Users -> [Hours -> Nat]]
  BY DEF Init
<1>3. /\ clock \in 0 .. MaxTime /\ expires \in [Tokens -> Nat]
      /\ writesOn \in BOOLEAN /\ shadowOn \in BOOLEAN
      /\ shadowSeen \in [Workers -> SUBSET BOOLEAN]
      /\ dry \in [Requests -> BOOLEAN]
  <2>1. clock \in 0 .. MaxTime /\ expires \in [Tokens -> Nat]
    BY DEF Init
  <2>2. writesOn \in BOOLEAN /\ shadowOn \in BOOLEAN
    BY DEF Init
  <2>3. shadowSeen \in [Workers -> SUBSET BOOLEAN]
    BY DEF Init
  <2>4. dry \in [Requests -> BOOLEAN]
    BY DEF Init
  <2> QED
    BY <2>1, <2>2, <2>3, <2>4
<1>4. /\ token \in [Tokens -> {"none", "live", "used", "gone"}]
      /\ pc \in [Requests -> Labels] /\ bucket \in [Requests -> Hours \cup {NoHour}]
      /\ \A r \in Requests : pc[r] = "idle"
      /\ audit \in [Tokens -> {"none", "pending", "success", "failure"}]
      /\ barred \in [Requests -> BOOLEAN]
  BY DEF Init, Labels
<1> QED
  BY <1>1, <1>2, <1>3, <1>4 DEF TypeOK, Labels

\* A step that moves the request on to a stage with no charge pending.
LEMMA MoveKeepsTypes ==
    ASSUME TypeOK, NEW r \in Requests,
           NEW stage \in (Stages \cup Replies) \ {"charge", "recount"},
           Move(r, stage), UNCHANGED bucket
    PROVE  /\ pc' \in [Requests -> Labels]
           /\ \A q \in Requests : pc'[q] \in {"charge", "recount"} => bucket'[q] \in Hours
  BY DEF TypeOK, Move, Labels

LEMMA StepKeepsTypes ==
    ASSUME TypeOK, NEW r \in Requests,
           NEW stage \in (Stages \cup Replies) \ {"charge", "recount"},
           Step(r, stage)
    PROVE  TypeOK'
<1>1. /\ Move(r, stage)
      /\ UNCHANGED <<clock, token, expires, count, writesOn, shadowOn, shadowSeen,
                     bucket, dry, audit, by, told, barred>>
  BY DEF Step, redemption, flags, executor
<1> QED
  BY <1>1, MoveKeepsTypes DEF TypeOK, Labels

\* The counter of a user and hour can be set to any number.
LEMMA CountKeepsType ==
    ASSUME TypeOK, NEW u \in Users, NEW h \in Hours, NEW n \in Nat,
           count' = [count EXCEPT ![u][h] = n]
    PROVE  count' \in [Users -> [Hours -> Nat]]
<1>1. [count[u] EXCEPT ![h] = n] \in [Hours -> Nat]
  BY DEF TypeOK
<1> QED
  BY <1>1 DEF TypeOK

LEMMA TheHourIsAnHour == TypeOK => ThisHour \in Hours
  BY DEF TypeOK, ThisHour, Hours

LEMMA BudgetStepsKeepTypes ==
    ASSUME TypeOK, NEW r \in Requests,
           CheckBudget(r) \/ Charge(r) \/ ChargeTwice(r) \/ Recount(r) \/ Refund(r)
    PROVE  TypeOK'
<1> USE DEF Stages, Replies, redemption, flags, executor
<1>u. UserOf[r] \in Users
  OBVIOUS
<1>1. CASE CheckBudget(r)
  <2>1. CASE Move(r, "rate_limited") /\ UNCHANGED bucket
    BY <1>1, <2>1, MoveKeepsTypes DEF CheckBudget, TypeOK, Labels
  <2>2. CASE Move(r, "charge") /\ bucket' = [bucket EXCEPT ![r] = ThisHour]
    <3>1. /\ bucket' \in [Requests -> Hours \cup {NoHour}]
          /\ pc' \in [Requests -> Labels]
          /\ \A q \in Requests : pc'[q] \in {"charge", "recount"} => bucket'[q] \in Hours
      BY <2>2, TheHourIsAnHour DEF Move, TypeOK, Labels
    <3> QED
      BY <1>1, <3>1 DEF CheckBudget, TypeOK, Labels
  <2> QED
    BY <1>1, <2>1, <2>2 DEF CheckBudget
<1>2. ASSUME NEW n \in Nat, Add(r, n), pc[r] \in {"charge", "recount"}
      PROVE  count' \in [Users -> [Hours -> Nat]]
  <2>1. bucket[r] \in Hours
    BY <1>2 DEF TypeOK
  <2>2. count[UserOf[r]] \in [Hours -> Nat]
    BY <1>u DEF TypeOK
  <2>3. count[UserOf[r]][bucket[r]] + n \in Nat
    BY <2>1, <2>2
  <2> QED
    BY <1>2, <1>u, <2>1, <2>3, CountKeepsType DEF Add
<1>3. CASE Charge(r)
  <2>1. \E stage \in {"consume", "rate_limited"} : Move(r, stage)
    BY <1>3 DEF Charge
  <2> QED
    BY <1>2, <1>3, <2>1, MoveKeepsTypes DEF Charge, TypeOK, Labels
<1>4. CASE ChargeTwice(r)
  <2>1. count' \in [Users -> [Hours -> Nat]]
    BY <1>2, <1>4 DEF ChargeTwice
  <2>2. /\ pc' \in [Requests -> Labels]
        /\ \A q \in Requests : pc'[q] \in {"charge", "recount"} => bucket'[q] \in Hours
    BY <1>4 DEF ChargeTwice, Move, TypeOK, Labels
  <2> QED
    BY <1>4, <2>1, <2>2 DEF ChargeTwice, TypeOK, Labels
<1>5. CASE Recount(r)
  BY <1>5, StepKeepsTypes DEF Recount
<1>6. CASE Refund(r)
  <2>1. Undo[pc[r]] \in {"used", "expired", "mismatch"}
    BY <1>6, Tables DEF Refund
  <2>2. count' \in [Users -> [Hours -> Nat]]
    <3>1. CASE UNCHANGED count
      BY <3>1 DEF TypeOK
    <3>2. CASE count' = [count EXCEPT ![UserOf[r]][ThisHour] = IF @ > 0 THEN @ - 1 ELSE 0]
      <4>1. count[UserOf[r]][ThisHour] \in Nat /\ ThisHour \in Hours
        BY <1>u, TheHourIsAnHour DEF TypeOK
      <4>2. PICK n \in Nat : n = IF count[UserOf[r]][ThisHour] > 0
                                 THEN count[UserOf[r]][ThisHour] - 1 ELSE 0
        BY <4>1
      <4>3. count' = [count EXCEPT ![UserOf[r]][ThisHour] = n]
        BY <3>2, <4>2
      <4> QED
        BY <1>u, <4>1, <4>3, CountKeepsType
    <3> QED
      BY <1>6, <3>1, <3>2 DEF Refund
  <2> QED
    BY <1>6, <2>1, <2>2, MoveKeepsTypes DEF Refund, TypeOK, Labels
<1> QED
  BY <1>1, <1>3, <1>4, <1>5, <1>6

LEMMA ReadingStepsKeepTypes ==
    ASSUME TypeOK, NEW r \in Requests,
           \/ Reject(r) \/ GateClosed(r) \/ GateUnacked(r) \/ GateOpen(r)
           \/ Bind(r) \/ Inspect(r) \/ Authorize(r) \/ Conclude(r)
           \/ ReadFails(r) \/ Crash(r)
    PROVE  TypeOK'
<1> USE DEF Stages, Replies, Redeemed
<1>1. Verdict(r) \in {"not_found", "used", "foreign", "expired"}
  BY DEF Verdict
<1>2. CASE Reject(r)
  BY <1>1, <1>2, StepKeepsTypes DEF Reject
<1>3. CASE GateClosed(r) \/ GateUnacked(r) \/ GateOpen(r)
  BY <1>3, StepKeepsTypes DEF GateClosed, GateUnacked, GateOpen
<1>4. CASE Bind(r)
  <2>1. \E stage \in {"not_found", "undo_mismatch", "authorize"} : Step(r, stage)
    BY <1>4 DEF Bind
  <2> QED
    BY <2>1, StepKeepsTypes
<1>5. CASE Inspect(r)
  <2>1. \E stage \in {"undo_used", "undo_expired", "not_found", "foreign"} : Step(r, stage)
    BY <1>1, <1>5 DEF Inspect
  <2> QED
    BY <2>1, Tables, StepKeepsTypes
<1>6. CASE Authorize(r)
  BY <1>6, StepKeepsTypes DEF Authorize
<1>7. CASE Conclude(r)
  BY <1>7, Tables, StepKeepsTypes DEF Conclude
<1>8. CASE ReadFails(r) \/ Crash(r)
  BY <1>8, StepKeepsTypes DEF ReadFails, Crash
<1> QED
  BY <1>2, <1>3, <1>4, <1>5, <1>6, <1>7, <1>8

LEMMA WritingStepsKeepTypes ==
    ASSUME TypeOK, NEW r \in Requests,
           \/ Peek(r) \/ Consume(r) \/ ConsumeUnanswered(r) \/ WriteAhead(r)
           \/ ReadShadow(r) \/ Execute(r) \/ Finalize(r)
    PROVE  TypeOK'
<1> USE DEF Stages, Replies, Redeemed, redemption, flags, executor
<1>t. TokenOf[r] \in Tokens
  OBVIOUS
<1>1. CASE Peek(r)
  <2>1. barred' \in [Requests -> BOOLEAN]
    BY <1>1 DEF Peek, TypeOK
  <2>2. \E stage \in {"gate", "reject"} : Move(r, stage)
    BY <1>1 DEF Peek
  <2> QED
    BY <1>1, <2>1, <2>2, MoveKeepsTypes DEF Peek, TypeOK, Labels
<1>2. CASE Consume(r) \/ ConsumeUnanswered(r)
  <2>1. token' \in [Tokens -> {"none", "live", "used", "gone"}]
    BY <1>2 DEF Consume, ConsumeUnanswered, TypeOK
  <2>2. \E stage \in {"bind", "inspect", "error"} : Move(r, stage)
    BY <1>2 DEF Consume, ConsumeUnanswered
  <2>3. UNCHANGED <<clock, expires, count, flags, bucket, dry, audit, executor, barred>>
    BY <1>2 DEF Consume, ConsumeUnanswered
  <2> QED
    BY <2>1, <2>2, <2>3, MoveKeepsTypes DEF TypeOK, Labels
<1>3. CASE WriteAhead(r)
  <2>1. audit' \in [Tokens -> {"none", "pending", "success", "failure"}]
    BY <1>3 DEF WriteAhead, TypeOK
  <2> QED
    BY <1>3, <2>1, MoveKeepsTypes DEF WriteAhead, TypeOK, Labels
<1>4. CASE ReadShadow(r)
  <2>1. /\ dry' \in [Requests -> BOOLEAN]
        /\ shadowSeen' \in [Workers -> SUBSET BOOLEAN]
    BY <1>4 DEF ReadShadow, TypeOK
  <2> QED
    BY <1>4, <2>1, MoveKeepsTypes DEF ReadShadow, TypeOK, Labels
<1>5. CASE Execute(r)
  <2>1. /\ by' \in [Tokens -> SUBSET Requests]
        /\ told' \in [Requests -> {"waiting"} \cup Plan!Answers]
    <3>1. CASE Plan!Apply(r)
      BY <1>t, <3>1 DEF TypeOK, Plan!Apply, Plan!Answers
    <3>2. CASE \E a \in Plan!Answers : Plan!Answer(r, a)
      BY <3>2 DEF TypeOK, Plan!Answer
    <3> QED
      BY <1>5, <3>1, <3>2 DEF Execute
  <2> QED
    BY <1>5, <2>1 DEF Execute, TypeOK
<1>6. CASE Finalize(r)
  <2>1. audit' \in [Tokens -> {"none", "pending", "success", "failure"}]
    <3>1. Outcome(r) \subseteq {"success", "failure"}
      BY DEF Outcome
    <3>2. CASE \E o \in Outcome(r) :
                 audit' = [audit EXCEPT ![TokenOf[r]] = IF @ = "none" THEN @ ELSE o]
      BY <1>t, <3>1, <3>2 DEF TypeOK
    <3> QED
      BY <1>6, <3>2 DEF Finalize, TypeOK
  <2>2. Closing[pc[r]] \in {"ok", "dry_run", "refused", "internal"}
    BY <1>6, Tables DEF Finalize
  <2> QED
    BY <1>6, <2>1, <2>2, MoveKeepsTypes DEF Finalize, TypeOK, Labels
<1> QED
  BY <1>1, <1>2, <1>3, <1>4, <1>5, <1>6

LEMMA StepTypeOK == TypeOK /\ [Next]_vars => TypeOK'
<1> SUFFICES ASSUME TypeOK, [Next]_vars PROVE TypeOK'
  OBVIOUS
<1> USE DEF redemption, flags, executor
<1>1. ASSUME NEW r \in Requests, Proceed(r) \/ Disturb(r) PROVE TypeOK'
  BY <1>1, BudgetStepsKeepTypes, ReadingStepsKeepTypes, WritingStepsKeepTypes
     DEF Proceed, Disturb
<1>2. ASSUME NEW t \in Tokens, Issue(t) \/ ExpireRow(t) PROVE TypeOK'
  <2>1. clock \in Nat /\ clock + Lifetime \in Nat
    BY DEF TypeOK
  <2>2. /\ token' \in [Tokens -> {"none", "live", "used", "gone"}]
        /\ expires' \in [Tokens -> Nat]
    <3>1. CASE Issue(t)
      BY <2>1, <3>1 DEF Issue, TypeOK
    <3>2. CASE ExpireRow(t)
      BY <3>2 DEF ExpireRow, TypeOK
    <3> QED
      BY <1>2, <3>1, <3>2
  <2> QED
    BY <1>2, <2>2 DEF Issue, ExpireRow, TypeOK
<1>3. ASSUME NEW w \in Workers, CacheExpires(w) PROVE TypeOK'
  BY <1>3 DEF CacheExpires, TypeOK
<1>4. CASE SwitchWrites \/ SwitchShadow
  <2>1. barred' \in [Requests -> BOOLEAN]
    BY <1>4 DEF SwitchWrites, SwitchShadow, TypeOK
  <2> QED
    BY <1>4, <2>1 DEF SwitchWrites, SwitchShadow, TypeOK
<1>5. CASE Tick
  BY <1>5 DEF Tick, TypeOK
<1>6. CASE UNCHANGED vars
  BY <1>6 DEF vars, TypeOK
<1> QED
  BY <1>1, <1>2, <1>3, <1>4, <1>5, <1>6 DEF Next

\* Every variable of the gate keeps its type.
THEOREM TypeCorrect == Spec => []TypeOK
  BY InitTypeOK, StepTypeOK, PTL DEF Spec
-----------------------------------------------------------------------------
(***************************************************************************)
(* One run per token.                                                      *)
(***************************************************************************)
\* The executor serves one request at a time.
LEMMA OthersDoNotRun ==
    ASSUME TypeOK, NEW r \in Requests, Execute(r), NEW q \in Requests \ {r}
    PROVE  Ran(q)' => Ran(q)
<1>1. CASE Plan!Apply(r)
  BY <1>1 DEF Plan!Apply, Ran, TypeOK
<1>2. CASE \E a \in Plan!Answers : Plan!Answer(r, a)
  BY <1>2 DEF Plan!Answer, Ran, TypeOK
<1> QED
  BY <1>1, <1>2 DEF Execute

\* Only the conditional update that redeems the token brings a request into
\* the redeemed stages, and no step of a request revives a token.
LEMMA OnlyConsumeRedeems ==
    ASSUME TypeOK, NEW r \in Requests, Proceed(r) \/ Disturb(r),
           ~(Consume(r) /\ Redeemable(r))
    PROVE  /\ \A q \in Requests : HasRedeemed(q)' => HasRedeemed(q)
           /\ \A t \in Tokens : token[t] \in {"used", "gone"} => token'[t] \in {"used", "gone"}
<1> USE Tables DEF Redeemed
<1>1. ASSUME NEW s, Move(r, s), s \in Redeemed => pc[r] \in Redeemed,
             UNCHANGED executor
      PROVE  \A q \in Requests : HasRedeemed(q)' => HasRedeemed(q)
  BY <1>1 DEF Move, TypeOK, HasRedeemed, Ran, executor
<1>2. ASSUME NEW s, Step(r, s), s \in Redeemed => pc[r] \in Redeemed
      PROVE  /\ \A q \in Requests : HasRedeemed(q)' => HasRedeemed(q)
             /\ UNCHANGED token
  BY <1>1, <1>2 DEF Step, redemption
<1>3. CASE Peek(r)
  BY <1>1, <1>3 DEF Peek, redemption
<1>4. CASE Reject(r) \/ Inspect(r)
  <2>1. PICK s \in {"not_found", "used", "foreign", "expired", "undo_used", "undo_expired"} :
            Step(r, s)
    BY <1>4 DEF Reject, Inspect, Verdict
  <2> QED
    BY <1>2, <2>1
<1>5. CASE GateClosed(r) \/ GateUnacked(r) \/ GateOpen(r) \/ ReadFails(r) \/ Crash(r)
  BY <1>2, <1>5 DEF GateClosed, GateUnacked, GateOpen, ReadFails, Crash
<1>6. CASE CheckBudget(r) \/ Charge(r) \/ ChargeTwice(r)
  <2>1. PICK s \in {"rate_limited", "charge", "consume", "recount"} : Move(r, s)
    BY <1>6 DEF CheckBudget, Charge, ChargeTwice
  <2> QED
    BY <1>1, <1>6, <2>1 DEF CheckBudget, Charge, ChargeTwice, redemption
<1>7. CASE Recount(r)
  BY <1>2, <1>7 DEF Recount
<1>8. CASE Refund(r)
  BY <1>1, <1>8 DEF Refund, redemption
<1>9. CASE Consume(r) \/ ConsumeUnanswered(r)
  <2>1. PICK s \in {"inspect", "error"} : Move(r, s)
    BY <1>9 DEF Consume, ConsumeUnanswered
  <2>2. UNCHANGED executor
    BY <1>9 DEF Consume, ConsumeUnanswered
  <2>3. UNCHANGED token \/ token' = [token EXCEPT ![TokenOf[r]] = "used"]
    BY <1>9 DEF Consume, ConsumeUnanswered
  <2>4. \A t \in Tokens : token[t] \in {"used", "gone"} => token'[t] \in {"used", "gone"}
    BY <2>3 DEF TypeOK
  <2> QED
    BY <1>1, <2>1, <2>2, <2>4
<1>10. CASE Bind(r) \/ Authorize(r)
  <2>1. pc[r] \in Redeemed /\ \E s \in Stages \cup Replies : Step(r, s)
    BY <1>10 DEF Bind, Authorize, Stages, Replies
  <2> QED
    BY <1>2, <2>1
<1>11. CASE WriteAhead(r) \/ ReadShadow(r)
  <2>1. pc[r] \in Redeemed /\ (Move(r, "shadow") \/ Move(r, "execute"))
    BY <1>11 DEF WriteAhead, ReadShadow
  <2> QED
    BY <1>1, <1>11, <2>1 DEF WriteAhead, ReadShadow, redemption
<1>12. CASE Execute(r)
  <2>1. pc[r] \in Redeemed /\ UNCHANGED <<pc, token>>
    BY <1>12 DEF Execute, redemption
  <2> QED
    BY <1>12, <2>1, OthersDoNotRun DEF HasRedeemed
<1>13. CASE Conclude(r)
  BY <1>2, <1>13 DEF Conclude
<1>14. CASE Finalize(r)
  BY <1>1, <1>14 DEF Finalize, redemption
<1> QED
  BY <1>3, <1>4, <1>5, <1>6, <1>7, <1>8, <1>9, <1>10, <1>11, <1>12, <1>13, <1>14
     DEF Proceed, Disturb

GateInv == RedemptionIsFinal /\ OneRunPerToken

LEMMA KeepingKeepsGateInv ==
    ASSUME GateInv,
           \A q \in Requests : HasRedeemed(q)' => HasRedeemed(q),
           \A t \in Tokens : token[t] \in {"used", "gone"} => token'[t] \in {"used", "gone"}
    PROVE  GateInv'
  BY DEF GateInv, RedemptionIsFinal, OneRunPerToken, State

LEMMA ConsumeKeepsGateInv ==
    ASSUME TypeOK, GateInv, NEW r \in Requests, Consume(r), Redeemable(r)
    PROVE  GateInv'
<1>1. /\ pc' = [pc EXCEPT ![r] = "bind"]
      /\ token' = [token EXCEPT ![TokenOf[r]] = "used"]
      /\ UNCHANGED <<by, told>>
  BY DEF Consume, Move, executor
<1>2. \A q \in Requests : TokenOf[q] = TokenOf[r] => ~HasRedeemed(q)
  BY DEF GateInv, RedemptionIsFinal, Redeemable, State
<1>3. \A q \in Requests \ {r} : HasRedeemed(q)' => HasRedeemed(q)
  BY <1>1 DEF HasRedeemed, Ran, TypeOK
<1>4. RedemptionIsFinal'
  BY <1>1, <1>3 DEF GateInv, RedemptionIsFinal, State, TypeOK
<1>5. OneRunPerToken'
  BY <1>2, <1>3 DEF GateInv, OneRunPerToken
<1> QED
  BY <1>4, <1>5 DEF GateInv

LEMMA StepGateInv == TypeOK /\ GateInv /\ [Next]_vars => GateInv'
<1> SUFFICES ASSUME TypeOK, GateInv, [Next]_vars PROVE GateInv'
  OBVIOUS
<1>1. ASSUME NEW r \in Requests, Proceed(r) \/ Disturb(r) PROVE GateInv'
  BY <1>1, OnlyConsumeRedeems, KeepingKeepsGateInv, ConsumeKeepsGateInv
<1>2. ASSUME UNCHANGED <<pc, executor>> PROVE \A q \in Requests : HasRedeemed(q)' => HasRedeemed(q)
  BY <1>2 DEF executor, HasRedeemed, Ran
<1>3. ASSUME NEW t \in Tokens, Issue(t) \/ ExpireRow(t) PROVE GateInv'
  <2>1. \A s \in Tokens : token[s] \in {"used", "gone"} => token'[s] \in {"used", "gone"}
    BY <1>3 DEF Issue, ExpireRow, TypeOK
  <2> QED
    BY <1>2, <1>3, <2>1, KeepingKeepsGateInv DEF Issue, ExpireRow
<1>4. ASSUME UNCHANGED <<token, pc, executor>> PROVE GateInv'
  BY <1>2, <1>4, KeepingKeepsGateInv
<1>5. ASSUME NEW w \in Workers, CacheExpires(w) PROVE GateInv'
  BY <1>4, <1>5 DEF CacheExpires, redemption
<1>6. CASE SwitchWrites \/ SwitchShadow \/ Tick
  BY <1>4, <1>6 DEF SwitchWrites, SwitchShadow, Tick, redemption
<1>7. CASE UNCHANGED vars
  BY <1>4, <1>7 DEF vars, redemption
<1> QED
  BY <1>1, <1>3, <1>5, <1>6, <1>7 DEF Next

LEMMA InitGateInv == Init => GateInv
<1> SUFFICES ASSUME Init PROVE GateInv
  OBVIOUS
<1>1. \A r \in Requests : ~HasRedeemed(r)
  <2>1. \A r \in Requests : pc[r] = "idle" /\ told[r] = "waiting" /\ by[TokenOf[r]] = {}
    BY DEF Init, Plan!Init
  <2> QED
    BY <2>1, Tables DEF HasRedeemed, Ran, Redeemed
<1> QED
  BY <1>1 DEF GateInv, RedemptionIsFinal, OneRunPerToken

\* However many requests present a token, at most one redeems it and runs its
\* plan.
THEOREM OneRun == Spec => []OneRunPerToken
<1>1. Init => TypeOK /\ GateInv
  BY InitTypeOK, InitGateInv
<1>2. (TypeOK /\ GateInv) /\ [Next]_vars => (TypeOK /\ GateInv)'
  BY StepTypeOK, StepGateInv
<1>3. GateInv => OneRunPerToken
  BY DEF GateInv
<1> QED
  BY <1>1, <1>2, <1>3, PTL DEF Spec
-----------------------------------------------------------------------------
(***************************************************************************)
(* The kill switch.                                                        *)
(***************************************************************************)
\* A request has run nothing before it arrives, nor while it has only ever
\* seen writes disabled.
Stopped == StoppedAtTheGate /\ \A r \in Requests : pc[r] = "idle" => ~Ran(r)

\* A request that is moved on without running anything stays stopped when it
\* is moved to a reply, and need not be when it is past the gate.
LEMMA MoveKeepsStopped ==
    ASSUME TypeOK, Stopped, NEW r \in Requests, NEW s \in Stages \cup Replies,
           Move(r, s), UNCHANGED <<executor, writesOn, barred>>,
           s \in Replies \/ pc[r] \in Stages \ {"gate", "reject"} \/ ~barred[r]
    PROVE  Stopped'
<1>1. s # "idle"
  BY Tables DEF Stages, Redeemed, Replies
<1>2. \A q \in Requests : Ran(q)' = Ran(q)
  BY DEF Ran, executor
<1>3. Stages \cap Replies = {}
  BY Tables DEF Stages, Redeemed, Replies
<1>4. barred[r] => s \in Replies
  BY <1>3 DEF Stopped, StoppedAtTheGate
<1>5. pc' = [pc EXCEPT ![r] = s] /\ pc \in [Requests -> Labels]
  BY DEF Move, TypeOK, Labels
<1>6. \A q \in Requests : pc'[q] = IF q = r THEN s ELSE pc[q]
  BY <1>5
<1>7. StoppedAtTheGate'
  BY <1>2, <1>4, <1>6 DEF Stopped, StoppedAtTheGate
<1> QED
  BY <1>1, <1>2, <1>6, <1>7 DEF Stopped

LEMMA RequestsStayStopped ==
    ASSUME TypeOK, Stopped, "flag" \notin FailingCalls,
           NEW r \in Requests, Proceed(r) \/ Disturb(r)
    PROVE  Stopped'
<1> USE Tables DEF Stages, Redeemed, Replies
<1>1. CASE Peek(r)
  <2>1. \A q \in Requests : Ran(q)' = Ran(q)
    BY <1>1 DEF Peek, Ran, executor
  <2>2. pc[r] = "idle" /\ pc'[r] \in {"gate", "reject"} /\ UNCHANGED writesOn
    BY <1>1 DEF Peek, Move, TypeOK, flags
  <2>3. barred'[r] => ~writesOn
    BY <1>1 DEF Peek, TypeOK
  <2>4. \A q \in Requests \ {r} : pc'[q] = pc[q] /\ barred'[q] = barred[q]
    BY <1>1 DEF Peek, Move, TypeOK
  <2> QED
    BY <2>1, <2>2, <2>3, <2>4 DEF Stopped, StoppedAtTheGate
<1>2. CASE Reject(r) \/ GateClosed(r) \/ GateUnacked(r) \/ ReadFails(r) \/ Crash(r)
  <2>1. PICK s \in Replies : Step(r, s)
    BY <1>2 DEF Reject, Verdict, GateClosed, GateUnacked, ReadFails, Crash
  <2> QED
    BY <2>1, MoveKeepsStopped DEF Step, flags
<1>3. CASE GateOpen(r)
  <2>1. ~barred[r]
    BY <1>3 DEF GateOpen, FlagAllows, Stopped, StoppedAtTheGate
  <2> QED
    BY <1>3, <2>1, MoveKeepsStopped DEF GateOpen, Step, flags
<1>4. ASSUME pc[r] \in Stages \ {"gate", "reject"}, UNCHANGED <<executor, writesOn, barred>>,
             NEW s \in Stages \cup Replies, Move(r, s)
      PROVE  Stopped'
  BY <1>4, MoveKeepsStopped
<1>5. CASE CheckBudget(r) \/ Charge(r) \/ ChargeTwice(r) \/ Recount(r)
  <2>1. pc[r] \in {"precheck", "charge", "recount"} /\ UNCHANGED <<executor, writesOn, barred>>
    BY <1>5 DEF CheckBudget, Charge, ChargeTwice, Recount, Step, flags
  <2>2. PICK s \in {"rate_limited", "charge", "consume", "recount"} : Move(r, s)
    BY <1>5 DEF CheckBudget, Charge, ChargeTwice, Recount, Step
  <2> QED
    BY <1>4, <2>1, <2>2
<1>6. CASE Refund(r)
  BY <1>4, <1>6 DEF Refund, flags
<1>7. CASE Consume(r) \/ ConsumeUnanswered(r)
  <2>1. PICK s \in {"bind", "inspect", "error"} : Move(r, s)
    BY <1>7 DEF Consume, ConsumeUnanswered
  <2> QED
    BY <1>4, <1>7, <2>1 DEF Consume, ConsumeUnanswered, flags
<1>8. CASE Bind(r) \/ Inspect(r) \/ Authorize(r)
  <2>1. pc[r] \in {"bind", "inspect", "authorize"}
    BY <1>8 DEF Bind, Inspect, Authorize
  <2>2. PICK s \in Stages \cup Replies : Step(r, s)
    BY <1>8 DEF Bind, Inspect, Authorize, Verdict
  <2> QED
    BY <1>4, <2>1, <2>2 DEF Step, flags
<1>9. CASE WriteAhead(r)
  BY <1>4, <1>9 DEF WriteAhead, flags
<1>10. CASE ReadShadow(r)
  BY <1>4, <1>10 DEF ReadShadow
<1>11. CASE Execute(r)
  <2>1. pc[r] = "execute" /\ UNCHANGED <<pc, writesOn, barred>>
    BY <1>11 DEF Execute, flags
  <2>2. ~barred[r]
    BY <2>1 DEF Stopped, StoppedAtTheGate
  <2>3. \A q \in Requests \ {r} : Ran(q)' => Ran(q)
    BY <1>11, OthersDoNotRun
  <2> QED
    BY <2>1, <2>2, <2>3 DEF Stopped, StoppedAtTheGate
<1>12. CASE Conclude(r)
  <2>1. PICK s \in DOMAIN Closing : Step(r, s)
    BY <1>12 DEF Conclude
  <2> QED
    BY <1>4, <1>12, <2>1 DEF Conclude, Step, flags
<1>13. CASE Finalize(r)
  BY <1>4, <1>13 DEF Finalize, flags
<1> QED
  BY <1>1, <1>2, <1>3, <1>5, <1>6, <1>7, <1>8, <1>9, <1>10, <1>11, <1>12, <1>13
     DEF Proceed, Disturb

LEMMA StepStopped ==
    ASSUME "flag" \notin FailingCalls
    PROVE  TypeOK /\ Stopped /\ [Next]_vars => Stopped'
<1> SUFFICES ASSUME TypeOK, Stopped, [Next]_vars PROVE Stopped'
  OBVIOUS
<1>1. ASSUME UNCHANGED <<pc, executor>>,
             \A r \in Requests : barred'[r] => barred[r] /\ ~writesOn'
      PROVE  Stopped'
  BY <1>1 DEF Stopped, StoppedAtTheGate, Ran, executor
<1>2. ASSUME UNCHANGED <<pc, executor, barred, writesOn>> PROVE Stopped'
  BY <1>1, <1>2 DEF Stopped, StoppedAtTheGate
<1>3. ASSUME NEW t \in Tokens, Issue(t) \/ ExpireRow(t) PROVE Stopped'
  BY <1>2, <1>3 DEF Issue, ExpireRow, flags
<1>4. ASSUME NEW w \in Workers, CacheExpires(w) PROVE Stopped'
  BY <1>2, <1>4 DEF CacheExpires
<1>5. CASE SwitchWrites
  BY <1>1, <1>5 DEF SwitchWrites, TypeOK
<1>6. CASE SwitchShadow
  <2>1. \A r \in Requests : barred'[r] => barred[r]
    BY <1>6 DEF SwitchShadow, TypeOK
  <2> QED
    BY <1>1, <1>6, <2>1 DEF SwitchShadow, Stopped, StoppedAtTheGate
<1>7. CASE Tick \/ UNCHANGED vars
  BY <1>2, <1>7 DEF Tick, vars, flags
<1> QED
  BY RequestsStayStopped, <1>3, <1>4, <1>5, <1>6, <1>7 DEF Next

LEMMA InitStopped == Init => Stopped
  BY DEF Init, Plan!Init, Stopped, StoppedAtTheGate, Ran

\* Unless the switch itself cannot be read, a request that arrives while AI
\* writes are off runs nothing as long as they stay off.
THEOREM SwitchedOff ==
    ASSUME "flag" \notin FailingCalls
    PROVE  Spec => []KillSwitchStops
<1>1. Init => TypeOK /\ Stopped
  BY InitTypeOK, InitStopped
<1>2. (TypeOK /\ Stopped) /\ [Next]_vars => (TypeOK /\ Stopped)'
  BY StepTypeOK, StepStopped
<1>3. Stopped => KillSwitchStops
  BY DEF Stopped, StoppedAtTheGate, KillSwitchStops
<1> QED
  BY <1>1, <1>2, <1>3, PTL DEF Spec
-----------------------------------------------------------------------------
(***************************************************************************)
(* Where the steps of a request lead.                                      *)
(***************************************************************************)
\* Stages in which the executor has not been called.
Fresh == Labels \ ({"execute"} \cup DOMAIN Closing \cup Replies)

\* A request that moves leaves the stages and replies of all others alone.
LEMMA MoveMoves ==
    ASSUME TypeOK, NEW r \in Requests, NEW s, Move(r, s)
    PROVE  pc'[r] = s /\ \A q \in Requests \ {r} : pc'[q] = pc[q]
  BY DEF Move, TypeOK

\* A request moves only itself, and only from a stage.
LEMMA OneMoves ==
    ASSUME TypeOK, NEW r \in Requests, Proceed(r) \/ Disturb(r)
    PROVE  /\ pc[r] \in {"idle"} \cup Stages
           /\ \A q \in Requests \ {r} : pc'[q] = pc[q]
<1> USE Tables DEF Stages, Redeemed
<1>1. ASSUME NEW s, Move(r, s) PROVE \A q \in Requests \ {r} : pc'[q] = pc[q]
  BY <1>1, MoveMoves
<1>2. ASSUME NEW s, Step(r, s) PROVE \A q \in Requests \ {r} : pc'[q] = pc[q]
  BY <1>1, <1>2 DEF Step
<1>3. CASE Peek(r) \/ CheckBudget(r) \/ Charge(r) \/ ChargeTwice(r) \/ Refund(r)
  BY <1>1, <1>3 DEF Peek, CheckBudget, Charge, ChargeTwice, Refund
<1>4. CASE Consume(r) \/ ConsumeUnanswered(r) \/ WriteAhead(r) \/ ReadShadow(r) \/ Finalize(r)
  BY <1>1, <1>4 DEF Consume, ConsumeUnanswered, WriteAhead, ReadShadow, Finalize
<1>5. CASE Reject(r) \/ GateClosed(r) \/ GateUnacked(r) \/ GateOpen(r) \/ Recount(r)
  BY <1>2, <1>5 DEF Reject, GateClosed, GateUnacked, GateOpen, Recount
<1>6. CASE Bind(r) \/ Inspect(r) \/ Authorize(r) \/ Conclude(r) \/ ReadFails(r) \/ Crash(r)
  BY <1>2, <1>6 DEF Bind, Inspect, Authorize, Conclude, ReadFails, Crash
<1>7. CASE Execute(r)
  BY <1>7 DEF Execute
<1> QED
  BY <1>3, <1>4, <1>5, <1>6, <1>7 DEF Proceed, Disturb

LEMMA StagesAreNotReplies == Replies \cap ({"idle"} \cup Stages) = {}
  BY Tables DEF Stages, Redeemed, Replies

\* A request that has its reply keeps it.
LEMMA RepliesAreFinal ==
    ASSUME TypeOK, [Next]_vars, NEW q \in Requests, pc[q] \in Replies
    PROVE  pc'[q] = pc[q]
<1>1. ASSUME NEW r \in Requests, Proceed(r) \/ Disturb(r) PROVE pc'[q] = pc[q]
  BY <1>1, OneMoves, StagesAreNotReplies
<1>2. ASSUME ~ \E r \in Requests : Proceed(r) \/ Disturb(r) PROVE pc' = pc
  BY <1>2 DEF Next, Issue, ExpireRow, CacheExpires, SwitchWrites, SwitchShadow, Tick, vars
<1> QED
  BY <1>1, <1>2
-----------------------------------------------------------------------------
(***************************************************************************)
(* Refusals.                                                               *)
(***************************************************************************)
\* Where a request that has redeemed its token may be.
PastRedemption == Redeemed \cup {"mismatch", "not_found", "forbidden", "ok", "dry_run",
                                 "refused", "internal", "error", "crashed"}

\* Who is past the redemption stays past it.
LEMMA PastStaysPast ==
    ASSUME TypeOK, [Next]_vars, NEW q \in Requests, pc[q] \in PastRedemption
    PROVE  pc'[q] \in PastRedemption
<1> USE Tables DEF PastRedemption, Redeemed
<1>1. CASE pc[q] \in Replies
  BY <1>1, RepliesAreFinal
<1>2. ASSUME ~ \E r \in Requests : Proceed(r) \/ Disturb(r) PROVE pc' = pc
  BY <1>2 DEF Next, Issue, ExpireRow, CacheExpires, SwitchWrites, SwitchShadow, Tick, vars
<1>3. ASSUME NEW r \in Requests \ {q}, Proceed(r) \/ Disturb(r) PROVE pc'[q] = pc[q]
  BY <1>3, OneMoves
<1>4. ASSUME pc[q] \in Redeemed, Proceed(q) \/ Disturb(q) PROVE pc'[q] \in PastRedemption
  <2>1. CASE Bind(q)
    <3>1. \E s \in {"not_found", "undo_mismatch", "authorize"} : Move(q, s)
      BY <2>1 DEF Bind, Step
    <3> QED
      BY <3>1, MoveMoves
  <2>2. CASE Refund(q)
    BY <2>2, <1>4, MoveMoves DEF Refund, Undo
  <2>3. CASE Authorize(q) \/ WriteAhead(q) \/ ReadShadow(q)
    BY <2>3, MoveMoves DEF Authorize, WriteAhead, ReadShadow, Step
  <2>4. CASE Execute(q)
    BY <2>4, <1>4 DEF Execute
  <2>5. CASE Conclude(q) \/ Finalize(q)
    <3>1. \E s \in DOMAIN Closing \cup {"ok", "dry_run", "refused", "internal"} : Move(q, s)
      BY <2>5 DEF Conclude, Finalize, Step
    <3> QED
      BY <3>1, MoveMoves
  <2>6. CASE Disturb(q)
    <3>1. Move(q, "error") \/ Move(q, "crashed")
      BY <2>6, <1>4 DEF Disturb, ChargeTwice, ConsumeUnanswered, ReadFails, Crash, Step
    <3> QED
      BY <3>1, MoveMoves
  <2>7. Bind(q) \/ Refund(q) \/ Authorize(q) \/ WriteAhead(q) \/ ReadShadow(q) \/ Execute(q)
          \/ Conclude(q) \/ Finalize(q) \/ Disturb(q)
    BY <1>4 DEF Proceed, Peek, Reject, GateClosed, GateUnacked, GateOpen, CheckBudget,
                Charge, Recount, Consume, Inspect
  <2> QED
    BY <2>1, <2>2, <2>3, <2>4, <2>5, <2>6, <2>7
<1>5. pc[q] \in Redeemed \cup Replies
  BY DEF Replies
<1> QED
  BY <1>1, <1>2, <1>3, <1>4, <1>5

\* A token is marked used by a request that is past the redemption then.
LEMMA UsedByWhomever ==
    ASSUME TypeOK, [Next]_vars, NEW t \in Tokens, token[t] # "used", token'[t] = "used"
    PROVE  \E r \in Requests : TokenOf[r] = t /\ pc'[r] \in PastRedemption
<1>1. PICK r \in Requests : Proceed(r) \/ Disturb(r)
  BY DEF Next, Issue, ExpireRow, CacheExpires, SwitchWrites, SwitchShadow, Tick, vars,
         redemption, TypeOK
<1>2. Consume(r) \/ ConsumeUnanswered(r)
  <2>1. ASSUME NEW s, Step(r, s) PROVE FALSE
    BY <2>1 DEF Step, redemption
  <2> QED
    BY <1>1, <2>1 DEF Proceed, Disturb, Peek, Reject, GateClosed, GateUnacked, GateOpen,
         CheckBudget, Charge, ChargeTwice, Recount, Refund, Bind, Inspect, Authorize,
         WriteAhead, ReadShadow, Execute, Conclude, Finalize, ReadFails, Crash, redemption
<1>3. token' = [token EXCEPT ![TokenOf[r]] = "used"] /\ (Move(r, "bind") \/ Move(r, "error"))
  BY <1>2 DEF Consume, ConsumeUnanswered
<1>4. TokenOf[r] = t
  BY <1>3 DEF TypeOK
<1> QED
  BY <1>3, <1>4, MoveMoves DEF PastRedemption, Redeemed

\* No refusal burns a token: a used token was marked by a request that got past
\* the switch, the acknowledgement and the budget.
THEOREM RefusalsKeep == Spec => []RefusalsKeepTheToken
<1>1. Init => TypeOK /\ RefusalsKeepTheToken
  BY InitTypeOK DEF Init, RefusalsKeepTheToken
<1>2. (TypeOK /\ RefusalsKeepTheToken) /\ [Next]_vars => (TypeOK /\ RefusalsKeepTheToken)'
  <2> SUFFICES ASSUME TypeOK, RefusalsKeepTheToken, [Next]_vars,
                      NEW t \in Tokens, token'[t] = "used"
               PROVE  \E r \in Requests : TokenOf[r] = t /\ pc'[r] \in PastRedemption
    BY StepTypeOK DEF RefusalsKeepTheToken, PastRedemption
  <2>1. CASE token[t] = "used"
    <3>1. PICK r \in Requests : TokenOf[r] = t /\ pc[r] \in PastRedemption
      BY <2>1 DEF RefusalsKeepTheToken, PastRedemption
    <3> QED
      BY <3>1, PastStaysPast
  <2>2. CASE token[t] # "used"
    BY <2>2, UsedByWhomever
  <2> QED
    BY <2>1, <2>2
<1> QED
  BY <1>1, <1>2, PTL DEF Spec
-----------------------------------------------------------------------------
(***************************************************************************)
(* The audit row.                                                          *)
(***************************************************************************)
\* A request's place tells what the executor has told it.
Answered(r) ==
    /\ Ran(r) \/ dry[r] => pc[r] \notin Fresh
    /\ told[r] = "nothing" => r \notin by[TokenOf[r]]
    /\ told[r] = "done" => by[TokenOf[r]] # {}
    /\ pc[r] \in {"close_ok", "ok"} => told[r] = "done"
    /\ pc[r] \in {"close_dry", "dry_run"} => told[r] = "nothing" /\ dry[r]
    /\ pc[r] \in {"close_refused", "refused"} => told[r] = "nothing"
    /\ pc[r] \in {"close_internal", "internal"} => told[r] = "unknown"

\* A row that is closed was closed by a request that has its reply, and who
\* applied a plan had its token.
Row(t) ==
    /\ audit[t] = "success" => \E r \in Requests : TokenOf[r] = t /\ pc[r] \in {"ok", "dry_run"}
    /\ audit[t] = "failure" /\ t \notin Mute =>
          \E r \in Requests : TokenOf[r] = t /\ pc[r] \in {"refused", "internal"}
    /\ \A q \in by[t] : TokenOf[q] = t

AuditInv == (\A r \in Requests : Answered(r)) /\ (\A t \in Tokens : Row(t))

LEMMA InitAuditInv == Init => AuditInv
<1> SUFFICES ASSUME Init PROVE AuditInv
  OBVIOUS
<1>1. /\ \A r \in Requests : /\ pc[r] = "idle" /\ ~dry[r] /\ told[r] = "waiting"
                             /\ by[TokenOf[r]] = {}
      /\ \A t \in Tokens : by[t] = {} /\ audit[t] = "none"
  BY DEF Init, Plan!Init
<1> QED
  BY <1>1 DEF AuditInv, Answered, Row, Ran

\* What a request has been told stays true when another one runs.
LEMMA ExecuteKeepsAnswers ==
    ASSUME TypeOK, AuditInv, NEW r \in Requests, Execute(r), NEW q \in Requests
    PROVE  Answered(q)'
<1>1. /\ pc[r] = "execute" /\ UNCHANGED <<pc, dry>> /\ told[r] = "waiting"
      /\ TokenOf[r] \in Tokens /\ TokenOf[q] \in Tokens
  BY DEF Execute, Plan!Apply, Plan!Answer
<1>2. "execute" \notin Fresh
  BY DEF Fresh
<1>3. CASE Plan!Apply(r)
  <2>1. /\ by' = [by EXCEPT ![TokenOf[r]] = {r}] /\ by[TokenOf[r]] = {}
        /\ told'[r] \in {"waiting", "done", "unknown"}
        /\ \A p \in Requests \ {r} : told'[p] = told[p]
    BY <1>3 DEF Plan!Apply, TypeOK
  <2>2. by'[TokenOf[r]] = {r} /\ \A t \in Tokens \ {TokenOf[r]} : by'[t] = by[t]
    BY <2>1, <1>1 DEF TypeOK
  <2>3. CASE q = r
    BY <1>1, <1>2, <2>1, <2>2, <2>3 DEF Answered, AuditInv
  <2>4. CASE q # r
    BY <1>1, <2>1, <2>2, <2>4 DEF Answered, AuditInv, Ran
  <2> QED
    BY <2>3, <2>4
<1>4. CASE \E a \in Plan!Answers : Plan!Answer(r, a)
  <2>1. PICK a \in Plan!Answers : /\ told' = [told EXCEPT ![r] = a] /\ UNCHANGED by
                                  /\ a = "done" => by[TokenOf[r]] # {}
                                  /\ a = "nothing" => r \notin by[TokenOf[r]]
    BY <1>4 DEF Plan!Answer
  <2>2. told'[r] = a /\ \A p \in Requests \ {r} : told'[p] = told[p]
    BY <2>1 DEF TypeOK
  <2>3. CASE q = r
    BY <1>1, <1>2, <2>1, <2>2, <2>3 DEF Answered, AuditInv
  <2>4. CASE q # r
    BY <1>1, <2>1, <2>2, <2>4 DEF Answered, AuditInv, Ran
  <2> QED
    BY <2>3, <2>4
<1> QED
  BY <1>3, <1>4 DEF Execute

\* The replies and stages that follow an answer of the executor.
AfterAnswer == DOMAIN Closing \cup {"ok", "dry_run", "refused", "internal"}

\* Which are reached from one another only.
LEMMA FreshStaysFresh ==
    ASSUME TypeOK, NEW r \in Requests, Proceed(r) \/ Disturb(r),
           ~Execute(r), ~ReadShadow(r), ~Conclude(r), ~Finalize(r)
    PROVE  /\ UNCHANGED <<by, told, dry>>
           /\ pc'[r] \notin AfterAnswer
           /\ pc[r] \in Fresh \/ pc'[r] \in Replies
<1> USE Tables DEF Stages, Redeemed, Replies, AfterAnswer, Labels, Fresh
<1>1. ASSUME NEW s, Step(r, s), s \notin AfterAnswer
      PROVE  UNCHANGED <<by, told, dry>> /\ pc'[r] = s
  BY <1>1, MoveMoves DEF Step, executor
<1>2. CASE Peek(r) \/ CheckBudget(r) \/ Charge(r) \/ ChargeTwice(r)
  <2>1. PICK s \in {"gate", "reject", "rate_limited", "charge", "consume", "recount"} : Move(r, s)
    BY <1>2 DEF Peek, CheckBudget, Charge, ChargeTwice
  <2>2. pc[r] \in {"idle", "precheck", "charge"} /\ UNCHANGED <<by, told, dry>>
    BY <1>2 DEF Peek, CheckBudget, Charge, ChargeTwice, executor
  <2> QED
    BY <2>1, <2>2, MoveMoves
<1>3. CASE Refund(r)
  <2>1. Undo[pc[r]] \in {"used", "expired", "mismatch"} /\ Move(r, Undo[pc[r]])
    BY <1>3 DEF Refund
  <2> QED
    BY <1>3, <2>1, MoveMoves DEF Refund, executor
<1>4. CASE Consume(r) \/ ConsumeUnanswered(r) \/ WriteAhead(r)
  <2>1. PICK s \in {"bind", "inspect", "error", "shadow"} : Move(r, s)
    BY <1>4 DEF Consume, ConsumeUnanswered, WriteAhead
  <2>2. pc[r] \in {"consume", "audit"} /\ UNCHANGED <<by, told, dry>>
    BY <1>4 DEF Consume, ConsumeUnanswered, WriteAhead, executor
  <2> QED
    BY <2>1, <2>2, MoveMoves
<1>5. CASE Reject(r) \/ Inspect(r)
  <2>1. PICK s \in {"not_found", "used", "foreign", "expired", "undo_used", "undo_expired"} :
            Step(r, s)
    BY <1>5 DEF Reject, Inspect, Verdict
  <2>2. pc[r] \in {"reject", "inspect"}
    BY <1>5 DEF Reject, Inspect
  <2> QED
    BY <1>1, <2>1, <2>2
<1>6. CASE GateClosed(r) \/ GateUnacked(r) \/ GateOpen(r) \/ Recount(r) \/ Authorize(r)
  <2>1. PICK s \in {"disabled", "needs_ack", "precheck", "consume", "rate_limited", "audit",
                    "forbidden"} : Step(r, s)
    BY <1>6 DEF GateClosed, GateUnacked, GateOpen, Recount, Authorize
  <2>2. pc[r] \in {"gate", "recount", "authorize"}
    BY <1>6 DEF GateClosed, GateUnacked, GateOpen, Recount, Authorize
  <2> QED
    BY <1>1, <2>1, <2>2
<1>7. CASE Bind(r)
  <2>1. PICK s \in {"not_found", "undo_mismatch", "authorize"} : Step(r, s)
    BY <1>7 DEF Bind
  <2> QED
    BY <1>1, <1>7, <2>1 DEF Bind
<1>8. CASE ReadFails(r) \/ Crash(r)
  <2>1. PICK s \in {"error", "crashed"} : Step(r, s)
    BY <1>8 DEF ReadFails, Crash
  <2> QED
    BY <1>1, <2>1
<1> QED
  BY <1>2, <1>3, <1>4, <1>5, <1>6, <1>7, <1>8 DEF Proceed, Disturb

LEMMA RequestsStayAnswered ==
    ASSUME TypeOK, AuditInv, NEW r \in Requests, Proceed(r) \/ Disturb(r), NEW q \in Requests
    PROVE  Answered(q)'
<1> USE Tables
<1>a. Answered(q) /\ Answered(r)
  BY DEF AuditInv
<1>1. CASE Execute(r)
  BY <1>1, ExecuteKeepsAnswers
<1>2. ASSUME UNCHANGED <<by, told>>, dry'[q] = dry[q], pc'[q] = pc[q] PROVE Answered(q)'
  BY <1>2, <1>a DEF Answered, Ran
<1>3. CASE ReadShadow(r)
  <2>1. UNCHANGED <<by, told>> /\ pc'[r] = "execute"
    BY <1>3, MoveMoves DEF ReadShadow, executor
  <2>2. CASE q = r
    BY <2>1, <2>2, <1>a DEF Answered, Fresh
  <2>3. CASE q # r
    <3>1. dry'[q] = dry[q] /\ pc'[q] = pc[q]
      BY <1>3, <2>3, OneMoves DEF ReadShadow, TypeOK
    <3> QED
      BY <1>2, <2>1, <3>1
  <2> QED
    BY <2>2, <2>3
<1>4. CASE Conclude(r) \/ Finalize(r)
  <2>1. UNCHANGED <<by, told, dry>>
    BY <1>4 DEF Conclude, Finalize, Step, executor
  <2>2. CASE q # r
    BY <1>2, <2>1, <2>2, OneMoves
  <2>3. CASE q = r /\ Conclude(r)
    <3>1. \/ told[r] = "done" /\ pc'[r] = "close_ok"
          \/ told[r] = "nothing" /\ dry[r] /\ pc'[r] = "close_dry"
          \/ told[r] = "nothing" /\ pc'[r] = "close_refused"
          \/ told[r] = "unknown" /\ pc'[r] = "close_internal"
      BY <2>3, MoveMoves DEF Conclude, Step
    <3> QED
      BY <2>1, <2>3, <3>1, <1>a DEF Answered, Fresh, Ran
  <2>4. CASE q = r /\ Finalize(r)
    <3>1. pc[r] \in DOMAIN Closing /\ pc'[r] = Closing[pc[r]]
      BY <2>4, MoveMoves DEF Finalize
    <3>2. \/ pc[r] = "close_ok" /\ pc'[r] = "ok"
          \/ pc[r] = "close_dry" /\ pc'[r] = "dry_run"
          \/ pc[r] = "close_refused" /\ pc'[r] = "refused"
          \/ pc[r] = "close_internal" /\ pc'[r] = "internal"
      BY <3>1 DEF Closing
    <3> QED
      BY <2>1, <2>4, <3>2, <1>a DEF Answered, Fresh, Ran, Replies
  <2> QED
    BY <1>4, <2>2, <2>3, <2>4
<1>5. CASE ~Execute(r) /\ ~ReadShadow(r) /\ ~Conclude(r) /\ ~Finalize(r)
  <2>1. /\ UNCHANGED <<by, told, dry>>
        /\ pc'[r] \notin AfterAnswer
        /\ pc[r] \in Fresh \/ pc'[r] \in Replies
    BY <1>5, FreshStaysFresh
  <2>2. CASE q = r
    BY <2>1, <2>2, <1>a DEF Answered, Ran, AfterAnswer, Fresh
  <2>3. CASE q # r
    BY <1>2, <2>1, <2>3, OneMoves
  <2> QED
    BY <2>2, <2>3
<1> QED
  BY <1>1, <1>3, <1>4, <1>5

\* A row changes while its request is on the way, and by it.
LEMMA RowsStayTrue ==
    ASSUME TypeOK, AuditInv, [Next]_vars, NEW t \in Tokens
    PROVE  Row(t)'
<1> USE Tables
<1>1. \A q \in Requests : pc[q] \in {"ok", "dry_run", "refused", "internal"} => pc'[q] = pc[q]
  BY RepliesAreFinal DEF Replies
<1>2. Row(t)
  BY DEF AuditInv
<1>3. \A q \in by'[t] : TokenOf[q] = t
  <2>1. CASE UNCHANGED by
    BY <1>2, <2>1 DEF Row
  <2>2. ASSUME NEW r \in Requests, Plan!Apply(r) PROVE \A q \in by'[t] : TokenOf[q] = t
    BY <1>2, <2>2 DEF Plan!Apply, Row, TypeOK
  <2>3. ASSUME NEW r \in Requests, Execute(r) PROVE \A q \in by'[t] : TokenOf[q] = t
    BY <2>1, <2>2, <2>3 DEF Execute, Plan!Answer
  <2>4. ASSUME NEW r \in Requests, Proceed(r) \/ Disturb(r), ~Execute(r) PROVE UNCHANGED by
    <3>1. CASE ReadShadow(r) \/ Conclude(r) \/ Finalize(r)
      BY <3>1 DEF ReadShadow, Conclude, Finalize, Step, executor
    <3> QED
      BY <2>4, <3>1, FreshStaysFresh
  <2>5. ASSUME ~ \E r \in Requests : Proceed(r) \/ Disturb(r) PROVE UNCHANGED by
    BY <2>5 DEF Next, Issue, ExpireRow, CacheExpires, SwitchWrites, SwitchShadow, Tick, vars,
                executor
  <2> QED
    BY <2>1, <2>3, <2>4, <2>5
<1>4. CASE audit'[t] = audit[t] \/ audit'[t] \in {"none", "pending"}
  BY <1>1, <1>2, <1>3, <1>4 DEF Row
<1>5. ASSUME NEW r \in Requests, Finalize(r), audit'[t] # audit[t]
      PROVE  Row(t)'
  <2>1. PICK o \in Outcome(r) :
             audit' = [audit EXCEPT ![TokenOf[r]] = IF @ = "none" THEN @ ELSE o]
    BY <1>5 DEF Finalize
  <2>2. TokenOf[r] = t /\ audit'[t] = o
    BY <1>5, <2>1 DEF TypeOK
  <2>3. pc[r] \in DOMAIN Closing /\ pc'[r] = Closing[pc[r]]
    BY <1>5, MoveMoves DEF Finalize
  <2>4. \/ pc[r] \in {"close_ok", "close_dry"} /\ pc'[r] \in {"ok", "dry_run"}
        \/ pc[r] \in {"close_refused", "close_internal"} /\ pc'[r] \in {"refused", "internal"}
    BY <2>3 DEF Closing
  <2> QED
    BY <1>3, <2>2, <2>4 DEF Row, Outcome
<1>6. ASSUME NEW r \in Requests, WriteAhead(r) PROVE audit'[t] = audit[t] \/ audit'[t] = "pending"
  BY <1>6 DEF WriteAhead, TypeOK
<1>7. ASSUME NEW r \in Requests, Proceed(r) \/ Disturb(r), ~WriteAhead(r), ~Finalize(r)
      PROVE  UNCHANGED audit
  <2>1. ASSUME NEW s, Step(r, s) PROVE UNCHANGED audit
    BY <2>1 DEF Step
  <2> QED
    BY <1>7, <2>1 DEF Proceed, Disturb, Peek, Reject, GateClosed, GateUnacked, GateOpen,
       CheckBudget, Charge, ChargeTwice, Recount, Refund, Consume, ConsumeUnanswered, Bind,
       Inspect, Authorize, ReadShadow, Execute, Conclude, ReadFails, Crash
<1>8. ASSUME ~ \E r \in Requests : Proceed(r) \/ Disturb(r) PROVE UNCHANGED audit
  BY <1>8 DEF Next, Issue, ExpireRow, CacheExpires, SwitchWrites, SwitchShadow, Tick, vars
<1> QED
  BY <1>4, <1>5, <1>6, <1>7, <1>8

LEMMA StepAuditInv == TypeOK /\ AuditInv /\ [Next]_vars => AuditInv'
<1> SUFFICES ASSUME TypeOK, AuditInv, [Next]_vars PROVE AuditInv'
  OBVIOUS
<1>1. ASSUME NEW q \in Requests PROVE Answered(q)'
  <2>1. ASSUME ~ \E r \in Requests : Proceed(r) \/ Disturb(r)
        PROVE  UNCHANGED <<pc, dry, by, told>>
    BY <2>1 DEF Next, Issue, ExpireRow, CacheExpires, SwitchWrites, SwitchShadow, Tick, vars,
                executor
  <2>2. CASE UNCHANGED <<pc, dry, by, told>>
    BY <2>2 DEF AuditInv, Answered, Ran
  <2> QED
    BY <2>1, <2>2, RequestsStayAnswered
<1> QED
  BY <1>1, RowsStayTrue DEF AuditInv

\* Row, reply and effect are of one request, since one request runs.
LEMMA AuditFollows == TypeOK /\ AuditInv /\ OneRunPerToken => AuditIsTrue
<1> SUFFICES ASSUME TypeOK, AuditInv, OneRunPerToken, NEW r \in Requests
             PROVE  LET t == TokenOf[r] IN
                    /\ audit[t] = "success" => \/ by[t] # {}
                                              \/ \E q \in Requests : TokenOf[q] = t /\ dry[q]
                    /\ audit[t] = "failure" => \/ by[t] = {} \/ t \in Mute
                                              \/ \E q \in by[t] : told[q] = "unknown"
                    /\ pc[r] = "ok" => by[t] # {} /\ (audit[t] # "failure" \/ t \in Mute)
                    /\ pc[r] \in {"refused", "dry_run"} => r \notin by[t]
                    /\ pc[r] \in {"refused", "internal"} => audit[t] # "success"
  BY DEF AuditIsTrue
<1> DEFINE t == TokenOf[r]
<1>1. t \in Tokens /\ Row(t) /\ \A q \in Requests : Answered(q)
  BY DEF AuditInv
<1>2. \A p, q \in Requests : TokenOf[p] = TokenOf[q] /\ Ran(p) /\ Ran(q) => p = q
  BY DEF OneRunPerToken, HasRedeemed
<1>3. \A q \in Requests : pc[q] \in {"ok", "dry_run", "refused", "internal"} => Ran(q)
  BY <1>1 DEF Answered, Ran
<1>4. audit[t] = "success" => by[t] # {} \/ \E q \in Requests : TokenOf[q] = t /\ dry[q]
  <2> SUFFICES ASSUME audit[t] = "success"
               PROVE  by[t] # {} \/ \E q \in Requests : TokenOf[q] = t /\ dry[q]
    OBVIOUS
  <2>1. PICK p \in Requests : TokenOf[p] = t /\ pc[p] \in {"ok", "dry_run"}
    BY <1>1 DEF Row
  <2> QED
    BY <2>1, <1>1 DEF Answered
<1>5. audit[t] = "failure" => by[t] = {} \/ t \in Mute \/ \E q \in by[t] : told[q] = "unknown"
  <2> SUFFICES ASSUME audit[t] = "failure", t \notin Mute, NEW q \in by[t]
               PROVE  told[q] = "unknown"
    OBVIOUS
  <2>1. PICK p \in Requests : TokenOf[p] = t /\ pc[p] \in {"refused", "internal"}
    BY <1>1 DEF Row
  <2>2. q \in Requests /\ TokenOf[q] = t
    BY <1>1 DEF Row, TypeOK
  <2>3. q = p
    BY <1>2, <1>3, <2>1, <2>2 DEF Ran
  <2> QED
    BY <1>1, <2>1, <2>2, <2>3 DEF Answered
<1>6. pc[r] = "ok" => by[t] # {} /\ (audit[t] # "failure" \/ t \in Mute)
  <2> SUFFICES ASSUME pc[r] = "ok" PROVE by[t] # {} /\ (audit[t] # "failure" \/ t \in Mute)
    OBVIOUS
  <2>1. by[t] # {}
    BY <1>1 DEF Answered
  <2>2. \A p \in Requests : TokenOf[p] = t /\ pc[p] \in {"refused", "internal"} => FALSE
    BY <1>2, <1>3
  <2> QED
    BY <1>1, <2>1, <2>2 DEF Row
<1>7. pc[r] \in {"refused", "dry_run"} => r \notin by[t]
  BY <1>1 DEF Answered
<1>8. pc[r] \in {"refused", "internal"} => audit[t] # "success"
  <2> SUFFICES ASSUME pc[r] \in {"refused", "internal"} PROVE audit[t] # "success"
    OBVIOUS
  <2>2. \A p \in Requests : TokenOf[p] = t /\ pc[p] \in {"ok", "dry_run"} => FALSE
    BY <1>2, <1>3
  <2> QED
    BY <1>1, <2>2 DEF Row
<1> QED
  BY <1>4, <1>5, <1>6, <1>7, <1>8

\* The audit row, the reply and the effect of a dispatch agree, whatever
\* fails: the row that is closed is that of the one request that ran.
THEOREM AuditTrue == Spec => []AuditIsTrue
<1> DEFINE Inv == TypeOK /\ GateInv /\ AuditInv
<1>1. Init => Inv
  BY InitTypeOK, InitGateInv, InitAuditInv
<1>2. Inv /\ [Next]_vars => Inv'
  BY StepTypeOK, StepGateInv, StepAuditInv
<1>3. Inv => AuditIsTrue
  BY AuditFollows DEF GateInv
<1> QED
  BY <1>1, <1>2, <1>3, PTL DEF Spec
-----------------------------------------------------------------------------
(***************************************************************************)
(* How far a request has to go.  No refusal, refund, repeated increment or *)
(* failure leads back to an earlier stage: a request makes at most         *)
(* fourteen steps, the executor's two among them.                          *)
(***************************************************************************)
StageRank(stage) ==
    CASE stage = "idle" -> 14
      [] stage = "gate" -> 13
      [] stage = "precheck" -> 12
      [] stage = "charge" -> 11
      [] stage = "recount" -> 10
      [] stage = "consume" -> 9
      [] stage = "bind" -> 8
      [] stage = "authorize" -> 7
      [] stage = "audit" -> 6
      [] stage = "shadow" -> 5
      [] stage = "inspect" -> 2
      [] stage \in {"reject"} \cup DOMAIN Undo \cup DOMAIN Closing -> 1
      [] OTHER -> 0

\* At the executor: the plan to apply, the answer to give, the reply.
Rest(p, t, b, r) ==
    IF p[r] # "execute" THEN StageRank(p[r])
    ELSE IF t[r] # "waiting" THEN 2
    ELSE IF r \in b[TokenOf[r]] THEN 3 ELSE 4
Left(r) == Rest(pc, told, by, r)

AnsweredWithin ==
    \A r \in Requests : Left(r) \in 0 .. 14 /\ (Left(r) = 0 <=> pc[r] \in Replies)

RequestsShorten ==
    [][/\ \A r \in Requests : Left(r)' <= Left(r)
       /\ \/ \E r \in Requests : Left(r)' < Left(r)
          \/ UNCHANGED <<count, pc, bucket, dry, audit, executor>>]_vars

LEMMA StageRanks ==
    /\ StageRank("idle") = 14 /\ StageRank("gate") = 13 /\ StageRank("precheck") = 12
    /\ StageRank("charge") = 11 /\ StageRank("recount") = 10 /\ StageRank("consume") = 9
    /\ StageRank("bind") = 8 /\ StageRank("authorize") = 7 /\ StageRank("audit") = 6
    /\ StageRank("shadow") = 5 /\ StageRank("inspect") = 2 /\ StageRank("reject") = 1
    /\ \A s \in DOMAIN Undo \cup DOMAIN Closing : StageRank(s) = 1
    /\ \A s \in Replies : StageRank(s) = 0
<1>1. /\ StageRank("idle") = 14 /\ StageRank("gate") = 13 /\ StageRank("precheck") = 12
      /\ StageRank("charge") = 11 /\ StageRank("recount") = 10 /\ StageRank("consume") = 9
      /\ StageRank("bind") = 8 /\ StageRank("authorize") = 7 /\ StageRank("audit") = 6
      /\ StageRank("shadow") = 5 /\ StageRank("inspect") = 2
  BY Tables DEF StageRank
<1>2. \A s \in {"reject"} \cup DOMAIN Undo \cup DOMAIN Closing : StageRank(s) = 1
  BY Tables DEF StageRank
<1>3. \A s \in Replies : StageRank(s) = 0
  BY Tables DEF StageRank, Replies
<1> QED
  BY <1>1, <1>2, <1>3

LEMMA RestBounded ==
    ASSUME TypeOK, NEW r \in Requests
    PROVE  /\ Rest(pc, told, by, r) \in 0 .. 14
           /\ Rest(pc, told, by, r) = 0 <=> pc[r] \in Replies
<1>1. CASE pc[r] = "execute"
  BY <1>1, StagesAreNotReplies DEF Rest, Stages, Redeemed
<1>2. CASE pc[r] \in Replies
  <2>1. pc[r] # "execute"
    BY <1>2 DEF Replies
  <2> QED
    BY <1>2, <2>1, StageRanks DEF Rest
<1>3. CASE pc[r] \in ({"idle"} \cup Stages) \ {"execute"}
  <2>1. pc[r] \notin Replies
    BY <1>3, StagesAreNotReplies
  <2>2. \/ pc[r] \in {"idle", "reject", "gate", "precheck", "charge", "recount", "consume",
                    "inspect", "bind", "authorize", "audit", "shadow"}
        \/ pc[r] \in DOMAIN Undo \cup DOMAIN Closing
    BY <1>3, Tables DEF Stages, Redeemed
  <2>3. StageRank(pc[r]) \in {14, 13, 12, 11, 10, 9, 8, 7, 6, 5, 2, 1}
    BY <2>2, StageRanks
  <2> QED
    BY <1>3, <2>1, <2>3 DEF Rest
<1> QED
  BY <1>1, <1>2, <1>3 DEF TypeOK

\* A request that moves on, but not to or from the executor.
LEMMA MovingShortens ==
    ASSUME TypeOK, NEW r \in Requests, NEW s, Move(r, s),
           pc[r] # "execute", s # "execute", StageRank(s) < StageRank(pc[r])
    PROVE  Rest(pc', told', by', r) < Rest(pc, told, by, r)
  BY MoveMoves DEF Rest

\* A request gets its reply.
LEMMA ReplyingShortens ==
    ASSUME TypeOK, NEW r \in Requests, NEW s \in Replies, Move(r, s), pc[r] \notin Replies
    PROVE  Rest(pc', told', by', r) < Rest(pc, told, by, r)
<1>1. Rest(pc, told, by, r) \in 1 .. 14
  BY RestBounded
<1>2. pc'[r] = s /\ s # "execute"
  BY MoveMoves DEF Replies
<1>3. Rest(pc', told', by', r) = 0
  BY <1>2, StageRanks DEF Rest
<1> QED
  BY <1>1, <1>3

LEMMA EarlyShortens ==
    ASSUME TypeOK, NEW r \in Requests,
           \/ Peek(r) \/ Reject(r) \/ GateClosed(r) \/ GateUnacked(r) \/ GateOpen(r)
           \/ CheckBudget(r) \/ Charge(r) \/ ChargeTwice(r) \/ Recount(r) \/ Refund(r)
    PROVE  Rest(pc', told', by', r) < Rest(pc, told, by, r)
<1>1. CASE Peek(r)
  <2>1. PICK s \in {"gate", "reject"} : Move(r, s)
    BY <1>1 DEF Peek
  <2>2. StageRank(s) \in {13, 1} /\ s # "execute" /\ StageRank("idle") = 14
    BY <2>1, StageRanks
  <2>3. pc[r] = "idle"
    BY <1>1 DEF Peek
  <2> QED
    BY <2>1, <2>2, <2>3, MovingShortens
<1>2. CASE Reject(r) \/ GateClosed(r) \/ GateUnacked(r)
  <2>1. PICK s \in {"not_found", "used", "foreign", "expired", "disabled", "needs_ack"} : Move(r, s)
    BY <1>2 DEF Reject, GateClosed, GateUnacked, Verdict, Step
  <2> QED
    BY <1>2, <2>1, ReplyingShortens DEF Reject, GateClosed, GateUnacked, Replies
<1>3. CASE GateOpen(r)
  <2>1. pc[r] = "gate" /\ Move(r, "precheck")
    BY <1>3 DEF GateOpen, Step
  <2>2. StageRank("gate") = 13 /\ StageRank("precheck") = 12
    BY StageRanks
  <2>3. pc[r] # "execute" /\ StageRank("precheck") < StageRank(pc[r])
    BY <2>1, <2>2
  <2> QED
    BY <2>1, <2>3, MovingShortens
<1>4. CASE CheckBudget(r)
  <2>1. PICK s \in {"rate_limited", "charge"} : Move(r, s)
    BY <1>4 DEF CheckBudget
  <2>2. StageRank(s) \in {0, 11} /\ s # "execute" /\ StageRank("precheck") = 12
    BY <2>1, StageRanks DEF Replies
  <2> QED
    BY <1>4, <2>1, <2>2, MovingShortens DEF CheckBudget
<1>5. CASE Charge(r) \/ ChargeTwice(r)
  <2>1. PICK s \in {"rate_limited", "consume", "recount"} : Move(r, s)
    BY <1>5 DEF Charge, ChargeTwice
  <2>2. StageRank(s) \in {0, 9, 10} /\ s # "execute" /\ StageRank("charge") = 11
    BY <2>1, StageRanks DEF Replies
  <2> QED
    BY <1>5, <2>1, <2>2, MovingShortens DEF Charge, ChargeTwice
<1>6. CASE Recount(r)
  <2>1. PICK s \in {"rate_limited", "consume"} : Move(r, s)
    BY <1>6 DEF Recount, Step
  <2>2. StageRank(s) \in {0, 9} /\ s # "execute" /\ StageRank("recount") = 10
    BY <2>1, StageRanks DEF Replies
  <2> QED
    BY <1>6, <2>1, <2>2, MovingShortens DEF Recount
<1>7. CASE Refund(r)
  <2>1. PICK s \in {"used", "expired", "mismatch"} : Move(r, s)
    BY <1>7, Tables DEF Refund
  <2>2. pc[r] \notin Replies
    BY <1>7, Tables DEF Refund, Replies
  <2> QED
    BY <2>1, <2>2, ReplyingShortens DEF Replies
<1> QED
  BY <1>1, <1>2, <1>3, <1>4, <1>5, <1>6, <1>7

LEMMA LateShortens ==
    ASSUME TypeOK, NEW r \in Requests,
           \/ Consume(r) \/ ConsumeUnanswered(r) \/ Bind(r) \/ Inspect(r) \/ Authorize(r)
           \/ WriteAhead(r) \/ ReadShadow(r) \/ Conclude(r) \/ Finalize(r)
           \/ ReadFails(r) \/ Crash(r)
    PROVE  Rest(pc', told', by', r) < Rest(pc, told, by, r)
<1>1. CASE Consume(r) \/ ConsumeUnanswered(r)
  <2>1. PICK s \in {"bind", "inspect", "error"} : Move(r, s)
    BY <1>1 DEF Consume, ConsumeUnanswered
  <2>2. StageRank(s) \in {8, 2, 0} /\ s # "execute" /\ StageRank("consume") = 9
    BY <2>1, StageRanks DEF Replies
  <2> QED
    BY <1>1, <2>1, <2>2, MovingShortens DEF Consume, ConsumeUnanswered
<1>2. CASE Bind(r)
  <2>1. PICK s \in {"not_found", "undo_mismatch", "authorize"} : Move(r, s)
    BY <1>2 DEF Bind, Step
  <2>2. StageRank(s) \in {0, 1, 7} /\ s # "execute" /\ StageRank("bind") = 8
    BY <2>1, StageRanks, Tables DEF Replies
  <2> QED
    BY <1>2, <2>1, <2>2, MovingShortens DEF Bind
<1>3. CASE Inspect(r)
  <2>1. PICK s \in {"not_found", "foreign", "undo_used", "undo_expired"} : Move(r, s)
    BY <1>3 DEF Inspect, Step, Verdict
  <2>2. StageRank(s) \in {0, 1} /\ s # "execute" /\ StageRank("inspect") = 2
    BY <2>1, StageRanks, Tables DEF Replies
  <2> QED
    BY <1>3, <2>1, <2>2, MovingShortens DEF Inspect
<1>4. CASE Authorize(r) \/ WriteAhead(r)
  <2>1. \/ pc[r] = "authorize" /\ \E s \in {"audit", "forbidden"} : Move(r, s)
        \/ pc[r] = "audit" /\ Move(r, "shadow")
    BY <1>4 DEF Authorize, WriteAhead, Step
  <2>2. /\ StageRank("authorize") = 7 /\ StageRank("audit") = 6 /\ StageRank("shadow") = 5
        /\ StageRank("forbidden") = 0
    BY StageRanks DEF Replies
  <2>3. CASE pc[r] = "authorize" /\ \E s \in {"audit", "forbidden"} : Move(r, s)
    <3>1. PICK s \in {"audit", "forbidden"} : Move(r, s)
      BY <2>3
    <3>2. s # "execute" /\ StageRank(s) < StageRank(pc[r])
      BY <2>2, <2>3, <3>1
    <3> QED
      BY <2>3, <3>1, <3>2, MovingShortens
  <2>4. CASE pc[r] = "audit" /\ Move(r, "shadow")
    BY <2>2, <2>4, MovingShortens
  <2> QED
    BY <2>1, <2>3, <2>4
<1>5. CASE ReadShadow(r)
  <2>1. pc[r] = "shadow" /\ pc'[r] = "execute"
    BY <1>5, MoveMoves DEF ReadShadow
  <2>2. Rest(pc, told, by, r) = 5
    BY <2>1, StageRanks DEF Rest
  <2>3. Rest(pc', told', by', r) \in {2, 3, 4}
    BY <2>1 DEF Rest
  <2> QED
    BY <2>2, <2>3
<1>6. CASE Conclude(r)
  <2>1. PICK s \in DOMAIN Closing : Move(r, s)
    BY <1>6, Tables DEF Conclude, Step
  <2>2. pc'[r] = s /\ s # "execute" /\ StageRank(s) = 1
    BY <2>1, MoveMoves, StageRanks, Tables
  <2>3. Rest(pc', told', by', r) = 1 /\ Rest(pc, told, by, r) \in {2, 3, 4}
    BY <1>6, <2>2 DEF Rest, Conclude
  <2> QED
    BY <2>3
<1>7. CASE Finalize(r)
  <2>1. PICK s \in {"ok", "dry_run", "refused", "internal"} : Move(r, s)
    BY <1>7, Tables DEF Finalize
  <2>2. pc[r] \notin Replies
    BY <1>7, Tables DEF Finalize, Replies
  <2> QED
    BY <2>1, <2>2, ReplyingShortens DEF Replies
<1>8. CASE ReadFails(r) \/ Crash(r)
  <2>1. PICK s \in {"error", "crashed"} : Move(r, s)
    BY <1>8 DEF ReadFails, Crash, Step
  <2>2. pc[r] \notin Replies
    BY <1>8, StagesAreNotReplies DEF ReadFails, Crash, Replies
  <2> QED
    BY <2>1, <2>2, ReplyingShortens DEF Replies
<1> QED
  BY <1>1, <1>2, <1>3, <1>4, <1>5, <1>6, <1>7, <1>8

\* The executor applies the plan once and answers once.
LEMMA ExecuteShortens ==
    ASSUME TypeOK, NEW r \in Requests, Execute(r)
    PROVE  /\ Rest(pc', told', by', r) < Rest(pc, told, by, r)
           /\ \A q \in Requests \ {r} : Rest(pc', told', by', q) = Rest(pc, told, by, q)
<1>1. pc[r] = "execute" /\ UNCHANGED pc /\ told[r] = "waiting" /\ TokenOf[r] \in Tokens
  BY DEF Execute, Plan!Apply, Plan!Answer
<1>2. CASE Plan!Apply(r)
  <2>1. /\ by' = [by EXCEPT ![TokenOf[r]] = {r}] /\ by[TokenOf[r]] = {}
        /\ \A q \in Requests \ {r} : told'[q] = told[q]
    BY <1>2 DEF Plan!Apply, TypeOK
  <2>2. by'[TokenOf[r]] = {r} /\ \A q \in Requests \ {r} : q \in by'[TokenOf[q]] <=> q \in by[TokenOf[q]]
    BY <1>1, <2>1 DEF TypeOK
  <2>3. Rest(pc, told, by, r) = 4 /\ Rest(pc', told', by', r) \in {2, 3}
    BY <1>1, <2>1, <2>2 DEF Rest
  <2>4. \A q \in Requests \ {r} : Rest(pc', told', by', q) = Rest(pc, told, by, q)
    BY <1>1, <2>1, <2>2 DEF Rest
  <2> QED
    BY <2>3, <2>4
<1>3. CASE \E a \in Plan!Answers : Plan!Answer(r, a)
  <2>1. /\ told'[r] \in Plan!Answers /\ UNCHANGED by
        /\ \A q \in Requests \ {r} : told'[q] = told[q]
    BY <1>3 DEF Plan!Answer, TypeOK
  <2>2. told'[r] # "waiting"
    BY <2>1 DEF Plan!Answers
  <2>3. Rest(pc, told, by, r) \in {3, 4} /\ Rest(pc', told', by', r) = 2
    BY <1>1, <2>2 DEF Rest
  <2>4. \A q \in Requests \ {r} : Rest(pc', told', by', q) = Rest(pc, told, by, q)
    BY <1>1, <2>1 DEF Rest
  <2> QED
    BY <2>3, <2>4
<1> QED
  BY <1>2, <1>3 DEF Execute

LEMMA RequestShortens ==
    ASSUME TypeOK, NEW r \in Requests, Proceed(r) \/ Disturb(r)
    PROVE  /\ Rest(pc', told', by', r) < Rest(pc, told, by, r)
           /\ \A q \in Requests \ {r} : Rest(pc', told', by', q) = Rest(pc, told, by, q)
<1>1. CASE Execute(r)
  BY <1>1, ExecuteShortens
<1>2. CASE ~Execute(r)
  <2>1. Rest(pc', told', by', r) < Rest(pc, told, by, r)
    BY <1>2, EarlyShortens, LateShortens DEF Proceed, Disturb
  <2>2. UNCHANGED <<by, told>>
    BY <1>2 DEF Proceed, Disturb, Peek, Reject, GateClosed, GateUnacked, GateOpen, CheckBudget,
       Charge, ChargeTwice, Recount, Refund, Consume, ConsumeUnanswered, Bind, Inspect,
       Authorize, WriteAhead, ReadShadow, Conclude, Finalize, ReadFails, Crash, Step, executor
  <2>3. \A q \in Requests \ {r} : pc'[q] = pc[q]
    BY OneMoves
  <2> QED
    BY <2>1, <2>2, <2>3 DEF Rest
<1> QED
  BY <1>1, <1>2

\* Every request has a bound on the steps it still makes, each step of it lowers
\* that bound, and no other request, operator or clock raises it.
THEOREM RequestsAreBounded == Spec => []AnsweredWithin /\ RequestsShorten
<1>1. TypeOK => AnsweredWithin /\ \A r \in Requests : Rest(pc, told, by, r) \in Nat
  <2> SUFFICES ASSUME TypeOK
               PROVE  AnsweredWithin /\ \A r \in Requests : Rest(pc, told, by, r) \in Nat
    OBVIOUS
  <2>1. \A r \in Requests : /\ Rest(pc, told, by, r) \in 0 .. 14
                            /\ Rest(pc, told, by, r) = 0 <=> pc[r] \in Replies
    BY RestBounded
  <2>2. \A n \in 0 .. 14 : n \in Nat
    OBVIOUS
  <2> QED
    BY <2>1, <2>2, Zenon DEF AnsweredWithin, Left
<1>2. TypeOK' => (\A r \in Requests : Rest(pc, told, by, r) \in Nat)'
  BY <1>1, PTL
<1>3. TypeOK /\ [Next]_vars =>
        [/\ \A r \in Requests : Left(r)' <= Left(r)
         /\ \/ \E r \in Requests : Left(r)' < Left(r)
            \/ UNCHANGED <<count, pc, bucket, dry, audit, executor>>]_vars
  <2> SUFFICES ASSUME TypeOK, Next
               PROVE  /\ \A r \in Requests : Rest(pc', told', by', r) <= Rest(pc, told, by, r)
                      /\ \/ \E r \in Requests : Rest(pc', told', by', r) < Rest(pc, told, by, r)
                         \/ UNCHANGED <<count, pc, bucket, dry, audit, executor>>
    BY DEF Left
  <2>1. \A r \in Requests : Rest(pc, told, by, r) \in Nat /\ Rest(pc', told', by', r) \in Nat
    BY <1>1, <1>2, StepTypeOK
  <2>2. ASSUME NEW r \in Requests, Proceed(r) \/ Disturb(r)
        PROVE  /\ \A q \in Requests : Rest(pc', told', by', q) <= Rest(pc, told, by, q)
               /\ \E q \in Requests : Rest(pc', told', by', q) < Rest(pc, told, by, q)
    <3>1. /\ Rest(pc', told', by', r) < Rest(pc, told, by, r)
          /\ \A q \in Requests \ {r} : Rest(pc', told', by', q) = Rest(pc, told, by, q)
      BY <2>2, RequestShortens
    <3>2. ASSUME NEW q \in Requests PROVE Rest(pc', told', by', q) <= Rest(pc, told, by, q)
      <4>1. Rest(pc', told', by', q) \in Nat /\ Rest(pc, told, by, q) \in Nat
        BY <2>1
      <4>2. \/ Rest(pc', told', by', q) < Rest(pc, told, by, q)
            \/ Rest(pc', told', by', q) = Rest(pc, told, by, q)
        BY <3>1
      <4> QED
        BY <4>1, <4>2
    <3> QED
      BY <3>1, <3>2
  <2>3. ASSUME ~ \E r \in Requests : Proceed(r) \/ Disturb(r)
        PROVE  UNCHANGED <<count, pc, bucket, dry, audit, executor>>
    BY <2>3 DEF Next, Issue, ExpireRow, CacheExpires, SwitchWrites, SwitchShadow, Tick
  <2>4. UNCHANGED <<pc, executor>> =>
            \A r \in Requests : Rest(pc', told', by', r) = Rest(pc, told, by, r)
    BY DEF executor
  <2> QED
    BY <2>1, <2>2, <2>3, <2>4
<1> QED
  BY <1>1, <1>3, TypeCorrect, PTL DEF Spec, RequestsShorten
=============================================================================
