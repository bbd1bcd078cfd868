---------------------- MODULE ConfirmGateBudgetProofs ----------------------
(***************************************************************************)
(* Theorems about the hourly budget of the confirmation gate, for any      *)
(* finite number of requests within one clock hour.                        *)
(***************************************************************************)
EXTENDS ConfirmGateProofs, FiniteSetTheorems

USE RequestsAssumption, TimesAssumption, SwitchesAssumption

\* The clock stays within one hour: a refund after the hour has turned is taken
\* from the new one (ai_rate_limiter.py:255), and neither theorem holds then.
OneClockHour == \A s, t \in 0 .. MaxTime : HourOf[s] = HourOf[t]

\* Before the budget is looked at, and from its charge on.
Early == {"idle", "reject", "gate", "precheck"}
Paying == {"consume", "inspect"} \cup DOMAIN Undo \cup Redeemed

\* Replies that cost nothing, given by a request that has been charged.
Refunded == {"used", "expired", "mismatch"}

\* A step that charges nothing and runs nothing.
Passing(r) ==
    /\ UNCHANGED <<count, bucket, by, told>>
    /\ \/ pc[r] \in Early /\ pc'[r] \in Early \cup Replies
       \/ pc[r] = "charge" /\ pc'[r] = "crashed"
       \/ pc[r] = "recount" /\ pc'[r] \in {"error", "crashed"}
       \/ pc[r] \in Paying /\ pc'[r] \in Paying \cup (Replies \ Refunded)

\* The hour is fixed, and the request goes on to be charged.
Fixing(r) ==
    /\ UNCHANGED <<count, by, told>>
    /\ pc[r] = "precheck" /\ pc'[r] = "charge"
    /\ bucket' = [bucket EXCEPT ![r] = ThisHour]

\* What a step of a request may do to the budget.
LEMMA StepKinds ==
    ASSUME TypeOK, NEW r \in Requests, Proceed(r) \/ Disturb(r)
    PROVE  Passing(r) \/ Fixing(r) \/ Charge(r) \/ ChargeTwice(r) \/ Recount(r)
             \/ Refund(r) \/ Execute(r)
<1> USE Tables DEF Early, Paying, Refunded, Redeemed, Replies
<1>1. ASSUME NEW s, Step(r, s) PROVE UNCHANGED <<count, bucket, by, told>> /\ pc'[r] = s
  BY <1>1, MoveMoves DEF Step, executor
<1>2. CASE Peek(r)
  <2>1. PICK s \in {"gate", "reject"} : Move(r, s)
    BY <1>2 DEF Peek
  <2> QED
    BY <1>2, <2>1, MoveMoves DEF Peek, Passing, executor
<1>3. CASE Reject(r)
  <2>1. PICK s \in {"not_found", "used", "foreign", "expired"} : Step(r, s)
    BY <1>3 DEF Reject, Verdict
  <2> QED
    BY <1>1, <1>3, <2>1 DEF Reject, Passing
<1>4. CASE GateClosed(r) \/ GateUnacked(r) \/ GateOpen(r)
  <2>1. pc[r] = "gate" /\ \E s \in {"disabled", "needs_ack", "precheck"} : Step(r, s)
    BY <1>4 DEF GateClosed, GateUnacked, GateOpen
  <2> QED
    BY <1>1, <2>1 DEF Passing
<1>5. CASE CheckBudget(r)
  <2>1. CASE Move(r, "rate_limited") /\ UNCHANGED bucket
    BY <1>5, <2>1, MoveMoves DEF CheckBudget, Passing, executor
  <2>2. CASE Move(r, "charge") /\ bucket' = [bucket EXCEPT ![r] = ThisHour]
    BY <1>5, <2>2, MoveMoves DEF CheckBudget, Fixing, executor
  <2> QED
    BY <1>5, <2>1, <2>2 DEF CheckBudget
<1>6. CASE Consume(r) \/ ConsumeUnanswered(r)
  <2>1. PICK s \in {"bind", "inspect", "error"} : Move(r, s)
    BY <1>6 DEF Consume, ConsumeUnanswered
  <2>2. pc[r] = "consume" /\ UNCHANGED <<count, bucket, by, told>>
    BY <1>6 DEF Consume, ConsumeUnanswered, executor
  <2> QED
    BY <2>1, <2>2, MoveMoves DEF Passing
<1>7. CASE Bind(r)
  <2>1. PICK s \in {"not_found", "undo_mismatch", "authorize"} : Step(r, s)
    BY <1>7 DEF Bind
  <2> QED
    BY <1>1, <1>7, <2>1 DEF Bind, Passing
<1>8. CASE Inspect(r)
  <2>1. PICK s \in {"undo_used", "undo_expired", "not_found", "foreign"} : Step(r, s)
    BY <1>8 DEF Inspect, Verdict
  <2> QED
    BY <1>1, <1>8, <2>1 DEF Inspect, Passing
<1>9. CASE Authorize(r) \/ WriteAhead(r) \/ ReadShadow(r)
  <2>1. PICK s \in {"audit", "forbidden", "shadow", "execute"} : Move(r, s)
    BY <1>9 DEF Authorize, WriteAhead, ReadShadow, Step
  <2>2. pc[r] \in {"authorize", "audit", "shadow"} /\ UNCHANGED <<count, bucket, by, told>>
    BY <1>9 DEF Authorize, WriteAhead, ReadShadow, Step, executor
  <2> QED
    BY <2>1, <2>2, MoveMoves DEF Passing
<1>10. CASE Conclude(r)
  <2>1. PICK s \in DOMAIN Closing : Step(r, s)
    BY <1>10 DEF Conclude
  <2> QED
    BY <1>1, <1>10, <2>1 DEF Conclude, Passing
<1>11. CASE Finalize(r)
  <2>1. Closing[pc[r]] \in {"ok", "dry_run", "refused", "internal"} /\ pc'[r] = Closing[pc[r]]
    BY <1>11, MoveMoves DEF Finalize
  <2> QED
    BY <1>11, <2>1 DEF Finalize, Passing, executor
<1>12. CASE ReadFails(r)
  BY <1>1, <1>12 DEF ReadFails, Passing
<1>13. CASE Crash(r)
  <2>1. pc[r] \in Early \cup {"charge", "recount"} \cup Paying
    BY <1>13 DEF Crash, Stages
  <2> QED
    BY <1>1, <1>13, <2>1 DEF Crash, Passing
<1> QED
  BY <1>2, <1>3, <1>4, <1>5, <1>6, <1>7, <1>8, <1>9, <1>10, <1>11, <1>12, <1>13
     DEF Proceed, Disturb

LEMMA OtherSteps ==
    ASSUME [Next]_vars, ~ \E r \in Requests : Proceed(r) \/ Disturb(r)
    PROVE  UNCHANGED <<pc, bucket, count, by, told>>
  BY DEF Next, Issue, ExpireRow, CacheExpires, SwitchWrites, SwitchShadow, Tick, vars, executor

\* Where the charging steps lead, and what they add.
LEMMA ChargingSteps ==
    ASSUME TypeOK, NEW r \in Requests,
           Charge(r) \/ ChargeTwice(r) \/ Recount(r) \/ Refund(r)
    PROVE  /\ UNCHANGED <<bucket, by, told>>
           /\ Charge(r) => /\ pc[r] = "charge" /\ Add(r, 1)
                           /\ pc'[r] = IF count[UserOf[r]][bucket[r]] < Limit
                                       THEN "consume" ELSE "rate_limited"
           /\ ChargeTwice(r) => /\ pc[r] = "charge" /\ pc'[r] = "recount"
                                /\ Add(r, 1) \/ Add(r, 2)
           /\ Recount(r) => /\ pc[r] = "recount" /\ UNCHANGED count
                            /\ pc'[r] = IF count[UserOf[r]][bucket[r]] <= Limit
                                        THEN "consume" ELSE "rate_limited"
           /\ Refund(r) => pc[r] \in DOMAIN Undo /\ pc'[r] \in Refunded
<1>1. CASE Charge(r) \/ ChargeTwice(r)
  BY <1>1, MoveMoves DEF Charge, ChargeTwice, Recount, Refund, executor, Undo
<1>2. CASE Recount(r)
  BY <1>2, MoveMoves DEF Charge, ChargeTwice, Recount, Refund, Step, executor, Undo
<1>3. CASE Refund(r)
  <2>1. pc'[r] \in Refunded
    BY <1>3, Tables, MoveMoves DEF Refund, Refunded
  <2> QED
    BY <1>3, <2>1, Tables DEF Charge, ChargeTwice, Recount, Refund, executor
<1> QED
  BY <1>1, <1>2, <1>3
-----------------------------------------------------------------------------
(***************************************************************************)
(* The hour of a request, and the counter.                                 *)
(***************************************************************************)
\* A request is charged to an hour once the hour is fixed, not before.
Placed ==
    \A r \in Requests :
        /\ pc[r] \in Early => bucket[r] = NoHour
        /\ pc[r] \in {"charge", "recount"} \cup Paying => bucket[r] \in Hours

LEMMA InitPlaced == Init => Placed
<1> SUFFICES ASSUME Init, NEW r \in Requests PROVE pc[r] = "idle" /\ bucket[r] = NoHour
  BY Tables DEF Placed, Early, Paying, Redeemed
<1> QED
  BY DEF Init

\* A request keeps its place while others move.
LEMMA StepPlaced == TypeOK /\ Placed /\ [Next]_vars => Placed'
<1> SUFFICES ASSUME TypeOK, Placed, [Next]_vars, NEW q \in Requests
             PROVE  /\ pc'[q] \in Early => bucket'[q] = NoHour
                    /\ pc'[q] \in {"charge", "recount"} \cup Paying => bucket'[q] \in Hours
  BY DEF Placed, Hours
<1> USE Tables DEF Early, Paying, Refunded, Redeemed, Replies
<1>1. ASSUME NEW r \in Requests, Proceed(r) \/ Disturb(r), q # r
      PROVE  pc'[q] = pc[q] /\ bucket'[q] = bucket[q]
  <2>1. CASE Fixing(r)
    BY <1>1, <2>1, OneMoves DEF Fixing, TypeOK
  <2>2. CASE ~Fixing(r)
    <3>1. UNCHANGED bucket
      BY <1>1, <2>2, StepKinds, ChargingSteps DEF Passing, Execute
    <3> QED
      BY <1>1, <3>1, OneMoves
  <2> QED
    BY <2>1, <2>2
<1>2. CASE Proceed(q) \/ Disturb(q)
  <2>1. CASE Passing(q)
    BY <2>1 DEF Passing, Placed
  <2>2. CASE Fixing(q)
    BY <2>2, TheHourIsAnHour DEF Fixing, TypeOK
  <2>3. CASE Charge(q) \/ ChargeTwice(q) \/ Recount(q) \/ Refund(q)
    <3>1. /\ UNCHANGED bucket /\ pc[q] \in {"charge", "recount"} \cup Paying
          /\ pc'[q] \in {"consume", "rate_limited", "recount"} \cup Refunded
      BY <2>3, ChargingSteps
    <3> QED
      BY <3>1 DEF Placed
  <2>4. CASE Execute(q)
    BY <2>4 DEF Execute, Placed
  <2> QED
    BY <1>2, <2>1, <2>2, <2>3, <2>4, StepKinds
<1>3. CASE ~ \E r \in Requests : Proceed(r) \/ Disturb(r)
  BY <1>3, OtherSteps DEF Placed
<1> QED
  BY <1>1, <1>2, <1>3 DEF Placed

LEMMA OneHour == TypeOK /\ OneClockHour => \A h \in Hours : h = ThisHour
  BY DEF TypeOK, OneClockHour, Hours, ThisHour

LEMMA NoHourIsNoHour == NoHour \notin Hours
<1>1. \A h \in Hours : h \in Nat
  BY DEF Hours
<1> QED
  BY <1>1 DEF NoHour

\* What a request adds to the one counter of its user.
LEMMA Adding ==
    ASSUME TypeOK, OneClockHour, NEW r \in Requests, bucket[r] \in Hours,
           NEW n \in Nat, Add(r, n), NEW u \in Users, NEW h \in Hours
    PROVE  /\ bucket[r] = h
           /\ count'[u][h] = IF u = UserOf[r] THEN count[u][h] + n ELSE count[u][h]
<1>1. bucket[r] = h
  BY OneHour
<1> QED
  BY <1>1 DEF Add, TypeOK

\* What a refund takes from it.
LEMMA Refunding ==
    ASSUME TypeOK, OneClockHour, NEW r \in Requests, Refund(r), NEW u \in Users, NEW h \in Hours
    PROVE  /\ count[u][h] \in Nat
           /\ u # UserOf[r] => count'[u][h] = count[u][h]
           /\ \/ count'[u][h] = IF count[u][h] > 0 THEN count[u][h] - 1 ELSE 0
              \/ "refund" \in FailingCalls /\ count'[u][h] = count[u][h]
              \/ u # UserOf[r]
<1>1. h = ThisHour
  BY OneHour
<1>2. count[u][h] \in Nat /\ UserOf[r] \in Users /\ ThisHour \in Hours
  BY <1>1 DEF TypeOK
<1>3. CASE "refund" \in FailingCalls /\ UNCHANGED count
  BY <1>2, <1>3
<1>4. CASE count' = [count EXCEPT ![UserOf[r]][ThisHour] = IF @ > 0 THEN @ - 1 ELSE 0]
  <2>1. CASE u = UserOf[r]
    <3>1. count'[u] = [count[u] EXCEPT ![h] = IF @ > 0 THEN @ - 1 ELSE 0]
      BY <1>1, <1>4, <2>1 DEF TypeOK
    <3>2. count[u] \in [Hours -> Nat]
      BY DEF TypeOK
    <3>3. count'[u][h] = IF count[u][h] > 0 THEN count[u][h] - 1 ELSE 0
      BY <3>1, <3>2
    <3> QED
      BY <1>2, <2>1, <3>3
  <2>2. CASE u # UserOf[r]
    <3>1. count'[u] = count[u]
      BY <1>4, <2>2 DEF TypeOK
    <3> QED
      BY <1>2, <2>2, <3>1
  <2> QED
    BY <2>1, <2>2
<1> QED
  BY <1>3, <1>4 DEF Refund
-----------------------------------------------------------------------------
(***************************************************************************)
(* The limit.                                                              *)
(***************************************************************************)
\* The requests of u that have been let through and not refunded since, or have
\* run, and with them those whose charge is being counted again.
InHand(u, h) ==
    {r \in Requests : UserOf[r] = u /\ bucket[r] = h /\ (pc[r] \in Paying \/ Ran(r))}
Counted(u, h) ==
    {r \in Requests : UserOf[r] = u /\ bucket[r] = h
                        /\ (pc[r] \in {"recount"} \cup Paying \/ Ran(r))}

\* The counter never says less than that, and nobody is let through beyond the
\* limit.
LimitInv ==
    \A u \in Users, h \in Hours :
        /\ Cardinality(Counted(u, h)) <= count[u][h]
        /\ Cardinality(InHand(u, h)) <= Limit

LEMMA FiniteCounts ==
    ASSUME IsFiniteSet(Requests), NEW u, NEW h
    PROVE  /\ IsFiniteSet(Counted(u, h)) /\ IsFiniteSet(InHand(u, h))
           /\ Cardinality(Counted(u, h)) \in Nat /\ Cardinality(InHand(u, h)) \in Nat
           /\ IsFiniteSet(Counted(u, h)') /\ IsFiniteSet(InHand(u, h)')
           /\ Cardinality(Counted(u, h)') \in Nat /\ Cardinality(InHand(u, h)') \in Nat
<1>1. /\ Counted(u, h) \in SUBSET Requests /\ InHand(u, h) \in SUBSET Requests
      /\ Counted(u, h)' \in SUBSET Requests /\ InHand(u, h)' \in SUBSET Requests
  BY DEF Counted, InHand
<1>2. ASSUME NEW S \in SUBSET Requests PROVE IsFiniteSet(S) /\ Cardinality(S) \in Nat
  BY FS_Subset, FS_CardinalityType
<1> QED
  BY <1>1, <1>2

\* Nobody but the request that moves is let through or counted anew.
LEMMA OnlyTheMover ==
    ASSUME TypeOK, NEW r \in Requests, Proceed(r) \/ Disturb(r), NEW u, NEW h
    PROVE  /\ Counted(u, h)' \subseteq Counted(u, h) \cup {r}
           /\ InHand(u, h)' \subseteq InHand(u, h) \cup {r}
<1> SUFFICES ASSUME NEW q \in Requests \ {r}
             PROVE  pc'[q] = pc[q] /\ bucket'[q] = bucket[q] /\ (Ran(q)' => Ran(q))
  BY DEF Counted, InHand
<1>1. pc'[q] = pc[q]
  BY OneMoves
<1>2. bucket'[q] = bucket[q]
  <2>1. UNCHANGED bucket \/ Fixing(r)
    BY StepKinds, ChargingSteps DEF Passing, Execute
  <2> QED
    BY <2>1 DEF Fixing, TypeOK
<1>3. Ran(q)' => Ran(q)
  <2>1. CASE Execute(r)
    BY <2>1, OthersDoNotRun
  <2>2. CASE ~Execute(r)
    <3>1. UNCHANGED <<by, told>>
      BY <2>2, StepKinds, ChargingSteps DEF Passing, Fixing
    <3> QED
      BY <3>1 DEF Ran
  <2> QED
    BY <2>1, <2>2
<1> QED
  BY <1>1, <1>2, <1>3

\* When both sets only shrink, and the counter does not, nothing is lost.
LEMMA ShrinkingKeepsLimit ==
    ASSUME TypeOK, IsFiniteSet(Requests), LimitInv, NEW u \in Users, NEW h \in Hours,
           Counted(u, h)' \subseteq Counted(u, h), InHand(u, h)' \subseteq InHand(u, h),
           count'[u][h] \in Nat, count[u][h] <= count'[u][h]
    PROVE  Cardinality(Counted(u, h)') <= count'[u][h] /\ Cardinality(InHand(u, h)') <= Limit
<1>1. /\ Cardinality(Counted(u, h)') <= Cardinality(Counted(u, h))
      /\ Cardinality(InHand(u, h)') <= Cardinality(InHand(u, h))
  BY FiniteCounts, FS_Subset
<1>2. count[u][h] \in Nat
  BY DEF TypeOK
<1> QED
  BY <1>1, <1>2, FiniteCounts DEF LimitInv

\* A set with at most one new element has at most one element more.
LEMMA OneMore ==
    ASSUME NEW S, IsFiniteSet(S), NEW x, NEW T, T \subseteq S \cup {x}
    PROVE  Cardinality(T) <= Cardinality(S) + 1
<1>1. IsFiniteSet(S \cup {x}) /\ Cardinality(S) \in Nat
  BY FS_AddElement, FS_CardinalityType
<1>2. Cardinality(S \cup {x}) = Cardinality(S) \/ Cardinality(S \cup {x}) = Cardinality(S) + 1
  BY FS_AddElement
<1>3. Cardinality(T) <= Cardinality(S \cup {x}) /\ Cardinality(T) \in Nat
  BY <1>1, FS_Subset, FS_CardinalityType
<1> QED
  BY <1>1, <1>2, <1>3

\* A request that has run nothing and waits for its charge is in neither set.
LEMMA FreshIsOutside ==
    ASSUME TypeOK, AuditInv, NEW r \in Requests, pc[r] \in Fresh
    PROVE  ~Ran(r)
  BY DEF AuditInv, Answered

\* A step of one request keeps the limit of every user.
LEMMA RequestsKeepLimit ==
    ASSUME TypeOK, TypeOK', AuditInv, Placed, IsFiniteSet(Requests), OneClockHour, LimitInv,
           NEW r \in Requests, Proceed(r) \/ Disturb(r), NEW u \in Users, NEW h \in Hours
    PROVE  Cardinality(Counted(u, h)') <= count'[u][h] /\ Cardinality(InHand(u, h)') <= Limit
<1> USE Tables
<1> DEFINE C == Counted(u, h)
           I == InHand(u, h)
<1>0. /\ C' \subseteq C \cup {r} /\ I' \subseteq I \cup {r}
      /\ count[u][h] \in Nat /\ count'[u][h] \in Nat /\ Limit \in Nat
      /\ Cardinality(C) <= count[u][h] /\ Cardinality(I) <= Limit
  BY OnlyTheMover DEF TypeOK, LimitInv
<1> HIDE DEF C, I
<1> SUFFICES Cardinality(C') <= count'[u][h] /\ Cardinality(I') <= Limit
  BY DEF C, I
<1>s. ASSUME r \in C' => r \in C, r \in I' => r \in I, count[u][h] <= count'[u][h]
      PROVE  Cardinality(C') <= count'[u][h] /\ Cardinality(I') <= Limit
  BY <1>s, <1>0, ShrinkingKeepsLimit DEF C, I
<1>a. /\ IsFiniteSet(C) /\ IsFiniteSet(I) /\ IsFiniteSet(C') /\ IsFiniteSet(I')
      /\ Cardinality(C) \in Nat /\ Cardinality(I) \in Nat
      /\ Cardinality(C') \in Nat /\ Cardinality(I') \in Nat
  BY FiniteCounts DEF C, I
<1>b. /\ Cardinality(C') <= Cardinality(C) + 1
      /\ Cardinality(I') <= Cardinality(I) + 1
  BY <1>0, <1>a, OneMore
<1>1. CASE Passing(r)
  <2>1. UNCHANGED <<count, bucket, by, told>>
    BY <1>1 DEF Passing
  <2>2. pc'[r] \in {"recount"} \cup Paying => pc[r] \in Paying
    BY <1>1 DEF Passing, Early, Paying, Redeemed, Replies
  <2> QED
    BY <1>0, <1>s, <2>1, <2>2 DEF C, I, Counted, InHand, Ran
<1>2. CASE Fixing(r)
  <2>1. pc[r] \in Fresh /\ pc'[r] \notin {"recount"} \cup Paying /\ UNCHANGED <<count, by, told>>
    BY <1>2 DEF Fixing, Fresh, Paying, Redeemed, Replies, Labels, Stages
  <2>2. ~Ran(r)'
    BY <2>1, FreshIsOutside DEF Ran
  <2> QED
    BY <1>0, <1>s, <2>1, <2>2 DEF C, I, Counted, InHand
<1>3. CASE Execute(r)
  <2>1. UNCHANGED <<pc, bucket, count>> /\ pc[r] = "execute"
    BY <1>3 DEF Execute
  <2> QED
    BY <1>0, <1>s, <2>1 DEF C, I, Counted, InHand, Paying, Redeemed
<1>4. ASSUME Charge(r) \/ ChargeTwice(r) \/ Recount(r) \/ Refund(r), u # UserOf[r]
      PROVE  Cardinality(C') <= count'[u][h] /\ Cardinality(I') <= Limit
  <2>1. r \notin C' /\ r \notin I'
    BY <1>4 DEF C, I, Counted, InHand
  <2>2. count'[u][h] = count[u][h]
    <3>1. CASE Charge(r) \/ ChargeTwice(r)
      <4>1. bucket[r] \in Hours
        BY <3>1 DEF Charge, ChargeTwice, TypeOK
      <4>2. Add(r, 1) \/ Add(r, 2)
        BY <3>1, ChargingSteps
      <4> QED
        BY <1>4, <4>1, <4>2, Adding
    <3>2. CASE Recount(r)
      BY <3>2, ChargingSteps
    <3>3. CASE Refund(r)
      BY <1>4, <3>3, Refunding
    <3> QED
      BY <1>4, <3>1, <3>2, <3>3
  <2> QED
    BY <1>0, <1>s, <2>1, <2>2
<1>5. CASE Charge(r) /\ u = UserOf[r]
  <2>1. /\ pc[r] = "charge" /\ bucket[r] \in Hours /\ Add(r, 1)
        /\ pc'[r] = IF count[u][bucket[r]] < Limit THEN "consume" ELSE "rate_limited"
        /\ UNCHANGED <<by, told>>
    BY <1>5, ChargingSteps DEF TypeOK
  <2>2. bucket[r] = h /\ count'[u][h] = count[u][h] + 1
    BY <1>5, <2>1, Adding
  <2>3. CASE count[u][h] < Limit
    <3>1. C \in SUBSET C /\ I \subseteq C
      BY DEF C, I, Counted, InHand
    <3>2. Cardinality(I) <= Cardinality(C)
      BY <1>a, <3>1, FS_Subset
    <3> QED
      BY <1>0, <1>a, <1>b, <2>2, <2>3, <3>2
  <2>4. CASE ~(count[u][h] < Limit)
    <3>1. ~Ran(r)'
      <4>1. pc[r] \in Fresh
        BY <2>1 DEF Fresh, Labels, Stages, Replies
      <4> QED
        BY <2>1, <4>1, FreshIsOutside DEF Ran
    <3>2. pc'[r] \notin {"recount"} \cup Paying
      BY <2>1, <2>2, <2>4 DEF Paying, Redeemed
    <3>3. r \notin C' /\ r \notin I'
      BY <3>1, <3>2 DEF C, I, Counted, InHand
    <3> QED
      BY <1>0, <1>s, <2>2, <3>3
  <2> QED
    BY <2>3, <2>4
<1>6. CASE ChargeTwice(r) /\ u = UserOf[r]
  <2>1. /\ pc[r] = "charge" /\ bucket[r] \in Hours /\ pc'[r] = "recount"
        /\ Add(r, 1) \/ Add(r, 2)
        /\ UNCHANGED <<by, told>>
    BY <1>6, ChargingSteps DEF TypeOK
  <2>2. count'[u][h] = count[u][h] + 1 \/ count'[u][h] = count[u][h] + 2
    BY <1>6, <2>1, Adding
  <2>3. r \notin I'
    <3>1. pc[r] \in Fresh
      BY <2>1 DEF Fresh, Labels, Stages, Replies
    <3>2. ~Ran(r)'
      BY <2>1, <3>1, FreshIsOutside DEF Ran
    <3>3. pc'[r] \notin Paying
      BY <2>1 DEF Paying, Redeemed
    <3> QED
      BY <3>2, <3>3 DEF I, InHand
  <2>4. Cardinality(I') <= Cardinality(I)
    BY <1>0, <1>a, <2>3, FS_Subset
  <2>5. count[u][h] + 1 <= count'[u][h]
    BY <1>0, <2>2
  <2> QED
    BY <1>0, <1>a, <1>b, <2>4, <2>5
<1>7. CASE Recount(r) /\ u = UserOf[r]
  <2>1. /\ pc[r] = "recount" /\ UNCHANGED <<count, bucket, by, told>>
        /\ pc'[r] = IF count[u][bucket[r]] <= Limit THEN "consume" ELSE "rate_limited"
    BY <1>7, ChargingSteps
  <2>2. bucket[r] = h
    BY <2>1, OneHour DEF TypeOK
  <2>3. r \in C
    BY <1>7, <2>1, <2>2 DEF C, Counted
  <2>4. C' \subseteq C
    BY <1>0, <2>3
  <2>5. Cardinality(C') <= Cardinality(C)
    BY <1>a, <2>4, FS_Subset
  <2>6. CASE count[u][h] <= Limit
    <3>1. I' \subseteq C'
      BY DEF C, I, Counted, InHand
    <3>2. Cardinality(I') <= Cardinality(C')
      BY <1>a, <3>1, FS_Subset
    <3> QED
      BY <1>0, <1>a, <2>1, <2>5, <2>6, <3>2
  <2>7. CASE ~(count[u][h] <= Limit)
    <3>1. pc[r] \in Fresh
      BY <2>1 DEF Fresh, Labels, Stages, Replies
    <3>2. ~Ran(r)'
      BY <2>1, <3>1, FreshIsOutside DEF Ran
    <3>3. pc'[r] \notin Paying
      BY <2>1, <2>2, <2>7 DEF Paying, Redeemed
    <3>4. r \notin I'
      BY <3>2, <3>3 DEF I, InHand
    <3>5. Cardinality(I') <= Cardinality(I)
      BY <1>0, <1>a, <3>4, FS_Subset
    <3> QED
      BY <1>0, <1>a, <2>1, <2>5, <3>5
  <2> QED
    BY <2>6, <2>7
<1>8. CASE Refund(r) /\ u = UserOf[r]
  <2>1. pc[r] \in DOMAIN Undo /\ pc'[r] \in Refunded /\ UNCHANGED <<bucket, by, told>>
    BY <1>8, ChargingSteps
  <2>2. ~Ran(r)'
    <3>1. pc[r] \in Fresh
      BY <2>1 DEF Fresh, Labels, Stages, Replies
    <3> QED
      BY <2>1, <3>1, FreshIsOutside DEF Ran
  <2>3. pc'[r] \notin {"recount"} \cup Paying
    BY <2>1 DEF Paying, Redeemed, Refunded
  <2>4. r \notin C' /\ r \notin I'
    BY <2>2, <2>3 DEF C, I, Counted, InHand
  <2>5. r \in C
    <3>1. bucket[r] = h
      BY <2>1, OneHour DEF Placed, Paying
    <3> QED
      BY <1>8, <2>1, <3>1 DEF C, Counted, Paying
  <2>6. C' \subseteq C \ {r} /\ I' \subseteq I
    BY <1>0, <2>4
  <2>7. IsFiniteSet(C \ {r}) /\ Cardinality(C \ {r}) = Cardinality(C) - 1
    BY <1>a, <2>5, FS_RemoveElement
  <2>8. Cardinality(C') <= Cardinality(C) - 1 /\ Cardinality(I') <= Cardinality(I)
    BY <1>a, <2>6, <2>7, FS_Subset
  <2>9. count'[u][h] >= count[u][h] - 1
    BY <1>0, <1>8, Refunding
  <2>10. Cardinality(C') <= count'[u][h]
    <3>1. ASSUME NEW a \in Nat, NEW b \in Nat, NEW c \in Nat, NEW d \in Nat,
                 b <= a - 1, a <= c, d >= c - 1
          PROVE  b <= d
      BY <3>1
    <3> QED
      BY <1>0, <1>a, <2>8, <2>9, <3>1
  <2>11. Cardinality(I') <= Limit
    BY <1>0, <1>a, <2>8
  <2> QED
    BY <2>10, <2>11
<1> QED
  BY <1>1, <1>2, <1>3, <1>4, <1>5, <1>6, <1>7, <1>8, StepKinds DEF C, I

LEMMA StepLimitInv ==
    ASSUME IsFiniteSet(Requests), OneClockHour
    PROVE  TypeOK /\ TypeOK' /\ AuditInv /\ Placed /\ LimitInv /\ [Next]_vars => LimitInv'
<1> SUFFICES ASSUME TypeOK, TypeOK', AuditInv, Placed, LimitInv, [Next]_vars PROVE LimitInv'
  OBVIOUS
<1>1. Hours' = Hours
  BY DEF Hours
<1>2. ASSUME NEW r \in Requests, Proceed(r) \/ Disturb(r) PROVE LimitInv'
  BY <1>1, <1>2, RequestsKeepLimit DEF LimitInv
<1>3. CASE ~ \E r \in Requests : Proceed(r) \/ Disturb(r)
  BY <1>3, OtherSteps DEF LimitInv, Counted, InHand, Ran
<1> QED
  BY <1>2, <1>3

LEMMA InitLimitInv == Init => LimitInv
<1> SUFFICES ASSUME Init, NEW u \in Users, NEW h \in Hours
             PROVE  Cardinality(Counted(u, h)) <= count[u][h] /\ Cardinality(InHand(u, h)) <= Limit
  BY DEF LimitInv
<1>1. \A r \in Requests : pc[r] = "idle" /\ told[r] = "waiting" /\ by[TokenOf[r]] = {}
  BY DEF Init, Plan!Init
<1>2. Counted(u, h) = {} /\ InHand(u, h) = {}
  BY <1>1, Tables DEF Counted, InHand, Ran, Paying, Redeemed
<1>3. count[u][h] = 0
  BY DEF Init
<1> QED
  BY <1>2, <1>3, FS_EmptySet

\* Within a clock hour no more plans run on behalf of a user than the limit,
\* however many requests race for the budget and whatever calls fail.
THEOREM WithinBudget ==
    ASSUME IsFiniteSet(Requests), OneClockHour
    PROVE  Spec => []RunsWithinBudget
<1> DEFINE Inv == TypeOK /\ AuditInv /\ Placed /\ LimitInv
<1>1. Init => Inv
  BY InitTypeOK, InitAuditInv, InitPlaced, InitLimitInv
<1>2. Inv /\ [Next]_vars => Inv'
  BY StepTypeOK, StepAuditInv, StepPlaced, StepLimitInv
<1>3. Inv => RunsWithinBudget
  <2> SUFFICES ASSUME Inv, NEW u \in Users, NEW h \in Hours
               PROVE  Cardinality({r \in Requests : UserOf[r] = u /\ bucket[r] = h /\ Ran(r)}) <= Limit
    BY DEF RunsWithinBudget
  <2> DEFINE R == {r \in Requests : UserOf[r] = u /\ bucket[r] = h /\ Ran(r)}
  <2>0. IsFiniteSet(InHand(u, h))
    BY FiniteCounts
  <2>1. R \subseteq InHand(u, h)
    BY DEF InHand
  <2>2. Cardinality(R) <= Cardinality(InHand(u, h)) /\ Cardinality(R) \in Nat
    BY <2>0, <2>1, FS_Subset, FS_CardinalityType
  <2>3. Cardinality(InHand(u, h)) <= Limit /\ Cardinality(InHand(u, h)) \in Nat
    BY FiniteCounts DEF LimitInv
  <2> QED
    BY <2>2, <2>3
<1> QED
  BY <1>1, <1>2, <1>3, PTL DEF Spec
-----------------------------------------------------------------------------
(***************************************************************************)
(* Exactness.                                                              *)
(***************************************************************************)
\* Those of the charged whose process has not died.
Alive(u, h) == {r \in ChargedTo(u, h) : pc[r] # "crashed"}

\* The counter lies between them and all who were charged.
Exact ==
    \A u \in Users, h \in Hours :
        /\ Cardinality(Alive(u, h)) <= count[u][h]
        /\ count[u][h] <= Cardinality(ChargedTo(u, h))

LEMMA FiniteCharges ==
    ASSUME IsFiniteSet(Requests), NEW u, NEW h
    PROVE  /\ IsFiniteSet(ChargedTo(u, h)) /\ IsFiniteSet(Alive(u, h))
           /\ Cardinality(ChargedTo(u, h)) \in Nat /\ Cardinality(Alive(u, h)) \in Nat
           /\ IsFiniteSet(ChargedTo(u, h)') /\ IsFiniteSet(Alive(u, h)')
           /\ Cardinality(ChargedTo(u, h)') \in Nat /\ Cardinality(Alive(u, h)') \in Nat
<1>1. /\ ChargedTo(u, h) \in SUBSET Requests /\ Alive(u, h) \in SUBSET Requests
      /\ ChargedTo(u, h)' \in SUBSET Requests /\ Alive(u, h)' \in SUBSET Requests
  BY DEF ChargedTo, Alive
<1>2. ASSUME NEW S \in SUBSET Requests PROVE IsFiniteSet(S) /\ Cardinality(S) \in Nat
  BY FS_Subset, FS_CardinalityType
<1> QED
  BY <1>1, <1>2

\* Nobody but the request that moves is charged or forgiven.
LEMMA OnlyTheMoverIsCharged ==
    ASSUME TypeOK, NEW r \in Requests, Proceed(r) \/ Disturb(r), NEW u, NEW h
    PROVE  /\ ChargedTo(u, h)' \ {r} = ChargedTo(u, h) \ {r}
           /\ Alive(u, h)' \ {r} = Alive(u, h) \ {r}
<1> SUFFICES ASSUME NEW q \in Requests \ {r}
             PROVE  pc'[q] = pc[q] /\ bucket'[q] = bucket[q]
  BY DEF ChargedTo, Alive
<1>1. pc'[q] = pc[q]
  BY OneMoves
<1>2. bucket'[q] = bucket[q]
  <2>1. UNCHANGED bucket \/ Fixing(r)
    BY StepKinds, ChargingSteps DEF Passing, Execute
  <2> QED
    BY <2>1 DEF Fixing, TypeOK
<1> QED
  BY <1>1, <1>2

\* A step of one request keeps every counter exact.
LEMMA RequestsKeepExact ==
    ASSUME TypeOK, TypeOK', Placed, IsFiniteSet(Requests), OneClockHour, Exact,
           FailingCalls \cap {"charge", "refund"} = {},
           NEW r \in Requests, Proceed(r) \/ Disturb(r), NEW u \in Users, NEW h \in Hours
    PROVE  Cardinality(Alive(u, h)') <= count'[u][h] /\ count'[u][h] <= Cardinality(ChargedTo(u, h)')
<1> DEFINE C == ChargedTo(u, h)
           L == Alive(u, h)
<1>0. /\ C' \ {r} = C \ {r} /\ L' \ {r} = L \ {r}
      /\ count[u][h] \in Nat /\ count'[u][h] \in Nat
      /\ Cardinality(L) <= count[u][h] /\ count[u][h] <= Cardinality(C)
  BY OnlyTheMoverIsCharged DEF TypeOK, Exact
<1>a. /\ IsFiniteSet(C) /\ IsFiniteSet(L) /\ IsFiniteSet(C') /\ IsFiniteSet(L')
      /\ Cardinality(C) \in Nat /\ Cardinality(L) \in Nat
      /\ Cardinality(C') \in Nat /\ Cardinality(L') \in Nat
  BY FiniteCharges
<1>c. /\ r \in C <=> UserOf[r] = u /\ bucket[r] = h /\ pc[r] \notin {"charge"} \cup Refunded
      /\ r \in C' <=> UserOf[r] = u /\ bucket'[r] = h /\ pc'[r] \notin {"charge"} \cup Refunded
      /\ r \in L <=> r \in C /\ pc[r] # "crashed"
      /\ r \in L' <=> r \in C' /\ pc'[r] # "crashed"
  BY DEF ChargedTo, Alive, Refunded
<1> HIDE DEF C, L
<1> SUFFICES Cardinality(L') <= count'[u][h] /\ count'[u][h] <= Cardinality(C')
  BY DEF C, L
<1>s. ASSUME r \in C => r \in C', r \in L' => r \in L, count'[u][h] = count[u][h]
      PROVE  Cardinality(L') <= count'[u][h] /\ count'[u][h] <= Cardinality(C')
  <2>1. C \subseteq C' /\ L' \subseteq L
    BY <1>0, <1>s
  <2>2. Cardinality(C) <= Cardinality(C') /\ Cardinality(L') <= Cardinality(L)
    BY <1>a, <2>1, FS_Subset
  <2> QED
    BY <1>0, <1>a, <1>s, <2>2
<1>1. CASE Passing(r)
  <2>1. UNCHANGED <<count, bucket>>
    BY <1>1 DEF Passing
  <2>2. CASE pc[r] \in Early
    BY <1>c, <1>s, <2>1, <2>2, NoHourIsNoHour DEF Placed
  <2>3. CASE pc[r] \notin Early
    <3>1. \/ pc[r] = "charge" /\ pc'[r] = "crashed"
          \/ pc[r] = "recount" /\ pc'[r] \in {"error", "crashed"}
          \/ pc[r] \in Paying /\ pc'[r] \in Paying \cup (Replies \ Refunded)
      BY <1>1, <2>3 DEF Passing
    <3>2. ASSUME NEW s \in Paying PROVE s \notin {"charge", "crashed"} \cup Refunded
      BY Tables DEF Paying, Refunded, Redeemed
    <3>3. ASSUME NEW s \in Replies \ Refunded PROVE s # "charge" /\ s \notin Refunded
      BY DEF Replies
    <3>4. pc'[r] \notin {"charge"} \cup Refunded
      BY <3>1, <3>2, <3>3 DEF Refunded
    <3>5. /\ pc[r] # "crashed" /\ pc[r] \notin Refunded
          /\ pc[r] = "charge" => pc'[r] = "crashed"
      BY <3>1, <3>2 DEF Refunded
    <3> QED
      BY <1>c, <1>s, <2>1, <3>4, <3>5
  <2> QED
    BY <2>2, <2>3
<1>2. CASE Fixing(r)
  <2>1. pc[r] \in Early /\ pc'[r] = "charge" /\ UNCHANGED count
    BY <1>2 DEF Fixing, Early
  <2>2. bucket[r] # h
    BY <2>1, NoHourIsNoHour DEF Placed
  <2> QED
    BY <1>c, <1>s, <2>1, <2>2
<1>3. CASE Execute(r)
  BY <1>3, <1>c, <1>s DEF Execute
<1>4. CASE Recount(r)
  <2>1. pc[r] = "recount" /\ UNCHANGED <<bucket, count>> /\ pc'[r] \in {"consume", "rate_limited"}
    BY <1>4, ChargingSteps
  <2> QED
    BY <1>c, <1>s, <2>1 DEF Refunded
<1>5. ~ChargeTwice(r)
  BY DEF ChargeTwice
<1>6. CASE Charge(r)
  <2>1. /\ pc[r] = "charge" /\ bucket[r] \in Hours /\ Add(r, 1) /\ UNCHANGED bucket
        /\ pc'[r] \in {"consume", "rate_limited"}
    BY <1>6, ChargingSteps DEF TypeOK
  <2>2. /\ bucket[r] = h
        /\ count'[u][h] = IF u = UserOf[r] THEN count[u][h] + 1 ELSE count[u][h]
    BY <2>1, Adding
  <2>3. CASE u # UserOf[r]
    BY <1>c, <1>s, <2>2, <2>3
  <2>4. CASE u = UserOf[r]
    <3>1. r \notin C /\ r \in C'
      BY <1>c, <2>1, <2>2, <2>4 DEF Refunded
    <3>2. C = C' \ {r} /\ L' \subseteq L \cup {r}
      BY <1>0, <3>1
    <3>3. Cardinality(C) = Cardinality(C') - 1
      BY <1>a, <3>1, <3>2, FS_RemoveElement
    <3>4. Cardinality(L') <= Cardinality(L) + 1
      BY <1>a, <3>2, OneMore
    <3>5. count'[u][h] = count[u][h] + 1
      BY <2>2, <2>4
    <3> QED
      BY <1>0, <1>a, <3>3, <3>4, <3>5
  <2> QED
    BY <2>3, <2>4
<1>7. CASE Refund(r)
  <2>1. pc[r] \in DOMAIN Undo /\ pc'[r] \in Refunded /\ UNCHANGED bucket
    BY <1>7, ChargingSteps
  <2>2. bucket[r] = h
    BY <2>1, OneHour DEF Placed, Paying
  <2>3. CASE u # UserOf[r]
    BY <1>7, <1>c, <1>s, <2>3, Refunding
  <2>4. CASE u = UserOf[r]
    <3>1. pc[r] \notin {"charge", "crashed"} \cup Refunded
      BY <2>1, Tables DEF Refunded
    <3>2. r \in C /\ r \in L /\ r \notin C' /\ r \notin L'
      BY <1>c, <2>1, <2>2, <2>4, <3>1
    <3>3. C' = C \ {r} /\ L' = L \ {r}
      BY <1>0, <3>2
    <3>4. Cardinality(C') = Cardinality(C) - 1 /\ Cardinality(L') = Cardinality(L) - 1
      BY <1>a, <3>2, <3>3, FS_RemoveElement
    <3>5. count'[u][h] = IF count[u][h] > 0 THEN count[u][h] - 1 ELSE 0
      BY <1>7, <2>4, Refunding
    <3> QED
      BY <1>0, <1>a, <3>4, <3>5
  <2> QED
    BY <2>3, <2>4
<1> QED
  BY <1>1, <1>2, <1>3, <1>4, <1>5, <1>6, <1>7, StepKinds

\* Unless an increment or a refund itself fails, the counter of an hour tells
\* exactly which requests were let through, but for those that died.
THEOREM ExactBudget ==
    ASSUME IsFiniteSet(Requests), OneClockHour, FailingCalls \cap {"charge", "refund"} = {}
    PROVE  Spec => []BudgetIsExact
<1> DEFINE Inv == TypeOK /\ Placed /\ Exact
<1>1. Init => Inv
  <2> SUFFICES ASSUME Init, NEW u \in Users, NEW h \in Hours
               PROVE  /\ Cardinality(Alive(u, h)) <= count[u][h]
                      /\ count[u][h] <= Cardinality(ChargedTo(u, h))
    BY InitTypeOK, InitPlaced DEF Exact
  <2>1. ChargedTo(u, h) = {} /\ Alive(u, h) = {}
    BY NoHourIsNoHour DEF Init, ChargedTo, Alive
  <2>2. count[u][h] = 0
    BY DEF Init
  <2> QED
    BY <2>1, <2>2, FS_EmptySet
<1>2. Inv /\ [Next]_vars => Inv'
  <2> SUFFICES ASSUME Inv, [Next]_vars PROVE Inv'
    OBVIOUS
  <2>1. TypeOK' /\ Placed'
    BY StepTypeOK, StepPlaced
  <2>2. ASSUME NEW r \in Requests, Proceed(r) \/ Disturb(r) PROVE Exact'
    <3>1. Hours' = Hours
      BY DEF Hours
    <3> QED
      BY <2>1, <2>2, <3>1, RequestsKeepExact DEF Exact
  <2>3. CASE ~ \E r \in Requests : Proceed(r) \/ Disturb(r)
    <3>1. UNCHANGED <<pc, bucket, count>> /\ Hours' = Hours
      BY <2>3, OtherSteps DEF Hours
    <3>2. \A u \in Users, h \in Hours : Alive(u, h)' = Alive(u, h) /\ ChargedTo(u, h)' = ChargedTo(u, h)
      BY <3>1 DEF Alive, ChargedTo
    <3>3. ASSUME NEW u \in Users, NEW h \in Hours
          PROVE  /\ Cardinality(Alive(u, h)') <= count'[u][h]
                 /\ count'[u][h] <= Cardinality(ChargedTo(u, h)')
      BY <3>1, <3>2 DEF Exact
    <3> QED
      BY <2>1, <3>1, <3>3 DEF Exact
  <2> QED
    BY <2>1, <2>2, <2>3
<1>3. Inv => BudgetIsExact
  <2> SUFFICES ASSUME Inv, NEW u \in Users, NEW h \in Hours
               PROVE  count[u][h] \in
                        Cardinality(ChargedTo(u, h) \ {r \in ChargedTo(u, h) : pc[r] = "crashed"})
                          .. Cardinality(ChargedTo(u, h))
    BY DEF BudgetIsExact
  <2>1. ChargedTo(u, h) \ {r \in ChargedTo(u, h) : pc[r] = "crashed"} = Alive(u, h)
    BY DEF Alive
  <2>2. /\ Cardinality(Alive(u, h)) \in Nat /\ Cardinality(ChargedTo(u, h)) \in Nat
        /\ count[u][h] \in Nat
    BY FiniteCharges DEF TypeOK
  <2>3. Cardinality(Alive(u, h)) <= count[u][h] /\ count[u][h] <= Cardinality(ChargedTo(u, h))
    BY DEF Exact
  <2>4. count[u][h] \in Cardinality(Alive(u, h)) .. Cardinality(ChargedTo(u, h))
    BY <2>2, <2>3
  <2> QED
    BY <2>1, <2>4
<1> QED
  BY <1>1, <1>2, <1>3, PTL DEF Spec
=============================================================================
