--------------------------- MODULE LateFineProofs ---------------------------
(***************************************************************************)
(* For any days of payment and either kind of February: the computed fine  *)
(* is the rule's, and one daily fine runs at a time.  The invariant that   *)
(* carries them says in addition that no quarter has been cleared on a day *)
(* that has not come.                                                      *)
(***************************************************************************)
EXTENDS LateFine, FiniteSetTheorems, TLAPS

ClearedInThePast == \A q \in Quarters : settled[q] <= today
Calculated == \A q \in Quarters : FineNow(q) = accrued[q]
IInv ==
    /\ TypeOK
    /\ Calculated
    /\ ClearedInThePast
-----------------------------------------------------------------------------
\* The calendar: windows do not overlap and hold at least a day.
LEMMA Calendar ==
    /\ \A q \in Quarters : due_date(q) \in Nat /\ quarter_end(q) \in Nat
    /\ \A q \in Quarters : due_date(q) >= 15 /\ FineStarts(q) <= quarter_end(q)
    /\ \A p, q \in Quarters : p < q => quarter_end(p) < FineStarts(q)
    /\ FlatPoints \subseteq Nat
    /\ \A d \in FlatPoints : d > 90
    /\ IsFiniteSet(FlatPoints)
<1> USE LeapAssumption
<1>1. /\ Point(4, 15) = 15 /\ Point(6, 30) = 91
      /\ Point(7, 1) = 92 /\ Point(7, 15) = 106 /\ Point(9, 30) = 183
      /\ Point(10, 1) = 184 /\ Point(10, 15) = 198 /\ Point(12, 31) = 275
      /\ Point(13, 1) = 276 /\ Point(13, 15) = 290 /\ Point(15, 31) = 365 + Leap
      /\ Point(16, 1) = 366 + Leap
  BY DEF Point, MonthStart
<1>2. /\ due_date(1) = 15 /\ due_date(2) = 106 /\ due_date(3) = 198 /\ due_date(4) = 290
      /\ quarter_end(1) = 91 /\ quarter_end(2) = 183 /\ quarter_end(3) = 275
      /\ quarter_end(4) = 365 + Leap
  BY <1>1 DEF due_date, quarter_end
<1>3. FlatPoints = {92, 184, 276, 366 + Leap}
  BY <1>1 DEF FlatPoints
<1>4. Quarters = {1, 2, 3, 4}
  BY DEF Quarters
<1>5. IsFiniteSet(FlatPoints)
  <2>1. IsFiniteSet({92}) BY FS_Singleton
  <2>2. IsFiniteSet({92} \cup {184}) BY <2>1, FS_AddElement
  <2>3. IsFiniteSet({92} \cup {184} \cup {276}) BY <2>2, FS_AddElement
  <2>4. IsFiniteSet({92} \cup {184} \cup {276} \cup {366 + Leap}) BY <2>3, FS_AddElement
  <2>5. FlatPoints = {92} \cup {184} \cup {276} \cup {366 + Leap} BY <1>3
  <2> QED BY <2>4, <2>5
<1> QED BY <1>2, <1>3, <1>4, <1>5 DEF FineStarts

LEMMA ChargeDate ==
    ASSUME NEW q \in Quarters, NEW t \in Nat, NEW s \in Nat, NEW d
    PROVE  d \in ChargeDates(q, t, s) <=>
             /\ d \in FlatPoints /\ d \in Nat
             /\ d > quarter_end(q) /\ d <= t
             /\ s = 0 \/ d <= s
BY Calendar DEF ChargeDates, quarter_end_charge_dates, Unsettled

LEMMA ChargeDatesFinite ==
    ASSUME NEW q \in Quarters, NEW t, NEW s
    PROVE  IsFiniteSet(ChargeDates(q, t, s)) /\ Cardinality(ChargeDates(q, t, s)) \in Nat
<1>1. ChargeDates(q, t, s) \subseteq FlatPoints
  BY DEF ChargeDates, quarter_end_charge_dates
<1> QED BY <1>1, Calendar, FS_Subset, FS_CardinalityType

LEMMA DaysAreNatural ==
    ASSUME NEW q \in Quarters, NEW t \in Nat, NEW s \in Nat
    PROVE  DailyDays(q, t, s) \in Nat
<1>1. due_date(q) \in Nat /\ quarter_end(q) \in Nat BY Calendar
<1>2. LastDay(q, t, s) \in Nat BY <1>1 DEF LastDay, MinOf
<1> QED BY <1>1, <1>2 DEF DailyDays, FineStarts

LEMMA FineIsNatural ==
    ASSUME NEW q \in Quarters, NEW t \in Nat, NEW s \in Nat, NEW o \in BOOLEAN
    PROVE  compute_late_fine(q, t, o, s) \in Nat
<1>1. DailyDays(q, t, s) \in Nat BY DaysAreNatural
<1>2. Cardinality(ChargeDates(q, t, s)) \in Nat BY ChargeDatesFinite
<1> QED BY <1>1, <1>2 DEF compute_late_fine, DAILY_FINE, QUARTER_END_FINE

\* One more unpaid day adds what the rule adds.
LEMMA OneMoreDay ==
    ASSUME NEW q \in Quarters, NEW t \in Nat
    PROVE  compute_late_fine(q, t + 1, TRUE, Unsettled)
             = compute_late_fine(q, t, TRUE, Unsettled) + AddedOn(q, t + 1)
<1> DEFINE A == ChargeDates(q, t, Unsettled)
           B == ChargeDates(q, t + 1, Unsettled)
<1>0. /\ due_date(q) \in Nat /\ quarter_end(q) \in Nat
      /\ FineStarts(q) <= quarter_end(q) /\ FlatPoints \subseteq Nat
  BY Calendar
<1>1. DailyDays(q, t + 1, Unsettled) * DAILY_FINE
        = DailyDays(q, t, Unsettled) * DAILY_FINE + DailyPart(q, t + 1)
  BY <1>0 DEF DailyDays, LastDay, MinOf, DailyPart, FineStarts, DAILY_FINE, Unsettled
<1>2. IsFiniteSet(A) /\ Cardinality(A) \in Nat /\ Cardinality(B) \in Nat
  BY ChargeDatesFinite
<1>3. Cardinality(B) * QUARTER_END_FINE
        = Cardinality(A) * QUARTER_END_FINE + QuarterEndPart(q, t + 1)
  <2>1. CASE t + 1 > quarter_end(q) /\ t + 1 \in FlatPoints
    <3>1. \A d : d \in B <=> d \in A \/ d = t + 1
      <4> SUFFICES ASSUME NEW d PROVE d \in B <=> d \in A \/ d = t + 1
        OBVIOUS
      <4>1. d \in A <=> /\ d \in FlatPoints /\ d \in Nat
                       /\ d > quarter_end(q) /\ d <= t
        BY ChargeDate DEF Unsettled
      <4>2. d \in B <=> /\ d \in FlatPoints /\ d \in Nat
                       /\ d > quarter_end(q) /\ d <= t + 1
        BY ChargeDate DEF Unsettled
      <4> HIDE DEF A, B
      <4> QED BY <1>0, <2>1, <4>1, <4>2
    <3>2. t + 1 \notin A
      BY DEF ChargeDates
    <3>3. B = A \cup {t + 1}
      BY <3>1
    <3>4. Cardinality(B) = Cardinality(A) + 1
      BY <1>2, <3>2, <3>3, FS_AddElement
    <3> QED BY <1>2, <2>1, <3>4 DEF QuarterEndPart, QUARTER_END_FINE
  <2>2. CASE ~(t + 1 > quarter_end(q) /\ t + 1 \in FlatPoints)
    <3>1. \A d : d \in B <=> d \in A
      <4> SUFFICES ASSUME NEW d PROVE d \in B <=> d \in A
        OBVIOUS
      <4>1. d \in A <=> /\ d \in FlatPoints /\ d \in Nat
                       /\ d > quarter_end(q) /\ d <= t
        BY ChargeDate DEF Unsettled
      <4>2. d \in B <=> /\ d \in FlatPoints /\ d \in Nat
                       /\ d > quarter_end(q) /\ d <= t + 1
        BY ChargeDate DEF Unsettled
      <4> HIDE DEF A, B
      <4> QED BY <1>0, <2>2, <4>1, <4>2
    <3>2. B = A
      BY <3>1
    <3> QED BY <1>2, <2>2, <3>2 DEF QuarterEndPart, QUARTER_END_FINE
  <2> QED BY <2>1, <2>2
<1>4. /\ DailyDays(q, t, Unsettled) * DAILY_FINE \in Int
      /\ DailyPart(q, t + 1) \in Int
      /\ Cardinality(A) * QUARTER_END_FINE \in Int
      /\ QuarterEndPart(q, t + 1) \in Int
  <2>1. DailyDays(q, t, Unsettled) \in Nat
    BY DaysAreNatural DEF Unsettled
  <2> QED BY <1>2, <2>1 DEF DailyPart, QuarterEndPart, DAILY_FINE, QUARTER_END_FINE
<1> QED BY <1>1, <1>3, <1>4 DEF compute_late_fine, AddedOn

\* Of a quarter cleared on day s, every later day asks for the fine of day s.
LEMMA ClearedStands ==
    ASSUME NEW q \in Quarters, NEW s \in Nat \ {0}, NEW t \in Nat, s <= t, NEW o \in BOOLEAN
    PROVE  compute_late_fine(q, t, o, s) = compute_late_fine(q, s, o, Unsettled)
<1>0. quarter_end(q) \in Nat /\ FlatPoints \subseteq Nat BY Calendar
<1>1. LastDay(q, t, s) = LastDay(q, s, Unsettled)
  BY <1>0 DEF LastDay, MinOf, Unsettled
<1>2. DailyDays(q, t, s) = DailyDays(q, s, Unsettled)
  BY <1>1 DEF DailyDays
<1>3. ChargeDates(q, t, s) = ChargeDates(q, s, Unsettled)
  <2>1. \A d : d \in ChargeDates(q, t, s) <=> d \in ChargeDates(q, s, Unsettled)
    BY ChargeDate DEF Unsettled
  <2> QED BY <2>1
<1> QED BY <1>2, <1>3 DEF compute_late_fine
-----------------------------------------------------------------------------
LEMMA InitIInv == Init => IInv
<1> SUFFICES ASSUME Init PROVE IInv OBVIOUS
<1>1. today = 1 /\ 1 \in 1 .. LastSeen
  BY DaysAssumption DEF Init
<1>2. \A q \in Quarters : FineNow(q) = 0
  <2> SUFFICES ASSUME NEW q \in Quarters PROVE FineNow(q) = 0 OBVIOUS
  <2>0. /\ due_date(q) \in Nat /\ quarter_end(q) \in Nat /\ due_date(q) >= 15
        /\ \A d \in FlatPoints : d \in Nat /\ d > 90
    BY Calendar
  <2>1. settled[q] = Unsettled BY DEF Init
  <2>2. DailyDays(q, 1, Unsettled) = 0
    BY <2>0 DEF DailyDays, LastDay, MinOf, FineStarts, Unsettled
  <2>3. ChargeDates(q, 1, Unsettled) = {}
    BY <2>0 DEF ChargeDates, quarter_end_charge_dates
  <2>4. Cardinality(ChargeDates(q, 1, Unsettled)) = 0
    BY <2>3, FS_EmptySet
  <2> QED BY <1>1, <2>1, <2>2, <2>4 DEF FineNow, compute_late_fine, DAILY_FINE, QUARTER_END_FINE
<1>3. bill \in [Quarters -> SUBSET Charges]
  BY DEF Init, Charges
<1>4. /\ settled \in [Quarters -> {Unsettled} \cup PayDays]
      /\ accrued \in [Quarters -> Nat]
      /\ \A q \in Quarters : settled[q] = 0 /\ accrued[q] = 0
  BY DEF Init, Unsettled
<1> QED BY <1>1, <1>2, <1>3, <1>4 DEF IInv, TypeOK, Calculated, ClearedInThePast

\* What is owed, in the terms of the fine, is a Boolean.
LEMMA FineOf ==
    ASSUME IInv, NEW q \in Quarters
    PROVE  /\ settled[q] \in Nat /\ settled[q] <= today /\ today \in Nat
           /\ Billed(q) \in BOOLEAN /\ accrued[q] \in Nat
           /\ compute_late_fine(q, today, Billed(q), settled[q]) = accrued[q]
<1>1. settled[q] \in {0} \cup PayDays /\ today \in 1 .. LastSeen
  BY DEF IInv, TypeOK, Unsettled
<1>2. settled[q] \in Nat /\ today \in Nat
  <2>1. LastSeen \in Nat /\ \A d \in PayDays : d \in 1 .. LastSeen
    BY DaysAssumption
  <2>2. CASE settled[q] = 0 BY <1>1, <2>1, <2>2
  <2>3. CASE settled[q] \in PayDays
    <3>1. settled[q] \in 1 .. LastSeen BY <2>1, <2>3
    <3> QED BY <1>1, <2>1, <3>1
  <2> QED BY <1>1, <2>2, <2>3
<1>3. /\ settled[q] <= today /\ Billed(q) \in BOOLEAN /\ accrued[q] \in Nat
      /\ FineNow(q) = accrued[q]
  BY DEF IInv, TypeOK, Calculated, ClearedInThePast, Billed
<1> QED BY <1>2, <1>3 DEF FineNow

LEMMA NothingOwed ==
    ASSUME NEW q, NEW t, NEW s PROVE compute_late_fine(q, t, FALSE, s) = 0
BY DEF compute_late_fine

\* The fine agrees with the rule after a step if it does for every quarter.
LEMMA StepOf ==
    ASSUME IInv, [Next]_vars
    PROVE  /\ today' \in 1 .. LastSeen
           /\ bill' \in [Quarters -> SUBSET Charges]
           /\ settled' \in [Quarters -> {Unsettled} \cup PayDays]
           /\ ClearedInThePast'
<1>0. /\ today \in 1 .. LastSeen /\ bill \in [Quarters -> SUBSET Charges]
      /\ settled \in [Quarters -> {Unsettled} \cup PayDays]
      /\ LastSeen \in Nat
      /\ \A q \in Quarters : settled[q] \in Nat /\ settled[q] <= today
  BY DaysAssumption, FineOf DEF IInv, TypeOK
<1>1. CASE NextDay
  <2>1. today' = today + 1 /\ today < LastSeen /\ bill' = bill /\ settled' = settled
    BY <1>1 DEF NextDay
  <2> QED BY <1>0, <2>1 DEF ClearedInThePast
<1>2. CASE GrantPlace
  <2>1. /\ today' = today /\ settled' = settled
        /\ bill' \in [Quarters -> SUBSET Charges]
    BY <1>0, <1>2 DEF GrantPlace
  <2> QED BY <1>0, <2>1 DEF ClearedInThePast
<1>3. CASE \E q \in Quarters : Clear(q)
  <2> PICK q \in Quarters : Clear(q) BY <1>3
  <2>1. /\ today' = today /\ bill' = bill /\ today \in PayDays
        /\ settled' = [settled EXCEPT ![q] = today]
    BY DEF Clear
  <2>2. \A p \in Quarters : settled'[p] = settled[p] \/ settled'[p] = today
    BY <1>0, <2>1
  <2> QED BY <1>0, <2>1, <2>2 DEF ClearedInThePast
<1>4. CASE UNCHANGED vars
  BY <1>0, <1>4 DEF vars, ClearedInThePast
<1> QED BY <1>1, <1>2, <1>3, <1>4 DEF Next

LEMMA AccruedStep ==
    ASSUME IInv, [Next]_vars
    PROVE  /\ accrued' \in [Quarters -> Nat]
           /\ \A q \in Quarters : FineNow(q)' = accrued'[q]
<1>0. /\ accrued \in [Quarters -> Nat] /\ settled \in [Quarters -> {Unsettled} \cup PayDays]
      /\ bill \in [Quarters -> SUBSET Charges]
  BY DEF IInv, TypeOK
<1>1. CASE NextDay
  <2> SUFFICES ASSUME NEW q \in Quarters
               PROVE  FineNow(q)' = accrued'[q] /\ accrued'[q] \in Nat
    BY <1>0, <1>1 DEF NextDay
  <2>0. /\ today' = today + 1 /\ settled' = settled /\ bill' = bill
        /\ Billed(q)' = Billed(q)
        /\ accrued'[q] = IF Billed(q) /\ settled[q] = Unsettled
                         THEN accrued[q] + AddedOn(q, today + 1) ELSE accrued[q]
    BY <1>1 DEF NextDay, Billed, Outstanding
  <2>1. CASE Billed(q) /\ settled[q] = Unsettled
    <3>1. accrued'[q] = accrued[q] + AddedOn(q, today + 1)
      BY <2>0, <2>1
    <3>2. compute_late_fine(q, today + 1, TRUE, Unsettled)
            = compute_late_fine(q, today, TRUE, Unsettled) + AddedOn(q, today + 1)
      BY OneMoreDay, FineOf
    <3>3. FineNow(q)' = accrued'[q]
      BY <2>0, <2>1, <3>1, <3>2, FineOf DEF FineNow
    <3>4. AddedOn(q, today + 1) \in Nat
      BY DEF AddedOn, DailyPart, QuarterEndPart, DAILY_FINE, QUARTER_END_FINE
    <3> QED BY <3>1, <3>3, <3>4, FineOf
  <2>2. CASE Billed(q) /\ settled[q] # Unsettled
    <3>1. accrued'[q] = accrued[q]
      BY <2>0, <2>2
    <3>2. settled[q] \in Nat \ {0}
      BY <2>2, FineOf DEF Unsettled
    <3>3. /\ compute_late_fine(q, today, TRUE, settled[q])
               = compute_late_fine(q, settled[q], TRUE, Unsettled)
          /\ compute_late_fine(q, today + 1, TRUE, settled[q])
               = compute_late_fine(q, settled[q], TRUE, Unsettled)
      <4>1. /\ settled[q] <= today /\ settled[q] <= today + 1
            /\ today \in Nat /\ today + 1 \in Nat
        BY FineOf, <3>2
      <4> QED BY ClearedStands, <3>2, <4>1
    <3> QED BY <2>0, <2>2, <3>1, <3>3, FineOf DEF FineNow
  <2>3. CASE ~Billed(q)
    <3>1. accrued'[q] = accrued[q]
      BY <2>0, <2>3
    <3> QED BY <2>0, <2>3, <3>1, FineOf, NothingOwed DEF FineNow
  <2> QED BY <2>1, <2>2, <2>3
<1>2. CASE GrantPlace
  <2> DEFINE kept == [p \in Quarters |->
                        IF p \in {r \in Quarters : settled[r] = Unsettled}
                        THEN bill[p] \ {"school"} ELSE bill[p]]
  <2> SUFFICES ASSUME NEW q \in Quarters
               PROVE  FineNow(q)' = accrued'[q] /\ accrued'[q] \in Nat
    BY <1>0, <1>2 DEF GrantPlace
  <2>0. /\ today' = today /\ settled' = settled /\ bill'[q] = kept[q]
        /\ accrued'[q] = IF kept[q] = {} THEN 0 ELSE accrued[q]
    BY <1>2 DEF GrantPlace
  <2>1. CASE kept[q] = {}
    <3>1. Billed(q)' = FALSE
      BY <2>0, <2>1 DEF Billed
    <3>2. FineNow(q)' = 0
      BY <3>1, NothingOwed DEF FineNow
    <3>3. accrued'[q] = 0
      BY <2>0, <2>1
    <3> QED BY ONLY <3>2, <3>3
  <2>2. CASE kept[q] # {}
    <3>1. Billed(q)' = TRUE /\ Billed(q) = TRUE
      BY <2>0, <2>2 DEF Billed
    <3>2. accrued'[q] = accrued[q]
      BY <2>0, <2>2
    <3>3. FineNow(q)' = FineNow(q)
      BY <2>0, <3>1 DEF FineNow
    <3>4. FineNow(q) = accrued[q] /\ accrued[q] \in Nat
      BY FineOf DEF FineNow
    <3> QED BY ONLY <3>2, <3>3, <3>4
  <2> QED BY <2>1, <2>2
<1>3. CASE \E p \in Quarters : Clear(p)
  <2> PICK p \in Quarters : Clear(p) BY <1>3
  <2> SUFFICES ASSUME NEW q \in Quarters
               PROVE  FineNow(q)' = accrued'[q] /\ accrued'[q] \in Nat
    BY <1>0 DEF Clear
  <2>0. /\ today' = today /\ bill' = bill /\ accrued' = accrued
        /\ Billed(q)' = Billed(q) /\ today \in Nat \ {0}
        /\ settled[p] = Unsettled /\ settled' = [settled EXCEPT ![p] = today]
    BY DaysAssumption DEF Clear, Outstanding, Billed, IInv, TypeOK
  <2>1. CASE q = p
    <3>1. settled[q] = Unsettled /\ settled'[q] = today
      BY <1>0, <2>0, <2>1
    <3>2. compute_late_fine(q, today, Billed(q), today)
            = compute_late_fine(q, today, Billed(q), Unsettled)
      BY ClearedStands, <2>0, FineOf
    <3> QED BY <2>0, <3>1, <3>2, FineOf DEF FineNow
  <2>2. CASE q # p
    <3>1. settled'[q] = settled[q]
      BY <1>0, <2>0, <2>2
    <3> QED BY <2>0, <3>1, FineOf DEF FineNow
  <2> QED BY <2>1, <2>2
<1>4. CASE UNCHANGED vars
  BY <1>4 DEF vars, IInv, TypeOK, Calculated, FineNow, Billed
<1> QED BY <1>1, <1>2, <1>3, <1>4 DEF Next

LEMMA NextIInv == IInv /\ [Next]_vars => IInv'
<1> SUFFICES ASSUME IInv, [Next]_vars PROVE IInv' OBVIOUS
<1>1. /\ today' \in 1 .. LastSeen
      /\ bill' \in [Quarters -> SUBSET Charges]
      /\ settled' \in [Quarters -> {Unsettled} \cup PayDays]
      /\ ClearedInThePast'
  BY StepOf
<1>2. /\ accrued' \in [Quarters -> Nat]
      /\ \A q \in Quarters : FineNow(q)' = accrued'[q]
  BY AccruedStep
<1>3. \A q \in Quarters : FineNow(q)' \in Nat
  BY <1>2
<1> QED BY <1>1, <1>2, <1>3 DEF IInv, TypeOK, Calculated

THEOREM Inductive == Spec => []IInv
BY InitIInv, NextIInv, PTL DEF Spec
-----------------------------------------------------------------------------
\* Every variable keeps its type, and no fine is negative.
THEOREM TypeCorrect == Spec => []TypeOK
<1>1. IInv => TypeOK BY DEF IInv
<1> QED BY Inductive, <1>1, PTL

\* The fine computed from dates is the one the school's rule adds up day by day,
\* for every choice of days on which the family pays, on the office's screen for
\* every quarter and on the child's page for every quarter that is owed.
THEOREM FollowsTheRule == Spec => []FineFollowsTheRule
<1>1. IInv => FineFollowsTheRule
  <2> SUFFICES ASSUME IInv, NEW q \in Quarters
               PROVE  FineNow(q) = accrued[q]
                      /\ FineShown(q) = IF Outstanding(q) THEN accrued[q] ELSE 0
    BY DEF FineFollowsTheRule
  <2>1. FineNow(q) = accrued[q]
    BY DEF IInv, Calculated
  <2>2. CASE Outstanding(q)
    <3>1. Outstanding(q) = TRUE /\ Billed(q) = TRUE /\ settled[q] = Unsettled
      BY <2>2 DEF Outstanding, Billed
    <3> QED BY <2>1, <3>1 DEF FineNow, FineShown
  <2>3. CASE ~Outstanding(q)
    <3>1. Outstanding(q) = FALSE
      BY <2>3 DEF Outstanding, Billed
    <3> QED BY <2>1, <3>1, NothingOwed DEF FineShown
  <2> QED BY <2>2, <2>3
<1> QED BY Inductive, <1>1, PTL

\* Two daily fines never run at once, so assess_quarters never refuses.
THEOREM OneAtATime == Spec => []OneDailyFine
<1>1. ASSUME IInv PROVE OneDailyFine
  <2>1. \A q \in Running : q \in Quarters /\ FineStarts(q) <= today /\ today <= quarter_end(q)
    <3> SUFFICES ASSUME NEW q \in Running
                 PROVE  q \in Quarters /\ FineStarts(q) <= today /\ today <= quarter_end(q)
      OBVIOUS
    <3>1. /\ q \in Quarters /\ DailyDays(q, today, Unsettled) > 0 /\ today <= quarter_end(q)
      BY DEF Running, StillAccruing
    <3>2. due_date(q) \in Nat /\ quarter_end(q) \in Nat /\ today \in Nat
      BY <1>1, <3>1, Calendar, FineOf
    <3> QED BY <3>1, <3>2 DEF DailyDays, LastDay, MinOf, FineStarts, Unsettled
  <2>2. \A p, q \in Running : p = q
    <3> SUFFICES ASSUME NEW p \in Running, NEW q \in Running, p # q PROVE FALSE
      OBVIOUS
    <3>1. /\ p \in Quarters /\ q \in Quarters /\ (p < q \/ q < p)
      BY <2>1 DEF Quarters
    <3>2. /\ due_date(p) \in Nat /\ quarter_end(p) \in Nat
          /\ due_date(q) \in Nat /\ quarter_end(q) \in Nat /\ today \in Nat
      BY <1>1, <2>1, Calendar, FineOf
    <3>3. quarter_end(p) < FineStarts(q) \/ quarter_end(q) < FineStarts(p)
      BY <2>1, <3>1, Calendar
    <3> QED BY <2>1, <3>2, <3>3 DEF FineStarts
  <2>3. CASE Running = {}
    BY <2>3, FS_EmptySet DEF OneDailyFine
  <2>4. CASE Running # {}
    <3>1. PICK q \in Running : TRUE BY <2>4
    <3>2. Running = {q} BY <2>2, <3>1
    <3> QED BY <3>2, FS_Singleton DEF OneDailyFine
  <2> QED BY <2>3, <2>4
<1> QED BY Inductive, <1>1, PTL
=============================================================================
