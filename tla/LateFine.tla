------------------------------ MODULE LateFine ------------------------------
(***************************************************************************)
(* The late fine of one child through one session: the computation of      *)
(* services/late_fine_service.py, which looks at one day and works out the *)
(* fine as a whole, beside the school's rule, which adds to it day by day: *)
(* 10 a day from the 16th until the quarter ends, and 1000 whenever a later*)
(* quarter begins and the bill is still unpaid.                            *)
(* Days are counted from 1 April of the session's first year.              *)
(***************************************************************************)
EXTENDS Integers, FiniteSets

CONSTANTS
    Leap,       \* 1 if the session's February has 29 days, else 0
    LastSeen,   \* the last day the model looks at (a bound)
    PayDays     \* the days on which the family may clear a quarter

ASSUME LeapAssumption == Leap \in {0, 1}
ASSUME DaysAssumption == LastSeen \in Nat \ {0} /\ PayDays \subseteq 1 .. LastSeen

Quarters == 1 .. 4
Charges == {"school", "bus"}
DAILY_FINE == 10
QUARTER_END_FINE == 1000
Unsettled == 0

\* The day before the first of a month of the session; 16 is the April after it.
MonthStart ==
    [m \in {4, 6, 7, 9, 10, 12, 13, 15, 16} |->
        CASE m = 4 -> 0     [] m = 6 -> 61    [] m = 7 -> 91
          [] m = 9 -> 153   [] m = 10 -> 183  [] m = 12 -> 244
          [] m = 13 -> 275  [] m = 15 -> 334 + Leap  [] m = 16 -> 365 + Leap]
Point(month, day) == MonthStart[month] + day

due_date(q) == CASE q = 1 -> Point(4, 15)  [] q = 2 -> Point(7, 15)
                 [] q = 3 -> Point(10, 15) [] q = 4 -> Point(13, 15)
quarter_end(q) == CASE q = 1 -> Point(6, 30)  [] q = 2 -> Point(9, 30)
                    [] q = 3 -> Point(12, 31) [] q = 4 -> Point(15, 31)
FlatPoints == {Point(7, 1), Point(10, 1), Point(13, 1), Point(16, 1)}

FineStarts(q) == due_date(q) + 1
MinOf(a, b) == IF a <= b THEN a ELSE b
-----------------------------------------------------------------------------
(***************************************************************************)
(* The computation.                                                        *)
(***************************************************************************)
\* Mutated form of LastDay: the daily fine runs on into the next quarter.
LastDay_Overrunning(q, asOf, cleared) ==
    IF cleared = Unsettled THEN asOf ELSE MinOf(asOf, cleared)
\* The last day the daily fine counts for.
LastDay(q, asOf, cleared) ==
    LET unpaid == MinOf(asOf, quarter_end(q))
    IN  IF cleared = Unsettled THEN unpaid ELSE MinOf(unpaid, cleared)

DailyDays(q, asOf, cleared) ==
    IF LastDay(q, asOf, cleared) >= FineStarts(q)
    THEN LastDay(q, asOf, cleared) - FineStarts(q) + 1
    ELSE 0

quarter_end_charge_dates(q) == {d \in FlatPoints : d > quarter_end(q)}

ChargeDates(q, asOf, cleared) ==
    {d \in quarter_end_charge_dates(q) :
        d <= asOf /\ (cleared = Unsettled \/ d <= cleared)}

compute_late_fine(q, asOf, owes, cleared) ==
    IF ~owes THEN 0
    ELSE DailyDays(q, asOf, cleared) * DAILY_FINE
         + Cardinality(ChargeDates(q, asOf, cleared)) * QUARTER_END_FINE

\* Mutated form of StillAccruing: the quarter's end is not asked for.
StillAccruing_Overrunning(q, asOf, owes, cleared) ==
    owes /\ DailyDays(q, asOf, cleared) > 0 /\ cleared = Unsettled
\* A quarter whose daily fine is still growing, of those the family is billed for.
StillAccruing(q, asOf, owes, cleared) ==
    /\ owes
    /\ DailyDays(q, asOf, cleared) > 0
    /\ asOf <= quarter_end(q)
    /\ cleared = Unsettled
-----------------------------------------------------------------------------
(***************************************************************************)
(* The session: days pass, the family clears quarters, and a government    *)
(* place cancels what is open of the school fee (but never of the bus).    *)
(***************************************************************************)
VARIABLES
    today,
    bill,       \* bill[q]: the charges of a quarter that are not cancelled
    settled,    \* settled[q]: the day it was cleared, or Unsettled
    accrued     \* accrued[q]: the fine, added up day by day
vars == <<today, bill, settled, accrued>>

\* The office asks for the fine with the amount that was billed, the bus
\* included, and the day it was cleared.
Billed(q) == bill[q] # {}
\* A child's own page goes by the bills that are open.
Outstanding(q) == Billed(q) /\ settled[q] = Unsettled

Init ==
    /\ today = 1
    /\ bill \in [Quarters -> {Charges, {"school"}, {}}]
    /\ settled = [q \in Quarters |-> Unsettled]
    /\ accrued = [q \in Quarters |-> 0]

\* The school's rule: what one more unpaid day adds to the fine of a quarter.
DailyPart(q, day) ==
    IF day >= FineStarts(q) /\ day <= quarter_end(q) THEN DAILY_FINE ELSE 0
QuarterEndPart(q, day) ==
    IF day > quarter_end(q) /\ day \in FlatPoints THEN QUARTER_END_FINE ELSE 0
AddedOn(q, day) == DailyPart(q, day) + QuarterEndPart(q, day)

NextDay ==
    /\ today < LastSeen
    /\ today' = today + 1
    /\ accrued' = [q \in Quarters |->
            IF Outstanding(q)
            THEN accrued[q] + AddedOn(q, today + 1)
            ELSE accrued[q]]
    /\ UNCHANGED <<bill, settled>>

Clear(q) ==
    /\ today \in PayDays
    /\ Outstanding(q)
    /\ settled' = [settled EXCEPT ![q] = today]
    /\ UNCHANGED <<today, bill, accrued>>

\* recompute_open_charges for a child with a Right to Education place: whatever
\* is paid is left alone, and a quarter with nothing left on it is not late.
GrantPlace ==
    LET open == {q \in Quarters : settled[q] = Unsettled}
        kept == [q \in Quarters |-> IF q \in open THEN bill[q] \ {"school"} ELSE bill[q]]
    IN  /\ today \in PayDays
        /\ bill' = kept
        /\ accrued' = [q \in Quarters |-> IF kept[q] = {} THEN 0 ELSE accrued[q]]
        /\ UNCHANGED <<today, settled>>

Next == NextDay \/ GrantPlace \/ \E q \in Quarters : Clear(q)
Spec == Init /\ [][Next]_vars

\* assess_quarters, as the office calls it and as a child's page does.
FineNow(q) == compute_late_fine(q, today, Billed(q), settled[q])
FineShown(q) == compute_late_fine(q, today, Outstanding(q), Unsettled)
Running == {q \in Quarters : StillAccruing(q, today, Billed(q), settled[q])}
-----------------------------------------------------------------------------
TypeOK ==
    /\ today \in 1 .. LastSeen
    /\ bill \in [Quarters -> SUBSET Charges]
    /\ settled \in [Quarters -> {Unsettled} \cup PayDays]
    /\ accrued \in [Quarters -> Nat]
    /\ \A q \in Quarters : FineNow(q) \in Nat

\* The fine worked out from the dates alone is the one the school's rule adds
\* up day by day: the daily fine stops with its quarter, 1000 are added at every
\* later quarter's beginning (so four times on the first), the day of payment
\* counts, and a cancelled bill carries none.  Asked with the amount billed and
\* the day of clearing, so it is for a cleared quarter too; a child's page
\* (explain_student_fee) shows it only while the quarter is owed.
FineFollowsTheRule ==
    \A q \in Quarters :
        /\ FineNow(q) = accrued[q]
        /\ FineShown(q) = IF Outstanding(q) THEN accrued[q] ELSE 0

\* Only the current quarter's daily fine runs, so assess_quarters never refuses
\* a child's bill with "more than one daily fine is running at once".
OneDailyFine == Cardinality(Running) <= 1
=============================================================================
