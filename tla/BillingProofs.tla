--------------------------- MODULE BillingProofs ---------------------------
(* Theorems about token billing, for any events, payments and deliveries. *)
EXTENDS Billing, TLAPS

USE EventsAssumption DEF Kinds, Payments, Changes

Labels == {"waiting"} \cup Stages \cup Answers

LEMMA InitTypeOK == Init => TypeOK
<1> SUFFICES ASSUME Init PROVE TypeOK
  OBVIOUS
<1>1. pc \in [Deliveries -> Labels] /\ \A d \in Deliveries : pc[d] = "waiting"
  BY DEF Init, Labels
<1>2. credits \in [References -> Nat] /\ purchases \subseteq References
  BY DEF Init
<1>3. /\ inbox \in [Events -> {"none", "processing", "failed", "processed", "ignored"}]
      /\ fresh \in [Events -> BOOLEAN]
      /\ account \in BOOLEAN /\ subscription \in {"none", "active", "canceled"}
      /\ branch \in BOOLEAN
  BY DEF Init
<1> QED
  BY <1>1, <1>2, <1>3 DEF TypeOK, Labels

\* The stages after which the kind of the event no longer matters.
Plain == {"look", "finish", "fail"} \cup Claiming \cup Answers

LEMMA MoveKeepsTypes ==
    ASSUME TypeOK, NEW d \in Deliveries,
           NEW stage \in Plain \cup {Kind(d)} \cup Working,
           stage \in {"find", "credit"} => Kind(d) \in Payments,
           stage \in {"activate", "cancel"} => Kind(d) \in Changes,
           Move(d, stage)
    PROVE  /\ pc' \in [Deliveries -> Labels] /\ branch' \in BOOLEAN
           /\ \A q \in Deliveries :
                  /\ pc'[q] \in Kinds => pc'[q] = Kind(q)
                  /\ pc'[q] \in {"find", "credit"} => Kind(q) \in Payments
                  /\ pc'[q] \in {"activate", "cancel"} => Kind(q) \in Changes
<1> USE DEF Working
<1>1. stage \in Labels
  BY DEF Plain, Labels, Stages, Handling, Kind
<1>2. stage \in Kinds => stage = Kind(d)
  BY DEF Plain, Claiming, Answers, Acknowledged
<1> QED
  BY <1>1, <1>2 DEF TypeOK, Move, Labels

LEMMA StepTypeOK == TypeOK /\ [Next]_vars => TypeOK'
<1> SUFFICES ASSUME TypeOK, [Next]_vars PROVE TypeOK'
  OBVIOUS
<1>1. ASSUME NEW d \in Deliveries, NEW stage \in Plain \cup {Kind(d)} \cup Working,
             stage \in {"find", "credit"} => Kind(d) \in Payments,
             stage \in {"activate", "cancel"} => Kind(d) \in Changes,
             Move(d, stage),
             inbox' \in [Events -> {"none", "processing", "failed", "processed", "ignored"}],
             fresh' \in [Events -> BOOLEAN],
             UNCHANGED books
      PROVE  TypeOK'
  BY <1>1, MoveKeepsTypes DEF TypeOK, Labels, books
<1>2. ASSUME NEW d \in Deliveries, Grant(d)
      PROVE  /\ purchases' \subseteq References /\ credits' \in [References -> Nat]
             /\ account' \in BOOLEAN /\ subscription' \in {"none", "active", "canceled"}
  BY <1>2 DEF Grant, Ref, TypeOK
<1>3. ASSUME NEW d \in Deliveries, SetStatus(d)
      PROVE  /\ purchases' \subseteq References /\ credits' \in [References -> Nat]
             /\ account' \in BOOLEAN /\ subscription' \in {"none", "active", "canceled"}
  BY <1>3 DEF SetStatus, TypeOK
<1>4. ASSUME NEW d \in Deliveries, NEW stage \in {"finish", "fail"}, Move(d, stage),
             Grant(d) \/ SetStatus(d), UNCHANGED journal
      PROVE  TypeOK'
  <2>1. stage \in Plain
    BY DEF Plain
  <2> QED
    BY <1>2, <1>3, <1>4, <2>1, MoveKeepsTypes DEF TypeOK, Labels, journal
<1>5. ASSUME NEW d \in Deliveries, Receive(d) \/ Look(d) PROVE TypeOK'
  BY <1>1, <1>5 DEF Receive, Look, journal, TypeOK, Plain, Claiming, Answers, Acknowledged
<1>6. ASSUME NEW d \in Deliveries, Claim(d) \/ ClaimFails(d) PROVE TypeOK'
  <2>1. \/ Move(d, "duplicate") \/ Move(d, "error") \/ Move(d, Kind(d))
    BY <1>6 DEF Claim, ClaimFails, Route
  <2>2. UNCHANGED journal \/ Take(d)
    BY <1>6 DEF Claim, ClaimFails
  <2>3. /\ inbox' \in [Events -> {"none", "processing", "failed", "processed", "ignored"}]
        /\ fresh' \in [Events -> BOOLEAN]
    <3>1. CASE UNCHANGED journal
      BY <3>1 DEF journal, TypeOK
    <3>2. CASE Take(d)
      BY <3>2 DEF Take, SetRow, TypeOK
    <3> QED
      BY <2>2, <3>1, <3>2
  <2>4. Kind(d) \notin Working
    BY DEF Kind, Working
  <2> QED
    BY <1>1, <1>6, <2>1, <2>3, <2>4 DEF Claim, ClaimFails, Plain, Answers, Acknowledged, Working
<1>7. ASSUME NEW d \in Deliveries, Finish(d) \/ Fail(d) \/ EndUnrecorded(d) PROVE TypeOK'
  <2>1. Move(d, "received") \/ Move(d, "error")
    BY <1>7 DEF Finish, Fail, EndUnrecorded
  <2>2. /\ UNCHANGED <<fresh, books>>
        /\ UNCHANGED inbox \/ \E status \in {"processed", "ignored", "failed"} : SetRow(d, status)
    BY <1>7 DEF Finish, Fail, EndUnrecorded, Filed
  <2>3. inbox' \in [Events -> {"none", "processing", "failed", "processed", "ignored"}]
    BY <2>2 DEF SetRow, TypeOK
  <2> QED
    BY <1>1, <2>1, <2>2, <2>3 DEF TypeOK, Plain, Answers, Acknowledged
<1>8. ASSUME NEW d \in Deliveries, FindPurchase(d) PROVE TypeOK'
  BY <1>1, <1>8 DEF FindPurchase, TypeOK, journal, Plain, Working
<1>r. ASSUME NEW d \in Deliveries, Resolve(d) PROVE TypeOK'
  <2>1. PICK stage : stage \in {WorkOn[pc[d]], "finish"} /\ Move(d, stage)
    BY <1>r DEF Resolve
  <2>2. pc[d] = Kind(d) /\ pc[d] \in Payments \cup Changes
    BY <1>r DEF Resolve, TypeOK
  <2>3. /\ stage \in Plain \cup {Kind(d)} \cup Working
        /\ stage \in {"find", "credit"} => Kind(d) \in Payments
        /\ stage \in {"activate", "cancel"} => Kind(d) \in Changes
    BY <2>1, <2>2 DEF WorkOn, Plain, Working
  <2> QED
    BY <1>1, <1>r, <2>1, <2>3 DEF Resolve, TypeOK, journal
<1>9. ASSUME NEW d \in Deliveries, Credit(d) PROVE TypeOK'
  BY <1>1, <1>4, <1>9 DEF Credit, TypeOK, journal, Plain
<1>10. ASSUME NEW d \in Deliveries, UpdateSubscription(d) PROVE TypeOK'
  BY <1>4, <1>10 DEF UpdateSubscription
<1>11. ASSUME NEW d \in Deliveries, Raise(d) PROVE TypeOK'
  BY <1>1, <1>4, <1>11 DEF Raise, TypeOK, journal, Plain
<1>12. ASSUME NEW d \in Deliveries, Crash(d) PROVE TypeOK'
  BY <1>1, <1>12 DEF Crash, TypeOK, journal, Plain, Answers
<1>13. ASSUME NEW e \in Events, LeaseAges(e) PROVE TypeOK'
  BY <1>13 DEF LeaseAges, TypeOK, books
<1>d. CASE DeleteBranch
  BY <1>d DEF DeleteBranch, TypeOK, journal, books
<1>14. CASE UNCHANGED vars
  BY <1>14 DEF vars, journal, books, TypeOK
<1> QED
  BY <1>5, <1>6, <1>7, <1>8, <1>9, <1>10, <1>11, <1>12, <1>13, <1>14, <1>d, <1>r
     DEF Next, Proceed, Disturb

\* Every variable of billing keeps its type.
THEOREM TypeCorrect == Spec => []TypeOK
  BY InitTypeOK, StepTypeOK, PTL DEF Spec
-----------------------------------------------------------------------------
\* A handler of a creditable top-up that is about to finish has seen the payment
\* credited.
FinishedIsCredited ==
    \A d \in Deliveries : Creditable(d) /\ pc[d] = "finish" => Ref(d) \in purchases

\* A deleted branch does not come back.
LEMMA CreditableFades ==
    ASSUME TypeOK, [Next]_vars, NEW d \in Deliveries, Creditable(d)'
    PROVE  Creditable(d)
<1>1. UNCHANGED branch \/ DeleteBranch
  BY DEF Next, Proceed, Disturb, Receive, Look, Claim, ClaimFails, Finish, Fail, EndUnrecorded,
     Resolve, FindPurchase, Credit, UpdateSubscription, Raise, Crash, LeaseAges, Move, vars
<1>2. branch' => branch
  BY <1>1 DEF DeleteBranch
<1> QED
  BY <1>2 DEF Creditable, Kind

BooksInv == CreditedOnce /\ ProcessedIsCredited /\ FinishedIsCredited

LEMMA InitBooksInv == Init => BooksInv
  BY DEF Init, BooksInv, CreditedOnce, ProcessedIsCredited, FinishedIsCredited, Row

LEMMA GrantKeepsCredits ==
    ASSUME TypeOK, CreditedOnce, NEW d \in Deliveries, Ref(d) \notin purchases, Grant(d)
    PROVE  CreditedOnce'
  BY DEF TypeOK, CreditedOnce, Grant, Ref

\* The only steps that touch the books add a purchase and its credit.
LEMMA BooksGrow ==
    ASSUME TypeOK, CreditedOnce, [Next]_vars
    PROVE  CreditedOnce' /\ purchases \subseteq purchases'
<1>1. ASSUME UNCHANGED <<purchases, credits>>
      PROVE  CreditedOnce' /\ purchases \subseteq purchases'
  BY <1>1 DEF CreditedOnce
<1>2. ASSUME NEW d \in Deliveries, Ref(d) \notin purchases, Grant(d)
      PROVE  CreditedOnce' /\ purchases \subseteq purchases'
  BY <1>2, GrantKeepsCredits DEF Grant
<1>3. ASSUME NEW d \in Deliveries, Credit(d) \/ Raise(d) \/ UpdateSubscription(d)
      PROVE  CreditedOnce' /\ purchases \subseteq purchases'
  BY <1>1, <1>2, <1>3 DEF Credit, Raise, UpdateSubscription, SetStatus, books
<1>4. ASSUME UNCHANGED books
      PROVE  CreditedOnce' /\ purchases \subseteq purchases'
  BY <1>1, <1>4 DEF books
<1>5. ASSUME NEW d \in Deliveries, Proceed(d) \/ Disturb(d)
      PROVE  CreditedOnce' /\ purchases \subseteq purchases'
  BY <1>3, <1>4, <1>5 DEF Proceed, Disturb, Receive, Look, Claim, Finish, Fail,
     Resolve, FindPurchase, ClaimFails, EndUnrecorded, Crash
<1> QED
  BY <1>4, <1>5 DEF Next, LeaseAges, DeleteBranch, vars

\* A handler finishes a top-up when it has found or made its purchase.
LEMMA StepFinished ==
    ASSUME TypeOK, BooksInv, [Next]_vars
    PROVE  FinishedIsCredited'
<1>1. purchases \subseteq purchases'
  BY BooksGrow DEF BooksInv
<1>2. ASSUME UNCHANGED pc PROVE FinishedIsCredited'
  <2>1. ASSUME NEW q \in Deliveries, Creditable(q)', pc'[q] = "finish"
        PROVE  Ref(q) \in purchases'
    BY <1>1, <1>2, <2>1, CreditableFades DEF BooksInv, FinishedIsCredited
  <2> QED
    BY <2>1 DEF FinishedIsCredited, Ref
<1>3. ASSUME NEW d \in Deliveries, NEW stage, Move(d, stage),
             stage = "finish" /\ Creditable(d) => Ref(d) \in purchases'
      PROVE  FinishedIsCredited'
  <2>1. ASSUME NEW q \in Deliveries, Creditable(q)', pc'[q] = "finish"
        PROVE  Ref(q) \in purchases'
    <3>1. Creditable(q)
      BY <2>1, CreditableFades
    <3>2. CASE q = d
      BY <1>3, <2>1, <3>1, <3>2 DEF Move, TypeOK
    <3>3. CASE q # d
      BY <1>1, <1>3, <2>1, <3>1, <3>3 DEF Move, TypeOK, BooksInv, FinishedIsCredited
    <3> QED
      BY <3>2, <3>3
  <2> QED
    BY <2>1 DEF FinishedIsCredited, Ref
<1>r. ASSUME NEW d \in Deliveries, Resolve(d) PROVE FinishedIsCredited'
  <2>1. CASE Move(d, WorkOn[pc[d]])
    <3>1. WorkOn[pc[d]] # "finish"
      BY <1>r DEF Resolve, WorkOn
    <3> QED
      BY <1>3, <2>1, <3>1
  <2>2. CASE MayDrop(d) /\ Move(d, "finish")
    <3>1. ~ Creditable(d)
      BY <1>r, <2>2 DEF Resolve, MayDrop, CanResolve, Creditable, TypeOK, Kind
    <3> QED
      BY <1>3, <2>2, <3>1
  <2> QED
    BY <1>r, <2>1, <2>2 DEF Resolve
<1>4. ASSUME NEW d \in Deliveries, FindPurchase(d) PROVE FinishedIsCredited'
  BY <1>1, <1>3, <1>4 DEF FindPurchase, TypeOK
<1>5. ASSUME NEW d \in Deliveries, Credit(d) PROVE FinishedIsCredited'
  BY <1>1, <1>3, <1>5 DEF Credit, Grant
<1>6. ASSUME NEW d \in Deliveries, UpdateSubscription(d) PROVE FinishedIsCredited'
  <2>1. ~ Creditable(d)
    BY <1>6 DEF UpdateSubscription, SetStatus, TypeOK, Creditable
  <2> QED
    BY <1>3, <1>6, <2>1 DEF UpdateSubscription
<1>7. ASSUME NEW d \in Deliveries, Claim(d) PROVE FinishedIsCredited'
  BY <1>3, <1>7 DEF Claim, Route, Kind
<1>8. ASSUME NEW d \in Deliveries,
             Receive(d) \/ Look(d) \/ Finish(d) \/ Fail(d) \/ Disturb(d)
      PROVE  FinishedIsCredited'
  BY <1>3, <1>8 DEF Receive, Look, Finish, Fail, Disturb, ClaimFails, EndUnrecorded,
     Raise, Crash
<1> QED
  BY <1>2, <1>4, <1>5, <1>6, <1>7, <1>8, <1>r DEF Next, Proceed, LeaseAges, DeleteBranch, vars

\* Only a handler that finishes files its event as processed.
LEMMA StepProcessed ==
    ASSUME TypeOK, BooksInv, [Next]_vars
    PROVE  ProcessedIsCredited'
<1>1. purchases \subseteq purchases'
  BY BooksGrow DEF BooksInv
<1>0. ASSUME \A q \in Deliveries : Creditable(q) /\ Row(q)' = "processed" => Ref(q) \in purchases'
      PROVE  ProcessedIsCredited'
  BY <1>0, CreditableFades DEF ProcessedIsCredited, Ref
<1>2. ASSUME UNCHANGED inbox PROVE ProcessedIsCredited'
  BY <1>0, <1>1, <1>2 DEF BooksInv, ProcessedIsCredited, Row
<1>3. ASSUME NEW d \in Deliveries, NEW status, SetRow(d, status),
             status = "processed" /\ Creditable(d) => Ref(d) \in purchases
      PROVE  ProcessedIsCredited'
  <2>1. ASSUME NEW q \in Deliveries, Creditable(q), Row(q)' = "processed"
        PROVE  Ref(q) \in purchases'
    <3>1. CASE EventOf[q] = EventOf[d]
      <4>1. Creditable(d) /\ Ref(q) = Ref(d) /\ status = "processed"
        BY <1>3, <2>1, <3>1 DEF Creditable, Kind, Ref, Row, SetRow, TypeOK
      <4> QED
        BY <1>1, <1>3, <4>1
    <3>2. CASE EventOf[q] # EventOf[d]
      <4>1. Row(q) = "processed"
        BY <1>3, <2>1, <3>2 DEF Row, SetRow, TypeOK
      <4> QED
        BY <1>1, <2>1, <4>1 DEF BooksInv, ProcessedIsCredited
    <3> QED
      BY <3>1, <3>2
  <2> QED
    BY <1>0, <2>1
<1>4. ASSUME NEW d \in Deliveries, Finish(d) \/ Fail(d) \/ EndUnrecorded(d)
      PROVE  ProcessedIsCredited'
  <2>1. Creditable(d) /\ pc[d] = "finish" => Ref(d) \in purchases
    BY DEF BooksInv, FinishedIsCredited
  <2>2. \/ UNCHANGED inbox \/ SetRow(d, "failed") \/ SetRow(d, "ignored")
        \/ pc[d] = "finish" /\ SetRow(d, "processed")
    BY <1>4 DEF Finish, Fail, EndUnrecorded, Filed
  <2> QED
    BY <1>2, <1>3, <2>1, <2>2
<1>5. ASSUME NEW d \in Deliveries, Claim(d) \/ ClaimFails(d) PROVE ProcessedIsCredited'
  BY <1>2, <1>3, <1>5 DEF Claim, ClaimFails, Take, journal
<1>6. ASSUME NEW d \in Deliveries,
             \/ Receive(d) \/ Look(d) \/ Resolve(d) \/ FindPurchase(d) \/ Credit(d)
             \/ UpdateSubscription(d) \/ Raise(d) \/ Crash(d)
      PROVE  ProcessedIsCredited'
  BY <1>2, <1>6 DEF Receive, Look, Resolve, FindPurchase, Credit, UpdateSubscription, Raise,
     Crash, journal
<1> QED
  BY <1>2, <1>4, <1>5, <1>6 DEF Next, Proceed, Disturb, LeaseAges, DeleteBranch, vars, journal

LEMMA InvariantHolds == Spec => [](TypeOK /\ BooksInv)
<1>1. Init => TypeOK /\ BooksInv
  BY InitTypeOK, InitBooksInv
<1>2. TypeOK /\ BooksInv /\ [Next]_vars => (TypeOK /\ BooksInv)'
  BY StepTypeOK, BooksGrow, StepFinished, StepProcessed DEF BooksInv
<1> QED
  BY <1>1, <1>2, PTL DEF Spec

\* The tokens of a payment are added once, and exactly if its purchase is on
\* record.
THEOREM EachCreditedOnce == Spec => []CreditedOnce
  BY InvariantHolds, PTL DEF BooksInv

\* A top-up that can be credited is, once it is filed as processed.
THEOREM EachProcessedCredited == Spec => []ProcessedIsCredited
  BY InvariantHolds, PTL DEF BooksInv
-----------------------------------------------------------------------------
(***************************************************************************)
(* What an acknowledgement is worth.  The comment on begin_webhook_event   *)
(* promises more than is kept (AcknowledgedIsCredited); this is what is.   *)
(***************************************************************************)
\* An acknowledged top-up that can be credited is, or it was called a duplicate and the row
\* of its event is still open to a handler.
CreditedOrOpen ==
    \A d \in Deliveries : Creditable(d) /\ pc[d] \in Acknowledged =>
        \/ Ref(d) \in purchases
        \/ pc[d] = "duplicate" /\ Row(d) \in {"processing", "failed"}

\* Only events of no interest are filed as ignored.
IgnoredIsOther ==
    \A e \in Events : inbox[e] = "ignored" => KindOf[e] = "other"

\* Who means to take over a row has seen it.
RowsStay == \A d \in Deliveries : pc[d] \in {"retry", "take_over"} => Row(d) # "none"

OpenInv == IgnoredIsOther /\ RowsStay /\ CreditedOrOpen

LEMMA InitOpenInv == Init => OpenInv
  BY DEF Init, OpenInv, IgnoredIsOther, RowsStay, CreditedOrOpen, Acknowledged

\* How a step of a delivery changes its row and where it stands.
LEMMA RowSteps ==
    ASSUME TypeOK, NEW d \in Deliveries, Proceed(d) \/ Disturb(d)
    PROVE  /\ \E stage : Move(d, stage)
           /\ \/ UNCHANGED inbox
              \/ pc[d] \in Claiming /\ SetRow(d, "processing")
              \/ pc[d] \in DOMAIN Filed /\ SetRow(d, Filed[pc[d]])
<1> USE DEF Filed
<1>1. CASE Receive(d) \/ Look(d) \/ Resolve(d) \/ FindPurchase(d)
  BY <1>1 DEF Receive, Look, Resolve, FindPurchase, journal
<1>2. CASE Credit(d) \/ UpdateSubscription(d) \/ Raise(d) \/ Crash(d)
  BY <1>2 DEF Credit, UpdateSubscription, Raise, Crash, journal
<1>3. CASE Claim(d) \/ ClaimFails(d)
  BY <1>3 DEF Claim, ClaimFails, Take, journal
<1>4. CASE Finish(d) \/ Fail(d) \/ EndUnrecorded(d)
  BY <1>4 DEF Finish, Fail, EndUnrecorded
<1> QED
  BY <1>1, <1>2, <1>3, <1>4 DEF Proceed, Disturb

\* A row is never removed, and a handler files it as ignored only if it is.
LEMMA RowsKept ==
    ASSUME TypeOK, IgnoredIsOther, NEW d \in Deliveries, Proceed(d) \/ Disturb(d)
    PROVE  /\ IgnoredIsOther'
           /\ \A e \in Events : inbox[e] # "none" => inbox'[e] # "none"
           /\ \A e \in Events : inbox[e] # "none" /\ inbox'[e] # inbox[e] =>
                  \/ inbox'[e] \in {"processing", "failed"}
                  \/ e = EventOf[d] /\ pc[d] \in {"finish", "other"}
<1>1. CASE UNCHANGED inbox
  BY <1>1 DEF IgnoredIsOther
<1>2. CASE pc[d] \in Claiming /\ SetRow(d, "processing")
  BY <1>2 DEF IgnoredIsOther, SetRow, TypeOK
<1>3. CASE pc[d] \in DOMAIN Filed /\ SetRow(d, Filed[pc[d]])
  <2>1. \/ pc[d] = "finish" /\ Filed[pc[d]] = "processed"
        \/ pc[d] = "fail" /\ Filed[pc[d]] = "failed"
        \/ pc[d] = "other" /\ Filed[pc[d]] = "ignored" /\ KindOf[EventOf[d]] = "other"
    BY <1>3 DEF Filed, TypeOK, Kind
  <2> QED
    BY <1>3, <2>1 DEF IgnoredIsOther, SetRow, TypeOK
<1> QED
  BY <1>1, <1>2, <1>3, RowSteps

\* A delivery that is not at the end keeps what an earlier one was told.
LEMMA OthersKeep ==
    ASSUME TypeOK, BooksInv, OpenInv, NEW d \in Deliveries, Proceed(d) \/ Disturb(d),
           purchases \subseteq purchases',
           NEW q \in Deliveries, Creditable(q), pc[q] \in Acknowledged
    PROVE  \/ Ref(q) \in purchases'
           \/ pc[q] = "duplicate" /\ inbox'[EventOf[q]] \in {"processing", "failed"}
<1>1. CASE Ref(q) \in purchases
  BY <1>1
<1>2. CASE Ref(q) \notin purchases
  <2>1. pc[q] = "duplicate" /\ Row(q) \in {"processing", "failed"}
    BY <1>2 DEF OpenInv, CreditedOrOpen
  <2>2. CASE EventOf[q] = EventOf[d] /\ pc[d] \in {"finish", "other"}
    <3>1. Creditable(d) /\ Ref(d) = Ref(q)
      BY <2>2 DEF Creditable, Kind, Ref
    <3> QED
      BY <1>2, <2>2, <3>1 DEF BooksInv, FinishedIsCredited, TypeOK, Creditable
  <2>3. CASE ~ (EventOf[q] = EventOf[d] /\ pc[d] \in {"finish", "other"})
    BY <2>1, <2>3, RowsKept DEF OpenInv, Row
  <2> QED
    BY <2>2, <2>3
<1> QED
  BY <1>1, <1>2

\* Where a delivery of a top-up is acknowledged.
LEMMA AcknowledgedRightly ==
    ASSUME TypeOK, BooksInv, OpenInv, NEW d \in Deliveries, Proceed(d) \/ Disturb(d),
           Creditable(d), pc[d] \notin Acknowledged, pc'[d] \in Acknowledged
    PROVE  \/ Ref(d) \in purchases
           \/ pc'[d] = "duplicate" /\ inbox'[EventOf[d]] \in {"processing", "failed"}
<1> USE DEF Acknowledged
<1>1. ASSUME NEW stage, Move(d, stage) PROVE pc'[d] = stage
  BY <1>1 DEF Move, TypeOK
<1>2. EventOf[d] \in Events /\ inbox[EventOf[d]] \in
          {"none", "processing", "failed", "processed", "ignored"}
  BY DEF TypeOK
<1>3. ASSUME Row(d) \in {"processing", "failed", "processed", "ignored"},
             UNCHANGED inbox, pc'[d] = "duplicate"
      PROVE  \/ Ref(d) \in purchases
             \/ pc'[d] = "duplicate" /\ inbox'[EventOf[d]] \in {"processing", "failed"}
  BY <1>3 DEF OpenInv, IgnoredIsOther, BooksInv, ProcessedIsCredited, Creditable, Row, Kind, Ref
<1>4. CASE Look(d)
  <2>1. pc'[d] = "duplicate" /\ Row(d) # "none"
    BY <1>1, <1>4 DEF Look
  <2> QED
    BY <1>2, <1>3, <1>4, <2>1 DEF Look, journal, Row
<1>5. CASE Claim(d)
  <2>1. ~ Claimable(d) /\ UNCHANGED journal /\ pc'[d] = "duplicate"
    BY <1>1, <1>5 DEF Claim, Route, Creditable
  <2>2. Row(d) # "none"
    BY <1>5, <2>1 DEF Claimable, Claim, Claiming, OpenInv, RowsStay
  <2> QED
    BY <1>2, <1>3, <2>1, <2>2 DEF journal, Row
<1>6. CASE Finish(d)
  <2>1. pc[d] = "finish"
    BY <1>6 DEF Finish, TypeOK, Creditable
  <2> QED
    BY <2>1 DEF BooksInv, FinishedIsCredited
<1>7. CASE \/ Receive(d) \/ Resolve(d) \/ FindPurchase(d) \/ Credit(d)
           \/ UpdateSubscription(d) \/ Fail(d)
  <2>1. Resolve(d) => WorkOn[pc[d]] \notin Acknowledged
    BY DEF Resolve, WorkOn
  <2> QED
    BY <1>1, <1>7, <2>1 DEF Receive, Resolve, FindPurchase, Credit, UpdateSubscription, Fail
<1>8. CASE Disturb(d)
  BY <1>1, <1>8 DEF Disturb, ClaimFails, EndUnrecorded, Raise, Crash
<1> QED
  BY <1>4, <1>5, <1>6, <1>7, <1>8 DEF Proceed

LEMMA StepOpenInv ==
    ASSUME TypeOK, BooksInv, OpenInv, [Next]_vars
    PROVE  OpenInv'
<1>1. purchases \subseteq purchases'
  BY BooksGrow DEF BooksInv
<1>2. CASE UNCHANGED <<inbox, pc>>
  <2>1. \A q \in Deliveries : Creditable(q)' => Creditable(q)
    BY CreditableFades
  <2>2. IgnoredIsOther' /\ RowsStay'
    BY <1>2 DEF OpenInv, IgnoredIsOther, RowsStay, Row
  <2>3. CreditedOrOpen'
    BY <1>1, <1>2, <2>1 DEF OpenInv, CreditedOrOpen, Row, Ref
  <2> QED
    BY <2>2, <2>3 DEF OpenInv
<1>3. ASSUME NEW d \in Deliveries, Proceed(d) \/ Disturb(d) PROVE OpenInv'
  <2>1. IgnoredIsOther'
    BY <1>3, RowsKept DEF OpenInv
  <2>2. \A q \in Deliveries \ {d} : pc'[q] = pc[q]
    BY <1>3, RowSteps DEF Move, TypeOK
  <2>3. \A e \in Events : inbox[e] # "none" => inbox'[e] # "none"
    BY <1>3, RowsKept DEF OpenInv
  <2>4. pc'[d] \in {"retry", "take_over"} => pc[d] = "look" /\ Row(d) # "none"
    BY <1>3 DEF Proceed, Disturb, Receive, Look, Claim, Route, Kind, Finish, Fail,
       Resolve, WorkOn, FindPurchase, Credit, UpdateSubscription, ClaimFails, EndUnrecorded,
       Raise, Crash, Move, TypeOK
  <2>5. RowsStay'
    BY <2>2, <2>3, <2>4 DEF OpenInv, RowsStay, Row
  <2>6. pc[d] \notin Acknowledged
    BY <1>3 DEF Proceed, Disturb, Receive, Look, Claim, Finish, Fail, Resolve, FindPurchase,
       Credit, UpdateSubscription, SetStatus, ClaimFails, EndUnrecorded, Raise, Crash,
       Acknowledged, Claiming, Working, Filed, Stages, Handling
  <2>7. CreditedOrOpen'
    <3>1. ASSUME NEW q \in Deliveries, Creditable(q)', pc'[q] \in Acknowledged
          PROVE  \/ Ref(q) \in purchases'
                 \/ pc'[q] = "duplicate" /\ inbox'[EventOf[q]] \in {"processing", "failed"}
      <4>1. Creditable(q)
        BY <3>1, CreditableFades
      <4>2. CASE q = d
        BY <1>1, <1>3, <2>6, <3>1, <4>1, <4>2, AcknowledgedRightly
      <4>3. CASE q # d
        BY <1>1, <1>3, <2>2, <3>1, <4>1, <4>3, OthersKeep
      <4> QED
        BY <4>2, <4>3
    <3> QED
      BY <3>1 DEF CreditedOrOpen, Row, Ref
  <2> QED
    BY <2>1, <2>5, <2>7 DEF OpenInv
<1> QED
  BY <1>2, <1>3 DEF Next, LeaseAges, DeleteBranch, vars, journal

\* Of a top-up that can be credited: what is answered "received" is credited; what
\* is answered "duplicate" is credited or still open, so that a further delivery would be handled.
THEOREM AcknowledgementsHold == Spec => []CreditedOrOpen
<1>1. TypeOK /\ BooksInv /\ OpenInv /\ [Next]_vars => OpenInv'
  BY StepOpenInv
<1>2. OpenInv => CreditedOrOpen
  BY DEF OpenInv
<1> QED
  BY <1>1, <1>2, InitOpenInv, InvariantHolds, PTL DEF Spec
=============================================================================
