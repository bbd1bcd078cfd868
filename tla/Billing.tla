------------------------------ MODULE Billing ------------------------------
(***************************************************************************)
(* Token billing (src/backend/services/razorpay_service.py and the webhook *)
(* of src/backend/routes/tokens.py): the payment provider delivers events, *)
(* any number of times and in any order, until it is answered with a 2xx;  *)
(* a journal of events decides which delivery handles an event; a handler  *)
(* credits the tokens that were paid for to the balance of the branch.     *)
(* One branch and its one subscription.  A handler that cannot use an      *)
(* event, because it says too little or the branch has been deleted, logs  *)
(* that and returns, and the event is filed as processed all the same.     *)
(***************************************************************************)
EXTENDS Integers, FiniteSets

CONSTANTS
    Events,      \* events of the provider
    KindOf,      \* KindOf[e]: what happened
    References,  \* payments
    RefOf,       \* RefOf[e]: the payment event e tells of
    Complete,    \* events that say all their handler needs, and consistently
    Deliveries,  \* deliveries of events, each repeated until acknowledged
    EventOf,     \* EventOf[d]: the event that d delivers
    Faults       \* what may go wrong

Payments == {"topup", "charged"}
Changes == {"activated", "cancelled"}
Kinds == Payments \cup Changes \cup {"other"}

ASSUME EventsAssumption ==
    /\ KindOf \in [Events -> Kinds]
    /\ RefOf \in [Events -> References]
    /\ Complete \subseteq Events
    /\ EventOf \in [Deliveries -> Events]
    /\ Faults \subseteq {"journal", "handler", "crash", "deletion"}

VARIABLES
    inbox,         \* inbox[e]: the row of razorpay_webhook_inbox
    fresh,         \* fresh[e]: the row was claimed less than five minutes ago
    pc,            \* pc[d]: what the server does next for d, or its answer
    purchases,     \* the payments in token_purchases (a unique index)
    credits,       \* credits[p]: how often the tokens of p have been added
    account,       \* the branch has a row in token_balances
    subscription,  \* its subscription_status
    branch         \* the branch is there, and so its school is known

journal == <<inbox, fresh>>
books == <<purchases, credits, account, subscription>>
vars == <<journal, pc, books, branch>>

\* A claimed event is handled from the stage named for its kind.
Claiming == {"insert", "retry", "take_over"}
Working == {"find", "credit", "activate", "cancel"}
Handling == Kinds \cup Working \cup {"finish", "fail"}
Stages == {"look"} \cup Claiming \cup Handling
Acknowledged == {"received", "duplicate"}
\* An "error" is an answer of 500, or none.
Answers == Acknowledged \cup {"error"}

Init ==
    /\ inbox = [e \in Events |-> "none"]
    /\ fresh = [e \in Events |-> FALSE]
    /\ pc = [d \in Deliveries |-> "waiting"]
    /\ purchases = {}
    /\ credits = [p \in References |-> 0]
    /\ account = FALSE
    /\ subscription = "none"
    /\ branch = TRUE

Move(d, stage) == pc' = [pc EXCEPT ![d] = stage] /\ UNCHANGED branch

Kind(d) == KindOf[EventOf[d]]
Ref(d) == RefOf[EventOf[d]]
Row(d) == inbox[EventOf[d]]

SetRow(d, status) == inbox' = [inbox EXCEPT ![EventOf[d]] = status]

(***************************************************************************)
(* The journal (begin_webhook_event, finish_webhook_event).                *)
(***************************************************************************)
\* The provider delivers, and delivers again what was not acknowledged.
Receive(d) ==
    /\ pc[d] \in {"waiting", "error"}
    /\ Move(d, "look")
    /\ UNCHANGED <<journal, books>>

\* A finished event is acknowledged, and so is one that is being processed.
Look(d) ==
    /\ pc[d] = "look"
    /\ Move(d, CASE Row(d) = "none" -> "insert"
                 [] Row(d) = "failed" -> "retry"
                 [] Row(d) = "processing" /\ ~fresh[EventOf[d]] -> "take_over"
                 [] OTHER -> "duplicate")
    /\ UNCHANGED <<journal, books>>

\* The insert, or the conditional update, that makes d the event's handler.
Claimable(d) ==
    /\ pc[d] = "insert" => Row(d) = "none"
    /\ pc[d] = "retry" => Row(d) = "failed"
    /\ pc[d] = "take_over" => Row(d) = "processing" /\ ~fresh[EventOf[d]]

Take(d) ==
    /\ SetRow(d, "processing")
    /\ fresh' = [fresh EXCEPT ![EventOf[d]] = TRUE]

\* The handler an event is passed to.
Route(d) == Kind(d)

Claim(d) ==
    /\ pc[d] \in Claiming
    /\ IF Claimable(d) THEN Take(d) /\ Move(d, Route(d))
                       ELSE UNCHANGED journal /\ Move(d, "duplicate")
    /\ UNCHANGED books

\* Reading or claiming raises, the claim made or not: no handler, a 500.
ClaimFails(d) ==
    /\ "journal" \in Faults /\ pc[d] \in {"look"} \cup Claiming
    /\ UNCHANGED journal \/ (pc[d] \in Claiming /\ Claimable(d) /\ Take(d))
    /\ Move(d, "error")
    /\ UNCHANGED books

\* How an event is filed; one of no interest is filed as such.
Filed == [finish |-> "processed", other |-> "ignored", fail |-> "failed"]

Finish(d) ==
    /\ pc[d] \in {"finish", "other"}
    /\ SetRow(d, Filed[pc[d]])
    /\ Move(d, "received")
    /\ UNCHANGED <<fresh, books>>

\* Mutated form of Fail: "Return 200 to prevent a Razorpay retry storm".
Fail_Acknowledged(d) ==
    /\ pc[d] = "fail"
    /\ SetRow(d, "failed")
    /\ Move(d, "received")
    /\ UNCHANGED <<fresh, books>>

\* A failed event is released for the next delivery of it, and that is asked for.
Fail(d) ==
    /\ pc[d] = "fail"
    /\ SetRow(d, "failed")
    /\ Move(d, "error")
    /\ UNCHANGED <<fresh, books>>

\* Recording the end of an event raises, recorded or not.
EndUnrecorded(d) ==
    /\ "journal" \in Faults /\ pc[d] \in DOMAIN Filed
    /\ UNCHANGED inbox \/ SetRow(d, Filed[pc[d]])
    /\ Move(d, "error")
    /\ UNCHANGED <<fresh, books>>

(***************************************************************************)
(* The handlers.                                                           *)
(***************************************************************************)
\* What an event is about is found: for a top-up and an activation the branch
\* that its notes name, for a renewal the balance, by the subscription or by the
\* branch, for a cancellation the branch, or the balance if the notes name none.
CanResolve(d) ==
    CASE pc[d] \in {"topup", "activated"} -> EventOf[d] \in Complete /\ branch
      [] pc[d] = "charged" -> account
      [] pc[d] = "cancelled" -> IF EventOf[d] \in Complete THEN branch ELSE account

\* A balance can make up for what a renewal or a cancellation does not say,
\* if it holds the subscription and its plan.
MayDrop(d) == ~CanResolve(d) \/ EventOf[d] \notin Complete

WorkOn == [topup |-> "find", charged |-> "find", activated |-> "activate",
           cancelled |-> "cancel"]

\* Mutated form of Resolve: a top-up needs the branch's balance, as a renewal does.
Resolve_OnBalance(d) ==
    /\ pc[d] \in Payments \cup Changes
    /\ \/ CanResolve(d) /\ account /\ Move(d, WorkOn[pc[d]])
       \/ (MayDrop(d) \/ ~account) /\ Move(d, "finish")
    /\ UNCHANGED <<journal, books>>

\* An event that cannot be used is logged and dropped: its handler returns.
Resolve(d) ==
    /\ pc[d] \in Payments \cup Changes
    /\ \/ CanResolve(d) /\ Move(d, WorkOn[pc[d]])
       \/ MayDrop(d) /\ Move(d, "finish")
    /\ UNCHANGED <<journal, books>>

FindPurchase(d) ==
    /\ pc[d] = "find"
    /\ Move(d, IF Ref(d) \in purchases THEN "finish" ELSE "credit")
    /\ UNCHANGED <<journal, books>>

\* One transaction inserts the purchase and adds its tokens to the balance,
\* which a top-up creates if there is none.
Grant(d) ==
    /\ purchases' = purchases \cup {Ref(d)}
    /\ credits' = [credits EXCEPT ![Ref(d)] = @ + 1]
    /\ account' = TRUE
    /\ UNCHANGED subscription

\* Mutated form of Credit: without the unique index.
Credit_NotUnique(d) ==
    /\ pc[d] = "credit"
    /\ Grant(d)
    /\ Move(d, "finish")
    /\ UNCHANGED journal

\* A second insert of the payment is refused: the handler returns from inside
\* the transaction, and committing what the server has aborted may raise.
Credit(d) ==
    /\ pc[d] = "credit"
    /\ \/ Ref(d) \notin purchases /\ Grant(d) /\ Move(d, "finish")
       \/ /\ Ref(d) \in purchases /\ UNCHANGED books
          /\ Move(d, "finish") \/ Move(d, "fail")
    /\ UNCHANGED journal

\* An activation creates the balance if there is none; a cancellation does not.
SetStatus(d) ==
    /\ pc[d] \in {"activate", "cancel"}
    /\ account' = (account \/ pc[d] = "activate")
    /\ subscription' = CASE pc[d] = "activate" -> "active"
                         [] pc[d] = "cancel" /\ account -> "canceled"
                         [] OTHER -> subscription
    /\ UNCHANGED <<purchases, credits>>

\* The subscription's fields are set, whichever event comes last.
UpdateSubscription(d) ==
    /\ SetStatus(d)
    /\ Move(d, "finish")
    /\ UNCHANGED journal

\* A handler raises; a write whose answer was lost has taken effect.
Raise(d) ==
    /\ "handler" \in Faults
    /\ \/ pc[d] \in Working \cup Payments \cup Changes /\ UNCHANGED books
       \/ pc[d] = "credit" /\ Ref(d) \notin purchases /\ Grant(d)
       \/ SetStatus(d)
    /\ Move(d, "fail")
    /\ UNCHANGED journal

(***************************************************************************)
(* The environment.                                                        *)
(***************************************************************************)
Crash(d) ==
    /\ "crash" \in Faults
    /\ pc[d] \in Stages
    /\ Move(d, "error")
    /\ UNCHANGED <<journal, books>>

\* Five minutes pass over an event that is being processed.
LeaseAges(e) ==
    /\ inbox[e] = "processing" /\ fresh[e]
    /\ fresh' = [fresh EXCEPT ![e] = FALSE]
    /\ UNCHANGED <<inbox, pc, books, branch>>

\* A branch without active students may be deleted, paid for or not.
DeleteBranch ==
    /\ "deletion" \in Faults
    /\ branch /\ branch' = FALSE
    /\ UNCHANGED <<journal, pc, books>>

Proceed(d) ==
    \/ Receive(d) \/ Look(d) \/ Claim(d) \/ Finish(d) \/ Fail(d)
    \/ Resolve(d) \/ FindPurchase(d) \/ Credit(d) \/ UpdateSubscription(d)

Disturb(d) == ClaimFails(d) \/ EndUnrecorded(d) \/ Raise(d) \/ Crash(d)

Next ==
    \/ \E d \in Deliveries : Proceed(d) \/ Disturb(d)
    \/ \E e \in Events : LeaseAges(e)
    \/ DeleteBranch

Spec == Init /\ [][Next]_vars

\* The server goes on with what it has begun, the provider delivers again what
\* was not acknowledged, and the database does not fail a handler for ever.
FairSpec ==
    /\ Spec
    /\ \A d \in Deliveries : WF_vars(Proceed(d))
    /\ \A d \in {q \in Deliveries : Kind(q) = "topup"} :
          SF_vars(Resolve(d)) /\ SF_vars(FindPurchase(d)) /\ SF_vars(Credit(d))
-----------------------------------------------------------------------------
TypeOK ==
    /\ inbox \in [Events -> {"none", "processing", "failed", "processed", "ignored"}]
    /\ fresh \in [Events -> BOOLEAN]
    /\ pc \in [Deliveries -> {"waiting"} \cup Stages \cup Answers]
    /\ \A d \in Deliveries : /\ pc[d] \in Kinds => pc[d] = Kind(d)
                             /\ pc[d] \in {"find", "credit"} => Kind(d) \in Payments
                             /\ pc[d] \in {"activate", "cancel"} => Kind(d) \in Changes
    /\ purchases \subseteq References
    /\ credits \in [References -> Nat]
    /\ account \in BOOLEAN
    /\ subscription \in {"none", "active", "canceled"}
    /\ branch \in BOOLEAN

\* Whether d tells of a top-up that can be credited: one that says what was
\* bought for a branch that is still there.  The others are dropped, and filed
\* as processed, by design of the handler.
Creditable(d) == Kind(d) = "topup" /\ EventOf[d] \in Complete /\ branch

\* However often a payment is reported, and whatever fails or is handled twice
\* after a lease has run out, its tokens are added to the balance once, and
\* exactly if its purchase is on record.
CreditedOnce ==
    \A p \in References : credits[p] = IF p \in purchases THEN 1 ELSE 0

\* An event that tells of a creditable top-up is not filed as processed before
\* its payment is credited, whichever delivery files it.
ProcessedIsCredited ==
    \A d \in Deliveries : Creditable(d) /\ Row(d) = "processed" => Ref(d) \in purchases

\* A top-up that is reported is credited in the end, unless its branch goes.
TopupsAreCredited ==
    \A d \in Deliveries :
        Creditable(d) /\ pc[d] = "look" ~> Ref(d) \in purchases \/ ~branch
-----------------------------------------------------------------------------
(***************************************************************************)
(* What comments promise and the code does not keep.                       *)
(***************************************************************************)
\* begin_webhook_event returns "False if already processed", upon which the
\* provider is told that it need not deliver again: an acknowledged top-up is
\* credited if it can be, or some delivery is still at it.
AcknowledgedIsCredited ==
    \A d \in Deliveries : Creditable(d) /\ pc[d] \in Acknowledged =>
        \/ Ref(d) \in purchases
        \/ \E q \in Deliveries : EventOf[q] = EventOf[d] /\ pc[q] \in Handling
=============================================================================
