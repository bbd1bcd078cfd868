----------------------------- MODULE FeeLedger -----------------------------
(***************************************************************************)
(* The fee documents of one child: the bills raised from a fee structure,  *)
(* the marks (concessions, a government place) they are worked out from,   *)
(* the payments recorded at the counter or by an approved plan, their      *)
(* correction and deletion, the links a family pays through, and the       *)
(* accounting period that covers today.                                    *)
(* A caller makes one call.  A stage of a call is its work up to and with  *)
(* its next statement, so any two calls interleave statement by statement. *)
(* Rows that nothing reads (audit, corrections, revisions) are left out.   *)
(***************************************************************************)
EXTENDS Naturals, FiniteSets

CONSTANTS
    Callers,
    LastQuarter,     \* instalments 1 .. LastQuarter of the one fee structure
    Joining,         \* the registration bill, raised when the child joined
    Gross,           \* the fee of a quarter
    SiblingCut,      \* what the school's table gives a sibling on that fee
    OneTime,         \* the amount agreed once, at admission
    JoiningFee,      \* the registration fee: no band of the sibling table
    Deposit,         \* what is paid of a quarter that is paid in part
    Corrected,       \* the amount a correction puts
    None

Quarters == 1 .. LastQuarter
Bills == Quarters \cup {Joining}
Docs == Bills \cup Callers      \* a counter payment is named by who recorded it

Statuses == {"pending", "partial", "paid", "cancelled"}
Snapshots == [amount : Nat, status : Statuses]
Documents == [status : Statuses, amount : Nat, paid : Nat, once : BOOLEAN,
              deleted : BOOLEAN, corrections : Nat, original : Snapshots \cup {None}]
Marks == [employee : BOOLEAN, sibling : BOOLEAN, rte : BOOLEAN, agreed : BOOLEAN,
          applied : Quarters \cup {None}]
Links == [bills : SUBSET Bills, status : {"created", "paid"}]

ASSUME AmountsAssumption ==
    /\ LastQuarter \in Nat \ {0} /\ Gross \in Nat \ {0} /\ OneTime \in Nat \ {0}
    /\ JoiningFee \in Nat \ {0} /\ SiblingCut \in Nat /\ Corrected \in Nat
    /\ Deposit \in Nat /\ Deposit < Gross
ASSUME NamesAssumption ==
    /\ Joining \notin Quarters
    /\ Callers \cap Bills = {}
    /\ None \notin Docs \cup Documents \cup Snapshots \cup Links \cup {"fresh", "expired"}

VARIABLES
    marks,      \* the child's record
    doc,        \* fee_transactions
    key,        \* key[c]: the fee_idempotency_keys row of the payment c recorded
    link,       \* link[c]: the checkout c created
    status,     \* of the accounting period, or "none": the school keeps no periods
    version,    \* the writes its document has seen (status_history, activity_version)
    holder,     \* the plan whose open transaction has written to the period
    pc,         \* pc[c]: the stage of c's call, or its answer
    mem,        \* mem[c]: what the call was asked for, has read and has yet to do
    before,     \* before[c]: the payments whose key was stored when c began
    alone       \* no two calls have overlapped, and none has failed
period == <<status, version, holder>>
vars == <<marks, doc, key, link, period, pc, mem, before, alone>>
-----------------------------------------------------------------------------
(***************************************************************************)
(* What a bill comes to (services/concession_service.py).                  *)
(***************************************************************************)
MinOf(a, b) == IF a <= b THEN a ELSE b
GrossOf(b) == IF b = Joining THEN JoiningFee ELSE Gross

\* The employee's half wins over the sibling's share; they do not stack.
Recurring(m, b) ==
    IF m.employee THEN GrossOf(b) \div 2 ELSE IF m.sibling THEN SiblingCut ELSE 0

\* admission_concession: once it names an instalment, it is given to that one only.
OneTimeFor(m, b) == IF m.agreed /\ m.applied \in {None, b} THEN OneTime ELSE 0

\* Mutated form of Net: the concessions are not capped at the fee.
Net_Uncapped(m, b) == GrossOf(b) - (Recurring(m, b) + OneTimeFor(m, b))
Net(m, b) == GrossOf(b) - MinOf(Recurring(m, b) + OneTimeFor(m, b), GrossOf(b))

\* ConcessionRuleError: the sibling table has no value for a fee that is no band.
Computable(m, b) == ~(b = Joining /\ m.sibling /\ ~m.employee)

Raised(m, b) ==
    [status |-> "pending", amount |-> Net(m, b), paid |-> 0,
     once |-> OneTimeFor(m, b) > 0, deleted |-> FALSE, corrections |-> 0,
     original |-> None]
Payment(paid) ==
    [status |-> IF paid < Gross THEN "partial" ELSE "paid", amount |-> Gross,
     paid |-> paid, once |-> FALSE, deleted |-> FALSE, corrections |-> 0,
     original |-> None]
Tendered == {Gross, Deposit}

Exists(i) == doc[i] # None
Open(i) == Exists(i) /\ doc[i].status = "pending"
-----------------------------------------------------------------------------
(***************************************************************************)
(* Calls.                                                                  *)
(***************************************************************************)
NoMarks == [employee |-> FALSE, sibling |-> FALSE, rte |-> FALSE,
            agreed |-> FALSE, applied |-> None]
Blank == [on |-> {}, what |-> "none", yes |-> FALSE, marks |-> NoMarks,
          saw |-> None, count |-> 0, work |-> {}]

Wants(on, what, yes) == [Blank EXCEPT !.on = on, !.what = what, !.yes = yes]

Stages == {"key", "posting", "insert", "store", "plan", "touch", "commit",
           "original", "correct", "target", "remove", "preview", "existing",
           "raise", "stamp", "mark", "agreed", "agree", "student", "bills",
           "rework", "link", "issue", "period", "status"}
Answers == {"recorded", "posted", "replayed", "refused", "conflict", "missing",
            "done", "failed"}

Busy == {c \in Callers : pc[c] \in Stages}
Known == {i \in Callers : key[i] # None}

Move(c, stage) == pc' = [pc EXCEPT ![c] = stage]
Keep(c, m) == mem' = [mem EXCEPT ![c] = m]
Go(c, stage, m) == Move(c, stage) /\ Keep(c, m)
Answer(c, a) == Go(c, a, Blank)
ghosts == <<before, alone>>

\* The calls of the fee routes and tools, with what their caller asks for.
Begin(c) ==
    /\ pc[c] = "idle"
    /\ \/ \E s \in {"key", "plan", "agreed"} : Go(c, s, Blank)
       \/ \E i \in {d \in Docs : Exists(d)} :
              Go(c, "original", Wants({i}, "correct", FALSE))
       \/ \E i \in {d \in Docs : Exists(d)} :
              Go(c, "target", Wants({i}, "remove", FALSE))
       \/ \E Q \in SUBSET Quarters \ {{}} : Go(c, "preview", Wants(Q, "none", FALSE))
       \/ \E m \in {"employee", "sibling", "rte"}, yes \in BOOLEAN :
              Go(c, "mark", Wants({}, m, yes))
       \/ \E S \in SUBSET {b \in Bills : Exists(b)} \ {{}} :
              Go(c, "link", Wants(S, "none", FALSE))
       \/ \E yes \in BOOLEAN : Go(c, "period", Wants({}, "none", yes))
    /\ before' = [before EXCEPT ![c] = Known]
    /\ alone' = (alone /\ Busy = {})
    /\ UNCHANGED <<marks, doc, key, link, period>>
-----------------------------------------------------------------------------
(***************************************************************************)
(* Payments (services/fees_service.py).                                    *)
(***************************************************************************)
\* Mutated form of Unknown: the key is not looked up.
Unknown_Unread == TRUE
\* The key is not unique: of several rows the lookup returns any, also one that
\* has expired.  A payment that is found is returned even if it was deleted.
Unknown == Known = {} \/ \E i \in Known : key[i] = "expired"
Recognised == \E i \in Known : key[i] = "fresh"

LookForKey(c) ==
    /\ pc[c] = "key"
    /\ \/ Recognised /\ Answer(c, "replayed")
       \/ Unknown /\ Go(c, "posting", [mem[c] EXCEPT !.what = "insert"])
    /\ UNCHANGED <<marks, doc, key, link, period, ghosts>>

\* Where no period is configured there is nothing to close.
PostingAllowed == status \in {"open", "none"}

\* assert_posting_allowed, outside any session.
CheckPosting(c) ==
    /\ pc[c] = "posting"
    /\ IF PostingAllowed THEN Go(c, mem[c].what, mem[c]) ELSE Answer(c, "refused")
    /\ UNCHANGED <<marks, doc, key, link, period, ghosts>>

InsertPayment(c) ==
    /\ pc[c] = "insert"
    /\ \E paid \in Tendered : doc' = [doc EXCEPT ![c] = Payment(paid)]
    /\ Move(c, "store")
    /\ UNCHANGED <<marks, key, link, period, mem, ghosts>>

StoreKey(c) ==
    /\ pc[c] = "store"
    /\ key' = [key EXCEPT ![c] = "fresh"]
    /\ Answer(c, "recorded")
    /\ UNCHANGED <<marks, doc, link, period, ghosts>>

\* The same call as a step of a plan, inside its transaction: all it reads is of
\* one snapshot, and it writes to the period, if there is one, before it inserts.
PlanBegins(c) ==
    /\ pc[c] = "plan"
    /\ \/ Recognised /\ Answer(c, "replayed")
       \/ Unknown /\ ~PostingAllowed /\ Answer(c, "refused")
       \/ Unknown /\ status = "open" /\ Go(c, "touch", [mem[c] EXCEPT !.count = version])
       \/ Unknown /\ status = "none" /\ Go(c, "commit", mem[c])
    /\ UNCHANGED <<marks, doc, key, link, period, ghosts>>

\* Mutated form of Touchable: the write takes no part in the snapshot.
Touchable_Unversioned(c) == holder = None
Touchable(c) == holder = None /\ version = mem[c].count

PlanTouches(c) ==
    /\ pc[c] = "touch"
    /\ IF Touchable(c)
       THEN holder' = c /\ Move(c, "commit") /\ UNCHANGED mem
       ELSE Answer(c, "conflict") /\ UNCHANGED holder
    /\ UNCHANGED <<marks, doc, key, link, status, version, ghosts>>

PlanCommits(c) ==
    /\ pc[c] = "commit"
    /\ \E paid \in Tendered : doc' = [doc EXCEPT ![c] = Payment(paid)]
    /\ key' = [key EXCEPT ![c] = "fresh"]
    /\ IF holder = c THEN version' = version + 1 /\ holder' = None
       ELSE UNCHANGED <<version, holder>>
    /\ Answer(c, "posted")
    /\ UNCHANGED <<marks, link, status, ghosts>>

\* 24 hours later.
KeyExpires(c) ==
    /\ key[c] = "fresh"
    /\ key' = [key EXCEPT ![c] = "expired"]
    /\ UNCHANGED <<marks, doc, link, period, pc, mem, ghosts>>

\* correct_transaction and delete_transaction.
ReadOriginal(c) ==
    /\ pc[c] = "original"
    /\ \E i \in mem[c].on : Go(c, "posting", [mem[c] EXCEPT !.saw = doc[i]])
    /\ UNCHANGED <<marks, doc, key, link, period, ghosts>>

Figures(d) == [amount |-> d.amount, status |-> d.status]

\* Mutated form of Snapshot: every correction takes one.
Snapshot_Latest(d, saw) == Figures(saw)
\* The snapshot is taken of what was read, and only if that held none.
Snapshot(d, saw) == IF saw.original = None THEN Figures(saw) ELSE d.original

Amended(d, amount, put, saw) ==
    [d EXCEPT !.amount = amount, !.status = put, !.corrections = d.corrections + 1,
              !.original = Snapshot(d, saw)]

\* The caller may put another amount, and any status.
Correct(c) ==
    /\ pc[c] = "correct"
    /\ \E i \in mem[c].on, put \in Statuses :
          \E amount \in {doc[i].amount, Corrected} :
             doc' = [doc EXCEPT ![i] = Amended(doc[i], amount, put, mem[c].saw)]
    /\ Answer(c, "done")
    /\ UNCHANGED <<marks, key, link, period, ghosts>>

ReadTarget(c) ==
    /\ pc[c] = "target"
    /\ \E i \in mem[c].on :
          IF doc[i].deleted THEN Answer(c, "missing") ELSE Go(c, "posting", mem[c])
    /\ UNCHANGED <<marks, doc, key, link, period, ghosts>>

Remove(c) ==
    /\ pc[c] = "remove"
    /\ \E i \in mem[c].on : doc' = [doc EXCEPT ![i].deleted = TRUE]
    /\ Answer(c, "done")
    /\ UNCHANGED <<marks, key, link, period, ghosts>>
-----------------------------------------------------------------------------
(***************************************************************************)
(* Bills (services/fee_lifecycle_service.py).                              *)
(***************************************************************************)
\* generate_charges: a preview (the child, then the bills there are), then one
\* upsert a quarter, and a stamp wherever the one-time amount went in.
ReadChild(c) ==
    /\ pc[c] = "preview"
    /\ IF marks.rte THEN Answer(c, "done")
       ELSE Go(c, "existing", [mem[c] EXCEPT !.marks = marks])
    /\ UNCHANGED <<marks, doc, key, link, period, ghosts>>

\* With nothing left to do the call is over.
Work(c, stage, rows) ==
    IF rows = {} THEN Answer(c, "done")
    ELSE Go(c, stage, [mem[c] EXCEPT !.work = rows])

ReadExisting(c) ==
    /\ pc[c] = "existing"
    /\ Work(c, "raise", {[bill |-> q, new |-> Raised(mem[c].marks, q)] :
                            q \in {q \in mem[c].on : ~Exists(q)}})
    /\ UNCHANGED <<marks, doc, key, link, period, ghosts>>

First(rows, r) == r \in rows /\ \A s \in rows : r.bill <= s.bill

Upserted(r) == IF Exists(r.bill) THEN doc[r.bill] ELSE r.new

Raise(c) ==
    /\ pc[c] = "raise"
    /\ \E r \in mem[c].work :
          /\ First(mem[c].work, r)
          /\ doc' = [doc EXCEPT ![r.bill] = Upserted(r)]
          /\ IF r.new.once THEN Move(c, "stamp") /\ UNCHANGED mem
             ELSE Work(c, "raise", mem[c].work \ {r})
    /\ UNCHANGED <<marks, key, link, period, ghosts>>

Stamp(c) ==
    /\ pc[c] = "stamp"
    /\ \E r \in mem[c].work :
          /\ First(mem[c].work, r)
          /\ marks' = [marks EXCEPT !.applied = r.bill]
          /\ Work(c, "raise", mem[c].work \ {r})
    /\ UNCHANGED <<doc, key, link, period, ghosts>>

\* Mutated form of SetMark: the bills are not worked out again.
SetMark_Only(c) ==
    /\ pc[c] = "mark"
    /\ marks' = [marks EXCEPT ![mem[c].what] = mem[c].yes]
    /\ Answer(c, "done")
    /\ UNCHANGED <<doc, key, link, period, ghosts>>
\* Every change of the marks is followed by recompute_open_charges.
SetMark(c) ==
    /\ pc[c] = "mark"
    /\ marks' = [marks EXCEPT ![mem[c].what] = mem[c].yes]
    /\ Move(c, "student")
    /\ UNCHANGED <<doc, key, link, period, mem, ghosts>>

Consumed == marks.applied # None

ReadAgreed(c) ==
    /\ pc[c] = "agreed"
    /\ IF Consumed THEN Answer(c, "conflict") ELSE Go(c, "agree", mem[c])
    /\ UNCHANGED <<marks, doc, key, link, period, ghosts>>

Agree(c) ==
    /\ pc[c] = "agree"
    /\ marks' = [marks EXCEPT !.agreed = TRUE, !.applied = None]
    /\ Move(c, "student")
    /\ UNCHANGED <<doc, key, link, period, mem, ghosts>>

ReadStudent(c) ==
    /\ pc[c] = "student"
    /\ Go(c, "bills", [mem[c] EXCEPT !.marks = marks])
    /\ UNCHANGED <<marks, doc, key, link, period, ghosts>>

Cancelled(d) == [d EXCEPT !.status = "cancelled", !.amount = 0]
Reworked(d, m, b) == [d EXCEPT !.amount = Net(m, b), !.once = OneTimeFor(m, b) > 0]

\* Mutated form of Touched: the money against a bill is not looked at.
Touched_Paid(b) == Open(b)
\* What is settled, and what has money against it, is left alone.
Touched(b) == Open(b) /\ doc[b].paid = 0

Changes(m) ==
    IF m.rte THEN {[bill |-> b, cancel |-> TRUE] : b \in {b \in Bills : Touched(b)}}
    ELSE {[bill |-> b, cancel |-> FALSE] :
            b \in {b \in Bills : Touched(b) /\ Computable(m, b) /\ doc[b].amount # Net(m, b)}}

ReadBills(c) ==
    /\ pc[c] = "bills"
    /\ Work(c, "rework", Changes(mem[c].marks))
    /\ UNCHANGED <<marks, doc, key, link, period, ghosts>>

\* The update is not conditional on what was read.
Rework(c) ==
    /\ pc[c] = "rework"
    /\ \E r \in mem[c].work :
          /\ doc' = [doc EXCEPT ![r.bill] =
                IF r.cancel THEN Cancelled(doc[r.bill])
                ELSE Reworked(doc[r.bill], mem[c].marks, r.bill)]
          /\ Work(c, "rework", mem[c].work \ {r})
    /\ UNCHANGED <<marks, key, link, period, ghosts>>
-----------------------------------------------------------------------------
(***************************************************************************)
(* Paying online (services/razorpay_service.py).                           *)
(***************************************************************************)
\* create_school_fee_checkout: what is chosen must be there, and owe something.
Owes(d) ==
    \/ d.status = "pending" /\ d.amount > 0
    \/ d.status = "partial" /\ d.amount > d.paid

ReadOwed(c) ==
    /\ pc[c] = "link"
    /\ IF /\ \A b \in mem[c].on : ~doc[b].deleted
          /\ \E b \in mem[c].on : Owes(doc[b])
       THEN Go(c, "issue", mem[c]) ELSE Answer(c, "refused")
    /\ UNCHANGED <<marks, doc, key, link, period, ghosts>>

IssueLink(c) ==
    /\ pc[c] = "issue"
    /\ link' = [link EXCEPT ![c] = [bills |-> mem[c].on, status |-> "created"]]
    /\ Answer(c, "done")
    /\ UNCHANGED <<marks, doc, key, period, ghosts>>

\* handle_school_fee_payment_link_paid, one transaction.  It raises, and is
\* tried again, while one of the bills is deleted.
Settle(c) ==
    /\ link[c] # None /\ link[c].status = "created"
    /\ \A b \in link[c].bills : ~doc[b].deleted
    /\ doc' = [i \in Docs |->
          IF i \in link[c].bills
          THEN [doc[i] EXCEPT !.status = "paid", !.paid = doc[i].amount]
          ELSE doc[i]]
    /\ link' = [link EXCEPT ![c].status = "paid"]
    /\ alone' = (alone /\ Busy = {})
    /\ UNCHANGED <<marks, key, period, pc, mem, before>>
-----------------------------------------------------------------------------
(***************************************************************************)
(* The period (services/accounting_period_service.py), failure, next step. *)
(***************************************************************************)
Wanted(c) == IF mem[c].yes THEN "open" ELSE "closed"

ReadPeriod(c) ==
    /\ pc[c] = "period"
    /\ \/ status = "none" /\ Answer(c, "missing")
       \/ status = Wanted(c) /\ Answer(c, "done")
       \/ status \notin {"none", Wanted(c)} /\ Go(c, "status", mem[c])
    /\ UNCHANGED <<marks, doc, key, link, period, ghosts>>

\* The update asks for the status that was read, the one that is not wanted.  A write to a
\* document that an open transaction has written to waits for it.
ChangeStatus(c) ==
    /\ pc[c] = "status"
    /\ holder = None
    /\ IF status \notin {"none", Wanted(c)}
       THEN status' = Wanted(c) /\ version' = version + 1 /\ Answer(c, "done")
       ELSE Answer(c, "conflict") /\ UNCHANGED <<status, version>>
    /\ UNCHANGED <<marks, doc, key, link, holder, ghosts>>

\* A statement raises, or the process dies; an open transaction is rolled back.
Fail(c) ==
    /\ pc[c] \in Stages
    /\ Answer(c, "failed")
    /\ holder' = IF holder = c THEN None ELSE holder
    /\ alone' = FALSE
    /\ UNCHANGED <<marks, doc, key, link, status, version, before>>

Init ==
    /\ marks = NoMarks
    /\ \E B \in SUBSET Bills :
          doc = [i \in Docs |-> IF i \in B THEN Raised(NoMarks, i) ELSE None]
    /\ key = [c \in Callers |-> None]
    /\ link = [c \in Callers |-> None]
    /\ status \in {"open", "none"} /\ version = 0 /\ holder = None
    /\ pc = [c \in Callers |-> "idle"]
    /\ mem = [c \in Callers |-> Blank]
    /\ before = [c \in Callers |-> {}]
    /\ alone = TRUE

Pay(c) == LookForKey(c) \/ InsertPayment(c) \/ StoreKey(c)
            \/ PlanBegins(c) \/ PlanTouches(c) \/ PlanCommits(c)
Amend(c) == CheckPosting(c) \/ ReadOriginal(c) \/ Correct(c) \/ ReadTarget(c) \/ Remove(c)
Bill(c) == ReadChild(c) \/ ReadExisting(c) \/ Raise(c) \/ Stamp(c)
Mark(c) == SetMark(c) \/ ReadAgreed(c) \/ Agree(c)
             \/ ReadStudent(c) \/ ReadBills(c) \/ Rework(c)
Link(c) == ReadOwed(c) \/ IssueLink(c)
Govern(c) == ReadPeriod(c) \/ ChangeStatus(c)

Next ==
    \E c \in Callers :
        \/ Begin(c) \/ Pay(c) \/ Amend(c) \/ Bill(c) \/ Mark(c) \/ Link(c) \/ Govern(c)
        \/ KeyExpires(c) \/ Settle(c) \/ Fail(c)
Spec == Init /\ [][Next]_vars
-----------------------------------------------------------------------------
TypeOK ==
    /\ marks \in Marks
    /\ doc \in [Docs -> Documents \cup {None}]
    /\ key \in [Callers -> {"fresh", "expired", None}]
    /\ link \in [Callers -> Links \cup {None}]
    /\ status \in {"open", "closed", "none"}
    /\ version \in Nat
    /\ holder \in Callers \cup {None}
    /\ pc \in [Callers -> {"idle"} \cup Stages \cup Answers]
    /\ before \in [Callers -> SUBSET Callers]
    /\ alone \in BOOLEAN

\* A payment is recorded by a call that began after its key had been stored
\* only if some key of it is older than a day.  (Of calls that overlap, and of
\* calls that fail before they have stored the key, nothing of the kind is true.)
ResubmissionsAreRecognised ==
    \A c \in Callers : Exists(c) /\ before[c] # {} => \E i \in Callers : key[i] = "expired"

\* Two plans never both record a payment within a day, not even at once, in a
\* school that keeps accounting periods: the period they both have to write to
\* makes one of them conflict.  (Where none is configured both do record it.)
PlannedPaymentsAreSingle ==
    status # "none" => \A c, d \in Callers : c # d /\ pc[c] = "posted" /\ pc[d] = "posted" =>
        \E i \in Callers : key[i] = "expired"

\* What a plan posts is posted into a period that is open, if there are any.
PlansPostIntoOpenPeriods ==
    [][\A c \in Callers : pc[c] = "commit" /\ pc'[c] = "posted" => status # "closed"]_vars

\* However many corrections of a payment overlap, its snapshot is what was
\* recorded at first, and a payment that was corrected has one.
SnapshotIsOriginal ==
    \A c \in Callers : Exists(c) =>
        IF doc[c].corrections = 0 THEN doc[c].original = None
        ELSE doc[c].original = Figures(Payment(doc[c].paid))

\* When no two calls overlap, a bill with money against it keeps its amount and
\* is not cancelled, whatever marks are set afterwards and whatever status a
\* correction has put, until somebody corrects it.
ReceiptsStand ==
    [][alone' => \A b \in Bills :
          Exists(b) /\ doc[b].paid > 0 =>
              \/ /\ doc'[b].amount = doc[b].amount
                 /\ doc'[b].status = "cancelled" => doc[b].status = "cancelled"
              \/ \E c \in Callers : pc[c] = "correct" /\ b \in mem[c].on]_vars

\* When no two calls overlap, every open bill that nobody has corrected is what
\* the child's marks make it, but for the one-time amount, and a child with a
\* government place has none.
BillsFollowMarks ==
    alone /\ Busy = {} =>
        \A b \in Bills : Open(b) /\ doc[b].paid = 0 /\ doc[b].corrections = 0 =>
            /\ ~marks.rte
            /\ Computable(marks, b) =>
                  doc[b].amount \in
                      {Net([marks EXCEPT !.agreed = a, !.applied = None], b) : a \in BOOLEAN}
-----------------------------------------------------------------------------
(***************************************************************************)
(* What the code's documentation says of it.                               *)
(***************************************************************************)
\* "so a later quarter cannot hand the family the same money a second time"
OneTimeOnce ==
    Cardinality({b \in Bills : Exists(b) /\ doc[b].status # "cancelled" /\ doc[b].once}) <= 1
=============================================================================
