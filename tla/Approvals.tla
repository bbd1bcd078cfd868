----------------------------- MODULE Approvals -----------------------------
(***************************************************************************)
(* Requests that somebody else decides, and the conversation each has      *)
(* (src/backend/services: approval_registry, approval_thread_service and   *)
(* the six services behind them; routes/approvals.py).                     *)
(*                                                                         *)
(* A caller makes one API call, and can be interleaved with the others     *)
(* between any two statements that reach the database.  The status words   *)
(* of the six kinds are written alike: "asked" is pending, pending_teacher *)
(* or pending_approval, "raised" pending_principal, "agreed" approved,     *)
(* generated or active, "refused" rejected, "gone" deleted.                *)
(***************************************************************************)
EXTENDS Naturals, Sequences, FiniteSets

CONSTANTS
    Requests,
    KindOf,    \* KindOf[q]: the kind of request q
    Strict,    \* the requests that ask for the higher authority: the owner
               \* alone (general), the principal after the teacher (student
               \* leave), an approver at all (certificate, announcement)
    Rivals,    \* Rivals[q]: requests of q's kind by the same person (for a
               \* student leave: about the same days)
    Callers,
    Calls      \* the API calls they may make

Moderated == {"certificate", "announcement"}
Leaves == {"staff_leave", "student_leave"}
Kinds == Moderated \cup Leaves \cup {"general", "profile_change"}

\* One call.  "own": the caller raised the request.  "via" is the shared
\* queue or the kind's own screen.
Call == [op : {"raise", "decide", "delete", "reply", "bring_in", "reopen"},
         req : Requests, via : {"queue", "screen"},
         role : {"owner", "principal", "teacher", "colleague"},
         own : BOOLEAN, verdict : {"agreed", "refused"}]

ASSUME RequestsAssumption ==
    /\ KindOf \in [Requests -> Kinds]
    /\ Strict \subseteq Requests
    /\ Rivals \in [Requests -> SUBSET Requests]
ASSUME CallsAssumption ==
    /\ Calls \subseteq Call
    /\ \A a \in Calls : a.op = "delete" => KindOf[a.req] \in Moderated
    /\ "none" \notin Callers

VARIABLES
    call,       \* call[c]: what caller c asks for; never changes
    pc,         \* pc[c]: the statement c is at, or its answer
    seen,       \* seen[c]: the status c has read last
    count,      \* count[c]: the message count c has read
    past,       \* past[c]: how many messages there were when c brought
                \* somebody in
    status,     \* status[q]
    decidedBy,  \* decidedBy[q]: who wrote that status (decided_by)
    carriedBy,  \* carriedBy[q]: who carried out what q asks for
    signIn,     \* the profile changes that have reached the login record
    standing,   \* standing[q]: what q asks to delete is there, not in use
    thread,     \* thread[q]: the state of q's conversation
    closedAs,   \* closedAs[q]: its closed_decision
    lines,      \* lines[q]: the numbers of its messages, as inserted
    joined      \* joined[q]: the people brought in without the history
                \* (who brought them, the last number they may not see)

document == <<status, decidedBy>>
consequence == <<carriedBy, signIn, standing>>
conversation == <<thread, closedAs, lines, joined>>
local == <<call, seen, count, past>>
vars == <<pc, local, document, consequence, conversation>>

Deciding == {"look", "read", "act", "carry", "login", "mark", "follow"}
Talking == {"ensure", "create", "shut", "reopen", "count", "join",
            "recount", "write"}
Stages == Deciding \cup Talking \cup {"load", "vet", "insert", "find", "remove"}
\* The answers of the API: done, 4xx, 409, 500 or none.
Answers == {"ok", "refused", "conflict", "error"}

Undecided == {"asked", "raised"}
Statuses == {"none", "gone", "agreed", "refused"} \cup Undecided

Req(c) == call[c].req
Kind(c) == KindOf[Req(c)]
Verdict(c) == call[c].verdict

Goto(c, stage) == pc' = [pc EXCEPT ![c] = stage]

IsApprover(a) == a.role \in {"owner", "principal"}

\* Leave of staff is decided by one conditional update, without a read; its
\* screens are for approvers only.
Service(k) == IF k = "staff_leave" THEN "mark" ELSE "read"

Screen(k, a) == IF k = "staff_leave" /\ ~IsApprover(a) THEN "refused" ELSE Service(k)

Entry(k, a) ==
    CASE a.op = "raise" -> IF k \in {"profile_change", "student_leave"} THEN "vet" ELSE "insert"
      [] a.op = "decide" /\ a.via = "screen" -> Screen(k, a)
      [] a.op = "delete" -> "find"
      [] OTHER -> "load"

\* A new request has an id of its own: one caller raises it.
Raises(c, q) == call[c].op = "raise" /\ call[c].req = q

Init ==
    /\ call \in [Callers -> Calls]
    /\ pc = [c \in Callers |-> Entry(Kind(c), call[c])]
    /\ seen = [c \in Callers |-> "none"]
    /\ count = [c \in Callers |-> 0]
    /\ past = [c \in Callers |-> 0]
    /\ \A c, d \in Callers, q \in Requests : Raises(c, q) /\ Raises(d, q) => c = d
    /\ \E passedOn \in SUBSET {q \in Requests : KindOf[q] = "student_leave"} :
         status = [q \in Requests |->
                     CASE \E c \in Callers : Raises(c, q) -> "none"
                       [] q \in passedOn -> "raised"
                       [] OTHER -> "asked"]
    /\ decidedBy = [q \in Requests |-> "none"]
    /\ carriedBy = [q \in Requests |-> {}]
    /\ signIn = {}
    /\ standing = [q \in Requests |-> TRUE]
    /\ thread = [q \in Requests |-> "none"]
    /\ closedAs = [q \in Requests |-> "none"]
    /\ lines = [q \in Requests |-> <<>>]
    /\ joined = [q \in Requests |-> {}]

(***************************************************************************)
(* Who may decide: may_decide of the registry, and the same rule in each   *)
(* service.                                                                *)
(***************************************************************************)
MayDecide(a, q, st) ==
    CASE KindOf[q] = "general" ->
             \/ a.role = "owner"
             \/ a.role = "principal" /\ q \notin Strict
      [] KindOf[q] = "profile_change" -> IsApprover(a) /\ ~a.own
      [] KindOf[q] = "student_leave" ->
             IsApprover(a) \/ (a.role = "teacher" /\ st = "asked")
      [] OTHER -> IsApprover(a)

MayRead(a, q, st) == a.own \/ MayDecide(a, q, st)

(***************************************************************************)
(* Raising a request.                                                      *)
(***************************************************************************)
\* A person has one correction waiting, a child one leave for a day.
Blocking(k) == IF k = "student_leave" THEN Undecided \cup {"agreed"} ELSE Undecided

Vet(c) ==
    /\ pc[c] = "vet"
    /\ Goto(c, IF \E r \in Rivals[Req(c)] : status[r] \in Blocking(Kind(c))
               THEN "refused" ELSE "insert")
    /\ UNCHANGED <<local, document, consequence, conversation>>

\* What is not held for approval, or is asked by an approver, is agreed at
\* once; a school may send every child's leave straight to the principal.
FirstStatuses(c) ==
    IF Kind(c) \in Moderated
    THEN IF IsApprover(call[c]) \/ Req(c) \notin Strict THEN {"agreed"} ELSE {"asked"}
    ELSE IF Kind(c) = "student_leave" THEN Undecided ELSE {"asked"}

Insert(c) ==
    /\ pc[c] = "insert"
    /\ status[Req(c)] = "none"
    /\ \E st \in FirstStatuses(c) :
         /\ status' = [status EXCEPT ![Req(c)] = st]
         /\ decidedBy' = [decidedBy EXCEPT ![Req(c)] = IF st = "agreed" THEN c ELSE "none"]
    /\ Goto(c, "ok")
    /\ UNCHANGED <<local, consequence, conversation>>

(***************************************************************************)
(* Deciding.                                                               *)
(***************************************************************************)
\* Every route of the queue loads the request first; the conversation goes by
\* what it then said.
Load(c) ==
    /\ pc[c] = "load"
    /\ seen' = [seen EXCEPT ![c] = status[Req(c)]]
    /\ Goto(c, IF status[Req(c)] \in {"none", "gone"} THEN "refused"
               ELSE IF call[c].op = "decide" THEN "look" ELSE "ensure")
    /\ UNCHANGED <<call, count, past, document, consequence, conversation>>

\* Mutated form of QueueLooks: a decision it refuses closes the conversation.
QueueLooks_Closing(c) ==
    /\ pc[c] = "look"
    /\ Goto(c, IF status[Req(c)] \in Undecided /\ MayDecide(call[c], Req(c), status[Req(c)])
               THEN Service(Kind(c)) ELSE "ensure")
    /\ UNCHANGED <<local, document, consequence, conversation>>

\* Then a decision is looked at again, before the service is called.
QueueLooks(c) ==
    /\ pc[c] = "look"
    /\ Goto(c, IF status[Req(c)] \in Undecided /\ MayDecide(call[c], Req(c), status[Req(c)])
               THEN Service(Kind(c)) ELSE "refused")
    /\ UNCHANGED <<local, document, consequence, conversation>>

\* Mutated form of Acceptable: the service leaves the authority to the queue.
Acceptable_Unasked(c, st) ==
    /\ st \notin {"none", "gone"}
    /\ Kind(c) # "general" => st \in Undecided
    /\ Kind(c) \in Moderated => st = "asked"

\* What a service asks of the document it has read.  A general request is
\* not asked whether it has been decided.
Acceptable(c, st) ==
    /\ st \notin {"none", "gone"}
    /\ Kind(c) # "general" => st \in Undecided
    /\ Kind(c) \in Moderated => st = "asked"
    /\ MayDecide(call[c], Req(c), st)

\* A general request and a correction are carried out before they are marked.
ActsFirst == {"general", "profile_change"}

ServiceReads(c) ==
    /\ pc[c] = "read"
    /\ seen' = [seen EXCEPT ![c] = status[Req(c)]]
    /\ Goto(c, IF ~Acceptable(c, status[Req(c)]) THEN "refused"
               ELSE IF Verdict(c) = "refused" \/ Kind(c) \notin ActsFirst THEN "mark"
               ELSE IF Kind(c) = "general" THEN "act" ELSE "carry")
    /\ UNCHANGED <<call, count, past, document, consequence, conversation>>

\* What a general request asks to delete is looked for, then deleted; the
\* staff record gets the corrected details.
Prepare(c) ==
    /\ pc[c] = "act"
    /\ Goto(c, IF standing[Req(c)] THEN "carry" ELSE "error")
    /\ UNCHANGED <<local, document, consequence, conversation>>

\* Mutated form of CarryOut: the login record is forgotten.
CarryOut_StaffOnly(c) ==
    /\ pc[c] = "carry"
    /\ carriedBy' = [carriedBy EXCEPT ![Req(c)] = @ \cup {c}]
    /\ standing' = [standing EXCEPT ![Req(c)] = Kind(c) # "general"]
    /\ Goto(c, "mark")
    /\ UNCHANGED <<local, document, signIn, conversation>>

CarryOut(c) ==
    /\ pc[c] = "carry"
    /\ carriedBy' = [carriedBy EXCEPT ![Req(c)] = @ \cup {c}]
    /\ standing' = [standing EXCEPT ![Req(c)] = Kind(c) # "general"]
    /\ Goto(c, IF Kind(c) = "general" THEN "mark" ELSE "login")
    /\ UNCHANGED <<local, document, signIn, conversation>>

\* The login record is corrected after the staff record.
CorrectLogin(c) ==
    /\ pc[c] = "login"
    /\ signIn' = signIn \cup {Req(c)}
    /\ Goto(c, "mark")
    /\ UNCHANGED <<local, document, carriedBy, standing, conversation>>

\* Mutated form of Outcome: the word of the button is stored.
Outcome_Button(c) == IF Verdict(c) = "agreed" THEN "approve" ELSE "reject"

\* A teacher's approval of a long absence moves it to the principal.
Outcome(c) ==
    IF /\ Kind(c) = "student_leave" /\ Verdict(c) = "agreed"
       /\ ~IsApprover(call[c]) /\ Req(c) \in Strict
    THEN "raised" ELSE Verdict(c)

\* The update that decides: conditional for leaves, on the status read or on
\* "pending"; on the id alone for the others, where it may match nothing.
Expected(c) == IF Kind(c) = "student_leave" THEN seen[c] ELSE "asked"

\* Mutated form of Matches: every kind is updated on its id alone.
Matches_ById(c) == status[Req(c)] # "gone"

Matches(c) ==
    IF Kind(c) \in Leaves THEN status[Req(c)] = Expected(c) ELSE status[Req(c)] # "gone"

AfterDecision(c) == IF call[c].via = "queue" THEN "ensure" ELSE "ok"

\* Mutated form of Follows: only the leave screen records the absence.
Follows_OnScreen(c) ==
    Kind(c) \in Leaves /\ Outcome(c) = "agreed" /\ call[c].via = "screen"

\* An approved leave is followed by the record of the absence.
Follows(c) == Kind(c) \in Leaves /\ Outcome(c) = "agreed"

Mark(c) ==
    /\ pc[c] = "mark"
    /\ Kind(c) \in Leaves => Matches(c)
    /\ IF Matches(c)
       THEN /\ status' = [status EXCEPT ![Req(c)] = Outcome(c)]
            /\ decidedBy' = [decidedBy EXCEPT ![Req(c)] = c]
       ELSE UNCHANGED document
    /\ Goto(c, IF Follows(c) THEN "follow" ELSE AfterDecision(c))
    /\ UNCHANGED <<local, consequence, conversation>>

\* The answer to the loser of a leave.  Of the three routes that decide a staff
\* leave only one screen's knows the conflict: the others answer 500.
Lost(c) ==
    CASE status[Req(c)] \in {"none", "gone"} -> {"refused"}
      [] Kind(c) = "student_leave" -> {"conflict"}
      [] call[c].via = "queue" -> {"error"}
      [] OTHER -> {"conflict", "error"}

MarkLost(c) ==
    /\ pc[c] = "mark"
    /\ Kind(c) \in Leaves /\ ~Matches(c)
    /\ \E answer \in Lost(c) : Goto(c, answer)
    /\ UNCHANGED <<local, document, consequence, conversation>>

\* The absence is recorded once the leave is approved.  (The days of two
\* leaves of a child that overlap clash on an index: that is a Fail.)
RecordAbsence(c) ==
    /\ pc[c] = "follow"
    /\ carriedBy' = [carriedBy EXCEPT ![Req(c)] = @ \cup {c}]
    /\ Goto(c, AfterDecision(c))
    /\ UNCHANGED <<local, document, signIn, standing, conversation>>

(***************************************************************************)
(* Deleting a certificate that was not issued, or an announcement.         *)
(***************************************************************************)
FindToDelete(c) ==
    /\ pc[c] = "find"
    /\ Goto(c, IF \/ status[Req(c)] \in {"none", "gone"}
                  \/ Kind(c) = "certificate" /\ ~IsApprover(call[c])
                  \/ Kind(c) = "certificate" /\ status[Req(c)] = "agreed"
               THEN "refused" ELSE "remove")
    /\ UNCHANGED <<local, document, consequence, conversation>>

Remove(c) ==
    /\ pc[c] = "remove"
    /\ status' = [status EXCEPT ![Req(c)] = "gone"]
    /\ Goto(c, "ok")
    /\ UNCHANGED <<local, decidedBy, consequence, conversation>>

(***************************************************************************)
(* The conversation (approval_thread_service).                             *)
(***************************************************************************)
\* Mutated form of Reopenable: any closed conversation may be opened again.
Reopenable_Any(t, d) == t = "closed"

Reopenable(t, d) == t = "closed" /\ d # "refused"

\* What a call does once it holds the thread, which was t, closed as d.
WithThread(c, t, d) ==
    LET q == Req(c) a == call[c] IN
    CASE a.op = "decide" -> "shut"
      [] a.op = "bring_in" -> IF MayRead(a, q, seen[c]) THEN "count" ELSE "refused"
      [] a.op = "reply" ->
             IF MayRead(a, q, seen[c]) /\ t = "open" THEN "count" ELSE "refused"
      [] OTHER ->
             IF MayDecide(a, q, seen[c]) /\ Reopenable(t, d) THEN "reopen" ELSE "refused"

Ensure(c) ==
    /\ pc[c] = "ensure"
    /\ Goto(c, IF thread[Req(c)] = "none" THEN "create"
               ELSE WithThread(c, thread[Req(c)], closedAs[Req(c)]))
    /\ UNCHANGED <<local, document, consequence, conversation>>

\* The thread's _id is its request's: of two creators one fails.
CreateThread(c) ==
    /\ pc[c] = "create"
    /\ IF thread[Req(c)] = "none"
       THEN /\ thread' = [thread EXCEPT ![Req(c)] = "open"]
            /\ Goto(c, WithThread(c, "open", "none"))
       ELSE /\ Goto(c, "error")
            /\ UNCHANGED thread
    /\ UNCHANGED <<local, document, consequence, closedAs, lines, joined>>

Shut(c) ==
    /\ pc[c] = "shut"
    /\ thread' = [thread EXCEPT ![Req(c)] = "closed"]
    /\ closedAs' = [closedAs EXCEPT ![Req(c)] = Verdict(c)]
    /\ Goto(c, "count")
    /\ UNCHANGED <<local, document, consequence, lines, joined>>

Reopen(c) ==
    /\ pc[c] = "reopen"
    /\ thread' = [thread EXCEPT ![Req(c)] = "open"]
    /\ Goto(c, "count")
    /\ UNCHANGED <<local, document, consequence, closedAs, lines, joined>>

\* _message_count: the greatest number so far.
LastNumber(s) == CHOOSE n \in {0} \cup {s[i] : i \in DOMAIN s} :
                     \A i \in DOMAIN s : s[i] <= n

CountMessages(c) ==
    /\ pc[c] = "count"
    /\ count' = [count EXCEPT ![c] = LastNumber(lines[Req(c)])]
    /\ Goto(c, IF call[c].op = "bring_in" THEN "join" ELSE "write")
    /\ UNCHANGED <<call, seen, past, document, consequence, conversation>>

\* The newcomer is in from now on, and sees the numbers above "above", which
\* was counted before.
Join(c) ==
    /\ pc[c] = "join"
    /\ joined' = [joined EXCEPT ![Req(c)] = @ \cup {[who |-> c, above |-> count[c]]}]
    /\ past' = [past EXCEPT ![c] = Len(lines[Req(c)])]
    /\ Goto(c, "recount")
    /\ UNCHANGED <<call, seen, count, document, consequence, thread, closedAs, lines>>

\* The line that says so is numbered anew.
Recount(c) ==
    /\ pc[c] = "recount"
    /\ count' = [count EXCEPT ![c] = LastNumber(lines[Req(c)])]
    /\ Goto(c, "write")
    /\ UNCHANGED <<call, seen, past, document, consequence, conversation>>

WriteMessage(c) ==
    /\ pc[c] = "write"
    /\ lines' = [lines EXCEPT ![Req(c)] = Append(@, count[c] + 1)]
    /\ Goto(c, "ok")
    /\ UNCHANGED <<local, document, consequence, thread, closedAs, joined>>

\* A statement raises, or the process ends.
Fail(c) ==
    /\ pc[c] \in Stages
    /\ Goto(c, "error")
    /\ UNCHANGED <<local, document, consequence, conversation>>

Proceed(c) ==
    \/ Vet(c) \/ Insert(c)
    \/ Load(c) \/ QueueLooks(c) \/ ServiceReads(c)
    \/ Prepare(c) \/ CarryOut(c) \/ CorrectLogin(c)
    \/ Mark(c) \/ MarkLost(c) \/ RecordAbsence(c)
    \/ FindToDelete(c) \/ Remove(c)
    \/ Ensure(c) \/ CreateThread(c) \/ Shut(c) \/ Reopen(c)
    \/ CountMessages(c) \/ Join(c) \/ Recount(c) \/ WriteMessage(c)

Next == \E c \in Callers : Proceed(c) \/ Fail(c)

Spec == Init /\ [][Next]_vars
FairSpec == Spec /\ \A c \in Callers : WF_vars(Proceed(c))

(***************************************************************************)
(* Properties.                                                             *)
(***************************************************************************)
\* Those that tell a decision.
DecisionTypes ==
    /\ call \in [Callers -> Calls]
    /\ pc \in [Callers -> Stages \cup Answers]
    /\ seen \in [Callers -> Statuses]
    /\ status \in [Requests -> Statuses]
    /\ decidedBy \in [Requests -> Callers \cup {"none"}]
    /\ carriedBy \in [Requests -> SUBSET Callers]
    /\ signIn \subseteq Requests
    /\ standing \in [Requests -> BOOLEAN]
    /\ thread \in [Requests -> {"none", "open", "closed"}]
    /\ closedAs \in [Requests -> {"none", "agreed", "refused"}]

\* The variables have their types.
TypeOK ==
    /\ DecisionTypes
    /\ count \in [Callers -> Nat] /\ past \in [Callers -> Nat]
    /\ lines \in [Requests -> Seq(Nat)]
    /\ joined \in [Requests -> SUBSET [who : Callers, above : Nat]]

\* Leave of staff and of students keeps the promise of Decision, however many
\* people decide it at once (leave_service.py:141, student_leave_service.py:206).
Guarded == {q \in Requests : KindOf[q] \in Leaves}
Promise == INSTANCE Decision WITH
    Requests <- Guarded,
    verdict <- [q \in Guarded |->
                  IF status[q] \in {"agreed", "refused"} THEN status[q] ELSE "waiting"],
    carried <- {q \in Guarded : carriedBy[q] # {}}
LeavesAreDecidedOnce == Promise!Spec

\* Whoever is told that a decision on a leave was made made it: of two
\* deciders one is refused.  A teacher's yes may have passed the leave on.
AnswersAreTrue ==
    \A c \in Callers :
        pc[c] = "ok" /\ call[c].op = "decide" /\ Req(c) \in Guarded =>
            \/ status[Req(c)] = Verdict(c) /\ decidedBy[Req(c)] = c
            \/ Outcome(c) = "raised" /\ status[Req(c)] # "asked"

\* A general request or a correction that reads as approved has been carried
\* out, the login record included (approvals_service.py:319).
AgreedWasCarriedOut ==
    \A q \in Requests :
        KindOf[q] \in {"general", "profile_change"} /\ status[q] = "agreed" =>
            /\ carriedBy[q] # {}
            /\ KindOf[q] = "profile_change" => q \in signIn

\* Whatever is agreed was agreed by somebody with the authority for it: the
\* owner alone where that was asked, never the person a correction is about,
\* the principal for a long absence, an approver for what is moderated.
AgreedByTheRightPerson ==
    \A q \in Requests :
        status[q] = "agreed" =>
            /\ decidedBy[q] \in Callers
            /\ LET a == call[decidedBy[q]] IN
               \/ a.op = "raise" /\ (IsApprover(a) \/ q \notin Strict)
               \/ /\ a.op = "decide" /\ MayDecide(a, q, "asked")
                  /\ q \in Strict => IsApprover(a)

\* The conversation closes after the decision, never over a request that
\* still waits (routes/approvals.py, decide); except for a child's leave.
ThreadsCloseAfterDecision ==
    \A q \in Requests :
        thread[q] = "closed" /\ KindOf[q] # "student_leave" => status[q] \notin Undecided

\* The conversation of a refused staff leave is never opened again.
RefusedStaysClosed ==
    [][\A q \in Requests :
         KindOf[q] = "staff_leave" /\ closedAs[q] = "refused" => thread'[q] = "closed"]_vars

\* An approved leave is recorded as an absence, unless its decider failed.
AgreedIsRecorded ==
    \A q \in Guarded :
        status[q] = "agreed" ~>
            \/ carriedBy[q] # {}
            \/ decidedBy[q] \in Callers /\ pc[decidedBy[q]] = "error"

(***************************************************************************)
(* What the code says of itself and does not keep.                         *)
(***************************************************************************)
\* A person brought in without the history sees no message that was there
\* when they were (approval_thread_service.py:162, visible_messages).  It
\* fails: the number is counted before they are let in.
HistoryStaysHidden ==
    \A q \in Requests : \A j \in joined[q] :
        \A i \in 1..past[j.who] : lines[q][i] <= j.above

\* A refusal stands: no kind turns a "no" into a "yes" on the same record
\* (approval_thread_service.py:355).  It fails for general requests, which
\* are updated by their id alone.
RefusalStands ==
    [][\A q \in Requests : status[q] = "refused" => status'[q] # "agreed"]_vars
=============================================================================
