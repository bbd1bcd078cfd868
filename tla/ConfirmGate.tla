---------------------------- MODULE ConfirmGate ----------------------------
(***************************************************************************)
(* The gate every write of the assistant goes through                      *)
(* (src/backend/routes/chat.py, _execute_confirmed_dispatch): a request    *)
(* redeems a one-shot confirmation token, provided that an operator has    *)
(* not switched AI writes off and that the user's hourly budget allows it, *)
(* and then runs the token's plan under a write-ahead audit row.           *)
(*                                                                         *)
(* The plan executor appears by its abstract specification, AtomicPlan,    *)
(* which PlanExecutor implements.                                          *)
(***************************************************************************)
EXTENDS Integers, FiniteSets

CONSTANTS
    Requests,      \* confirm requests and automatic writes
    Tokens,        \* confirmation tokens, one per approved plan or action
    Users,
    Workers,       \* server processes, each with its own flag cache
    UserOf,        \* UserOf[r]: the user who makes request r
    TokenOf,       \* TokenOf[r]: the token request r presents
    WorkerOf,      \* WorkerOf[r]: the process that serves request r
    OwnerOf,       \* OwnerOf[t]: the user token t was issued to
    Unacked,       \* requests that may come without the second click of a deletion
    Destructive,   \* tokens of plans that delete something
    Mute,          \* tokens of one action whose tool need not say that it succeeded
    Drifted,       \* requests whose branch is no longer the token's
    Limit,         \* writes per user and clock hour
    Lifetime,      \* how long a token is valid
    MaxTime,       \* the clock stops here
    HourOf,        \* HourOf[t]: the clock hour that time t is in
    FailingCalls,  \* the database calls that may fail
    Switches       \* the operator's switches that are used

Calls == {"read", "flag", "charge", "consume", "refund", "audit", "shadow"}

ASSUME RequestsAssumption ==
    /\ UserOf \in [Requests -> Users]
    /\ TokenOf \in [Requests -> Tokens]
    /\ WorkerOf \in [Requests -> Workers]
    /\ OwnerOf \in [Tokens -> Users]
    /\ Unacked \subseteq Requests /\ Drifted \subseteq Requests
    /\ Destructive \subseteq Tokens /\ Mute \subseteq Tokens
ASSUME TimesAssumption ==
    /\ Limit \in Nat /\ Lifetime \in Nat /\ MaxTime \in Nat
    /\ HourOf \in [0 .. MaxTime -> Nat]
ASSUME SwitchesAssumption ==
    FailingCalls \subseteq Calls /\ Switches \subseteq {"writes", "shadow"}

VARIABLES
    clock,
    token,       \* token[t]: the document of confirm_tokens
    expires,     \* expires[t]: when token t expires
    count,       \* count[u][h]: ai_rate_limit_counters
    writesOn,    \* the kill switch of system_flags
    shadowOn,    \* the shadow-mode flag of system_flags
    shadowSeen,  \* shadowSeen[w]: what process w has cached of it
    pc,          \* pc[r]: what request r does next, or its reply
    bucket,      \* bucket[r]: the hour request r is charged to
    dry,         \* dry[r]: request r runs its plan in shadow mode
    audit,       \* audit[t]: the ai_dispatch_audit_log row of token t
    by, told,    \* the plan executor
    barred       \* barred[r]: writes are off, and have been since r arrived (history)

redemption == <<token, expires>>
flags == <<writesOn, shadowOn, shadowSeen>>
executor == <<by, told>>
vars == <<clock, redemption, count, flags, pc, bucket, dry, audit, executor, barred>>

Plan == INSTANCE AtomicPlan WITH Runs <- Requests, Plans <- Tokens, PlanOf <- TokenOf

Hours == {HourOf[t] : t \in 0 .. MaxTime}
NoHour == -1
ThisHour == HourOf[clock]

\* A reply that waits for the charge to be undone, or for the audit row.
Undo == [undo_used |-> "used", undo_expired |-> "expired",
         undo_mismatch |-> "mismatch"]
Closing == [close_ok |-> "ok", close_dry |-> "dry_run",
            close_refused |-> "refused", close_internal |-> "internal"]

Redeemed == {"bind", "undo_mismatch", "authorize", "audit", "shadow", "execute"}
                \cup DOMAIN Closing
Stages == {"reject", "gate", "precheck", "charge", "recount", "consume", "inspect"}
              \cup DOMAIN Undo \cup Redeemed
Replies == {"disabled", "needs_ack", "rate_limited", "not_found", "used",
            "foreign", "expired", "mismatch", "forbidden", "ok", "dry_run",
            "refused", "internal", "error", "crashed"}

Init ==
    /\ clock = 0
    /\ token = [t \in Tokens |-> "none"]
    /\ expires = [t \in Tokens |-> 0]
    /\ count = [u \in Users |-> [h \in Hours |-> 0]]
    /\ writesOn = TRUE /\ shadowOn = FALSE
    /\ shadowSeen = [w \in Workers |-> {}]
    /\ pc = [r \in Requests |-> "idle"]
    /\ bucket = [r \in Requests |-> NoHour]
    /\ dry = [r \in Requests |-> FALSE]
    /\ audit = [t \in Tokens |-> "none"]
    /\ Plan!Init
    /\ barred = [r \in Requests |-> FALSE]

Move(r, stage) == pc' = [pc EXCEPT ![r] = stage]

\* A step that only reads: the request moves on and nothing else changes.
Step(r, stage) ==
    /\ Move(r, stage)
    /\ UNCHANGED <<clock, redemption, count, flags, bucket, dry, audit, executor, barred>>

Owned(r) == OwnerOf[TokenOf[r]] = UserOf[r]
State(r) == token[TokenOf[r]]

(***************************************************************************)
(* The token's life outside a request.                                     *)
(***************************************************************************)
Issue(t) ==
    /\ token[t] = "none"
    /\ token' = [token EXCEPT ![t] = "live"]
    /\ expires' = [expires EXCEPT ![t] = clock + Lifetime]
    /\ UNCHANGED <<clock, count, flags, pc, bucket, dry, audit, executor, barred>>

\* The TTL index deletes the document of an expired token.
ExpireRow(t) ==
    /\ token[t] \in {"live", "used"} /\ expires[t] <= clock
    /\ token' = [token EXCEPT ![t] = "gone"]
    /\ UNCHANGED <<clock, expires, count, flags, pc, bucket, dry, audit, executor, barred>>

Tick ==
    /\ clock < MaxTime
    /\ clock' = clock + 1
    /\ UNCHANGED <<redemption, count, flags, pc, bucket, dry, audit, executor, barred>>

(***************************************************************************)
(* Before the token is touched.                                            *)
(***************************************************************************)
\* peek_confirm_token.  A used, foreign or deleted token is rejected with the
\* reason consume_confirm_token gives; the budget is not charged.
Peek(r) ==
    /\ pc[r] = "idle" /\ State(r) # "none"
    /\ Move(r, IF Owned(r) /\ State(r) = "live" THEN "gate" ELSE "reject")
    /\ barred' = [barred EXCEPT ![r] = ~writesOn]
    /\ UNCHANGED <<clock, redemption, count, flags, bucket, dry, audit, executor>>

\* Why a token that could not be marked used was refused.
Verdict(r) ==
    CASE State(r) = "gone" -> "not_found"
      [] State(r) = "used" -> "used"
      [] State(r) = "live" /\ ~Owned(r) -> "foreign"
      [] OTHER -> "expired"

Reject(r) ==
    /\ pc[r] = "reject"
    /\ Step(r, Verdict(r))

\* Mutated form of GateClosed: the token is consumed before the switch is read.
GateClosed_Burns(r) ==
    /\ pc[r] = "gate" /\ ~writesOn
    /\ Move(r, "disabled")
    /\ token' = [token EXCEPT ![TokenOf[r]] = "used"]
    /\ UNCHANGED <<clock, expires, count, flags, bucket, dry, audit, executor, barred>>

GateClosed(r) ==
    /\ pc[r] = "gate" /\ ~writesOn
    /\ Step(r, "disabled")

\* Mutated form of FlagAllows: the switch is not read afresh.
FlagAllows_Cached == TRUE

\* The switch is read from the database at each write; a failed read allows.
FlagAllows == writesOn \/ "flag" \in FailingCalls

\* A delete that comes without its second click is sent back to the user.
GateUnacked(r) ==
    /\ pc[r] = "gate" /\ FlagAllows
    /\ TokenOf[r] \in Destructive /\ r \in Unacked
    /\ Step(r, "needs_ack")

GateOpen(r) ==
    /\ pc[r] = "gate" /\ FlagAllows
    /\ Step(r, "precheck")

(***************************************************************************)
(* The hourly budget (increment_and_check, decrement_count).               *)
(***************************************************************************)
\* Mutated form of CheckBudget: the hour is not fixed before the charge.
CheckBudget_NoHour(r) ==
    /\ pc[r] = "precheck"
    /\ Step(r, IF count[UserOf[r]][ThisHour] >= Limit THEN "rate_limited" ELSE "charge")

\* The hour is fixed here; a user at the limit is not charged further.
CheckBudget(r) ==
    /\ pc[r] = "precheck"
    /\ IF count[UserOf[r]][ThisHour] >= Limit
       THEN Move(r, "rate_limited") /\ UNCHANGED bucket
       ELSE Move(r, "charge") /\ bucket' = [bucket EXCEPT ![r] = ThisHour]
    /\ UNCHANGED <<clock, redemption, count, flags, dry, audit, executor, barred>>

Add(r, n) == count' = [count EXCEPT ![UserOf[r]][bucket[r]] = @ + n]

\* Mutated form of Charge: allowed on the strength of the earlier read.
Charge_Unchecked(r) ==
    /\ pc[r] = "charge"
    /\ Add(r, 1)
    /\ Move(r, "consume")
    /\ UNCHANGED <<clock, redemption, flags, bucket, dry, audit, executor, barred>>

\* The increment and the count it leads to are one operation.
Charge(r) ==
    /\ pc[r] = "charge"
    /\ Add(r, 1)
    /\ Move(r, IF count[UserOf[r]][bucket[r]] < Limit THEN "consume" ELSE "rate_limited")
    /\ UNCHANGED <<clock, redemption, flags, bucket, dry, audit, executor, barred>>

\* That operation raises, applied or not; the counter is then incremented
\* again and read back in two steps.
ChargeTwice(r) ==
    /\ pc[r] = "charge" /\ "charge" \in FailingCalls
    /\ \E n \in {1, 2} : Add(r, n)
    /\ Move(r, "recount")
    /\ UNCHANGED <<clock, redemption, flags, bucket, dry, audit, executor, barred>>

Recount(r) ==
    /\ pc[r] = "recount"
    /\ Step(r, IF count[UserOf[r]][bucket[r]] <= Limit THEN "consume" ELSE "rate_limited")

\* Mutated form of Refund: the losing request's charge stays.
Refund_Never(r) ==
    /\ pc[r] \in DOMAIN Undo
    /\ Step(r, Undo[pc[r]])

\* The counter of the hour it now is goes down by one, never below zero; a
\* failure is logged and nothing else.
Refund(r) ==
    /\ pc[r] \in DOMAIN Undo
    /\ \/ count' = [count EXCEPT ![UserOf[r]][ThisHour] = IF @ > 0 THEN @ - 1 ELSE 0]
       \/ "refund" \in FailingCalls /\ UNCHANGED count
    /\ Move(r, Undo[pc[r]])
    /\ UNCHANGED <<clock, redemption, flags, bucket, dry, audit, executor, barred>>

(***************************************************************************)
(* Redeeming the token (consume_confirm_token).                            *)
(***************************************************************************)
Redeemable(r) == Owned(r) /\ State(r) = "live" /\ expires[TokenOf[r]] >= clock

\* Mutated form of Consume: read, then write, with nothing in the filter.
Consume_Blind(r) ==
    /\ pc[r] = "consume"
    /\ IF Owned(r) /\ expires[TokenOf[r]] >= clock
       THEN token' = [token EXCEPT ![TokenOf[r]] = "used"] /\ Move(r, "bind")
       ELSE UNCHANGED token /\ Move(r, "inspect")
    /\ UNCHANGED <<clock, expires, count, flags, bucket, dry, audit, executor, barred>>

\* One conditional update decides which request redeems the token.
Consume(r) ==
    /\ pc[r] = "consume"
    /\ IF Redeemable(r)
       THEN token' = [token EXCEPT ![TokenOf[r]] = "used"] /\ Move(r, "bind")
       ELSE UNCHANGED token /\ Move(r, "inspect")
    /\ UNCHANGED <<clock, expires, count, flags, bucket, dry, audit, executor, barred>>

\* The update raises, applied or not: 503, and the charge is kept.
ConsumeUnanswered(r) ==
    /\ pc[r] = "consume" /\ "consume" \in FailingCalls
    /\ \/ UNCHANGED token
       \/ Redeemable(r) /\ token' = [token EXCEPT ![TokenOf[r]] = "used"]
    /\ Move(r, "error")
    /\ UNCHANGED <<clock, expires, count, flags, bucket, dry, audit, executor, barred>>

\* The redeemed document is read back and its tenant compared.
Bind(r) ==
    /\ pc[r] = "bind"
    /\ Step(r, CASE State(r) = "gone" -> "not_found"
                 [] State(r) # "gone" /\ r \in Drifted -> "undo_mismatch"
                 [] OTHER -> "authorize")

\* Mutated form of Inspect: only a used token is expected here.
Inspect_UsedOnly(r) ==
    /\ pc[r] = "inspect" /\ Verdict(r) = "used"
    /\ Step(r, "undo_used")

\* The document is read to tell why it could not be redeemed.
Inspect(r) ==
    /\ pc[r] = "inspect"
    /\ Step(r, CASE Verdict(r) = "used" -> "undo_used"
                 [] Verdict(r) = "expired" -> "undo_expired"
                 [] OTHER -> Verdict(r))

(***************************************************************************)
(* Running the plan.                                                       *)
(***************************************************************************)
\* Every step is authorized before any is run; the token is spent either way.
Authorize(r) ==
    /\ pc[r] = "authorize"
    /\ \E next \in {"audit", "forbidden"} : Step(r, next)

\* The write-ahead audit row; when it cannot be written the run goes on.
WriteAhead(r) ==
    /\ pc[r] = "audit"
    /\ \/ audit' = [audit EXCEPT ![TokenOf[r]] = "pending"]
       \/ "audit" \in FailingCalls /\ UNCHANGED audit
    /\ Move(r, "shadow")
    /\ UNCHANGED <<clock, redemption, count, flags, bucket, dry, executor, barred>>

\* Shadow mode is read through the cache of the process; a failed read means
\* live writes.
ReadShadow(r) ==
    /\ pc[r] = "shadow"
    /\ \E seen \in BOOLEAN :
        /\ \/ seen \in shadowSeen[WorkerOf[r]]
           \/ shadowSeen[WorkerOf[r]] = {} /\ seen = shadowOn
           \/ shadowSeen[WorkerOf[r]] = {} /\ "shadow" \in FailingCalls /\ ~seen
        /\ dry' = [dry EXCEPT ![r] = seen]
        /\ shadowSeen' = [shadowSeen EXCEPT ![WorkerOf[r]] = {seen}]
    /\ Move(r, "execute")
    /\ UNCHANGED <<clock, redemption, count, writesOn, shadowOn, bucket, audit, executor, barred>>

\* The executor applies the plan, or answers; a shadow run never applies.
Execute(r) ==
    /\ pc[r] = "execute"
    /\ \/ ~dry[r] /\ Plan!Apply(r)
       \/ \E a \in Plan!Answers : (dry[r] => a # "done") /\ Plan!Answer(r, a)
    /\ UNCHANGED <<clock, redemption, count, flags, pc, bucket, dry, audit, barred>>

Conclude(r) ==
    /\ pc[r] = "execute"
    /\ \/ told[r] = "done" /\ Step(r, "close_ok")
       \/ told[r] = "nothing" /\ dry[r] /\ Step(r, "close_dry")
       \/ told[r] = "nothing" /\ Step(r, "close_refused")
       \/ told[r] = "unknown" /\ Step(r, "close_internal")

\* Mutated form of Outcome: whatever ends is recorded as a success.
Outcome_Always(r) == {"success"}

\* A plan of several steps, a replay and a shadow run say that they succeeded;
\* for a single action it is the tool's result, and one that does not say so is
\* filed as a failure, committed or not.
Outcome(r) ==
    CASE pc[r] = "close_ok" /\ TokenOf[r] \in Mute -> {"success", "failure"}
      [] pc[r] \in {"close_ok", "close_dry"} -> {"success"}
      [] OTHER -> {"failure"}

\* The audit row takes the outcome, if it was written and can be updated.
Finalize(r) ==
    /\ pc[r] \in DOMAIN Closing
    /\ \/ \E o \in Outcome(r) :
             audit' = [audit EXCEPT ![TokenOf[r]] = IF @ = "none" THEN @ ELSE o]
       \/ "audit" \in FailingCalls /\ UNCHANGED audit
    /\ Move(r, Closing[pc[r]])
    /\ UNCHANGED <<clock, redemption, count, flags, bucket, dry, executor, barred>>

(***************************************************************************)
(* What goes wrong around a request, and the operator.                     *)
(***************************************************************************)
\* A read the request cannot do without fails.
ReadFails(r) ==
    /\ "read" \in FailingCalls
    /\ pc[r] \in {"idle", "reject", "precheck", "recount", "inspect", "bind"}
    /\ Step(r, "error")

\* The process dies with the request.
Crash(r) ==
    /\ pc[r] \in Stages
    /\ Step(r, "crashed")

SwitchWrites ==
    /\ "writes" \in Switches
    /\ writesOn' = ~writesOn
    /\ barred' = [r \in Requests |-> FALSE]
    /\ UNCHANGED <<clock, redemption, count, shadowOn, shadowSeen, pc, bucket, dry, audit, executor>>

\* The cache of the process that makes the change is dropped: that of one server
\* process, or of none when the operator works on the database directly.
SwitchShadow ==
    /\ "shadow" \in Switches
    /\ shadowOn' = ~shadowOn
    /\ \/ UNCHANGED shadowSeen
       \/ \E w \in Workers : shadowSeen' = [shadowSeen EXCEPT ![w] = {}]
    /\ UNCHANGED <<clock, redemption, count, writesOn, pc, bucket, dry, audit, executor, barred>>

\* A cached shadow flag reaches its age limit.
CacheExpires(w) ==
    /\ shadowSeen[w] # {}
    /\ shadowSeen' = [shadowSeen EXCEPT ![w] = {}]
    /\ UNCHANGED <<clock, redemption, count, writesOn, shadowOn, pc, bucket, dry, audit, executor, barred>>

Proceed(r) ==
    \/ Peek(r) \/ Reject(r) \/ GateClosed(r) \/ GateUnacked(r) \/ GateOpen(r)
    \/ CheckBudget(r) \/ Charge(r) \/ Recount(r) \/ Refund(r)
    \/ Consume(r) \/ Bind(r) \/ Inspect(r)
    \/ Authorize(r) \/ WriteAhead(r) \/ ReadShadow(r)
    \/ Execute(r) \/ Conclude(r) \/ Finalize(r)

Disturb(r) == ChargeTwice(r) \/ ConsumeUnanswered(r) \/ ReadFails(r) \/ Crash(r)

Next ==
    \/ \E r \in Requests : Proceed(r) \/ Disturb(r)
    \/ \E t \in Tokens : Issue(t) \/ ExpireRow(t)
    \/ \E w \in Workers : CacheExpires(w)
    \/ SwitchWrites \/ SwitchShadow \/ Tick

Spec == Init /\ [][Next]_vars

\* The event loop keeps scheduling the handler of a request that can go on.
FairSpec == Spec /\ \A r \in Requests : WF_vars(Proceed(r))
-----------------------------------------------------------------------------
TypeOK ==
    /\ clock \in 0 .. MaxTime
    /\ token \in [Tokens -> {"none", "live", "used", "gone"}]
    /\ expires \in [Tokens -> Nat]
    /\ count \in [Users -> [Hours -> Nat]]
    /\ writesOn \in BOOLEAN /\ shadowOn \in BOOLEAN
    /\ shadowSeen \in [Workers -> SUBSET BOOLEAN]
    /\ pc \in [Requests -> {"idle"} \cup Stages \cup Replies]
    /\ bucket \in [Requests -> Hours \cup {NoHour}]
    /\ \A r \in Requests : pc[r] \in {"charge", "recount"} => bucket[r] \in Hours
    /\ dry \in [Requests -> BOOLEAN]
    /\ audit \in [Tokens -> {"none", "pending", "success", "failure"}]
    /\ by \in [Tokens -> SUBSET Requests]
    /\ told \in [Requests -> {"waiting"} \cup Plan!Answers]
    /\ barred \in [Requests -> BOOLEAN]

\* Request r redeemed its token, or got as far as the executor.
Ran(r) == told[r] # "waiting" \/ r \in by[TokenOf[r]]
HasRedeemed(r) == pc[r] \in Redeemed \/ Ran(r)

\* However many requests present a token, one at most redeems it and runs its
\* plan: a double click, a retry or a second tab never runs it again.
OneRunPerToken ==
    \A r, q \in Requests :
        TokenOf[r] = TokenOf[q] /\ HasRedeemed(r) /\ HasRedeemed(q) => r = q

\* A refusal the user is told to retry (writes disabled, acknowledgement
\* missing, budget used up) leaves the token redeemable: a used token was
\* marked by a request that got past all of these.
RefusalsKeepTheToken ==
    \A t \in Tokens : token[t] = "used" =>
        \E r \in Requests : /\ TokenOf[r] = t
                            /\ pc[r] \in Redeemed \cup {"mismatch", "not_found",
                                  "forbidden", "ok", "dry_run", "refused",
                                  "internal", "error", "crashed"}

\* A redeemed token stays redeemed.
RedemptionIsFinal ==
    \A r \in Requests : HasRedeemed(r) => State(r) \in {"used", "gone"}

\* A request that has only ever seen writes disabled has not passed the gate.
StoppedAtTheGate ==
    \A r \in Requests : barred[r] =>
        ~writesOn /\ ~Ran(r) /\ pc[r] \in {"gate", "reject"} \cup Replies

\* Requests of user u that are charged to hour h: the losers of a race for a
\* token and those with an expired or foreign-tenant token are not.
ChargedTo(u, h) ==
    {r \in Requests : /\ UserOf[r] = u /\ bucket[r] = h
                     /\ pc[r] \notin {"charge", "used", "expired", "mismatch"}}

\* The counter is the number of charged requests, give or take the requests
\* that died with their process (whether charged or not yet, nobody knows).
BudgetIsExact ==
    \A u \in Users, h \in Hours :
        LET died == {r \in ChargedTo(u, h) : pc[r] = "crashed"} IN
        count[u][h] \in Cardinality(ChargedTo(u, h) \ died) .. Cardinality(ChargedTo(u, h))

\* No more than Limit plans run in an hour on behalf of one user.
RunsWithinBudget ==
    \A u \in Users, h \in Hours :
        Cardinality({r \in Requests : UserOf[r] = u /\ bucket[r] = h /\ Ran(r)}) <= Limit

\* A request that arrives while AI writes are off, and stay off, runs nothing,
\* whichever process serves it.
KillSwitchStops == \A r \in Requests : barred[r] => ~Ran(r)

\* The audit row, the reply and the effect agree: a success was applied or was
\* a shadow run, a failure was not applied unless the executor itself does not
\* know or the tool did not say, and the reply never contradicts the row.
AuditIsTrue ==
    \A r \in Requests : LET t == TokenOf[r] IN
        /\ audit[t] = "success" => \/ by[t] # {}
                                  \/ \E q \in Requests : TokenOf[q] = t /\ dry[q]
        /\ audit[t] = "failure" => \/ by[t] = {} \/ t \in Mute
                                  \/ \E q \in by[t] : told[q] = "unknown"
        /\ pc[r] = "ok" => by[t] # {} /\ (audit[t] # "failure" \/ t \in Mute)
        /\ pc[r] \in {"refused", "dry_run"} => r \notin by[t]
        /\ pc[r] \in {"refused", "internal"} => audit[t] # "success"

\* Every request that arrives is answered, unless its process dies.
EveryRequestAnswered == \A r \in Requests : pc[r] # "idle" ~> pc[r] \in Replies
=============================================================================
