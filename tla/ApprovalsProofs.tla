-------------------------- MODULE ApprovalsProofs --------------------------
(***************************************************************************)
(* Proofs about Approvals: the types, who may have agreed to what, what is *)
(* carried out of what is agreed, and that leaves keep the promise of      *)
(* Decision, for any number of callers, calls and requests.                *)
(***************************************************************************)
EXTENDS Approvals, TLAPS

\* What is so once a decision has been written.
Concluded(c) ==
    /\ status[Req(c)] # "none"
    /\ Kind(c) # "student_leave" => status[Req(c)] \notin Undecided
    /\ Kind(c) \in Leaves =>
         \/ status[Req(c)] = Verdict(c) /\ decidedBy[Req(c)] = c
         \/ Outcome(c) = "raised" /\ status[Req(c)] # "asked"

\* Where a call stands, and what it may rely on there.
Place(c) ==
    /\ pc[c] \in {"vet", "insert"} => call[c].op = "raise"
    /\ pc[c] \in Deciding => call[c].op = "decide"
    /\ pc[c] \in {"find", "remove"} => call[c].op = "delete"
    /\ pc[c] = "shut" => call[c].op = "decide"
    /\ pc[c] \in {"act", "carry", "login"} =>
         Kind(c) \in {"general", "profile_change"} /\ Verdict(c) = "agreed"
    /\ pc[c] \in {"act", "carry", "login", "mark"} =>
         /\ MayDecide(call[c], Req(c), "asked")
         /\ Kind(c) # "staff_leave" => status[Req(c)] # "none"
    /\ pc[c] = "login" => carriedBy[Req(c)] # {}
    /\ pc[c] = "mark" =>
         /\ Kind(c) = "student_leave" => seen[c] \in Undecided
         /\ Kind(c) \in {"general", "profile_change"} /\ Verdict(c) = "agreed" =>
              /\ carriedBy[Req(c)] # {}
              /\ Kind(c) = "profile_change" => Req(c) \in signIn
    /\ pc[c] = "follow" =>
         /\ Kind(c) \in Leaves
         /\ status[Req(c)] = "agreed" /\ decidedBy[Req(c)] = c
         /\ c \notin carriedBy[Req(c)]
    /\ call[c].op = "decide" /\ pc[c] \in Talking \cup {"follow", "ok"} => Concluded(c)
    /\ pc[c] = "reopen" /\ Kind(c) = "staff_leave" => closedAs[Req(c)] = "agreed"

\* What is so of a request at any time.
Standing(q) ==
    /\ q \in Guarded => carriedBy[q] \subseteq {decidedBy[q]}
    /\ q \in Guarded /\ carriedBy[q] # {} => status[q] = "agreed"
    /\ thread[q] = "closed" /\ KindOf[q] # "student_leave" =>
         status[q] \notin Undecided \cup {"none"}
    /\ thread[q] = "closed" => closedAs[q] # "none"
    /\ thread[q] = "none" => closedAs[q] = "none"
    /\ KindOf[q] = "staff_leave" =>
         /\ closedAs[q] # "none" => status[q] = closedAs[q]
         /\ closedAs[q] = "refused" => thread[q] = "closed"

IInv ==
    /\ DecisionTypes
    /\ \A c \in Callers : Place(c)
    /\ \A q \in Requests : Standing(q)
    /\ AgreedByTheRightPerson
    /\ AgreedWasCarriedOut

(***************************************************************************)
(* Facts about the operators.                                              *)
(***************************************************************************)
LEMMA CallFacts ==
    ASSUME DecisionTypes, NEW c \in Callers
    PROVE  /\ call[c] \in Calls /\ call[c] \in Call
           /\ Req(c) \in Requests /\ Kind(c) \in Kinds
           /\ Verdict(c) \in {"agreed", "refused"}
BY RequestsAssumption, CallsAssumption DEF DecisionTypes, Call, Req, Kind, Verdict

\* A caller's own fields are read from its call, which never changes.
LEMMA CallsStay ==
    ASSUME call' = call, NEW c
    PROVE  /\ Req(c)' = Req(c) /\ Kind(c)' = Kind(c) /\ Verdict(c)' = Verdict(c)
           /\ Outcome(c)' = Outcome(c)
BY DEF Req, Kind, Verdict, Outcome, IsApprover

\* Who may decide what has been passed on may decide it before.
LEMMA EarlierIsEasier ==
    ASSUME NEW a, NEW q, NEW st, MayDecide(a, q, st)
    PROVE  MayDecide(a, q, "asked")
BY DEF MayDecide

LEMMA OutcomeFacts ==
    ASSUME DecisionTypes, NEW c \in Callers
    PROVE  /\ Outcome(c) \in {"raised", "agreed", "refused"}
           /\ Outcome(c) # "raised" => Outcome(c) = Verdict(c)
           /\ Outcome(c) = "raised" => Kind(c) = "student_leave"
BY CallFacts DEF Outcome

\* An agreement of somebody who may decide is one by the right person.
LEMMA AgreementIsRight ==
    ASSUME DecisionTypes, NEW c \in Callers, Outcome(c) = "agreed",
           MayDecide(call[c], Req(c), "asked"), Req(c) \in Strict
    PROVE  IsApprover(call[c])
<1>1. Kind(c) \in Kinds /\ Verdict(c) = "agreed"
  BY CallFacts, OutcomeFacts
<1>2. CASE Kind(c) = "student_leave"
  BY <1>1, <1>2 DEF Outcome
<1>3. CASE Kind(c) # "student_leave"
  BY <1>1, <1>3 DEF MayDecide, IsApprover, Kind, Kinds, Moderated, Leaves
<1> QED BY <1>2, <1>3

(***************************************************************************)
(* The initial states.                                                     *)
(***************************************************************************)
LEMMA InitIInv == Init => IInv
<1> SUFFICES ASSUME Init PROVE IInv
  OBVIOUS
<1>1. \A c \in Callers : call[c] \in Call /\ Req(c) \in Requests /\ Kind(c) \in Kinds
  BY CallsAssumption, RequestsAssumption DEF Init, Req, Kind, Call
<1>2. \A c \in Callers : /\ pc[c] = Entry(Kind(c), call[c])
                         /\ call[c].op \in {"raise", "decide", "delete", "reply", "bring_in", "reopen"}
  BY <1>1 DEF Init, Call
<1>3. status \in [Requests -> {"none", "asked", "raised"}]
  BY DEF Init
<1>4. \A c \in Callers : pc[c] \in {"vet", "insert", "load", "read", "mark", "refused", "find"}
  BY <1>2 DEF Entry, Service, Screen
<1>5. DecisionTypes
  BY <1>3, <1>4 DEF Init, DecisionTypes, Stages, Deciding, Talking, Answers, Statuses, Undecided
<1>6. ASSUME NEW c \in Callers PROVE Place(c)
  <2>1. pc[c] = Entry(Kind(c), call[c]) /\ call[c] \in Call
    BY <1>1, <1>2
  <2>2. pc[c] \in {"vet", "insert"} => call[c].op = "raise"
    BY <2>1, <1>2 DEF Entry, Service, Screen
  <2>3. pc[c] \in Deciding => call[c].op = "decide"
    BY <2>1, <1>2 DEF Entry, Deciding
  <2>4. pc[c] \in {"find", "remove"} => call[c].op = "delete"
    BY <2>1, <1>2 DEF Entry, Service, Screen
  <2>5. pc[c] = "mark" => Kind(c) = "staff_leave" /\ IsApprover(call[c])
    BY <2>1, <1>2 DEF Entry, Service, Screen
  <2>6. pc[c] = "mark" => MayDecide(call[c], Req(c), "asked")
    BY <2>5 DEF MayDecide, Kind
  <2>7. call[c].op = "decide" => pc[c] \notin Talking \cup {"follow", "ok"}
    BY <2>1 DEF Entry, Service, Screen, Talking
  <2> QED BY <1>4, <2>2, <2>3, <2>4, <2>5, <2>6, <2>7 DEF Place
<1>7. ASSUME NEW q \in Requests PROVE Standing(q)
  BY DEF Init, Standing
<1>8. AgreedByTheRightPerson /\ AgreedWasCarriedOut
  BY <1>3 DEF AgreedByTheRightPerson, AgreedWasCarriedOut
<1> QED BY <1>5, <1>6, <1>7, <1>8 DEF IInv

(***************************************************************************)
(* Steps that only move their caller.                                      *)
(***************************************************************************)
LEMMA OnlyMoves ==
    ASSUME IInv, NEW c \in Callers, NEW stage \in Stages \cup Answers,
           Goto(c, stage), call' = call,
           seen' \in [Callers -> Statuses],
           \A d \in Callers \ {c} : seen'[d] = seen[d],
           UNCHANGED <<document, consequence, thread, closedAs>>,
           Place(c)'
    PROVE  IInv'
<1> USE DEF document, consequence
<1>1. DecisionTypes'
  BY DEF IInv, DecisionTypes, Goto
<1>2. ASSUME NEW d \in Callers PROVE Place(d)'
  <2>1. CASE d = c
    BY <2>1
  <2>2. CASE d # c
    <3>1. pc'[d] = pc[d] /\ seen'[d] = seen[d]
      BY <2>2 DEF IInv, DecisionTypes, Goto
    <3>2. Place(d)
      BY DEF IInv
    <3> QED BY <3>1, <3>2, CallsStay DEF Place, Concluded, MayDecide, IsApprover
  <2> QED BY <2>1, <2>2
<1>3. ASSUME NEW q \in Requests PROVE Standing(q)'
  BY DEF IInv, Standing
<1>4. AgreedByTheRightPerson' /\ AgreedWasCarriedOut'
  BY DEF IInv, AgreedByTheRightPerson, AgreedWasCarriedOut, MayDecide, IsApprover
<1> QED BY <1>1, <1>2, <1>3, <1>4 DEF IInv

\* The common case: only pc has changed, to a stage that asks for nothing.
LEMMA PlainMove ==
    ASSUME IInv, NEW c \in Callers, NEW stage \in Stages \cup Answers,
           Goto(c, stage), UNCHANGED <<call, seen, document, consequence, thread, closedAs>>,
           stage \in {"vet", "insert"} => call[c].op = "raise",
           stage \in Deciding => call[c].op = "decide",
           stage \in {"find", "remove"} => call[c].op = "delete",
           stage = "shut" => call[c].op = "decide",
           stage \notin {"act", "carry", "login", "mark", "follow", "reopen"},
           call[c].op = "decide" /\ stage \in Talking \cup {"ok"} => Concluded(c)
    PROVE  IInv'
<1> USE DEF document, consequence
<1>1. pc'[c] = stage
  BY DEF IInv, DecisionTypes, Goto
<1>2. Concluded(c)' <=> Concluded(c)
  BY CallsStay DEF Concluded
<1>3. Place(c)'
  BY <1>1, <1>2, CallsStay DEF Place
<1>4. seen' \in [Callers -> Statuses] /\ \A d \in Callers \ {c} : seen'[d] = seen[d]
  BY DEF IInv, DecisionTypes
<1> QED BY <1>3, <1>4, OnlyMoves

\* A decision moves on towards the update that makes it.
LEMMA DecidingMove ==
    ASSUME IInv, NEW c \in Callers, NEW stage \in {"mark", "act", "carry"},
           Goto(c, stage), call[c].op = "decide",
           UNCHANGED <<call, document, consequence, thread, closedAs>>,
           seen' \in [Callers -> Statuses], \A d \in Callers \ {c} : seen'[d] = seen[d],
           MayDecide(call[c], Req(c), "asked"),
           Kind(c) # "staff_leave" => status[Req(c)] # "none",
           stage # "mark" =>
               Kind(c) \in {"general", "profile_change"} /\ Verdict(c) = "agreed",
           stage = "mark" =>
               /\ Kind(c) = "student_leave" => seen'[c] \in Undecided
               /\ ~(Kind(c) \in {"general", "profile_change"} /\ Verdict(c) = "agreed")
    PROVE  IInv'
<1>1. pc'[c] = stage
  BY DEF IInv, DecisionTypes, Goto
<1>2. MayDecide(call[c], Req(c), "asked")'
  BY DEF MayDecide, IsApprover, Req
<1>3. Kind(c)' # "staff_leave" => status'[Req(c)'] # "none"
  BY CallsStay DEF document
<1>4. call'[c].op = "decide"
  OBVIOUS
<1>5. Place(c)'
  BY <1>1, <1>2, <1>3, <1>4, CallsStay DEF Place, Talking
<1> QED BY <1>5, OnlyMoves DEF Stages, Deciding

LEMMA RefusedMove ==
    ASSUME IInv, NEW c \in Callers, Goto(c, "refused"),
           UNCHANGED <<call, document, consequence, thread, closedAs>>,
           seen' \in [Callers -> Statuses], \A d \in Callers \ {c} : seen'[d] = seen[d]
    PROVE  IInv'
<1>1. pc'[c] = "refused"
  BY DEF IInv, DecisionTypes, Goto
<1>2. Place(c)'
  BY <1>1 DEF Place, Deciding, Talking
<1> QED BY <1>2, OnlyMoves DEF Answers

LEMMA VetKeeps == ASSUME IInv, NEW c \in Callers, Vet(c) PROVE IInv'
<1>1. PICK stage \in {"refused", "insert"} : Goto(c, stage)
  BY DEF Vet
<1>2. call[c].op = "raise"
  BY DEF IInv, Place, Vet
<1> QED BY <1>1, <1>2, PlainMove DEF Vet, local, conversation, Stages, Answers, Deciding, Talking

LEMMA LoadKeeps == ASSUME IInv, NEW c \in Callers, Load(c) PROVE IInv'
<1>1. PICK stage \in {"refused", "look", "ensure"} :
        /\ Goto(c, stage)
        /\ stage = "look" => call[c].op = "decide"
        /\ stage = "ensure" => call[c].op # "decide"
  BY DEF Load
<1>2. UNCHANGED <<call, document, consequence, thread, closedAs>>
  BY DEF Load, conversation
<1>3. seen' \in [Callers -> Statuses] /\ \A d \in Callers \ {c} : seen'[d] = seen[d]
  BY CallFacts DEF Load, IInv, DecisionTypes
<1>4. pc'[c] = stage
  BY <1>1 DEF IInv, DecisionTypes, Goto
<1>5. Place(c)'
  BY <1>1, <1>2, <1>4 DEF Place, Deciding, Talking
<1> QED BY <1>1, <1>2, <1>3, <1>5, OnlyMoves DEF Stages, Deciding, Talking, Answers

LEMMA QueueLooksKeeps == ASSUME IInv, NEW c \in Callers, QueueLooks(c) PROVE IInv'
<1> DEFINE stage == IF status[Req(c)] \in Undecided /\ MayDecide(call[c], Req(c), status[Req(c)])
                    THEN Service(Kind(c)) ELSE "refused"
<1>1. Goto(c, stage) /\ pc[c] = "look" /\ UNCHANGED <<local, document, consequence, conversation>>
  BY DEF QueueLooks
<1>2. call[c].op = "decide"
  BY <1>1 DEF IInv, Place, Deciding
<1>3. stage \in {"refused", "read", "mark"}
  BY DEF Service
<1>4. CASE stage # "mark"
  BY <1>1, <1>2, <1>3, <1>4, PlainMove DEF local, conversation, Stages, Answers, Deciding, Talking
<1>5. CASE stage = "mark"
  <2>1. Kind(c) = "staff_leave" /\ MayDecide(call[c], Req(c), "asked")
    BY <1>5, EarlierIsEasier DEF Service
  <2>2. pc'[c] = "mark"
    BY <1>1, <1>5 DEF IInv, DecisionTypes, Goto
  <2>3. MayDecide(call[c], Req(c), "asked")'
    BY <1>1, <2>1 DEF local, MayDecide, IsApprover, Req
  <2>4. Place(c)'
    BY <1>1, <1>2, <2>1, <2>2, <2>3, CallsStay DEF Place, local, Talking
  <2> QED BY <1>1, <1>5, <2>4, OnlyMoves
          DEF local, conversation, Stages, Deciding, IInv, DecisionTypes
<1> QED BY <1>4, <1>5

LEMMA ServiceReadsKeeps == ASSUME IInv, NEW c \in Callers, ServiceReads(c) PROVE IInv'
<1> DEFINE st == status[Req(c)]
<1>1. /\ pc[c] = "read" /\ seen' = [seen EXCEPT ![c] = st]
      /\ UNCHANGED <<call, document, consequence, thread, closedAs>>
  BY DEF ServiceReads, conversation
<1>2. call[c].op = "decide" /\ st \in Statuses /\ Kind(c) \in Kinds /\ Verdict(c) \in {"agreed", "refused"}
  BY <1>1, CallFacts DEF IInv, Place, Deciding, DecisionTypes
<1>3. /\ seen'[c] = st /\ seen' \in [Callers -> Statuses]
      /\ \A d \in Callers \ {c} : seen'[d] = seen[d]
  BY <1>1, <1>2 DEF IInv, DecisionTypes
<1>4. CASE ~Acceptable(c, st)
  <2>1. Goto(c, "refused")
    BY <1>4 DEF ServiceReads
  <2> QED BY <1>1, <1>3, <2>1, RefusedMove
<1>5. CASE Acceptable(c, st)
  <2>1. /\ MayDecide(call[c], Req(c), "asked") /\ st # "none"
        /\ Kind(c) # "general" => st \in Undecided
    BY <1>5, EarlierIsEasier DEF Acceptable
  <2>2. CASE Verdict(c) = "refused" \/ Kind(c) \notin ActsFirst
    <3>1. Goto(c, "mark")
      BY <1>5, <2>2 DEF ServiceReads
    <3>2. ~(Kind(c) \in {"general", "profile_change"} /\ Verdict(c) = "agreed")
      BY <2>2 DEF ActsFirst
    <3>3. Kind(c) = "student_leave" => seen'[c] \in Undecided
      BY <1>3, <2>1
    <3> HIDE DEF st
    <3> QED BY <1>1, <1>2, <1>3, <2>1, <3>1, <3>2, <3>3, DecidingMove DEF st
  <2>3. CASE ~(Verdict(c) = "refused" \/ Kind(c) \notin ActsFirst)
    <3>1. Kind(c) \in {"general", "profile_change"} /\ Verdict(c) = "agreed"
      BY <1>2, <2>3 DEF ActsFirst
    <3>2. PICK stage \in {"act", "carry"} : Goto(c, stage)
      BY <1>5, <2>3 DEF ServiceReads
    <3> QED BY <1>1, <1>2, <1>3, <2>1, <3>1, <3>2, DecidingMove
  <2> QED BY <2>2, <2>3
<1> QED BY <1>4, <1>5

LEMMA PrepareKeeps == ASSUME IInv, NEW c \in Callers, Prepare(c) PROVE IInv'
<1> DEFINE stage == IF standing[Req(c)] THEN "carry" ELSE "error"
<1>1. Goto(c, stage) /\ pc[c] = "act" /\ UNCHANGED <<local, document, consequence, conversation>>
  BY DEF Prepare
<1>2. Place(c) /\ stage \in {"carry", "error"}
  BY DEF IInv
<1>3. pc'[c] = stage
  BY <1>1 DEF IInv, DecisionTypes, Goto
<1>4. MayDecide(call[c], Req(c), "asked")' <=> MayDecide(call[c], Req(c), "asked")
  BY <1>1 DEF local, MayDecide, IsApprover, Req
<1>5. Place(c)'
  BY <1>1, <1>2, <1>3, <1>4, CallsStay DEF Place, local, document, Deciding, Talking
<1> QED BY <1>1, <1>2, <1>5, OnlyMoves
        DEF local, conversation, Stages, Deciding, Answers, IInv, DecisionTypes

LEMMA MarkLostKeeps == ASSUME IInv, NEW c \in Callers, MarkLost(c) PROVE IInv'
<1>1. PICK stage \in Answers \ {"ok"} : Goto(c, stage)
  BY DEF MarkLost, Lost, Answers
<1> QED BY <1>1, PlainMove DEF MarkLost, local, conversation, Stages, Answers, Deciding, Talking

LEMMA FindToDeleteKeeps == ASSUME IInv, NEW c \in Callers, FindToDelete(c) PROVE IInv'
<1>1. PICK stage \in {"refused", "remove"} : Goto(c, stage)
  BY DEF FindToDelete
<1>2. call[c].op = "delete"
  BY DEF IInv, Place, FindToDelete
<1> QED BY <1>1, <1>2, PlainMove
        DEF FindToDelete, local, conversation, Stages, Answers, Deciding, Talking

LEMMA FailKeeps == ASSUME IInv, NEW c \in Callers, Fail(c) PROVE IInv'
BY PlainMove DEF Fail, local, conversation, Stages, Answers, Deciding, Talking

(***************************************************************************)
(* Steps that change a request.                                            *)
(***************************************************************************)
LEMMA InsertKeeps == ASSUME IInv, NEW c \in Callers, Insert(c) PROVE IInv'
<1> DEFINE q == Req(c)
<1>1. PICK st \in FirstStatuses(c) :
        /\ status' = [status EXCEPT ![q] = st]
        /\ decidedBy' = [decidedBy EXCEPT ![q] = IF st = "agreed" THEN c ELSE "none"]
  BY DEF Insert
<1>2. /\ pc[c] = "insert" /\ status[q] = "none" /\ Goto(c, "ok") /\ call[c].op = "raise"
      /\ UNCHANGED <<call, seen, carriedBy, signIn, standing, thread, closedAs>>
  BY DEF Insert, local, consequence, conversation, IInv, Place
<1>3. /\ st \in {"agreed", "asked", "raised"} /\ q \in Requests
      /\ st = "agreed" => /\ Kind(c) \in Moderated
                          /\ IsApprover(call[c]) \/ q \notin Strict
  BY CallFacts DEF FirstStatuses, Undecided, IInv
<1>4. DecisionTypes'
  BY <1>1, <1>2, <1>3 DEF IInv, DecisionTypes, Goto, Statuses, Undecided, Answers
<1>5. /\ status'[q] = st /\ decidedBy'[q] = IF st = "agreed" THEN c ELSE "none"
      /\ \A r \in Requests \ {q} : status'[r] = status[r] /\ decidedBy'[r] = decidedBy[r]
  BY <1>1, <1>3 DEF IInv, DecisionTypes
<1>6. ASSUME NEW d \in Callers PROVE Place(d)'
  <2>1. Place(d) /\ Req(d) \in Requests
    BY CallFacts DEF IInv
  <2>2. /\ Req(d)' = Req(d) /\ Kind(d)' = Kind(d) /\ Verdict(d)' = Verdict(d)
        /\ Outcome(d)' = Outcome(d)
    BY <1>2, CallsStay
  <2>3. CASE d = c
    <3>1. pc'[d] = "ok" /\ call'[d].op = "raise"
      BY <1>2, <2>3 DEF IInv, DecisionTypes, Goto
    <3> QED BY <3>1 DEF Place, Deciding
  <2>4. CASE d # c
    <3>1. pc'[d] = pc[d]
      BY <1>2, <2>4 DEF IInv, DecisionTypes, Goto
    <3>2. MayDecide(call[d], Req(d), "asked")' <=> MayDecide(call[d], Req(d), "asked")
      BY <1>2, <2>2 DEF MayDecide, IsApprover
    <3>3. CASE Req(d) = q
      BY <1>2, <1>3, <1>5, <2>1, <2>2, <3>1, <3>2, <3>3 DEF Place, Concluded
    <3>4. CASE Req(d) # q
      BY <1>2, <1>5, <2>1, <2>2, <3>1, <3>2, <3>4 DEF Place, Concluded
    <3> QED BY <3>3, <3>4
  <2> QED BY <2>3, <2>4
<1>7. ASSUME NEW r \in Requests PROVE Standing(r)'
  <2>1. Standing(r)
    BY DEF IInv
  <2> QED BY <1>2, <1>3, <1>5, <2>1 DEF Standing, Guarded, IInv, DecisionTypes
<1>8. AgreedByTheRightPerson'
  <2> SUFFICES ASSUME NEW r \in Requests, status'[r] = "agreed"
               PROVE  /\ decidedBy'[r] \in Callers
                      /\ LET a == call'[decidedBy'[r]] IN
                         \/ a.op = "raise" /\ (IsApprover(a) \/ r \notin Strict)
                         \/ /\ a.op = "decide" /\ MayDecide(a, r, "asked")
                            /\ r \in Strict => IsApprover(a)
    BY DEF AgreedByTheRightPerson, MayDecide, IsApprover
  <2>1. CASE r = q
    BY <1>2, <1>3, <1>5, <2>1
  <2>2. CASE r # q
    BY <1>2, <1>5, <2>2 DEF IInv, AgreedByTheRightPerson
  <2> QED BY <2>1, <2>2
<1>9. AgreedWasCarriedOut'
  <2>1. ASSUME st = "agreed" PROVE KindOf[q] \notin {"general", "profile_change"}
    <3>1. Kind(c) \in Moderated
      BY <1>3, <2>1
    <3> QED BY <3>1 DEF Kind, Moderated
  <2>2. ASSUME NEW r \in Requests, status'[r] = "agreed",
               KindOf[r] \in {"general", "profile_change"}
        PROVE  status[r] = "agreed"
    BY <1>5, <2>1, <2>2
  <2> QED BY <1>2, <2>2 DEF IInv, AgreedWasCarriedOut
<1> QED BY <1>4, <1>6, <1>7, <1>8, <1>9 DEF IInv

LEMMA CarryOutKeeps == ASSUME IInv, NEW c \in Callers, CarryOut(c) PROVE IInv'
<1> DEFINE q == Req(c)
           stage == IF Kind(c) = "general" THEN "mark" ELSE "login"
<1>1. /\ pc[c] = "carry" /\ Goto(c, stage)
      /\ carriedBy' = [carriedBy EXCEPT ![q] = @ \cup {c}]
      /\ standing' = [standing EXCEPT ![q] = Kind(c) # "general"]
      /\ UNCHANGED <<call, seen, status, decidedBy, signIn, thread, closedAs>>
  BY DEF CarryOut, local, document, conversation
<1>2. /\ Place(c) /\ call[c].op = "decide" /\ q \in Requests
      /\ Kind(c) \in {"general", "profile_change"} /\ Verdict(c) = "agreed"
  BY <1>1, CallFacts DEF IInv, Place, Deciding
<1>3. DecisionTypes'
  BY <1>1, <1>2 DEF IInv, DecisionTypes, Goto, Stages, Deciding
<1>4. /\ c \in carriedBy'[q]
      /\ \A r \in Requests \ {q} : carriedBy'[r] = carriedBy[r]
      /\ \A r \in Requests : carriedBy[r] \subseteq carriedBy'[r]
  BY <1>1, <1>2 DEF IInv, DecisionTypes
<1>5. q \notin Guarded
  BY <1>2 DEF Guarded, Leaves, Kind
<1>6. ASSUME NEW d \in Callers PROVE Place(d)'
  <2>1. Place(d) /\ Req(d) \in Requests
    BY CallFacts DEF IInv
  <2>2. /\ Req(d)' = Req(d) /\ Kind(d)' = Kind(d) /\ Verdict(d)' = Verdict(d)
        /\ Outcome(d)' = Outcome(d)
    BY <1>1, CallsStay
  <2>3. MayDecide(call[d], Req(d), "asked")' <=> MayDecide(call[d], Req(d), "asked")
    BY <1>1, <2>2 DEF MayDecide, IsApprover
  <2>4. CASE d = c
    <3>1. pc'[d] = stage /\ carriedBy'[Req(d)] # {}
      BY <1>1, <1>4, <2>4 DEF IInv, DecisionTypes, Goto
    <3> QED BY <1>1, <1>2, <2>1, <2>2, <2>3, <2>4, <3>1 DEF Place, Talking
  <2>5. CASE d # c
    <3>1. pc'[d] = pc[d]
      BY <1>1, <2>5 DEF IInv, DecisionTypes, Goto
    <3>2. carriedBy[Req(d)] \subseteq carriedBy'[Req(d)]
      BY <1>4, <2>1
    <3>3. Kind(d) \in Leaves => carriedBy'[Req(d)] = carriedBy[Req(d)]
      BY <1>2, <1>4, <2>1 DEF Leaves, Kind
    <3> QED BY <1>1, <2>1, <2>2, <2>3, <3>1, <3>2, <3>3 DEF Place, Concluded
  <2> QED BY <2>4, <2>5
<1>7. ASSUME NEW r \in Requests PROVE Standing(r)'
  BY <1>1, <1>4, <1>5 DEF IInv, Standing, Guarded
<1>8. AgreedByTheRightPerson'
  BY <1>1 DEF IInv, AgreedByTheRightPerson, MayDecide, IsApprover
<1>9. AgreedWasCarriedOut'
  BY <1>1, <1>4 DEF IInv, AgreedWasCarriedOut
<1> QED BY <1>3, <1>6, <1>7, <1>8, <1>9 DEF IInv

LEMMA CorrectLoginKeeps == ASSUME IInv, NEW c \in Callers, CorrectLogin(c) PROVE IInv'
<1>1. /\ pc[c] = "login" /\ Goto(c, "mark") /\ signIn' = signIn \cup {Req(c)}
      /\ UNCHANGED <<call, seen, status, decidedBy, carriedBy, standing, thread, closedAs>>
  BY DEF CorrectLogin, local, document, conversation
<1>2. /\ Place(c) /\ call[c].op = "decide" /\ Req(c) \in Requests
  BY <1>1, CallFacts DEF IInv, Place, Deciding
<1>3. DecisionTypes'
  BY <1>1, <1>2 DEF IInv, DecisionTypes, Goto, Stages, Deciding
<1>4. ASSUME NEW d \in Callers PROVE Place(d)'
  <2>1. Place(d)
    BY DEF IInv
  <2>2. /\ Req(d)' = Req(d) /\ Kind(d)' = Kind(d) /\ Verdict(d)' = Verdict(d)
        /\ Outcome(d)' = Outcome(d)
    BY <1>1, CallsStay
  <2>3. MayDecide(call[d], Req(d), "asked")' <=> MayDecide(call[d], Req(d), "asked")
    BY <1>1, <2>2 DEF MayDecide, IsApprover
  <2>4. CASE d = c
    <3>1. pc'[d] = "mark" /\ Req(d) \in signIn'
      BY <1>1, <2>4 DEF IInv, DecisionTypes, Goto
    <3>2. Kind(d) # "student_leave"
      BY <1>1, <1>2, <2>4 DEF Place
    <3> QED BY <1>1, <1>2, <2>1, <2>2, <2>3, <2>4, <3>1, <3>2 DEF Place, Talking
  <2>5. CASE d # c
    <3>1. pc'[d] = pc[d]
      BY <1>1, <2>5 DEF IInv, DecisionTypes, Goto
    <3> QED BY <1>1, <2>1, <2>2, <2>3, <3>1 DEF Place, Concluded
  <2> QED BY <2>4, <2>5
<1>5. ASSUME NEW r \in Requests PROVE Standing(r)'
  BY <1>1 DEF IInv, Standing, Guarded
<1>6. AgreedByTheRightPerson' /\ AgreedWasCarriedOut'
  BY <1>1 DEF IInv, AgreedByTheRightPerson, AgreedWasCarriedOut, MayDecide, IsApprover
<1> QED BY <1>3, <1>4, <1>5, <1>6 DEF IInv

LEMMA RecordAbsenceKeeps == ASSUME IInv, NEW c \in Callers, RecordAbsence(c) PROVE IInv'
<1> DEFINE q == Req(c)
           stage == AfterDecision(c)
<1>1. /\ pc[c] = "follow" /\ Goto(c, stage)
      /\ carriedBy' = [carriedBy EXCEPT ![q] = @ \cup {c}]
      /\ UNCHANGED <<call, seen, status, decidedBy, signIn, standing, thread, closedAs>>
  BY DEF RecordAbsence, local, document, conversation
<1>2. /\ Place(c) /\ call[c].op = "decide" /\ q \in Requests /\ KindOf[q] \in Leaves
      /\ status[q] = "agreed" /\ decidedBy[q] = c /\ Concluded(c)
  BY <1>1, CallFacts DEF IInv, Place, Deciding, Kind
<1>3. stage \in {"ensure", "ok"}
  BY DEF AfterDecision
<1>4. DecisionTypes'
  BY <1>1, <1>2, <1>3 DEF IInv, DecisionTypes, Goto, Stages, Talking, Answers
<1>5. /\ carriedBy'[q] = carriedBy[q] \cup {c}
      /\ \A r \in Requests \ {q} : carriedBy'[r] = carriedBy[r]
  BY <1>1, <1>2 DEF IInv, DecisionTypes
<1>6. ASSUME NEW d \in Callers PROVE Place(d)'
  <2>1. Place(d) /\ Req(d) \in Requests
    BY CallFacts DEF IInv
  <2>2. /\ Req(d)' = Req(d) /\ Kind(d)' = Kind(d) /\ Verdict(d)' = Verdict(d)
        /\ Outcome(d)' = Outcome(d)
    BY <1>1, CallsStay
  <2>3. MayDecide(call[d], Req(d), "asked")' <=> MayDecide(call[d], Req(d), "asked")
    BY <1>1, <2>2 DEF MayDecide, IsApprover
  <2>4. Concluded(d)' <=> Concluded(d)
    BY <1>1, <2>2 DEF Concluded
  <2>5. CASE d = c
    <3>1. pc'[d] = stage
      BY <1>1, <2>5 DEF IInv, DecisionTypes, Goto
    <3> QED BY <1>1, <1>2, <1>3, <2>4, <2>5, <3>1 DEF Place, Deciding
  <2>6. CASE d # c
    <3>1. pc'[d] = pc[d]
      BY <1>1, <2>6 DEF IInv, DecisionTypes, Goto
    <3>2. carriedBy[Req(d)] \subseteq carriedBy'[Req(d)]
      BY <1>5, <2>1
    <3>3. pc[d] = "follow" => Req(d) # q
      BY <1>2, <2>1, <2>6 DEF Place
    <3>4. pc[d] = "follow" => carriedBy'[Req(d)] = carriedBy[Req(d)]
      BY <1>5, <2>1, <3>3
    <3> QED BY <1>1, <2>1, <2>2, <2>3, <2>4, <3>1, <3>2, <3>4 DEF Place
  <2> QED BY <2>5, <2>6
<1>7. ASSUME NEW r \in Requests PROVE Standing(r)'
  <2>1. CASE r = q
    BY <1>1, <1>2, <1>5, <2>1 DEF IInv, Standing, Guarded
  <2>2. CASE r # q
    BY <1>1, <1>5, <2>2 DEF IInv, Standing, Guarded
  <2> QED BY <2>1, <2>2
<1>8. AgreedByTheRightPerson'
  BY <1>1 DEF IInv, AgreedByTheRightPerson, MayDecide, IsApprover
<1>9. AgreedWasCarriedOut'
  BY <1>1, <1>5 DEF IInv, AgreedWasCarriedOut
<1> QED BY <1>4, <1>6, <1>7, <1>8, <1>9 DEF IInv

LEMMA RemoveKeeps == ASSUME IInv, NEW c \in Callers, Remove(c) PROVE IInv'
<1> DEFINE q == Req(c)
<1>1. /\ pc[c] = "remove" /\ Goto(c, "ok") /\ status' = [status EXCEPT ![q] = "gone"]
      /\ UNCHANGED <<call, seen, decidedBy, carriedBy, signIn, standing, thread, closedAs>>
  BY DEF Remove, local, consequence, conversation
<1>2. /\ call[c].op = "delete" /\ q \in Requests /\ KindOf[q] \notin Leaves
  BY <1>1, CallFacts, CallsAssumption DEF IInv, Place, Moderated, Leaves, Req
<1>3. DecisionTypes'
  BY <1>1, <1>2 DEF IInv, DecisionTypes, Goto, Statuses, Answers
<1>4. /\ status'[q] = "gone" /\ \A r \in Requests \ {q} : status'[r] = status[r]
  BY <1>1, <1>2 DEF IInv, DecisionTypes
<1>5. ASSUME NEW d \in Callers PROVE Place(d)'
  <2>1. Place(d) /\ Req(d) \in Requests
    BY CallFacts DEF IInv
  <2>2. /\ Req(d)' = Req(d) /\ Kind(d)' = Kind(d) /\ Verdict(d)' = Verdict(d)
        /\ Outcome(d)' = Outcome(d)
    BY <1>1, CallsStay
  <2>3. MayDecide(call[d], Req(d), "asked")' <=> MayDecide(call[d], Req(d), "asked")
    BY <1>1, <2>2 DEF MayDecide, IsApprover
  <2>4. Kind(d) \in Leaves => status'[Req(d)] = status[Req(d)]
    BY <1>2, <1>4, <2>1 DEF Kind
  <2>5. status'[Req(d)] \in {status[Req(d)], "gone"}
    BY <1>4, <2>1
  <2>6. Concluded(d) => Concluded(d)'
    BY <1>1, <2>2, <2>4, <2>5 DEF Concluded, Undecided
  <2>7. CASE d = c
    <3>1. pc'[d] = "ok" /\ call'[d].op = "delete"
      BY <1>1, <1>2, <2>7 DEF IInv, DecisionTypes, Goto
    <3> QED BY <3>1 DEF Place, Deciding
  <2>8. CASE d # c
    <3>1. pc'[d] = pc[d]
      BY <1>1, <2>8 DEF IInv, DecisionTypes, Goto
    <3> QED BY <1>1, <2>1, <2>2, <2>3, <2>4, <2>5, <2>6, <3>1 DEF Place
  <2> QED BY <2>7, <2>8
<1>6. ASSUME NEW r \in Requests PROVE Standing(r)'
  BY <1>1, <1>2, <1>4 DEF IInv, Standing, Guarded, Leaves, Undecided
<1>7. AgreedByTheRightPerson'
  BY <1>1, <1>4 DEF IInv, AgreedByTheRightPerson, MayDecide, IsApprover
<1>8. AgreedWasCarriedOut'
  BY <1>1, <1>4 DEF IInv, AgreedWasCarriedOut
<1> QED BY <1>3, <1>5, <1>6, <1>7, <1>8 DEF IInv

LEMMA MarkKeeps == ASSUME IInv, NEW c \in Callers, Mark(c) PROVE IInv'
<1> DEFINE q == Req(c)
           out == Outcome(c)
<1>1. /\ pc[c] = "mark" /\ (Kind(c) \in Leaves => Matches(c))
      /\ UNCHANGED <<call, seen, carriedBy, signIn, standing, thread, closedAs>>
  BY DEF Mark, local, consequence, conversation
<1>2. PICK stage \in {"follow", "ensure", "ok"} :
        Goto(c, stage) /\ (stage = "follow" <=> Follows(c))
  BY DEF Mark, AfterDecision
<1>3. /\ Place(c) /\ Standing(q) /\ call[c].op = "decide"
      /\ q \in Requests /\ Kind(c) \in Kinds /\ Kind(c) = KindOf[q]
      /\ status[q] \in Statuses /\ Verdict(c) \in {"agreed", "refused"}
  BY <1>1, CallFacts DEF IInv, Place, Deciding, Kind, DecisionTypes
<1>4. /\ out \in {"raised", "agreed", "refused"}
      /\ out # "raised" => out = Verdict(c)
      /\ out = "raised" => KindOf[q] = "student_leave"
  BY <1>3, OutcomeFacts DEF IInv
<1>5. CASE ~Matches(c)
  <2>1. /\ KindOf[q] \notin Leaves /\ status[q] = "gone"
        /\ UNCHANGED <<status, decidedBy>>
    BY <1>1, <1>3, <1>5 DEF Mark, Matches, document
  <2>2. stage \in {"ensure", "ok"} /\ Concluded(c)
    BY <1>2, <1>3, <2>1 DEF Follows, Concluded, Undecided
  <2> QED BY <1>1, <1>2, <1>3, <2>1, <2>2, PlainMove
          DEF document, consequence, Stages, Answers, Deciding, Talking
<1>6. CASE Matches(c)
  <2>1. /\ status' = [status EXCEPT ![q] = out]
        /\ decidedBy' = [decidedBy EXCEPT ![q] = c]
    BY <1>6 DEF Mark
  <2>2. /\ status'[q] = out /\ decidedBy'[q] = c
        /\ \A r \in Requests \ {q} : status'[r] = status[r] /\ decidedBy'[r] = decidedBy[r]
    BY <1>3, <2>1 DEF IInv, DecisionTypes
  <2>3. DecisionTypes'
    BY <1>1, <1>2, <1>3, <1>4, <2>1
       DEF IInv, DecisionTypes, Goto, Stages, Deciding, Talking, Answers, Statuses, Undecided
  <2>4. KindOf[q] \in Leaves => status[q] \in Undecided /\ carriedBy[q] = {}
    BY <1>1, <1>3, <1>6 DEF Matches, Expected, Place, Standing, Guarded, Leaves, Undecided
  <2>5. KindOf[q] = "staff_leave" => status[q] = "asked" /\ closedAs[q] = "none"
    BY <1>3, <1>6 DEF Matches, Expected, Standing, Leaves, IInv, DecisionTypes
  <2>6. ASSUME NEW d \in Callers PROVE Place(d)'
    <3>1. Place(d) /\ Req(d) \in Requests /\ Verdict(d) \in {"agreed", "refused"}
      BY CallFacts DEF IInv
    <3>2. /\ Req(d)' = Req(d) /\ Kind(d)' = Kind(d) /\ Verdict(d)' = Verdict(d)
          /\ Outcome(d)' = Outcome(d)
      BY <1>1, CallsStay
    <3>3. MayDecide(call[d], Req(d), "asked")' <=> MayDecide(call[d], Req(d), "asked")
      BY <1>1, <3>2 DEF MayDecide, IsApprover
    <3>4. CASE d = c
      <4>1. pc'[d] = stage
        BY <1>2, <3>4 DEF IInv, DecisionTypes, Goto
      <4>2. Concluded(c)'
        BY <1>1, <1>3, <1>4, <2>2, <3>2, <3>4 DEF Concluded, Undecided
      <4>3. stage = "follow" => Kind(c) \in Leaves /\ out = "agreed"
        BY <1>2 DEF Follows
      <4> QED BY <1>1, <1>2, <1>3, <2>2, <2>4, <3>2, <3>4, <4>1, <4>2, <4>3 DEF Place, Deciding
    <3>5. CASE d # c
      <4>1. pc'[d] = pc[d]
        BY <1>2, <3>5 DEF IInv, DecisionTypes, Goto
      <4>2. CASE Req(d) # q
        BY <1>1, <2>2, <3>1, <3>2, <3>3, <4>1, <4>2 DEF Place, Concluded
      <4>3. CASE Req(d) = q
        <5>1. Kind(d) = KindOf[q] /\ status'[Req(d)] = out
          BY <2>2, <4>3 DEF Kind
        <5>2. pc[d] # "follow"
          BY <2>4, <3>1, <4>3, <5>1 DEF Place, Undecided
        <5>3. Concluded(d) => Concluded(d)'
          BY <1>4, <2>2, <2>4, <3>1, <3>2, <4>3, <5>1 DEF Concluded, Undecided
        <5> QED BY <1>1, <1>4, <3>1, <3>2, <3>3, <4>1, <5>1, <5>2, <5>3 DEF Place
      <4> QED BY <4>2, <4>3
    <3> QED BY <3>4, <3>5
  <2>7. ASSUME NEW r \in Requests PROVE Standing(r)'
    <3>1. Standing(r)
      BY DEF IInv
    <3>2. CASE r # q
      BY <1>1, <2>2, <3>1, <3>2 DEF Standing, Guarded
    <3>3. CASE r = q
      BY <1>1, <1>4, <2>2, <2>4, <2>5, <3>1, <3>3 DEF Standing, Guarded, Undecided
    <3> QED BY <3>2, <3>3
  <2>8. AgreedByTheRightPerson'
    <3> SUFFICES ASSUME NEW r \in Requests, status'[r] = "agreed"
                 PROVE  /\ decidedBy'[r] \in Callers
                        /\ LET a == call'[decidedBy'[r]] IN
                           \/ a.op = "raise" /\ (IsApprover(a) \/ r \notin Strict)
                           \/ /\ a.op = "decide" /\ MayDecide(a, r, "asked")
                              /\ r \in Strict => IsApprover(a)
      BY DEF AgreedByTheRightPerson, MayDecide, IsApprover
    <3>1. CASE r = q
      <4>1. /\ out = "agreed" /\ decidedBy'[r] = c /\ call' = call
            /\ MayDecide(call[c], r, "asked")
        BY <1>1, <1>3, <2>2, <3>1 DEF Place
      <4>2. r \in Strict => IsApprover(call[c])
        BY <3>1, <4>1, AgreementIsRight DEF IInv
      <4> QED BY <1>3, <4>1, <4>2
    <3>2. CASE r # q
      BY <1>1, <2>2, <3>2 DEF IInv, AgreedByTheRightPerson
    <3> QED BY <3>1, <3>2
  <2>9. AgreedWasCarriedOut'
    <3>1. ASSUME out = "agreed", KindOf[q] \in {"general", "profile_change"}
          PROVE  carriedBy[q] # {} /\ (KindOf[q] = "profile_change" => q \in signIn)
      BY <1>1, <1>3, <1>4, <3>1 DEF Place
    <3> QED BY <1>1, <2>2, <3>1 DEF IInv, AgreedWasCarriedOut
  <2> QED BY <2>3, <2>6, <2>7, <2>8, <2>9 DEF IInv
<1> QED BY <1>5, <1>6

(***************************************************************************)
(* The conversation.                                                       *)
(***************************************************************************)
\* A call in the conversation that goes on, but not to open it again.
LEMMA ConversationKeeps ==
    ASSUME IInv, NEW c \in Callers, pc[c] \in Talking,
           NEW stage \in {"shut", "count", "join", "recount", "write", "create", "ok", "refused"},
           stage = "shut" => call[c].op = "decide",
           Goto(c, stage), UNCHANGED <<call, seen, document, consequence, thread, closedAs>>
    PROVE  IInv'
<1>1. call[c].op = "decide" => Concluded(c)
  BY DEF IInv, Place
<1> QED BY <1>1, PlainMove DEF Stages, Answers, Deciding, Talking

LEMMA WithThreadFacts ==
    ASSUME NEW c, NEW t, NEW d
    PROVE  /\ WithThread(c, t, d) \in {"shut", "count", "reopen", "refused"}
           /\ WithThread(c, t, d) = "shut" => call[c].op = "decide"
           /\ WithThread(c, t, d) = "reopen" =>
                call[c].op # "decide" /\ t = "closed" /\ d # "refused"
BY DEF WithThread, Reopenable

LEMMA EnsureKeeps == ASSUME IInv, NEW c \in Callers, Ensure(c) PROVE IInv'
<1> DEFINE t == thread[Req(c)]
           d == closedAs[Req(c)]
<1>1. /\ pc[c] = "ensure"
      /\ UNCHANGED <<call, seen, document, consequence, thread, closedAs>>
  BY DEF Ensure, local, conversation
<1>2. PICK stage \in {"refused", "create", WithThread(c, t, d)} : Goto(c, stage)
  BY DEF Ensure
<1>3. stage \in {"refused", "create", "shut", "count", "reopen"}
  BY <1>2, WithThreadFacts
<1>4. /\ stage = "shut" => call[c].op = "decide"
      /\ stage = "reopen" => call[c].op # "decide" /\ t = "closed" /\ d # "refused"
  BY <1>2, WithThreadFacts
<1>5. CASE stage # "reopen"
  BY <1>1, <1>2, <1>3, <1>4, <1>5, ConversationKeeps DEF Talking
<1>6. CASE stage = "reopen"
  <2>1. /\ Req(c) \in Requests /\ Standing(Req(c))
        /\ d \in {"none", "agreed", "refused"}
    BY CallFacts DEF IInv, DecisionTypes
  <2>2. d = "agreed"
    BY <1>4, <1>6, <2>1 DEF Standing
  <2>3. pc'[c] = "reopen"
    BY <1>2, <1>6 DEF IInv, DecisionTypes, Goto
  <2>4. Place(c)'
    BY <1>1, <1>4, <1>6, <2>2, <2>3, CallsStay DEF Place, Deciding
  <2>5. seen' \in [Callers -> Statuses] /\ \A e \in Callers \ {c} : seen'[e] = seen[e]
    BY <1>1 DEF IInv, DecisionTypes
  <2>6. stage \in Stages
    BY <1>6 DEF Stages, Talking
  <2> QED BY <1>1, <1>2, <2>4, <2>5, <2>6, OnlyMoves
<1> QED BY <1>5, <1>6

LEMMA CountMessagesKeeps == ASSUME IInv, NEW c \in Callers, CountMessages(c) PROVE IInv'
<1>1. PICK stage \in {"join", "write"} : Goto(c, stage)
  BY DEF CountMessages
<1> QED BY <1>1, ConversationKeeps DEF CountMessages, conversation, Talking

LEMMA JoinKeeps == ASSUME IInv, NEW c \in Callers, Join(c) PROVE IInv'
BY ConversationKeeps DEF Join, local, Talking

LEMMA RecountKeeps == ASSUME IInv, NEW c \in Callers, Recount(c) PROVE IInv'
BY ConversationKeeps DEF Recount, conversation, Talking

LEMMA WriteMessageKeeps == ASSUME IInv, NEW c \in Callers, WriteMessage(c) PROVE IInv'
BY ConversationKeeps DEF WriteMessage, local, Talking

\* Steps that change the state of one conversation and nothing else.
LEMMA ThreadMove ==
    ASSUME IInv, NEW c \in Callers, pc[c] \in Talking,
           NEW stage \in {"shut", "count", "refused"}, Goto(c, stage),
           stage = "shut" => call[c].op = "decide",
           NEW t \in {"open", "closed"}, NEW d \in {"none", "agreed", "refused"},
           thread' = [thread EXCEPT ![Req(c)] = t],
           closedAs' = [closedAs EXCEPT ![Req(c)] = d],
           UNCHANGED <<call, seen, document, consequence>>,
           Standing(Req(c))',
           KindOf[Req(c)] = "staff_leave" /\ closedAs[Req(c)] = "agreed" => d = "agreed"
    PROVE  IInv'
<1> USE DEF document, consequence
<1>1. Req(c) \in Requests /\ (call[c].op = "decide" => Concluded(c))
  BY CallFacts DEF IInv, Place
<1>2. DecisionTypes'
  BY <1>1 DEF IInv, DecisionTypes, Goto, Stages, Answers, Talking
<1>3. /\ closedAs'[Req(c)] = d
      /\ \A r \in Requests \ {Req(c)} : closedAs'[r] = closedAs[r] /\ thread'[r] = thread[r]
  BY <1>1 DEF IInv, DecisionTypes
<1>4. ASSUME NEW e \in Callers PROVE Place(e)'
  <2>1. Place(e) /\ Req(e) \in Requests
    BY CallFacts DEF IInv
  <2>2. /\ Req(e)' = Req(e) /\ Kind(e)' = Kind(e) /\ Verdict(e)' = Verdict(e)
        /\ Outcome(e)' = Outcome(e)
    BY CallsStay
  <2>3. MayDecide(call[e], Req(e), "asked")' <=> MayDecide(call[e], Req(e), "asked")
    BY <2>2 DEF MayDecide, IsApprover
  <2>4. Concluded(e)' <=> Concluded(e)
    BY <2>2 DEF Concluded
  <2>5. CASE e = c
    <3>1. pc'[e] = stage
      BY <2>5 DEF IInv, DecisionTypes, Goto
    <3> QED BY <1>1, <2>4, <2>5, <3>1 DEF Place, Deciding
  <2>6. CASE e # c
    <3>1. pc'[e] = pc[e]
      BY <2>6 DEF IInv, DecisionTypes, Goto
    <3>2. Kind(e) = "staff_leave" /\ closedAs[Req(e)] = "agreed" => closedAs'[Req(e)] = "agreed"
      BY <1>3, <2>1 DEF Kind
    <3> QED BY <2>1, <2>2, <2>3, <2>4, <3>1, <3>2 DEF Place
  <2> QED BY <2>5, <2>6
<1>5. ASSUME NEW r \in Requests, r # Req(c) PROVE Standing(r)'
  BY <1>3, <1>5 DEF IInv, Standing, Guarded
<1>6. AgreedByTheRightPerson' /\ AgreedWasCarriedOut'
  BY DEF IInv, AgreedByTheRightPerson, AgreedWasCarriedOut, MayDecide, IsApprover
<1> QED BY <1>2, <1>4, <1>5, <1>6, CallsStay DEF IInv

LEMMA CreateThreadKeeps == ASSUME IInv, NEW c \in Callers, CreateThread(c) PROVE IInv'
<1> DEFINE q == Req(c)
<1>1. pc[c] = "create" /\ UNCHANGED <<call, seen, document, consequence, closedAs>>
  BY DEF CreateThread, local
<1>2. q \in Requests /\ Standing(q)
  BY CallFacts DEF IInv
<1>3. CASE thread[q] # "none"
  <2>1. Goto(c, "error") /\ UNCHANGED thread
    BY <1>3 DEF CreateThread
  <2> QED BY <1>1, <2>1, PlainMove DEF Stages, Answers, Deciding, Talking
<1>4. CASE thread[q] = "none"
  <2>1. thread' = [thread EXCEPT ![q] = "open"] /\ Goto(c, WithThread(c, "open", "none"))
    BY <1>4 DEF CreateThread
  <2>2. /\ WithThread(c, "open", "none") \in {"shut", "count", "refused"}
        /\ WithThread(c, "open", "none") = "shut" => call[c].op = "decide"
    BY WithThreadFacts
  <2>3. closedAs[q] = "none" /\ closedAs' = [closedAs EXCEPT ![q] = "none"]
    BY <1>1, <1>2, <1>4 DEF Standing, IInv, DecisionTypes
  <2>4. thread'[q] = "open" /\ closedAs'[q] = "none"
    BY <1>2, <2>1, <2>3 DEF IInv, DecisionTypes
  <2>5. Standing(q)'
    BY <1>1, <1>2, <2>4, CallsStay DEF Standing, Guarded, document, consequence
  <2> QED BY <1>1, <2>1, <2>2, <2>3, <2>5, ThreadMove DEF Talking
<1> QED BY <1>3, <1>4

LEMMA ShutKeeps == ASSUME IInv, NEW c \in Callers, Shut(c) PROVE IInv'
<1> DEFINE q == Req(c)
<1>1. /\ pc[c] = "shut" /\ Goto(c, "count") /\ UNCHANGED <<call, seen, document, consequence>>
      /\ thread' = [thread EXCEPT ![q] = "closed"]
      /\ closedAs' = [closedAs EXCEPT ![q] = Verdict(c)]
  BY DEF Shut, local
<1>2. /\ q \in Requests /\ Standing(q) /\ Verdict(c) \in {"agreed", "refused"}
      /\ Kind(c) = KindOf[q]
  BY CallFacts DEF IInv, Kind
<1>3. call[c].op = "decide" /\ Concluded(c)
  BY <1>1 DEF IInv, Place, Talking
<1>4. thread'[q] = "closed" /\ closedAs'[q] = Verdict(c)
  BY <1>1, <1>2 DEF IInv, DecisionTypes
<1>5. KindOf[q] = "staff_leave" => status[q] = Verdict(c)
  BY <1>2, <1>3, OutcomeFacts DEF Concluded, Leaves, IInv
<1>6. Standing(q)'
  BY <1>1, <1>2, <1>3, <1>4, <1>5, CallsStay DEF Standing, Guarded, Concluded, document, consequence
<1>7. KindOf[q] = "staff_leave" /\ closedAs[q] = "agreed" => Verdict(c) = "agreed"
  BY <1>2, <1>5 DEF Standing
<1> QED BY <1>1, <1>2, <1>6, <1>7, ThreadMove DEF Talking

LEMMA ReopenKeeps == ASSUME IInv, NEW c \in Callers, Reopen(c) PROVE IInv'
<1> DEFINE q == Req(c)
<1>1. /\ pc[c] = "reopen" /\ Goto(c, "count")
      /\ UNCHANGED <<call, seen, document, consequence, closedAs>>
      /\ thread' = [thread EXCEPT ![q] = "open"]
  BY DEF Reopen, local
<1>2. /\ q \in Requests /\ Standing(q) /\ Kind(c) = KindOf[q]
      /\ closedAs[q] \in {"none", "agreed", "refused"}
  BY CallFacts DEF IInv, Kind, DecisionTypes
<1>3. KindOf[q] = "staff_leave" => closedAs[q] = "agreed"
  BY <1>1, <1>2 DEF IInv, Place
<1>4. thread'[q] = "open" /\ closedAs' = [closedAs EXCEPT ![q] = closedAs[q]]
  BY <1>1, <1>2 DEF IInv, DecisionTypes
<1>5. Standing(q)'
  BY <1>1, <1>2, <1>3, <1>4, CallsStay DEF Standing, Guarded, document, consequence
<1> QED BY <1>1, <1>2, <1>4, <1>5, ThreadMove DEF Talking

(***************************************************************************)
(* The invariant.                                                          *)
(***************************************************************************)
LEMMA NextKeeps == IInv /\ [Next]_vars => IInv'
<1> SUFFICES ASSUME IInv, [Next]_vars PROVE IInv'
  OBVIOUS
<1>1. CASE UNCHANGED vars
  BY <1>1 DEF vars, local, document, consequence, conversation, IInv, DecisionTypes, Place,
       Concluded, Standing, AgreedByTheRightPerson, AgreedWasCarriedOut, MayDecide, IsApprover,
       Outcome, Req, Kind, Verdict, Guarded
<1>2. ASSUME NEW c \in Callers, Proceed(c) \/ Fail(c) PROVE IInv'
  BY <1>2, VetKeeps, InsertKeeps, LoadKeeps, QueueLooksKeeps, ServiceReadsKeeps, PrepareKeeps,
     CarryOutKeeps, CorrectLoginKeeps, MarkKeeps, MarkLostKeeps, RecordAbsenceKeeps,
     FindToDeleteKeeps, RemoveKeeps, EnsureKeeps, CreateThreadKeeps, ShutKeeps, ReopenKeeps,
     CountMessagesKeeps, JoinKeeps, RecountKeeps, WriteMessageKeeps, FailKeeps
     DEF Proceed
<1> QED BY <1>1, <1>2 DEF Next

(***************************************************************************)
(* The theorems.                                                           *)
(***************************************************************************)
\* The invariant holds of every state that can be reached.
THEOREM Inductive == Spec => []IInv
BY InitIInv, NextKeeps, PTL DEF Spec

\* Whatever is agreed was agreed by somebody with the authority for it,
\* through the queue or through any screen (MayDecide and the services).
THEOREM RightPerson == Spec => []AgreedByTheRightPerson
<1>1. IInv => AgreedByTheRightPerson
  BY DEF IInv
<1> QED BY <1>1, Inductive, PTL

\* A general request or a correction that reads as agreed has been carried out.
THEOREM CarriedOut == Spec => []AgreedWasCarriedOut
<1>1. IInv => AgreedWasCarriedOut
  BY DEF IInv
<1> QED BY <1>1, Inductive, PTL

\* Whoever is told that a decision on a leave was made made it.
THEOREM TrueAnswers == Spec => []AnswersAreTrue
<1>1. IInv => AnswersAreTrue
  <2> SUFFICES ASSUME IInv, NEW c \in Callers, pc[c] = "ok", call[c].op = "decide", Req(c) \in Guarded
               PROVE  \/ status[Req(c)] = Verdict(c) /\ decidedBy[Req(c)] = c
                      \/ Outcome(c) = "raised" /\ status[Req(c)] # "asked"
    BY DEF AnswersAreTrue
  <2> QED BY DEF IInv, Place, Concluded, Guarded, Kind
<1> QED BY <1>1, Inductive, PTL

\* The conversation closes after the decision (of any kind but a child's leave).
THEOREM ClosedAfterwards == Spec => []ThreadsCloseAfterDecision
<1>1. IInv => ThreadsCloseAfterDecision
  BY DEF IInv, ThreadsCloseAfterDecision, Standing
<1> QED BY <1>1, Inductive, PTL

\* The conversation of a refused staff leave is never opened again.
THEOREM StaysClosed == Spec => RefusedStaysClosed
<1>1. IInv /\ IInv' /\ [Next]_vars =>
        [\A q \in Requests :
           KindOf[q] = "staff_leave" /\ closedAs[q] = "refused" => thread'[q] = "closed"]_vars
  <2> SUFFICES ASSUME IInv, IInv', [Next]_vars, NEW q \in Requests,
                      KindOf[q] = "staff_leave", closedAs[q] = "refused"
               PROVE  thread'[q] = "closed"
    OBVIOUS
  <2>1. CASE closedAs'[q] = closedAs[q]
    BY <2>1 DEF IInv, Standing
  <2>2. CASE closedAs'[q] # closedAs[q]
    <3>1. PICK c \in Callers : Shut(c)
      BY <2>2 DEF Next, Proceed, Fail, vars, conversation, document, consequence, local, Vet,
           Insert, Load, QueueLooks, ServiceReads, Prepare, CarryOut, CorrectLogin, Mark, MarkLost,
           RecordAbsence, FindToDelete, Remove, Ensure, CreateThread, Reopen, CountMessages,
           Join, Recount, WriteMessage
    <3>2. thread' = [thread EXCEPT ![Req(c)] = "closed"] /\ closedAs' = [closedAs EXCEPT ![Req(c)] = Verdict(c)]
      BY <3>1 DEF Shut
    <3>3. thread[q] = "closed"
      BY DEF IInv, Standing
    <3> QED BY <3>2, <3>3 DEF IInv, DecisionTypes
  <2> QED BY <2>1, <2>2
<1> QED BY <1>1, Inductive, PTL DEF Spec, RefusedStaysClosed

(***************************************************************************)
(* Leaves keep the promise of Decision.                                    *)
(***************************************************************************)
verdict == [q \in Guarded |->
              IF status[q] \in {"agreed", "refused"} THEN status[q] ELSE "waiting"]
carried == {q \in Guarded : carriedBy[q] # {}}

LEMMA PromiseInit == Init => Promise!Init
<1> SUFFICES ASSUME Init PROVE Promise!Init
  OBVIOUS
<1>1. \A q \in Requests : status[q] \in {"none", "asked", "raised"} /\ carriedBy[q] = {}
  BY DEF Init
<1>2. Guarded \subseteq Requests
  BY DEF Guarded
<1>3. carried = {}
  BY <1>1, <1>2 DEF carried
<1>4. verdict \in [Guarded -> {"waiting"} \cup {"agreed", "refused"}]
  BY <1>1, <1>2 DEF verdict
<1> QED BY <1>3, <1>4 DEF Promise!Init, Promise!Verdicts, verdict, carried

\* A step that leaves every leave's verdict and absence as they are.
LEMMA PromiseStutters ==
    ASSUME \A q \in Guarded :
             /\ carriedBy'[q] = carriedBy[q]
             /\ status'[q] = status[q] \/ {status[q], status'[q]} \cap {"agreed", "refused"} = {}
    PROVE  verdict' = verdict /\ carried' = carried
BY DEF verdict, carried, Guarded

LEMMA PromiseMark ==
    ASSUME IInv, NEW c \in Callers, Mark(c)
    PROVE  Promise!Next \/ (verdict' = verdict /\ carried' = carried)
<1> DEFINE q == Req(c)
           out == Outcome(c)
<1>1. /\ q \in Requests /\ Kind(c) = KindOf[q] /\ Place(c) /\ pc[c] = "mark"
      /\ (Kind(c) \in Leaves => Matches(c)) /\ UNCHANGED carriedBy
  BY CallFacts DEF IInv, Kind, Mark, consequence
<1>2. out \in {"raised", "agreed", "refused"}
  BY OutcomeFacts DEF IInv
<1>3. /\ q \in Guarded => status'[q] = out
      /\ \A r \in Requests \ {q} : status'[r] = status[r]
  BY <1>1 DEF Mark, IInv, DecisionTypes, Guarded, document
<1>4. q \in Guarded => status[q] \in Undecided
  BY <1>1 DEF Guarded, Matches, Expected, Place, Leaves, Undecided
<1>5. CASE q \notin Guarded \/ out = "raised"
  <2>1. \A r \in Guarded :
           status'[r] = status[r] \/ {status[r], status'[r]} \cap {"agreed", "refused"} = {}
    BY <1>3, <1>4, <1>5 DEF Guarded, Undecided
  <2> QED BY <1>1, <2>1, PromiseStutters
<1>6. CASE q \in Guarded /\ out \in {"agreed", "refused"}
  <2>1. verdict[q] = "waiting"
    BY <1>4, <1>6 DEF verdict, Undecided
  <2>2. verdict' = [verdict EXCEPT ![q] = out]
    <3>1. \A r \in Guarded : r # q => status'[r] = status[r]
      BY <1>3 DEF Guarded
    <3>2. Guarded' = Guarded
      BY DEF Guarded
    <3> QED BY <1>3, <1>6, <3>1, <3>2 DEF verdict
  <2>3. carried' = carried
    BY <1>1 DEF carried, Guarded
  <2>4. \E r \in Guarded : Promise!Decide(r)
    BY <1>6, <2>1, <2>2, <2>3 DEF Promise!Decide, Promise!Verdicts, verdict, carried
  <2> QED BY <2>4 DEF Promise!Next
<1> QED BY <1>2, <1>5, <1>6

LEMMA PromiseRecord ==
    ASSUME IInv, NEW c \in Callers, RecordAbsence(c)
    PROVE  Promise!Next
<1> DEFINE q == Req(c)
<1>1. /\ q \in Guarded /\ status[q] = "agreed" /\ decidedBy[q] = c /\ c \notin carriedBy[q]
  BY CallFacts DEF IInv, Place, RecordAbsence, Guarded, Kind
<1>2. carriedBy[q] = {}
  BY <1>1 DEF IInv, Standing, Guarded
<1>3. /\ carriedBy' = [carriedBy EXCEPT ![q] = @ \cup {c}] /\ UNCHANGED status
  BY DEF RecordAbsence, document
<1>4. /\ carriedBy'[q] = {c} /\ \A r \in Requests \ {q} : carriedBy'[r] = carriedBy[r]
  BY <1>1, <1>2, <1>3 DEF IInv, DecisionTypes, Guarded
<1>5. verdict' = verdict /\ verdict[q] = "agreed"
  BY <1>1, <1>3 DEF verdict, Guarded
<1>6. q \notin carried /\ carried' = carried \cup {q}
  BY <1>1, <1>2, <1>4 DEF carried, Guarded
<1>7. \E r \in Guarded : Promise!CarryOut(r)
  BY <1>1, <1>5, <1>6 DEF Promise!CarryOut, verdict, carried
<1> QED BY <1>7 DEF Promise!Next

LEMMA PromiseStep == IInv /\ [Next]_vars => [Promise!Next]_(Promise!vars)
<1> SUFFICES ASSUME IInv, [Next]_vars
             PROVE  Promise!Next \/ (verdict' = verdict /\ carried' = carried)
  BY DEF Promise!vars, verdict, carried
<1>1. CASE UNCHANGED <<status, carriedBy>>
  BY <1>1, PromiseStutters
<1>2. ASSUME NEW c \in Callers, Insert(c) PROVE verdict' = verdict /\ carried' = carried
  <2>1. /\ Req(c) \in Requests /\ status[Req(c)] = "none" /\ UNCHANGED carriedBy
    BY <1>2, CallFacts DEF Insert, consequence, IInv
  <2>2. PICK st \in FirstStatuses(c) : status' = [status EXCEPT ![Req(c)] = st]
    BY <1>2 DEF Insert
  <2>3. Req(c) \in Guarded => st \in Undecided
    BY <2>2 DEF FirstStatuses, Guarded, Leaves, Moderated, Kind, Undecided
  <2>4. \A q \in Guarded :
           status'[q] = status[q] \/ {status[q], status'[q]} \cap {"agreed", "refused"} = {}
    BY <2>1, <2>2, <2>3 DEF IInv, DecisionTypes, Guarded, Undecided
  <2> QED BY <2>1, <2>4, PromiseStutters
<1>3. ASSUME NEW c \in Callers, CarryOut(c) PROVE verdict' = verdict /\ carried' = carried
  <2>1. /\ UNCHANGED status /\ carriedBy' = [carriedBy EXCEPT ![Req(c)] = @ \cup {c}]
    BY <1>3 DEF CarryOut, document
  <2>2. Req(c) \notin Guarded
    BY <1>3 DEF CarryOut, IInv, Place, Guarded, Leaves, Kind
  <2>3. \A q \in Guarded : carriedBy'[q] = carriedBy[q]
    BY <2>1, <2>2 DEF IInv, DecisionTypes, Guarded
  <2> QED BY <2>1, <2>3, PromiseStutters
<1>4. ASSUME NEW c \in Callers, Remove(c) PROVE verdict' = verdict /\ carried' = carried
  <2>1. /\ UNCHANGED carriedBy /\ status' = [status EXCEPT ![Req(c)] = "gone"]
    BY <1>4 DEF Remove, consequence
  <2>2. call[c].op = "delete"
    BY <1>4 DEF Remove, IInv, Place
  <2>3. Req(c) \notin Guarded
    BY <2>2, CallFacts, CallsAssumption DEF IInv, Guarded, Leaves, Moderated, Req
  <2>4. \A q \in Guarded : status'[q] = status[q]
    BY <2>1, <2>3 DEF IInv, DecisionTypes, Guarded
  <2> QED BY <2>1, <2>4, PromiseStutters
<1>5. ASSUME NEW c \in Callers, Proceed(c) \/ Fail(c), ~Insert(c), ~CarryOut(c), ~Remove(c),
             ~Mark(c), ~RecordAbsence(c)
      PROVE  UNCHANGED <<status, carriedBy>>
  BY <1>5 DEF Proceed, Fail, conversation, document, consequence, local, Vet, Load, QueueLooks,
       ServiceReads, Prepare, CorrectLogin, MarkLost, FindToDelete, Ensure, CreateThread, Shut,
       Reopen, CountMessages, Join, Recount, WriteMessage
<1>6. CASE UNCHANGED vars
  BY <1>1, <1>6 DEF vars, document, consequence
<1>7. ASSUME NEW c \in Callers, Proceed(c) \/ Fail(c)
      PROVE  Promise!Next \/ (verdict' = verdict /\ carried' = carried)
  BY <1>1, <1>2, <1>3, <1>4, <1>5, <1>7, PromiseMark, PromiseRecord
<1> QED BY <1>6, <1>7 DEF Next

\* Leave of staff and of students is decided once, the decision stands, and
\* the absence is recorded once, of what was approved.
THEOREM PromiseKept == Spec => LeavesAreDecidedOnce
BY PromiseInit, PromiseStep, Inductive, PTL DEF Spec, Promise!Spec, LeavesAreDecidedOnce
-----------------------------------------------------------------------------
(***************************************************************************)
(* The numbers of a conversation's messages.                               *)
(***************************************************************************)
Numbers(s) == {s[i] : i \in DOMAIN s}

\* There is a greatest number.  (Kept by every message, so that LastNumber is
\* one without an induction over the conversation.)
HasLast(s) == \E n \in {0} \cup Numbers(s) : \A i \in DOMAIN s : s[i] <= n

LEMMA LastIsLast ==
    ASSUME NEW s \in Seq(Nat), HasLast(s)
    PROVE  LastNumber(s) \in Nat /\ \A i \in 1 .. Len(s) : s[i] <= LastNumber(s)
<1>1. PICK n \in {0} \cup Numbers(s) : \A i \in DOMAIN s : s[i] <= n
  BY DEF HasLast
<1>2. LastNumber(s) \in {0} \cup Numbers(s) /\ \A i \in DOMAIN s : s[i] <= LastNumber(s)
  BY <1>1 DEF LastNumber, Numbers
<1>3. DOMAIN s = 1 .. Len(s) /\ \A i \in DOMAIN s : s[i] \in Nat
  OBVIOUS
<1> QED BY <1>2, <1>3 DEF Numbers

LEMMA MessageKeepsLast ==
    ASSUME NEW s \in Seq(Nat), NEW m \in Nat, HasLast(s)
    PROVE  HasLast(Append(s, m))
<1> DEFINE t == Append(s, m)
<1>1. PICK n \in {0} \cup Numbers(s) : \A i \in DOMAIN s : s[i] <= n
  BY DEF HasLast
<1>2. /\ DOMAIN s = 1 .. Len(s) /\ Len(s) \in Nat /\ DOMAIN t = 1 .. Len(s) + 1
      /\ \A i \in DOMAIN s : t[i] = s[i] /\ s[i] \in Nat
      /\ t[Len(s) + 1] = m
  OBVIOUS
<1> HIDE DEF t
<1>3. n \in Nat /\ n \in {0} \cup Numbers(t) /\ m \in Numbers(t)
  BY <1>1, <1>2 DEF Numbers
<1>4. CASE m <= n
  <2>1. \A i \in DOMAIN t : t[i] <= n
    BY <1>1, <1>2, <1>3, <1>4
  <2> QED BY <1>3, <2>1 DEF HasLast, t
<1>5. CASE n < m
  <2>1. \A i \in DOMAIN t : t[i] <= m
    BY <1>1, <1>2, <1>3, <1>5
  <2> QED BY <1>3, <2>1 DEF HasLast, t
<1> QED BY <1>3, <1>4, <1>5

\* What is so of the numbers of messages.
Conversed ==
    /\ count \in [Callers -> Nat] /\ past \in [Callers -> Nat]
    /\ lines \in [Requests -> Seq(Nat)]
    /\ joined \in [Requests -> SUBSET [who : Callers, above : Nat]]
    /\ \A q \in Requests : HasLast(lines[q])

LEMMA InitConversed == Init => Conversed
<1>1. HasLast(<<>>)
  BY DEF HasLast
<1> QED BY <1>1 DEF Init, Conversed

\* A step that neither counts nor writes.
Silent == UNCHANGED <<count, past, lines, joined>>

LEMMA TalkKinds ==
    ASSUME NEW c \in Callers, Proceed(c) \/ Fail(c)
    PROVE  CountMessages(c) \/ Join(c) \/ Recount(c) \/ WriteMessage(c) \/ Silent
BY DEF Proceed, Fail, Silent, local, conversation, Vet, Insert, Load, QueueLooks, ServiceReads,
   Prepare, CarryOut, CorrectLogin, Mark, MarkLost, RecordAbsence, FindToDelete, Remove, Ensure,
   CreateThread, Shut, Reopen

LEMMA StepConversed ==
    ASSUME IInv, Conversed, NEW c \in Callers, Proceed(c) \/ Fail(c)
    PROVE  Conversed'
<1> DEFINE q == Req(c)
           s == lines[q]
<1>1. q \in Requests /\ s \in Seq(Nat) /\ HasLast(s)
  BY CallFacts DEF IInv, Conversed
<1>2. LastNumber(s) \in Nat /\ Len(s) \in Nat /\ count[c] \in Nat
  BY <1>1, LastIsLast DEF Conversed
<1>3. CASE Silent
  BY <1>3 DEF Silent, Conversed
<1>4. CASE CountMessages(c) \/ Recount(c)
  <2>1. count' = [count EXCEPT ![c] = LastNumber(s)] /\ UNCHANGED <<past, lines, joined>>
    BY <1>4 DEF CountMessages, Recount, conversation
  <2> HIDE DEF s
  <2> QED BY <1>2, <2>1 DEF Conversed
<1>5. CASE Join(c)
  <2>1. /\ joined' = [joined EXCEPT ![q] = @ \cup {[who |-> c, above |-> count[c]]}]
        /\ past' = [past EXCEPT ![c] = Len(s)]
        /\ UNCHANGED <<lines, count>>
    BY <1>5 DEF Join
  <2> HIDE DEF s
  <2> QED BY <1>1, <1>2, <2>1 DEF Conversed
<1>6. CASE WriteMessage(c)
  <2>1. /\ lines' = [lines EXCEPT ![q] = Append(s, count[c] + 1)]
        /\ UNCHANGED <<count, past, joined>>
    BY <1>6 DEF WriteMessage, local
  <2>2. HasLast(Append(s, count[c] + 1)) /\ Append(s, count[c] + 1) \in Seq(Nat)
    BY <1>1, <1>2, MessageKeepsLast
  <2> QED BY <1>1, <2>1, <2>2 DEF Conversed
<1> QED BY <1>3, <1>4, <1>5, <1>6, TalkKinds

LEMMA ConversedHolds == Spec => [](IInv /\ Conversed)
<1>1. IInv /\ Conversed /\ [Next]_vars => Conversed'
  <2> SUFFICES ASSUME IInv, Conversed, [Next]_vars PROVE Conversed'
    OBVIOUS
  <2>1. CASE UNCHANGED vars
    BY <2>1 DEF vars, local, conversation, Conversed
  <2>2. ASSUME NEW c \in Callers, Proceed(c) \/ Fail(c) PROVE Conversed'
    BY <2>2, StepConversed
  <2> QED BY <2>1, <2>2 DEF Next
<1> QED BY <1>1, InitIInv, InitConversed, Inductive, PTL DEF Spec

\* The variables have their types, the numbers of the messages included.
THEOREM TypeCorrect == Spec => []TypeOK
<1>1. IInv /\ Conversed => TypeOK
  BY DEF IInv, Conversed, TypeOK
<1> QED BY <1>1, ConversedHolds, PTL

(***************************************************************************)
(* How far a call has to go, and what is owed on the way.  A step that     *)
(* waits, fails or loses a race never leads back to an earlier statement.  *)
(***************************************************************************)
StageRank(stage) ==
    CASE stage = "load" -> 15
      [] stage = "look" -> 14
      [] stage = "read" -> 13
      [] stage = "act" -> 12
      [] stage = "carry" -> 11
      [] stage = "login" -> 10
      [] stage = "mark" -> 9
      [] stage = "follow" -> 8
      [] stage = "ensure" -> 7
      [] stage = "create" -> 6
      [] stage = "shut" -> 5
      [] stage = "reopen" -> 5
      [] stage = "count" -> 4
      [] stage = "join" -> 3
      [] stage = "recount" -> 2
      [] stage = "write" -> 1
      [] stage = "vet" -> 2
      [] stage = "insert" -> 1
      [] stage = "find" -> 2
      [] stage = "remove" -> 1
      [] OTHER -> 0

Left(c) == StageRank(pc[c])

AnsweredWithin ==
    \A c \in Callers : Left(c) \in 0 .. 15 /\ (Left(c) = 0 <=> pc[c] \in Answers)

CallsShorten ==
    [][\E c \in Callers : /\ Left(c)' < Left(c)
                          /\ \A d \in Callers \ {c} : Left(d)' = Left(d)]_vars

\* The absence of an agreed leave is recorded, or its decider is about to
\* record it or has failed.
AbsenceIsOwed ==
    \A q \in Guarded :
        status[q] = "agreed" =>
            \/ carriedBy[q] # {}
            \/ \E c \in Callers : decidedBy[q] = c /\ Req(c) = q /\ pc[c] \in {"follow", "error"}

LEMMA StageRanks ==
    /\ StageRank("load") = 15
    /\ StageRank("look") = 14 /\ StageRank("read") = 13 /\ StageRank("act") = 12
    /\ StageRank("carry") = 11 /\ StageRank("login") = 10 /\ StageRank("mark") = 9
    /\ StageRank("follow") = 8 /\ StageRank("ensure") = 7 /\ StageRank("create") = 6
    /\ StageRank("shut") = 5 /\ StageRank("reopen") = 5 /\ StageRank("count") = 4
    /\ StageRank("join") = 3 /\ StageRank("recount") = 2 /\ StageRank("write") = 1
    /\ StageRank("vet") = 2 /\ StageRank("insert") = 1
    /\ StageRank("find") = 2 /\ StageRank("remove") = 1
    /\ \A s \in Answers : StageRank(s) = 0
<1>1. \A s \in Answers : StageRank(s) = 0
  BY DEF StageRank, Answers
<1> QED
  BY <1>1 DEF StageRank

LEMMA RanksBounded ==
    ASSUME NEW s \in Stages \cup Answers
    PROVE  StageRank(s) \in 0 .. 15 /\ (StageRank(s) = 0 <=> s \in Answers)
<1>1. CASE s \in Answers
  BY <1>1, StageRanks
<1>2. CASE s \in Stages
  <2>1. s \in {"load", "look", "read", "act", "carry", "login", "mark", "follow", "ensure", "create",
               "shut", "reopen", "count", "join", "recount", "write", "vet", "insert",
               "find", "remove"}
    BY <1>2 DEF Stages, Deciding, Talking
  <2>2. StageRank(s) \in {15, 14, 13, 12, 11, 10, 9, 8, 7, 6, 5, 4, 3, 2, 1}
    BY <2>1, StageRanks
  <2>3. s \notin Answers
    BY <2>1 DEF Answers
  <2> QED
    BY <2>2, <2>3
<1> QED
  BY <1>1, <1>2

LEMMA GotoMoves ==
    ASSUME DecisionTypes, NEW c \in Callers, NEW s, Goto(c, s)
    PROVE  pc'[c] = s /\ \A d \in Callers \ {c} : pc'[d] = pc[d]
  BY DEF DecisionTypes, Goto

\* The steps of a decision, up to the record of the absence.
LEMMA DecidingShortens ==
    ASSUME DecisionTypes, NEW c \in Callers,
           \/ Load(c) \/ QueueLooks(c) \/ ServiceReads(c) \/ Prepare(c) \/ CarryOut(c)
           \/ CorrectLogin(c)
           \/ Mark(c) \/ MarkLost(c) \/ RecordAbsence(c)
    PROVE  \E s : Goto(c, s) /\ StageRank(s) < StageRank(pc[c])
<1> USE DEF Service, AfterDecision
<1>0. CASE Load(c)
  <2>1. pc[c] = "load" /\ \E s \in {"look", "ensure", "refused"} : Goto(c, s)
    BY <1>0 DEF Load
  <2>2. \A s \in {"look", "ensure", "refused"} : StageRank(s) < StageRank("load")
    BY StageRanks DEF Answers
  <2> QED
    BY <2>1, <2>2, Zenon
<1>1. CASE QueueLooks(c)
  <2>1. pc[c] = "look" /\ \E s \in {"read", "mark", "refused"} : Goto(c, s)
    BY <1>1 DEF QueueLooks
  <2>2. \A s \in {"read", "mark", "refused"} : StageRank(s) < StageRank("look")
    BY StageRanks DEF Answers
  <2> QED
    BY <2>1, <2>2, Zenon
<1>2. CASE ServiceReads(c)
  <2>1. pc[c] = "read" /\ \E s \in {"refused", "mark", "act", "carry"} : Goto(c, s)
    BY <1>2 DEF ServiceReads
  <2>2. \A s \in {"refused", "mark", "act", "carry"} : StageRank(s) < StageRank("read")
    BY StageRanks DEF Answers
  <2> QED
    BY <2>1, <2>2, Zenon
<1>3. CASE Prepare(c)
  <2>1. pc[c] = "act" /\ \E s \in {"carry", "error"} : Goto(c, s)
    BY <1>3 DEF Prepare
  <2>2. \A s \in {"carry", "error"} : StageRank(s) < StageRank("act")
    BY StageRanks DEF Answers
  <2> QED
    BY <2>1, <2>2, Zenon
<1>4. CASE CarryOut(c)
  <2>1. pc[c] = "carry" /\ \E s \in {"mark", "login"} : Goto(c, s)
    BY <1>4 DEF CarryOut
  <2>2. \A s \in {"mark", "login"} : StageRank(s) < StageRank("carry")
    BY StageRanks
  <2> QED
    BY <2>1, <2>2, Zenon
<1>5. CASE CorrectLogin(c)
  <2>1. pc[c] = "login" /\ Goto(c, "mark")
    BY <1>5 DEF CorrectLogin
  <2>2. StageRank("mark") < StageRank("login")
    BY StageRanks
  <2> QED
    BY <2>1, <2>2, Zenon
<1>6. CASE Mark(c) \/ MarkLost(c)
  <2>1. /\ pc[c] = "mark"
        /\ \E s \in {"follow", "ensure", "ok", "refused", "error", "conflict"} : Goto(c, s)
    BY <1>6 DEF Mark, MarkLost, Lost
  <2>2. \A s \in {"follow", "ensure", "ok", "refused", "error", "conflict"} :
            StageRank(s) < StageRank("mark")
    BY StageRanks DEF Answers
  <2> QED
    BY <2>1, <2>2, Zenon
<1>7. CASE RecordAbsence(c)
  <2>1. pc[c] = "follow" /\ \E s \in {"ensure", "ok"} : Goto(c, s)
    BY <1>7 DEF RecordAbsence
  <2>2. \A s \in {"ensure", "ok"} : StageRank(s) < StageRank("follow")
    BY StageRanks DEF Answers
  <2> QED
    BY <2>1, <2>2, Zenon
<1> QED
  BY <1>0, <1>1, <1>2, <1>3, <1>4, <1>5, <1>6, <1>7

\* The steps of a conversation.
LEMMA TalkingShortens ==
    ASSUME DecisionTypes, NEW c \in Callers,
           \/ Ensure(c) \/ CreateThread(c) \/ Shut(c) \/ Reopen(c)
           \/ CountMessages(c) \/ Join(c) \/ Recount(c) \/ WriteMessage(c)
    PROVE  \E s : Goto(c, s) /\ StageRank(s) < StageRank(pc[c])
<1>1. CASE Ensure(c)
  <2>1. /\ pc[c] = "ensure"
        /\ \E s \in {"refused", "create", "shut", "count", "reopen"} : Goto(c, s)
    BY <1>1, WithThreadFacts DEF Ensure
  <2>2. \A s \in {"refused", "create", "shut", "count", "reopen"} :
            StageRank(s) < StageRank("ensure")
    BY StageRanks DEF Answers
  <2> QED
    BY <2>1, <2>2, Zenon
<1>2. CASE CreateThread(c)
  <2>1. /\ pc[c] = "create"
        /\ \E s \in {"refused", "error", "shut", "count", "reopen"} : Goto(c, s)
    BY <1>2, WithThreadFacts DEF CreateThread
  <2>2. \A s \in {"refused", "error", "shut", "count", "reopen"} :
            StageRank(s) < StageRank("create")
    BY StageRanks DEF Answers
  <2> QED
    BY <2>1, <2>2, Zenon
<1>3. CASE Shut(c) \/ Reopen(c)
  <2>1. pc[c] \in {"shut", "reopen"} /\ Goto(c, "count")
    BY <1>3 DEF Shut, Reopen
  <2>2. \A s \in {"shut", "reopen"} : StageRank("count") < StageRank(s)
    BY StageRanks
  <2> QED
    BY <2>1, <2>2, Zenon
<1>4. CASE CountMessages(c)
  <2>1. pc[c] = "count" /\ \E s \in {"join", "write"} : Goto(c, s)
    BY <1>4 DEF CountMessages
  <2>2. \A s \in {"join", "write"} : StageRank(s) < StageRank("count")
    BY StageRanks
  <2> QED
    BY <2>1, <2>2, Zenon
<1>5. CASE Join(c)
  <2>1. pc[c] = "join" /\ Goto(c, "recount")
    BY <1>5 DEF Join
  <2>2. StageRank("recount") < StageRank("join")
    BY StageRanks
  <2> QED
    BY <2>1, <2>2, Zenon
<1>6. CASE Recount(c)
  <2>1. pc[c] = "recount" /\ Goto(c, "write")
    BY <1>6 DEF Recount
  <2>2. StageRank("write") < StageRank("recount")
    BY StageRanks
  <2> QED
    BY <2>1, <2>2, Zenon
<1>7. CASE WriteMessage(c)
  <2>1. pc[c] = "write" /\ Goto(c, "ok")
    BY <1>7 DEF WriteMessage
  <2>2. StageRank("ok") < StageRank("write")
    BY StageRanks DEF Answers
  <2> QED
    BY <2>1, <2>2, Zenon
<1> QED
  BY <1>1, <1>2, <1>3, <1>4, <1>5, <1>6, <1>7

\* Raising, deleting, and failing anywhere.
LEMMA OtherwiseShortens ==
    ASSUME DecisionTypes, NEW c \in Callers,
           Vet(c) \/ Insert(c) \/ FindToDelete(c) \/ Remove(c) \/ Fail(c)
    PROVE  \E s : Goto(c, s) /\ StageRank(s) < StageRank(pc[c])
<1>1. CASE Vet(c)
  <2>1. pc[c] = "vet" /\ \E s \in {"refused", "insert"} : Goto(c, s)
    BY <1>1 DEF Vet
  <2>2. \A s \in {"refused", "insert"} : StageRank(s) < StageRank("vet")
    BY StageRanks DEF Answers
  <2> QED
    BY <2>1, <2>2, Zenon
<1>2. CASE Insert(c) \/ Remove(c)
  <2>1. pc[c] \in {"insert", "remove"} /\ Goto(c, "ok")
    BY <1>2 DEF Insert, Remove
  <2>2. \A s \in {"insert", "remove"} : StageRank("ok") < StageRank(s)
    BY StageRanks DEF Answers
  <2> QED
    BY <2>1, <2>2, Zenon
<1>3. CASE FindToDelete(c)
  <2>1. pc[c] = "find" /\ \E s \in {"refused", "remove"} : Goto(c, s)
    BY <1>3 DEF FindToDelete
  <2>2. \A s \in {"refused", "remove"} : StageRank(s) < StageRank("find")
    BY StageRanks DEF Answers
  <2> QED
    BY <2>1, <2>2, Zenon
<1>4. CASE Fail(c)
  <2>1. pc[c] \in Stages /\ Goto(c, "error")
    BY <1>4 DEF Fail
  <2>2. pc[c] \notin Answers
    BY <2>1 DEF Stages, Deciding, Talking, Answers
  <2>3. StageRank(pc[c]) \in 0 .. 15 /\ StageRank(pc[c]) # 0
    BY <2>1, <2>2, RanksBounded
  <2>4. StageRank("error") = 0
    BY StageRanks DEF Answers
  <2>5. StageRank("error") < StageRank(pc[c])
    BY <2>3, <2>4
  <2> QED
    BY <2>1, <2>5, Zenon
<1> QED
  BY <1>1, <1>2, <1>3, <1>4

\* Every call has a bound on the statements it still makes, each step of the
\* system lowers the bound of the caller that takes it and nobody else's.
THEOREM CallsAreBounded == Spec => []AnsweredWithin /\ CallsShorten
<1>1. IInv => AnsweredWithin
  <2> SUFFICES ASSUME IInv, NEW c \in Callers
               PROVE  Left(c) \in 0 .. 15 /\ (Left(c) = 0 <=> pc[c] \in Answers)
    BY DEF AnsweredWithin
  <2>1. pc[c] \in Stages \cup Answers
    BY DEF IInv, DecisionTypes
  <2> QED
    BY <2>1, RanksBounded DEF Left
<1>2. IInv /\ [Next]_vars =>
        [\E c \in Callers : /\ Left(c)' < Left(c)
                            /\ \A d \in Callers \ {c} : Left(d)' = Left(d)]_vars
  <2> SUFFICES ASSUME IInv, NEW c \in Callers, Proceed(c) \/ Fail(c)
               PROVE  /\ StageRank(pc'[c]) < StageRank(pc[c])
                      /\ \A d \in Callers \ {c} : StageRank(pc'[d]) = StageRank(pc[d])
    BY DEF Next, Left
  <2>1. DecisionTypes
    BY DEF IInv
  <2>2. PICK s : Goto(c, s) /\ StageRank(s) < StageRank(pc[c])
    BY <2>1, DecidingShortens, TalkingShortens, OtherwiseShortens DEF Proceed
  <2>3. pc'[c] = s /\ \A d \in Callers \ {c} : pc'[d] = pc[d]
    BY <2>1, <2>2, GotoMoves
  <2> QED
    BY <2>2, <2>3
<1> QED
  BY <1>1, <1>2, Inductive, PTL DEF Spec, CallsShorten

LEMMA OwedAtFirst == Init => AbsenceIsOwed
<1> SUFFICES ASSUME Init, NEW q \in Guarded PROVE status[q] # "agreed"
  BY DEF AbsenceIsOwed
<1> QED
  BY DEF Init, Guarded

\* Only the update that decides makes an agreed leave, and it leads to the record.
LEMMA AgreeingOwes ==
    ASSUME IInv, NEW c \in Callers, Proceed(c) \/ Fail(c), NEW q \in Guarded,
           status[q] # "agreed", status'[q] = "agreed"
    PROVE  Req(c) = q /\ decidedBy'[q] = c /\ pc'[c] = "follow"
<1>1. q \in Requests /\ KindOf[q] \in Leaves
  BY DEF Guarded
<1>2. status' # status
  OBVIOUS
<1>3. CASE Mark(c)
  <2>1. /\ status' = [status EXCEPT ![Req(c)] = Outcome(c)]
        /\ decidedBy' = [decidedBy EXCEPT ![Req(c)] = c]
    BY <1>2, <1>3 DEF Mark, document
  <2>2. Req(c) = q /\ Outcome(c) = "agreed" /\ decidedBy'[q] = c
    BY <1>1, <2>1 DEF IInv, DecisionTypes
  <2>3. Follows(c)
    BY <1>1, <2>2 DEF Follows, Kind
  <2> QED
    BY <1>3, <2>2, <2>3, GotoMoves DEF Mark, IInv
<1>4. CASE Insert(c)
  <2>1. PICK st \in FirstStatuses(c) : status' = [status EXCEPT ![Req(c)] = st]
    BY <1>4 DEF Insert
  <2>2. Req(c) = q /\ st = "agreed"
    BY <1>1, <2>1 DEF IInv, DecisionTypes
  <2> QED
    BY <1>1, <2>1, <2>2 DEF FirstStatuses, Kind, Leaves, Moderated, Undecided
<1>5. CASE Remove(c)
  BY <1>1, <1>5 DEF Remove, IInv, DecisionTypes
<1>6. CASE ~ (Mark(c) \/ Insert(c) \/ Remove(c))
  BY <1>2, <1>6 DEF Proceed, Fail, Vet, Load, QueueLooks, ServiceReads, Prepare, CarryOut,
     CorrectLogin, MarkLost, RecordAbsence, FindToDelete, Ensure, CreateThread, Shut, Reopen,
     CountMessages, Join, Recount, WriteMessage, document
<1> QED
  BY <1>3, <1>4, <1>5, <1>6

\* Nobody takes an agreed leave over.
LEMMA DeciderStays ==
    ASSUME IInv, NEW c \in Callers, Proceed(c) \/ Fail(c), NEW q \in Guarded,
           status[q] = "agreed"
    PROVE  decidedBy'[q] = decidedBy[q]
<1>1. q \in Requests /\ KindOf[q] \in Leaves
  BY DEF Guarded
<1>2. CASE Mark(c)
  <2>1. Req(c) # q
    <3>1. SUFFICES ASSUME Req(c) = q PROVE FALSE
      OBVIOUS
    <3>2. Kind(c) \in Leaves /\ status[Req(c)] = Expected(c) /\ pc[c] = "mark"
      BY <1>1, <1>2, <3>1 DEF Mark, Matches, Kind
    <3>3. Expected(c) \in Undecided
      BY <3>2 DEF Expected, IInv, Place, Undecided
    <3> QED BY <3>1, <3>2, <3>3 DEF Undecided
  <2>2. decidedBy' = decidedBy \/ decidedBy' = [decidedBy EXCEPT ![Req(c)] = c]
    BY <1>2 DEF Mark, document
  <2> QED BY <1>1, <2>1, <2>2 DEF IInv, DecisionTypes
<1>3. CASE Insert(c)
  <2>1. Req(c) # q
    BY <1>3 DEF Insert
  <2>2. PICK st \in FirstStatuses(c) :
          decidedBy' = [decidedBy EXCEPT ![Req(c)] = IF st = "agreed" THEN c ELSE "none"]
    BY <1>3 DEF Insert
  <2> QED BY <1>1, <2>1, <2>2 DEF IInv, DecisionTypes
<1>4. CASE ~ (Mark(c) \/ Insert(c))
  BY <1>4 DEF Proceed, Fail, Vet, Load, QueueLooks, ServiceReads, Prepare, CarryOut,
     CorrectLogin, MarkLost, RecordAbsence, FindToDelete, Remove, Ensure, CreateThread, Shut,
     Reopen, CountMessages, Join, Recount, WriteMessage, document
<1> QED
  BY <1>2, <1>3, <1>4

\* Who owes the record makes it or fails; who has failed says so for good.
LEMMA OwingStays ==
    ASSUME IInv, NEW c \in Callers, Proceed(c) \/ Fail(c),
           NEW d \in Callers, pc[d] \in {"follow", "error"}
    PROVE  carriedBy'[Req(d)] # {} \/ pc'[d] \in {"follow", "error"}
<1>1. CASE d # c
  <2>1. \E s : Goto(c, s)
    BY DecidingShortens, TalkingShortens, OtherwiseShortens DEF Proceed, IInv
  <2> QED
    BY <1>1, <2>1, GotoMoves DEF IInv
<1>2. CASE d = c /\ RecordAbsence(c)
  <2>1. Req(c) \in Requests /\ carriedBy' = [carriedBy EXCEPT ![Req(c)] = @ \cup {c}]
    BY <1>2, CallFacts DEF RecordAbsence, IInv
  <2>2. carriedBy'[Req(c)] = carriedBy[Req(c)] \cup {c}
    BY <2>1 DEF IInv, DecisionTypes
  <2> QED
    BY <1>2, <2>2
<1>3. CASE d = c /\ Fail(c)
  BY <1>3, GotoMoves DEF Fail, IInv
<1>4. CASE d = c /\ ~ RecordAbsence(c) /\ ~ Fail(c)
  BY <1>4 DEF Proceed, Vet, Insert, Load, QueueLooks, ServiceReads, Prepare, CarryOut, CorrectLogin,
     Mark, MarkLost, FindToDelete, Remove, Ensure, CreateThread, Shut, Reopen, CountMessages,
     Join, Recount, WriteMessage
<1> QED
  BY <1>1, <1>2, <1>3, <1>4

LEMMA CarriedGrows ==
    ASSUME IInv, NEW c \in Callers, Proceed(c) \/ Fail(c), NEW q \in Requests
    PROVE  carriedBy[q] \subseteq carriedBy'[q]
<1>1. CASE CarryOut(c) \/ RecordAbsence(c)
  <2>1. Req(c) \in Requests /\ carriedBy' = [carriedBy EXCEPT ![Req(c)] = @ \cup {c}]
    BY <1>1, CallFacts DEF CarryOut, RecordAbsence, IInv
  <2>2. carriedBy'[q] = IF q = Req(c) THEN carriedBy[q] \cup {c} ELSE carriedBy[q]
    BY <2>1 DEF IInv, DecisionTypes
  <2> QED
    BY <2>2
<1>2. CASE ~ (CarryOut(c) \/ RecordAbsence(c))
  <2>1. carriedBy' = carriedBy
    BY <1>2 DEF Proceed, Fail, Vet, Insert, Load, QueueLooks, ServiceReads, Prepare, CorrectLogin,
       Mark, MarkLost, FindToDelete, Remove, Ensure, CreateThread, Shut, Reopen,
       CountMessages, Join, Recount, WriteMessage, consequence
  <2> QED
    BY <2>1
<1> QED
  BY <1>1, <1>2

\* An agreed leave is recorded, or its decider is at the record, or has failed:
\* with CallsAreBounded, all of AgreedIsRecorded that does not rest on fairness.
THEOREM AbsencesAreOwed == Spec => []AbsenceIsOwed
<1>1. IInv /\ AbsenceIsOwed /\ [Next]_vars => AbsenceIsOwed'
  <2> SUFFICES ASSUME IInv, AbsenceIsOwed, [Next]_vars, NEW q \in Guarded,
                      status'[q] = "agreed"
               PROVE  \/ carriedBy'[q] # {}
                      \/ \E d \in Callers :
                            decidedBy'[q] = d /\ Req(d)' = q /\ pc'[d] \in {"follow", "error"}
    BY DEF AbsenceIsOwed, Guarded
  <2>0. call' = call
    BY DEF Next, Proceed, Fail, Vet, Insert, Load, QueueLooks, ServiceReads, Prepare, CarryOut,
       CorrectLogin, Mark, MarkLost, RecordAbsence, FindToDelete, Remove, Ensure,
       CreateThread, Shut, Reopen, CountMessages, Join, Recount, WriteMessage, local, vars
  <2>1. CASE UNCHANGED vars
    BY <2>1 DEF AbsenceIsOwed, vars, document, consequence, Req, local
  <2>2. ASSUME NEW c \in Callers, Proceed(c) \/ Fail(c)
        PROVE  \/ carriedBy'[q] # {}
               \/ \E d \in Callers :
                     decidedBy'[q] = d /\ Req(d)' = q /\ pc'[d] \in {"follow", "error"}
    <3>1. CASE status[q] # "agreed"
      BY <2>0, <2>2, <3>1, AgreeingOwes, CallsStay
    <3>2. CASE status[q] = "agreed" /\ carriedBy[q] # {}
      BY <2>2, <3>2, CarriedGrows DEF Guarded
    <3>3. CASE status[q] = "agreed" /\ carriedBy[q] = {}
      <4>1. PICK d \in Callers : decidedBy[q] = d /\ Req(d) = q /\ pc[d] \in {"follow", "error"}
        BY <3>3 DEF AbsenceIsOwed
      <4>2. carriedBy'[Req(d)] # {} \/ pc'[d] \in {"follow", "error"}
        BY <2>2, <4>1, OwingStays
      <4> QED
        BY <2>0, <2>2, <3>3, <4>1, <4>2, CallsStay, DeciderStays
    <3> QED
      BY <3>1, <3>2, <3>3
  <2> QED
    BY <2>1, <2>2 DEF Next
<1> QED
  BY <1>1, OwedAtFirst, Inductive, PTL DEF Spec
=============================================================================
