-------------------------- MODULE FeeLedgerProofs --------------------------
(***************************************************************************)
(* For any callers, amounts and number of quarters.  What the variables    *)
(* and the memory of a call hold at each stage (Typed) is inductive, and   *)
(* with it five more invariants: of the keys of payments (KeysInv), with   *)
(* which go those of plans (PlansInv) and of corrections (CorrectionsInv); *)
(* and of the time in which no two calls overlap (AloneInv), with which    *)
(* goes that of the bills and the marks (FollowInv).                       *)
(***************************************************************************)
EXTENDS FeeLedger, TLAPS

NewRows == [bill : Quarters, new : Documents]
OldRows == [bill : Bills, cancel : BOOLEAN]
Memories == [on : SUBSET Docs,
             what : {"none", "insert", "correct", "remove", "employee", "sibling", "rte"},
             yes : BOOLEAN, marks : Marks, saw : Documents \cup {None}, count : Nat,
             work : SUBSET (NewRows \cup OldRows)]

\* What a call can rely on at its stage.
Place(c) ==
    /\ pc[c] = "key" => mem[c].on = {}
    /\ pc[c] \in {"preview", "existing"} => mem[c].on \subseteq Quarters
    /\ pc[c] \in {"link", "issue"} => mem[c].on \subseteq Bills
    /\ pc[c] \in {"original", "correct", "target", "remove", "posting", "link", "issue"} =>
          \A i \in mem[c].on : Exists(i)
    /\ pc[c] = "original" => mem[c].what = "correct"
    /\ pc[c] = "target" => mem[c].what = "remove"
    /\ pc[c] = "posting" => mem[c].what \in {"insert", "correct", "remove"}
    /\ (pc[c] = "correct" \/ (pc[c] = "posting" /\ mem[c].what = "correct")) =>
          mem[c].saw \in Documents
    /\ pc[c] = "mark" => mem[c].what \in {"employee", "sibling", "rte"}
    /\ pc[c] \in {"raise", "stamp"} => mem[c].work \subseteq NewRows
    /\ pc[c] = "rework" =>
          mem[c].work \subseteq OldRows /\ \A r \in mem[c].work : Exists(r.bill)

LinksStand ==
    \A c \in Callers : link[c] # None => \A b \in link[c].bills : Exists(b)

Typed ==
    /\ TypeOK
    /\ mem \in [Callers -> Memories]
    /\ \A c \in Callers : Place(c)
    /\ LinksStand
-----------------------------------------------------------------------------
LEMMA Amounts ==
    /\ \A m \in Marks, b \in Bills : Net(m, b) \in Nat /\ Raised(m, b) \in Documents
    /\ \A paid \in Tendered : Payment(paid) \in Documents /\ Payment(paid).paid = paid
    /\ None \notin Documents
<1>1. ASSUME NEW m \in Marks, NEW b \in Bills PROVE Net(m, b) \in Nat
  <2>1. GrossOf(b) \in Nat
    BY AmountsAssumption DEF GrossOf
  <2>2. Recurring(m, b) \in Nat
    BY <2>1, AmountsAssumption DEF Recurring
  <2>3. OneTimeFor(m, b) \in Nat
    BY AmountsAssumption DEF OneTimeFor
  <2> QED BY <2>1, <2>2, <2>3 DEF Net, MinOf
<1>2. ASSUME NEW m \in Marks, NEW b \in Bills PROVE Raised(m, b) \in Documents
  <2>1. OneTimeFor(m, b) \in Nat
    BY AmountsAssumption DEF OneTimeFor
  <2> QED BY <1>1, <2>1 DEF Raised, Documents, Statuses
<1>3. ASSUME NEW paid \in Tendered
      PROVE  Payment(paid) \in Documents /\ Payment(paid).paid = paid
  BY AmountsAssumption DEF Tendered, Payment, Documents, Statuses
<1> QED BY <1>1, <1>2, <1>3, NamesAssumption

LEMMA BlankMemory ==
    /\ Blank \in Memories
    /\ Blank.on = {} /\ Blank.work = {} /\ Blank.what = "none"
BY DEF Blank, NoMarks, Memories, Marks

LEMMA WantsMemory ==
    ASSUME NEW on \in SUBSET Docs, NEW what, NEW yes \in BOOLEAN,
           what \in {"none", "correct", "remove", "employee", "sibling", "rte"}
    PROVE  /\ Wants(on, what, yes) \in Memories
           /\ Wants(on, what, yes).on = on
           /\ Wants(on, what, yes).what = what
           /\ Wants(on, what, yes).yes = yes
           /\ Wants(on, what, yes).work = {}
BY DEF Blank, NoMarks, Wants, Memories, Marks

LEMMA PlainWantsMemory ==
    ASSUME NEW on \in SUBSET Docs, NEW what, what \in {"none", "correct", "remove"}
    PROVE  /\ Wants(on, what, FALSE) \in Memories
           /\ Wants(on, what, FALSE).on = on
           /\ Wants(on, what, FALSE).what = what
BY DEF Blank, NoMarks, Wants, Memories, Marks

\* A step of one call, which removes no document, disturbs no other.
LEMMA StepTyped ==
    ASSUME Typed, NEW c \in Callers,
           NEW s \in {"idle"} \cup Stages \cup Answers, NEW m \in Memories,
           Go(c, s, m), Place(c)', LinksStand',
           marks' \in Marks, doc' \in [Docs -> Documents \cup {None}],
           \A i \in Docs : Exists(i) => Exists(i)',
           key' \in [Callers -> {"fresh", "expired", None}],
           link' \in [Callers -> Links \cup {None}],
           status' \in {"open", "closed", "none"}, version' \in Nat,
           holder' \in Callers \cup {None},
           before' \in [Callers -> SUBSET Callers], alone' \in BOOLEAN
    PROVE  Typed'
<1>1. TypeOK' /\ (mem \in [Callers -> Memories])'
  BY DEF Typed, TypeOK, Go, Move, Keep
<1>2. ASSUME NEW d \in Callers, d # c PROVE Place(d)'
  <2>1. pc'[d] = pc[d] /\ mem'[d] = mem[d]
    BY <1>2 DEF Typed, TypeOK, Go, Move, Keep
  <2>2. Place(d) /\ mem[d] \in Memories
    BY DEF Typed
  <2>3. mem[d].on \subseteq Docs /\ mem[d].work \subseteq NewRows \cup OldRows
    BY <2>2 DEF Memories
  <2>4. \A r \in OldRows : r.bill \in Docs
    BY DEF OldRows, Docs
  <2> QED BY <2>1, <2>2, <2>3, <2>4 DEF Place, Exists
<1> QED BY <1>1, <1>2 DEF Typed

\* An answer ends a call.
LEMMA AnswerTyped ==
    ASSUME Typed, NEW c \in Callers, NEW a \in Answers,
           Answer(c, a), LinksStand',
           marks' \in Marks, doc' \in [Docs -> Documents \cup {None}],
           \A i \in Docs : Exists(i) => Exists(i)',
           key' \in [Callers -> {"fresh", "expired", None}],
           link' \in [Callers -> Links \cup {None}],
           status' \in {"open", "closed", "none"}, version' \in Nat,
           holder' \in Callers \cup {None},
           before' \in [Callers -> SUBSET Callers], alone' \in BOOLEAN
    PROVE  Typed'
<1>1. Go(c, a, Blank)
  BY DEF Answer
<1>2. pc'[c] = a
  BY <1>1 DEF Typed, TypeOK, Go, Move
<1>3. Place(c)'
  BY <1>2 DEF Place, Answers
<1> QED BY <1>1, <1>3, BlankMemory, StepTyped

LEMMA SameDocuments ==
    ASSUME Typed, UNCHANGED <<doc, link>>
    PROVE  /\ \A i \in Docs : Exists(i) => Exists(i)'
           /\ LinksStand'
BY DEF Typed, Exists, LinksStand

\* A step that reads, and one that writes to the documents only.
LEMMA ReadTyped ==
    ASSUME Typed, NEW c \in Callers,
           NEW s \in {"idle"} \cup Stages \cup Answers, NEW m \in Memories,
           Go(c, s, m), Place(c)', UNCHANGED <<marks, doc, key, link, period, ghosts>>
    PROVE  Typed'
<1>1. (\A i \in Docs : Exists(i) => Exists(i)') /\ LinksStand'
  BY SameDocuments
<1> QED BY <1>1, StepTyped DEF Typed, TypeOK, period, ghosts

LEMMA ReadAnswerTyped ==
    ASSUME Typed, NEW c \in Callers, NEW a \in Answers,
           Answer(c, a), UNCHANGED <<marks, doc, key, link, period, ghosts>>
    PROVE  Typed'
<1>1. (\A i \in Docs : Exists(i) => Exists(i)') /\ LinksStand'
  BY SameDocuments
<1> QED BY <1>1, AnswerTyped DEF Typed, TypeOK, period, ghosts

LEMMA LinksStay ==
    ASSUME Typed, UNCHANGED link, \A i \in Docs : Exists(i) => Exists(i)'
    PROVE  LinksStand'
<1> SUFFICES ASSUME NEW c \in Callers, link'[c] # None, NEW b \in link'[c].bills
             PROVE  Exists(b)'
  BY DEF LinksStand
<1>1. link[c] \in Links /\ Exists(b)
  BY DEF Typed, TypeOK, LinksStand
<1>2. b \in Docs
  BY <1>1 DEF Links, Docs
<1> QED BY <1>1, <1>2

LEMMA WriteTyped ==
    ASSUME Typed, NEW c \in Callers,
           NEW s \in {"idle"} \cup Stages \cup Answers, NEW m \in Memories,
           Go(c, s, m), Place(c)', doc' \in [Docs -> Documents \cup {None}],
           \A i \in Docs : Exists(i) => Exists(i)',
           UNCHANGED <<marks, key, link, period, ghosts>>
    PROVE  Typed'
<1>1. LinksStand'
  BY LinksStay
<1> QED BY <1>1, StepTyped DEF Typed, TypeOK, period, ghosts

LEMMA WriteAnswerTyped ==
    ASSUME Typed, NEW c \in Callers, NEW a \in Answers,
           Answer(c, a), doc' \in [Docs -> Documents \cup {None}],
           \A i \in Docs : Exists(i) => Exists(i)',
           UNCHANGED <<marks, key, link, period, ghosts>>
    PROVE  Typed'
<1>1. LinksStand'
  BY LinksStay
<1> QED BY <1>1, AnswerTyped DEF Typed, TypeOK, period, ghosts

\* One document is written.
LEMMA OneWritten ==
    ASSUME Typed, NEW i \in Docs, NEW d \in Documents, doc' = [doc EXCEPT ![i] = d]
    PROVE  /\ doc' \in [Docs -> Documents \cup {None}]
           /\ \A j \in Docs : Exists(j) => Exists(j)'
           /\ Exists(i)'
BY Amounts DEF Typed, TypeOK, Exists

LEMMA Memory ==
    ASSUME Typed, NEW c \in Callers
    PROVE  /\ mem[c] \in Memories
           /\ mem[c].on \subseteq Docs /\ mem[c].work \subseteq NewRows \cup OldRows
           /\ mem[c].yes \in BOOLEAN /\ mem[c].marks \in Marks
           /\ mem[c].count \in Nat /\ mem[c].saw \in Documents \cup {None}
           /\ \A i \in Docs : Exists(i) => doc[i] \in Documents
BY DEF Typed, TypeOK, Memories, Exists

LEMMA Moved ==
    ASSUME Typed, NEW c \in Callers, NEW s, NEW m, Go(c, s, m)
    PROVE  pc'[c] = s /\ mem'[c] = m
BY DEF Typed, TypeOK, Go, Move, Keep
-----------------------------------------------------------------------------
\* The initial state, and a call that begins.
LEMMA InitTyped == Init => Typed
<1> SUFFICES ASSUME Init PROVE Typed
  OBVIOUS
<1>1. NoMarks \in Marks
  BY DEF NoMarks, Marks
<1>2. doc \in [Docs -> Documents \cup {None}]
  <2>1. PICK B \in SUBSET Bills :
            doc = [i \in Docs |-> IF i \in B THEN Raised(NoMarks, i) ELSE None]
    BY DEF Init
  <2> QED BY <2>1, <1>1, Amounts
<1>3. TypeOK
  BY <1>1, <1>2 DEF Init, TypeOK
<1>4. mem \in [Callers -> Memories]
  BY BlankMemory DEF Init
<1>5. \A c \in Callers : Place(c)
  BY DEF Init, Place
<1>6. LinksStand
  BY DEF Init, LinksStand
<1> QED BY <1>3, <1>4, <1>5, <1>6 DEF Typed

LEMMA BeginTyped == ASSUME Typed, NEW c \in Callers, Begin(c) PROVE Typed'
<1>1. /\ UNCHANGED <<marks, doc, key, link, period>>
      /\ before' = [before EXCEPT ![c] = Known]
      /\ alone' = (alone /\ Busy = {})
  BY DEF Begin
<1>2. Known \subseteq Callers /\ before' \in [Callers -> SUBSET Callers] /\ alone' \in BOOLEAN
  BY <1>1 DEF Typed, TypeOK, Known
<1>3. (\A i \in Docs : Exists(i) => Exists(i)') /\ LinksStand'
  BY <1>1, SameDocuments
<1>4. SUFFICES ASSUME NEW s \in Stages, NEW m \in Memories, Go(c, s, m), Place(c)'
               PROVE  Typed'
  <2>1. \A i \in Docs : Exists(i) => Exists(i)'
    BY <1>3
  <2>2. CASE \E s \in {"key", "plan", "agreed"} : Go(c, s, Blank)
    <3>1. PICK s \in {"key", "plan", "agreed"} : Go(c, s, Blank)
      BY <2>2
    <3>2. Place(c)'
      BY <3>1, Moved, BlankMemory DEF Place
    <3> QED BY <1>4, <3>1, <3>2, BlankMemory DEF Stages
  <2>3. CASE \E i \in {d \in Docs : Exists(d)} : Go(c, "original", Wants({i}, "correct", FALSE))
    <3>1. PICK i \in {d \in Docs : Exists(d)} : Go(c, "original", Wants({i}, "correct", FALSE))
      BY <2>3
    <3>a. /\ Wants({i}, "correct", FALSE) \in Memories
          /\ Wants({i}, "correct", FALSE).on = {i}
          /\ Wants({i}, "correct", FALSE).what = "correct"
      <4>1. {i} \in SUBSET Docs
        BY <3>1
      <4> QED BY <4>1, PlainWantsMemory
    <3>b. pc'[c] = "original" /\ mem'[c] = Wants({i}, "correct", FALSE)
      BY <3>1, Moved
    <3>2. Place(c)'
      BY <2>1, <3>1, <3>a, <3>b DEF Place
    <3> QED BY <1>4, <3>1, <3>2, <3>a DEF Stages
  <2>4. CASE \E i \in {d \in Docs : Exists(d)} : Go(c, "target", Wants({i}, "remove", FALSE))
    <3>1. PICK i \in {d \in Docs : Exists(d)} : Go(c, "target", Wants({i}, "remove", FALSE))
      BY <2>4
    <3>a. /\ Wants({i}, "remove", FALSE) \in Memories
          /\ Wants({i}, "remove", FALSE).on = {i}
          /\ Wants({i}, "remove", FALSE).what = "remove"
      <4>1. {i} \in SUBSET Docs
        BY <3>1
      <4> QED BY <4>1, PlainWantsMemory
    <3>b. pc'[c] = "target" /\ mem'[c] = Wants({i}, "remove", FALSE)
      BY <3>1, Moved
    <3>2. Place(c)'
      BY <2>1, <3>1, <3>a, <3>b DEF Place
    <3> QED BY <1>4, <3>1, <3>2, <3>a DEF Stages
  <2>5. CASE \E Q \in SUBSET Quarters \ {{}} : Go(c, "preview", Wants(Q, "none", FALSE))
    <3>1. PICK Q \in SUBSET Quarters : Go(c, "preview", Wants(Q, "none", FALSE))
      BY <2>5
    <3>2. Q \subseteq Docs
      BY DEF Docs, Bills
    <3>a. /\ Wants(Q, "none", FALSE) \in Memories
          /\ Wants(Q, "none", FALSE).on = Q
          /\ Wants(Q, "none", FALSE).what = "none"
      <4>1. Q \in SUBSET Docs
        BY <3>1, <3>2
      <4> QED BY <4>1, PlainWantsMemory
    <3>b. pc'[c] = "preview" /\ mem'[c] = Wants(Q, "none", FALSE)
      BY <3>1, Moved
    <3>3. Place(c)'
      BY <3>1, <3>2, <3>a, <3>b DEF Place
    <3> QED BY <1>4, <3>1, <3>2, <3>3, <3>a DEF Stages
  <2>6. CASE \E m \in {"employee", "sibling", "rte"}, yes \in BOOLEAN :
                Go(c, "mark", Wants({}, m, yes))
    <3>1. PICK m \in {"employee", "sibling", "rte"}, yes \in BOOLEAN :
              Go(c, "mark", Wants({}, m, yes))
      BY <2>6
    <3>a. /\ Wants({}, m, yes) \in Memories
          /\ Wants({}, m, yes).on = {}
          /\ Wants({}, m, yes).what = m
      <4>1. {} \in SUBSET Docs
        OBVIOUS
      <4> QED BY <4>1, WantsMemory
    <3>b. pc'[c] = "mark" /\ mem'[c] = Wants({}, m, yes)
      BY <3>1, Moved
    <3>2. Place(c)'
      BY <3>1, <3>a, <3>b DEF Place
    <3> QED BY <1>4, <3>1, <3>2, <3>a DEF Stages
  <2>7. CASE \E S \in SUBSET {b \in Bills : Exists(b)} \ {{}} :
                Go(c, "link", Wants(S, "none", FALSE))
    <3>1. PICK S \in SUBSET {b \in Bills : Exists(b)} : Go(c, "link", Wants(S, "none", FALSE))
      BY <2>7
    <3>2. S \subseteq Docs /\ S \subseteq Bills
      BY DEF Docs
    <3>a. /\ Wants(S, "none", FALSE) \in Memories
          /\ Wants(S, "none", FALSE).on = S
          /\ Wants(S, "none", FALSE).what = "none"
      <4>1. S \in SUBSET Docs
        BY <3>1, <3>2
      <4> QED BY <4>1, PlainWantsMemory
    <3>b. pc'[c] = "link" /\ mem'[c] = Wants(S, "none", FALSE)
      BY <3>1, Moved
    <3>3. Place(c)'
      BY <2>1, <3>1, <3>2, <3>a, <3>b DEF Place
    <3> QED BY <1>4, <3>1, <3>2, <3>3, <3>a DEF Stages
  <2>8. CASE \E yes \in BOOLEAN : Go(c, "period", Wants({}, "none", yes))
    <3>1. PICK yes \in BOOLEAN : Go(c, "period", Wants({}, "none", yes))
      BY <2>8
    <3>a. /\ Wants({}, "none", yes) \in Memories
          /\ Wants({}, "none", yes).on = {}
          /\ Wants({}, "none", yes).what = "none"
      <4>1. {} \in SUBSET Docs
        OBVIOUS
      <4> QED BY <4>1, WantsMemory
    <3>b. pc'[c] = "period" /\ mem'[c] = Wants({}, "none", yes)
      BY <3>1, Moved
    <3>2. Place(c)'
      BY <3>1, <3>a, <3>b DEF Place
    <3> QED BY <1>4, <3>1, <3>2, <3>a DEF Stages
  <2> QED BY <2>2, <2>3, <2>4, <2>5, <2>6, <2>7, <2>8 DEF Begin
<1> QED BY <1>1, <1>2, <1>3, <1>4, StepTyped DEF Typed, TypeOK, period
-----------------------------------------------------------------------------
\* Payments.
LEMMA LookForKeyTyped == ASSUME Typed, NEW c \in Callers, LookForKey(c) PROVE Typed'
<1>1. UNCHANGED <<marks, doc, key, link, period, ghosts>>
  BY DEF LookForKey
<1>2. CASE Answer(c, "replayed")
  BY <1>1, <1>2, ReadAnswerTyped DEF Answers
<1>3. CASE Go(c, "posting", [mem[c] EXCEPT !.what = "insert"])
  <2> DEFINE m == [mem[c] EXCEPT !.what = "insert"]
  <2>1. m \in Memories /\ m.what = "insert" /\ m.on = mem[c].on
    BY Memory DEF Memories
  <2>2. pc[c] = "key" /\ pc'[c] = "posting" /\ mem'[c] = m
    BY <1>3, Moved DEF LookForKey
  <2>3. Place(c)'
    <3>1. mem[c].on = {}
      BY <2>2 DEF Typed, Place
    <3> QED BY <2>1, <2>2, <3>1 DEF Place
  <2> QED BY <1>1, <1>3, <2>1, <2>3, ReadTyped DEF Stages
<1> QED BY <1>2, <1>3 DEF LookForKey

LEMMA CheckPostingTyped == ASSUME Typed, NEW c \in Callers, CheckPosting(c) PROVE Typed'
<1>1. UNCHANGED <<marks, doc, key, link, period, ghosts>>
  BY DEF CheckPosting
<1>2. CASE Answer(c, "refused")
  BY <1>1, <1>2, ReadAnswerTyped DEF Answers
<1>3. CASE Go(c, mem[c].what, mem[c])
  <2>1. /\ mem[c].what \in {"insert", "correct", "remove"}
        /\ mem[c].what = "correct" => mem[c].saw \in Documents
        /\ \A i \in mem[c].on : Exists(i)
    BY DEF CheckPosting, Typed, Place
  <2>2. pc'[c] = mem[c].what /\ mem'[c] = mem[c]
    BY <1>3, Moved
  <2>3. \A i \in mem[c].on : Exists(i)'
    BY <1>1, <2>1 DEF Exists
  <2>4. Place(c)'
    BY <2>1, <2>2, <2>3 DEF Place
  <2> QED BY <1>1, <1>3, <2>1, <2>4, ReadTyped, Memory DEF Stages
<1> QED BY <1>2, <1>3 DEF CheckPosting

LEMMA InsertPaymentTyped == ASSUME Typed, NEW c \in Callers, InsertPayment(c) PROVE Typed'
<1>1. PICK paid \in Tendered : doc' = [doc EXCEPT ![c] = Payment(paid)]
  BY DEF InsertPayment
<1>5. c \in Docs /\ Payment(paid) \in Documents
  BY Amounts DEF Docs
<1>2. /\ doc' \in [Docs -> Documents \cup {None}]
      /\ \A j \in Docs : Exists(j) => Exists(j)'
  BY <1>1, <1>5, OneWritten
<1>3. Go(c, "store", mem[c])
  BY DEF InsertPayment, Go, Keep, Typed
<1>4. Place(c)'
  BY <1>3, Moved DEF Place
<1> QED BY <1>2, <1>3, <1>4, WriteTyped, Memory DEF InsertPayment, Stages

LEMMA StoreKeyTyped == ASSUME Typed, NEW c \in Callers, StoreKey(c) PROVE Typed'
<1>1. key' \in [Callers -> {"fresh", "expired", None}]
  BY DEF StoreKey, Typed, TypeOK
<1>2. (\A i \in Docs : Exists(i) => Exists(i)') /\ LinksStand'
  BY SameDocuments DEF StoreKey
<1> QED BY <1>1, <1>2, AnswerTyped DEF StoreKey, Answers, Typed, TypeOK, period, ghosts

LEMMA PlanBeginsTyped == ASSUME Typed, NEW c \in Callers, PlanBegins(c) PROVE Typed'
<1>1. UNCHANGED <<marks, doc, key, link, period, ghosts>>
  BY DEF PlanBegins
<1>2. CASE \E a \in Answers : Answer(c, a)
  BY <1>1, <1>2, ReadAnswerTyped
<1>3. CASE Go(c, "touch", [mem[c] EXCEPT !.count = version])
  <2> DEFINE m == [mem[c] EXCEPT !.count = version]
  <2>1. m \in Memories
    BY Memory DEF Memories, Typed, TypeOK
  <2>2. Place(c)'
    BY <1>3, Moved DEF Place
  <2> QED BY <1>1, <1>3, <2>1, <2>2, ReadTyped DEF Stages
<1>4. CASE Go(c, "commit", mem[c])
  <2>1. Place(c)'
    BY <1>4, Moved DEF Place
  <2> QED BY <1>1, <1>4, <2>1, ReadTyped, Memory DEF Stages
<1> QED BY <1>2, <1>3, <1>4 DEF PlanBegins, Answers

LEMMA PlanTouchesTyped == ASSUME Typed, NEW c \in Callers, PlanTouches(c) PROVE Typed'
<1>1. UNCHANGED <<marks, doc, key, link, status, version, ghosts>>
  BY DEF PlanTouches
<1>2. (\A i \in Docs : Exists(i) => Exists(i)') /\ LinksStand'
  BY <1>1, SameDocuments
<1>3. holder' \in Callers \cup {None}
  BY DEF PlanTouches, Typed, TypeOK
<1>4. CASE Touchable(c)
  <2>1. Go(c, "commit", mem[c])
    BY <1>4 DEF PlanTouches, Go, Keep, Typed
  <2>2. Place(c)'
    BY <2>1, Moved DEF Place
  <2> QED BY <1>1, <1>2, <1>3, <2>1, <2>2, StepTyped, Memory DEF Stages, Typed, TypeOK, ghosts
<1>5. CASE ~Touchable(c)
  BY <1>1, <1>2, <1>3, <1>5, AnswerTyped DEF PlanTouches, Answers, Typed, TypeOK, ghosts
<1> QED BY <1>4, <1>5

LEMMA PlanCommitsTyped == ASSUME Typed, NEW c \in Callers, PlanCommits(c) PROVE Typed'
<1>1. PICK paid \in Tendered : doc' = [doc EXCEPT ![c] = Payment(paid)]
  BY DEF PlanCommits
<1>5. c \in Docs /\ Payment(paid) \in Documents
  BY Amounts DEF Docs
<1>2. /\ doc' \in [Docs -> Documents \cup {None}]
      /\ \A j \in Docs : Exists(j) => Exists(j)'
  BY <1>1, <1>5, OneWritten
<1>3. LinksStand'
  BY <1>2, LinksStay DEF PlanCommits
<1>4. /\ key' \in [Callers -> {"fresh", "expired", None}]
      /\ version' \in Nat /\ holder' \in Callers \cup {None}
  BY DEF PlanCommits, Typed, TypeOK
<1> QED BY <1>2, <1>3, <1>4, AnswerTyped DEF PlanCommits, Answers, Typed, TypeOK, ghosts

LEMMA KeyExpiresTyped == ASSUME Typed, NEW c \in Callers, KeyExpires(c) PROVE Typed'
<1>1. (\A i \in Docs : Exists(i) => Exists(i)') /\ LinksStand'
  BY SameDocuments DEF KeyExpires
<1>2. \A d \in Callers : Place(d)'
  BY DEF KeyExpires, Typed, Place, Exists
<1> QED BY <1>1, <1>2 DEF KeyExpires, Typed, TypeOK, period, ghosts

LEMMA FailTyped == ASSUME Typed, NEW c \in Callers, Fail(c) PROVE Typed'
<1>1. (\A i \in Docs : Exists(i) => Exists(i)') /\ LinksStand'
  BY SameDocuments DEF Fail
<1>2. holder' \in Callers \cup {None} /\ alone' \in BOOLEAN
  BY DEF Fail, Typed, TypeOK
<1> QED BY <1>1, <1>2, AnswerTyped DEF Fail, Answers, Typed, TypeOK

-----------------------------------------------------------------------------
\* Corrections and deletions.
LEMMA ReadOriginalTyped == ASSUME Typed, NEW c \in Callers, ReadOriginal(c) PROVE Typed'
<1>1. UNCHANGED <<marks, doc, key, link, period, ghosts>>
  BY DEF ReadOriginal
<1>2. PICK i \in mem[c].on : Go(c, "posting", [mem[c] EXCEPT !.saw = doc[i]])
  BY DEF ReadOriginal
<1> DEFINE m == [mem[c] EXCEPT !.saw = doc[i]]
<1>3. doc[i] \in Documents
  BY Memory DEF ReadOriginal, Typed, Place
<1>4. m \in Memories /\ m.saw = doc[i] /\ m.on = mem[c].on /\ m.what = mem[c].what
  BY <1>3, Memory DEF Memories
<1>5. mem[c].what = "correct" /\ \A j \in mem[c].on : Exists(j)
  BY DEF ReadOriginal, Typed, Place
<1>6. \A j \in mem[c].on : Exists(j)'
  BY <1>1, <1>5 DEF Exists
<1>7. pc'[c] = "posting" /\ mem'[c] = m
  BY <1>2, Moved
<1>8. Place(c)'
  BY <1>3, <1>4, <1>5, <1>6, <1>7 DEF Place
<1> QED BY <1>1, <1>2, <1>4, <1>8, ReadTyped DEF Stages

LEMMA AmendedIs ==
    ASSUME NEW d \in Documents, NEW amount \in Nat, NEW put \in Statuses,
           NEW saw \in Documents
    PROVE  LET new == Amended(d, amount, put, saw)
           IN  /\ new \in Documents
               /\ new.paid = d.paid /\ new.corrections # 0
               /\ new.original = Snapshot(d, saw)
<1>1. Snapshot(d, saw) \in Snapshots \cup {None}
  BY DEF Snapshot, Figures, Documents, Snapshots
<1>2. d.corrections + 1 \in Nat /\ d.corrections + 1 # 0
  BY DEF Documents
<1> HIDE DEF Snapshots
<1> QED BY <1>1, <1>2 DEF Amended, Documents

\* A correction writes to one document, which is there.
LEMMA CorrectWrites ==
    ASSUME Typed, NEW c \in Callers, Correct(c)
    PROVE  \E i \in mem[c].on, new \in Documents :
              /\ i \in Docs /\ doc[i] \in Documents /\ Exists(i)
              /\ doc' = [doc EXCEPT ![i] = new]
              /\ new.paid = doc[i].paid /\ new.corrections # 0
              /\ new.original = Snapshot(doc[i], mem[c].saw)
<1>1. PICK i \in mem[c].on, put \in Statuses : \E amount \in {doc[i].amount, Corrected} :
          doc' = [doc EXCEPT ![i] = Amended(doc[i], amount, put, mem[c].saw)]
  BY DEF Correct
<1>2. PICK amount \in {doc[i].amount, Corrected} :
          doc' = [doc EXCEPT ![i] = Amended(doc[i], amount, put, mem[c].saw)]
  BY <1>1
<1>3. i \in Docs /\ Exists(i)
  BY Memory DEF Correct, Typed, Place
<1>4. doc[i] \in Documents
  BY <1>3, Memory
<1>5. mem[c].saw \in Documents
  BY DEF Correct, Typed, Place
<1>6. amount \in Nat
  BY <1>4, AmountsAssumption DEF Documents
<1> DEFINE new == Amended(doc[i], amount, put, mem[c].saw)
<1>7. /\ new \in Documents /\ new.paid = doc[i].paid /\ new.corrections # 0
      /\ new.original = Snapshot(doc[i], mem[c].saw)
  BY <1>4, <1>5, <1>6, AmendedIs
<1> HIDE DEF new
<1> QED BY <1>2, <1>3, <1>4, <1>7 DEF new

LEMMA CorrectTyped == ASSUME Typed, NEW c \in Callers, Correct(c) PROVE Typed'
<1>1. /\ doc' \in [Docs -> Documents \cup {None}]
      /\ \A j \in Docs : Exists(j) => Exists(j)'
  BY CorrectWrites, OneWritten
<1> QED BY <1>1, WriteAnswerTyped DEF Correct, Answers

LEMMA ReadTargetTyped == ASSUME Typed, NEW c \in Callers, ReadTarget(c) PROVE Typed'
<1>1. UNCHANGED <<marks, doc, key, link, period, ghosts>>
  BY DEF ReadTarget
<1>2. CASE Answer(c, "missing")
  BY <1>1, <1>2, ReadAnswerTyped DEF Answers
<1>3. CASE Go(c, "posting", mem[c])
  <2>1. mem[c].what = "remove" /\ \A i \in mem[c].on : Exists(i)
    BY DEF ReadTarget, Typed, Place
  <2>2. \A i \in mem[c].on : Exists(i)'
    BY <1>1, <2>1 DEF Exists
  <2>3. pc'[c] = "posting" /\ mem'[c] = mem[c]
    BY <1>3, Moved
  <2>4. Place(c)'
    BY <2>1, <2>2, <2>3 DEF Place
  <2> QED BY <1>1, <1>3, <2>4, ReadTyped, Memory DEF Stages
<1> QED BY <1>2, <1>3 DEF ReadTarget

LEMMA RemoveTyped == ASSUME Typed, NEW c \in Callers, Remove(c) PROVE Typed'
<1>1. PICK i \in mem[c].on : doc' = [doc EXCEPT ![i].deleted = TRUE]
  BY DEF Remove
<1>2. i \in Docs /\ doc[i] \in Documents
  BY Memory DEF Remove, Typed, Place
<1>3. /\ doc' \in [Docs -> Documents \cup {None}]
      /\ \A j \in Docs : Exists(j) => Exists(j)'
  <2> DEFINE new == [doc[i] EXCEPT !.deleted = TRUE]
  <2>1. new \in Documents
    BY <1>2 DEF Documents
  <2>2. doc' = [doc EXCEPT ![i] = new]
    BY <1>1
  <2> HIDE DEF new
  <2> QED BY <1>2, <2>1, <2>2, OneWritten
<1> QED BY <1>3, WriteAnswerTyped DEF Remove, Answers
-----------------------------------------------------------------------------
\* Bills.
LEMMA WorkTyped ==
    ASSUME Typed, NEW c \in Callers, NEW s \in {"raise", "rework"}, NEW rows,
           rows \subseteq NewRows \cup OldRows, Work(c, s, rows),
           s = "raise" => rows \subseteq NewRows,
           s = "rework" => rows \subseteq OldRows /\ \A r \in rows : Exists(r.bill)',
           marks' \in Marks, doc' \in [Docs -> Documents \cup {None}],
           \A i \in Docs : Exists(i) => Exists(i)',
           UNCHANGED <<key, link, period, ghosts>>
    PROVE  Typed'
<1>1. LinksStand'
  BY LinksStay
<1>2. CASE rows = {}
  BY <1>1, <1>2, AnswerTyped DEF Work, Answers, Typed, TypeOK, period, ghosts
<1>3. CASE rows # {}
  <2> DEFINE m == [mem[c] EXCEPT !.work = rows]
  <2>1. m \in Memories /\ m.work = rows
    BY Memory DEF Memories
  <2>2. Go(c, s, m)
    BY <1>3 DEF Work
  <2>3. pc'[c] = s /\ mem'[c] = m
    BY <2>2, Moved
  <2>4. Place(c)'
    BY <2>1, <2>3 DEF Place
  <2> HIDE DEF m
  <2> QED BY <1>1, <2>1, <2>2, <2>4, StepTyped DEF Stages, Typed, TypeOK, period, ghosts
<1> QED BY <1>2, <1>3

LEMMA ReadChildTyped == ASSUME Typed, NEW c \in Callers, ReadChild(c) PROVE Typed'
<1>1. UNCHANGED <<marks, doc, key, link, period, ghosts>>
  BY DEF ReadChild
<1>2. CASE marks.rte
  BY <1>1, <1>2, ReadAnswerTyped DEF ReadChild, Answers
<1>3. CASE ~marks.rte
  <2> DEFINE m == [mem[c] EXCEPT !.marks = marks]
  <2>1. m \in Memories /\ m.on = mem[c].on
    BY Memory DEF Memories, Typed, TypeOK
  <2>2. mem[c].on \subseteq Quarters
    BY DEF ReadChild, Typed, Place
  <2>3. Go(c, "existing", m)
    BY <1>3 DEF ReadChild
  <2>a. pc'[c] = "existing" /\ mem'[c] = m
    BY <2>3, Moved
  <2> HIDE DEF m
  <2>4. Place(c)'
    BY <2>1, <2>2, <2>a DEF Place
  <2> QED BY <1>1, <2>1, <2>3, <2>4, ReadTyped DEF Stages
<1> QED BY <1>2, <1>3

LEMMA ReadExistingTyped == ASSUME Typed, NEW c \in Callers, ReadExisting(c) PROVE Typed'
<1> DEFINE rows == {[bill |-> q, new |-> Raised(mem[c].marks, q)] :
                       q \in {q \in mem[c].on : ~Exists(q)}}
<1>1. mem[c].on \subseteq Quarters /\ mem[c].marks \in Marks
  BY Memory DEF ReadExisting, Typed, Place
<1>2. rows \subseteq NewRows
  BY <1>1, Amounts DEF NewRows, Bills
<1>3. Work(c, "raise", rows)
  BY DEF ReadExisting
<1> HIDE DEF rows
<1>4. \A i \in Docs : Exists(i) => Exists(i)'
  BY SameDocuments DEF ReadExisting
<1> QED BY <1>2, <1>3, <1>4, WorkTyped DEF ReadExisting, Typed, TypeOK

LEMMA RaiseTyped == ASSUME Typed, NEW c \in Callers, Raise(c) PROVE Typed'
<1>1. PICK r \in mem[c].work :
          /\ doc' = [doc EXCEPT ![r.bill] = Upserted(r)]
          /\ IF r.new.once THEN Move(c, "stamp") /\ UNCHANGED mem
             ELSE Work(c, "raise", mem[c].work \ {r})
  BY DEF Raise
<1>2. mem[c].work \subseteq NewRows
  BY DEF Raise, Typed, Place
<1>3. r.bill \in Docs /\ r.new \in Documents
  BY <1>2 DEF NewRows, Docs, Bills
<1>4. Upserted(r) \in Documents
  BY <1>3, Memory DEF Upserted
<1>5. /\ doc' \in [Docs -> Documents \cup {None}]
      /\ \A j \in Docs : Exists(j) => Exists(j)'
  BY <1>1, <1>3, <1>4, OneWritten
<1>6. CASE r.new.once
  <2>1. Go(c, "stamp", mem[c])
    BY <1>1, <1>6 DEF Go, Keep, Typed
  <2>2. Place(c)'
    BY <1>2, <2>1, Moved DEF Place
  <2> QED BY <1>5, <2>1, <2>2, WriteTyped, Memory DEF Raise, Stages
<1>7. CASE ~r.new.once
  <2>1. Work(c, "raise", mem[c].work \ {r})
    BY <1>1, <1>7
  <2> QED BY <1>2, <1>5, <2>1, WorkTyped DEF Raise, Typed, TypeOK
<1> QED BY <1>6, <1>7

LEMMA StampTyped == ASSUME Typed, NEW c \in Callers, Stamp(c) PROVE Typed'
<1>1. PICK r \in mem[c].work :
          /\ marks' = [marks EXCEPT !.applied = r.bill]
          /\ Work(c, "raise", mem[c].work \ {r})
  BY DEF Stamp
<1>2. mem[c].work \subseteq NewRows
  BY DEF Stamp, Typed, Place
<1>3. r.bill \in Quarters
  BY <1>2 DEF NewRows
<1>4. marks' \in Marks
  BY <1>1, <1>3 DEF Marks, Typed, TypeOK
<1>5. \A i \in Docs : Exists(i) => Exists(i)'
  BY SameDocuments DEF Stamp
<1> QED BY <1>1, <1>2, <1>4, <1>5, WorkTyped DEF Stamp, Typed, TypeOK

\* A step that writes to the child's record and goes on.
LEMMA MarkedTyped ==
    ASSUME Typed, NEW c \in Callers, marks' \in Marks, Move(c, "student"),
           UNCHANGED <<doc, key, link, period, mem, ghosts>>
    PROVE  Typed'
<1>1. (\A i \in Docs : Exists(i) => Exists(i)') /\ LinksStand'
  BY SameDocuments
<1>2. Go(c, "student", mem[c])
  BY DEF Go, Keep, Typed
<1>3. Place(c)'
  BY <1>2, Moved DEF Place
<1> QED BY <1>1, <1>2, <1>3, StepTyped, Memory DEF Stages, Typed, TypeOK, period, ghosts

LEMMA SetMarkTyped == ASSUME Typed, NEW c \in Callers, SetMark(c) PROVE Typed'
<1>1. mem[c].what \in {"employee", "sibling", "rte"} /\ mem[c].yes \in BOOLEAN
  BY Memory DEF SetMark, Typed, Place
<1>2. marks \in Marks /\ marks' = [marks EXCEPT ![mem[c].what] = mem[c].yes]
  BY DEF SetMark, Typed, TypeOK
<1>3. CASE mem[c].what = "employee"
  <2>1. marks' \in Marks
    BY <1>1, <1>2, <1>3 DEF Marks
  <2> QED BY <2>1, MarkedTyped DEF SetMark
<1>4. CASE mem[c].what = "sibling"
  <2>1. marks' \in Marks
    BY <1>1, <1>2, <1>4 DEF Marks
  <2> QED BY <2>1, MarkedTyped DEF SetMark
<1>5. CASE mem[c].what = "rte"
  <2>1. marks' \in Marks
    BY <1>1, <1>2, <1>5 DEF Marks
  <2> QED BY <2>1, MarkedTyped DEF SetMark
<1> QED BY <1>1, <1>3, <1>4, <1>5

LEMMA ReadAgreedTyped == ASSUME Typed, NEW c \in Callers, ReadAgreed(c) PROVE Typed'
<1>1. UNCHANGED <<marks, doc, key, link, period, ghosts>>
  BY DEF ReadAgreed
<1>2. CASE Answer(c, "conflict")
  BY <1>1, <1>2, ReadAnswerTyped DEF Answers
<1>3. CASE Go(c, "agree", mem[c])
  <2>1. Place(c)'
    BY <1>3, Moved DEF Place
  <2> QED BY <1>1, <1>3, <2>1, ReadTyped, Memory DEF Stages
<1> QED BY <1>2, <1>3 DEF ReadAgreed

LEMMA AgreeTyped == ASSUME Typed, NEW c \in Callers, Agree(c) PROVE Typed'
<1>1. marks' \in Marks
  BY DEF Agree, Typed, TypeOK, Marks
<1> QED BY <1>1, MarkedTyped DEF Agree

LEMMA ReadStudentTyped == ASSUME Typed, NEW c \in Callers, ReadStudent(c) PROVE Typed'
<1> DEFINE m == [mem[c] EXCEPT !.marks = marks]
<1>1. m \in Memories
  BY Memory DEF Memories, Typed, TypeOK
<1>2. Go(c, "bills", m)
  BY DEF ReadStudent
<1>3. Place(c)'
  BY <1>2, Moved DEF Place
<1> QED BY <1>1, <1>2, <1>3, ReadTyped DEF ReadStudent, Stages

LEMMA ReadBillsTyped == ASSUME Typed, NEW c \in Callers, ReadBills(c) PROVE Typed'
<1> DEFINE rows == Changes(mem[c].marks)
<1>1. rows \subseteq OldRows /\ \A r \in rows : Exists(r.bill)
  <2>1. \A b \in Bills : Touched(b) => Exists(b)
    BY DEF Touched, Open
  <2>2. \A b \in Bills, k \in BOOLEAN :
            /\ [bill |-> b, cancel |-> k] \in OldRows
            /\ [bill |-> b, cancel |-> k].bill = b
    BY DEF OldRows
  <2>3. CASE mem[c].marks.rte
    <3>1. rows = {[bill |-> b, cancel |-> TRUE] : b \in {b \in Bills : Touched(b)}}
      BY <2>3 DEF Changes
    <3> HIDE DEF rows
    <3>2. ASSUME NEW r \in rows PROVE r \in OldRows /\ Exists(r.bill)
      <4>1. PICK b \in Bills : Touched(b) /\ r = [bill |-> b, cancel |-> TRUE]
        BY <3>1
      <4> QED BY <4>1, <2>1, <2>2
    <3> QED BY <3>2
  <2>4. CASE ~mem[c].marks.rte
    <3>1. rows = {[bill |-> b, cancel |-> FALSE] :
                    b \in {b \in Bills : Touched(b) /\ Computable(mem[c].marks, b)
                                        /\ doc[b].amount # Net(mem[c].marks, b)}}
      BY <2>4 DEF Changes
    <3> HIDE DEF rows
    <3>2. ASSUME NEW r \in rows PROVE r \in OldRows /\ Exists(r.bill)
      <4>1. PICK b \in Bills : Touched(b) /\ r = [bill |-> b, cancel |-> FALSE]
        BY <3>1
      <4> QED BY <4>1, <2>1, <2>2
    <3> QED BY <3>2
  <2> QED BY <2>3, <2>4
<1>2. Work(c, "rework", rows)
  BY DEF ReadBills
<1> HIDE DEF rows
<1>3. (\A i \in Docs : Exists(i) => Exists(i)') /\ \A r \in rows : Exists(r.bill)'
  BY <1>1, SameDocuments DEF ReadBills, Exists
<1> QED BY <1>1, <1>2, <1>3, WorkTyped DEF ReadBills, Typed, TypeOK

LEMMA ReworkTyped == ASSUME Typed, NEW c \in Callers, Rework(c) PROVE Typed'
<1>1. PICK r \in mem[c].work :
          /\ doc' = [doc EXCEPT ![r.bill] =
                IF r.cancel THEN Cancelled(doc[r.bill])
                ELSE Reworked(doc[r.bill], mem[c].marks, r.bill)]
          /\ Work(c, "rework", mem[c].work \ {r})
  BY DEF Rework
<1>2. mem[c].work \subseteq OldRows /\ \A s \in mem[c].work : Exists(s.bill)
  BY DEF Rework, Typed, Place
<1>3. r.bill \in Bills /\ r.bill \in Docs /\ Exists(r.bill)
  BY <1>2 DEF OldRows, Docs
<1>4. doc[r.bill] \in Documents /\ Net(mem[c].marks, r.bill) \in Nat
  BY <1>3, Memory, Amounts
<1> DEFINE new == IF r.cancel THEN Cancelled(doc[r.bill])
                  ELSE Reworked(doc[r.bill], mem[c].marks, r.bill)
<1>5. new \in Documents
  <2>1. Cancelled(doc[r.bill]) \in Documents
    BY <1>4 DEF Cancelled, Documents, Statuses
  <2>2. Reworked(doc[r.bill], mem[c].marks, r.bill) \in Documents
    <3>1. (OneTimeFor(mem[c].marks, r.bill) > 0) \in BOOLEAN
      OBVIOUS
    <3> QED BY <1>4, <3>1 DEF Reworked, Documents
  <2> QED BY <2>1, <2>2
<1>6. doc' = [doc EXCEPT ![r.bill] = new]
  BY <1>1
<1> HIDE DEF new
<1>7. /\ doc' \in [Docs -> Documents \cup {None}]
      /\ \A j \in Docs : Exists(j) => Exists(j)'
  BY <1>3, <1>5, <1>6, OneWritten
<1>8. \A s \in mem[c].work : Exists(s.bill)'
  BY <1>2, <1>7 DEF OldRows, Docs
<1> QED BY <1>1, <1>2, <1>7, <1>8, WorkTyped DEF Rework, Typed, TypeOK
-----------------------------------------------------------------------------
\* Paying online, and the period.
LEMMA ReadOwedTyped == ASSUME Typed, NEW c \in Callers, ReadOwed(c) PROVE Typed'
<1>1. UNCHANGED <<marks, doc, key, link, period, ghosts>>
  BY DEF ReadOwed
<1>2. CASE Answer(c, "refused")
  BY <1>1, <1>2, ReadAnswerTyped DEF Answers
<1>3. CASE Go(c, "issue", mem[c])
  <2>1. mem[c].on \subseteq Bills /\ \A i \in mem[c].on : Exists(i)
    BY DEF ReadOwed, Typed, Place
  <2>2. \A i \in mem[c].on : Exists(i)'
    BY <1>1, <2>1 DEF Exists
  <2>3. pc'[c] = "issue" /\ mem'[c] = mem[c]
    BY <1>3, Moved
  <2>4. Place(c)'
    BY <2>1, <2>2, <2>3 DEF Place
  <2> QED BY <1>1, <1>3, <2>4, ReadTyped, Memory DEF Stages
<1> QED BY <1>2, <1>3 DEF ReadOwed

LEMMA IssueLinkTyped == ASSUME Typed, NEW c \in Callers, IssueLink(c) PROVE Typed'
<1>1. mem[c].on \subseteq Bills /\ \A i \in mem[c].on : Exists(i)
  BY DEF IssueLink, Typed, Place
<1>2. link' = [link EXCEPT ![c] = [bills |-> mem[c].on, status |-> "created"]]
  BY DEF IssueLink
<1>3. link' \in [Callers -> Links \cup {None}]
  BY <1>1, <1>2 DEF Links, Typed, TypeOK
<1>4. \A i \in Docs : Exists(i) => Exists(i)'
  BY DEF IssueLink, Exists
<1>5. LinksStand'
  <2>1. \A d \in Callers \ {c} : link'[d] = link[d]
    BY <1>2 DEF Typed, TypeOK
  <2>2. link'[c].bills = mem[c].on
    BY <1>2 DEF Typed, TypeOK
  <2>3. LinksStand
    BY DEF Typed
  <2> QED BY <1>1, <2>1, <2>2, <2>3 DEF LinksStand, Exists, IssueLink
<1> QED BY <1>3, <1>4, <1>5, AnswerTyped DEF IssueLink, Answers, Typed, TypeOK, period, ghosts

\* Settling a link changes the bills it is for and no call.
LEMMA SettledDocuments ==
    ASSUME Typed, NEW c \in Callers, Settle(c)
    PROVE  /\ link[c] \in Links
           /\ \A i \in Docs : i \in link[c].bills => Exists(i)
           /\ doc' \in [Docs -> Documents \cup {None}]
           /\ \A i \in Docs : Exists(i) => Exists(i)'
<1>1. link[c] \in Links
  BY DEF Settle, Typed, TypeOK
<1>2. \A i \in Docs : i \in link[c].bills => Exists(i)
  BY DEF Settle, Typed, LinksStand
<1> DEFINE new(i) == [doc[i] EXCEPT !.status = "paid", !.paid = doc[i].amount]
<1>3. \A i \in Docs : i \in link[c].bills => new(i) \in Documents
  BY <1>2, Memory DEF Documents, Statuses
<1>4. doc' = [i \in Docs |-> IF i \in link[c].bills THEN new(i) ELSE doc[i]]
  BY DEF Settle
<1> HIDE DEF new
<1> QED BY <1>1, <1>2, <1>3, <1>4, Amounts DEF Typed, TypeOK, Exists

LEMMA SettleTyped == ASSUME Typed, NEW c \in Callers, Settle(c) PROVE Typed'
<1>1. /\ link[c] \in Links
      /\ doc' \in [Docs -> Documents \cup {None}]
      /\ \A i \in Docs : Exists(i) => Exists(i)'
  BY SettledDocuments
<1>2. link' = [link EXCEPT ![c].status = "paid"]
  BY DEF Settle
<1>3. link' \in [Callers -> Links \cup {None}] /\ link'[c].bills = link[c].bills
  BY <1>1, <1>2 DEF Links, Typed, TypeOK
<1>4. \A d \in Callers \ {c} : link'[d] = link[d]
  BY <1>2 DEF Typed, TypeOK
<1>5. LinksStand'
  <2> SUFFICES ASSUME NEW d \in Callers, link'[d] # None, NEW b \in link'[d].bills
               PROVE  Exists(b)'
    BY DEF LinksStand
  <2>1. link[d] # None /\ b \in link[d].bills
    BY <1>3, <1>4 DEF Settle
  <2>2. link[d] \in Links /\ Exists(b)
    BY <2>1 DEF Typed, TypeOK, LinksStand
  <2>3. b \in Docs
    BY <2>1, <2>2 DEF Links, Docs
  <2> QED BY <1>1, <2>2, <2>3
<1>6. ASSUME NEW d \in Callers PROVE Place(d)'
  <2>1. Place(d) /\ UNCHANGED <<pc, mem>>
    BY DEF Typed, Settle
  <2>2. mem[d].on \subseteq Docs /\ mem[d].work \subseteq NewRows \cup OldRows
    BY Memory
  <2>3. \A r \in OldRows : r.bill \in Docs
    BY DEF OldRows, Docs
  <2> QED BY <1>1, <2>1, <2>2, <2>3 DEF Place
<1>7. alone' \in BOOLEAN
  BY DEF Settle, Typed, TypeOK
<1> QED BY <1>1, <1>3, <1>5, <1>6, <1>7 DEF Settle, Typed, TypeOK, period

LEMMA ReadPeriodTyped == ASSUME Typed, NEW c \in Callers, ReadPeriod(c) PROVE Typed'
<1>1. UNCHANGED <<marks, doc, key, link, period, ghosts>>
  BY DEF ReadPeriod
<1>2. CASE Answer(c, "done") \/ Answer(c, "missing")
  BY <1>1, <1>2, ReadAnswerTyped DEF Answers
<1>3. CASE Go(c, "status", mem[c])
  <2>1. Place(c)'
    BY <1>3, Moved DEF Place
  <2> QED BY <1>1, <1>3, <2>1, ReadTyped, Memory DEF Stages
<1> QED BY <1>2, <1>3 DEF ReadPeriod

LEMMA ChangeStatusTyped == ASSUME Typed, NEW c \in Callers, ChangeStatus(c) PROVE Typed'
<1>1. (\A i \in Docs : Exists(i) => Exists(i)') /\ LinksStand'
  BY SameDocuments DEF ChangeStatus
<1>2. status' \in {"open", "closed", "none"} /\ version' \in Nat
  BY DEF ChangeStatus, Wanted, Typed, TypeOK
<1>3. \E a \in Answers : Answer(c, a)
  BY DEF ChangeStatus, Answers
<1> QED BY <1>1, <1>2, <1>3, AnswerTyped DEF ChangeStatus, Typed, TypeOK, ghosts

LEMMA NextTyped == Typed /\ [Next]_vars => Typed'
<1> SUFFICES ASSUME Typed, [Next]_vars PROVE Typed'
  OBVIOUS
<1>1. CASE UNCHANGED vars
  BY <1>1 DEF vars, period, Typed, TypeOK, Place, LinksStand, Exists
<1>2. ASSUME NEW c \in Callers, Pay(c) PROVE Typed'
  BY <1>2, LookForKeyTyped, InsertPaymentTyped, StoreKeyTyped, PlanBeginsTyped,
     PlanTouchesTyped, PlanCommitsTyped DEF Pay
<1>3. ASSUME NEW c \in Callers, Amend(c) PROVE Typed'
  BY <1>3, CheckPostingTyped, ReadOriginalTyped, CorrectTyped, ReadTargetTyped,
     RemoveTyped DEF Amend
<1>4. ASSUME NEW c \in Callers, Bill(c) PROVE Typed'
  BY <1>4, ReadChildTyped, ReadExistingTyped, RaiseTyped, StampTyped DEF Bill
<1>5. ASSUME NEW c \in Callers, Mark(c) PROVE Typed'
  BY <1>5, SetMarkTyped, ReadAgreedTyped, AgreeTyped, ReadStudentTyped,
     ReadBillsTyped, ReworkTyped DEF Mark
<1>6. ASSUME NEW c \in Callers, Link(c) \/ Govern(c) PROVE Typed'
  BY <1>6, ReadOwedTyped, IssueLinkTyped, ReadPeriodTyped, ChangeStatusTyped
  DEF Link, Govern
<1>7. ASSUME NEW c \in Callers, Begin(c) \/ KeyExpires(c) \/ Settle(c) \/ Fail(c)
      PROVE  Typed'
  BY <1>7, BeginTyped, KeyExpiresTyped, SettleTyped, FailTyped
<1> QED BY <1>1, <1>2, <1>3, <1>4, <1>5, <1>6, <1>7 DEF Next

THEOREM TypesHold == Spec => []Typed
<1> QED BY InitTyped, NextTyped, PTL DEF Spec

\* Every variable keeps its type; above all no bill comes to less than nothing,
\* whatever concessions it is worked out from.
THEOREM TypeCorrect == Spec => []TypeOK
<1>1. Typed => TypeOK
  BY DEF Typed
<1> QED BY <1>1, TypesHold, PTL
-----------------------------------------------------------------------------
(***************************************************************************)
(* What the steps of a call have in common.                                *)
(***************************************************************************)
InCall(c) == Pay(c) \/ Amend(c) \/ Bill(c) \/ Mark(c) \/ Link(c) \/ Govern(c)

Apart(c) == \A d \in Callers \ {c} : pc'[d] = pc[d] /\ mem'[d] = mem[d]

\* A call moves only itself.
LEMMA MovesItself ==
    ASSUME Typed, NEW c \in Callers, NEW s, NEW m, Go(c, s, m)
    PROVE  pc'[c] = s /\ mem'[c] = m /\ Apart(c)
BY DEF Typed, TypeOK, Go, Move, Keep, Apart

LEMMA MovesOnly ==
    ASSUME Typed, NEW c \in Callers, NEW s, Move(c, s), UNCHANGED mem
    PROVE  pc'[c] = s /\ mem'[c] = mem[c] /\ Apart(c)
BY DEF Typed, TypeOK, Move, Apart

LEMMA WorkMoves ==
    ASSUME Typed, NEW c \in Callers, NEW s, NEW rows, Work(c, s, rows)
    PROVE  /\ Apart(c)
           /\ \/ pc'[c] = "done"
              \/ pc'[c] = s /\ mem'[c] = [mem[c] EXCEPT !.work = rows]
BY MovesItself DEF Work, Answer

LEMMA InCallMoves ==
    ASSUME Typed, NEW c \in Callers, InCall(c)
    PROVE  pc[c] \in Stages /\ Apart(c) /\ UNCHANGED <<before, alone>>
<1>1. CASE Pay(c)
  <2>1. Apart(c)
    BY <1>1, MovesItself, MovesOnly
    DEF Pay, LookForKey, InsertPayment, StoreKey, PlanBegins, PlanTouches,
        PlanCommits, Answer
  <2> QED BY <1>1, <2>1
    DEF Pay, LookForKey, InsertPayment, StoreKey, PlanBegins, PlanTouches,
        PlanCommits, Stages, ghosts
<1>2. CASE Amend(c)
  <2>1. Apart(c)
    BY <1>2, MovesItself
    DEF Amend, CheckPosting, ReadOriginal, Correct, ReadTarget, Remove, Answer
  <2> QED BY <1>2, <2>1
    DEF Amend, CheckPosting, ReadOriginal, Correct, ReadTarget, Remove, Stages, ghosts
<1>3. CASE Bill(c)
  <2>1. Apart(c)
    BY <1>3, MovesItself, MovesOnly, WorkMoves
    DEF Bill, ReadChild, ReadExisting, Raise, Stamp, Answer
  <2> QED BY <1>3, <2>1 DEF Bill, ReadChild, ReadExisting, Raise, Stamp, Stages, ghosts
<1>4. CASE Mark(c)
  <2>1. Apart(c)
    BY <1>4, MovesItself, MovesOnly, WorkMoves
    DEF Mark, SetMark, ReadAgreed, Agree, ReadStudent, ReadBills, Rework, Answer
  <2> QED BY <1>4, <2>1
    DEF Mark, SetMark, ReadAgreed, Agree, ReadStudent, ReadBills, Rework, Stages, ghosts
<1>5. CASE Link(c) \/ Govern(c)
  <2>1. Apart(c)
    BY <1>5, MovesItself
    DEF Link, Govern, ReadOwed, IssueLink, ReadPeriod, ChangeStatus, Answer
  <2> QED BY <1>5, <2>1
    DEF Link, Govern, ReadOwed, IssueLink, ReadPeriod, ChangeStatus, Stages, ghosts
<1> QED BY <1>1, <1>2, <1>3, <1>4, <1>5 DEF InCall

\* A step of a call that records no payment.
PayStages == {"insert", "store", "touch", "commit"}

Quiet(c) ==
    /\ pc[c] \in Stages \ (PayStages \cup {"posting"})
    /\ pc'[c] \notin PayStages \cup {"idle", "recorded", "posted", "failed"}
    /\ pc'[c] = "posting" => mem'[c].what # "insert"
    /\ UNCHANGED <<key, before, holder>>
    /\ Apart(c)
    /\ \A i \in Callers : Exists(i)' => Exists(i)

LEMMA QuietRead ==
    ASSUME Typed, NEW c \in Callers, NEW s, NEW m, Go(c, s, m),
           pc[c] \in Stages \ (PayStages \cup {"posting"}),
           s \notin PayStages \cup {"idle", "recorded", "posted", "failed"},
           s = "posting" => m.what # "insert",
           UNCHANGED <<doc, key, before, holder>>
    PROVE  Quiet(c)
BY MovesItself DEF Quiet, Exists

LEMMA QuietAmend ==
    ASSUME Typed, NEW c \in Callers, Amend(c) PROVE Quiet(c) \/ CheckPosting(c)
<1>1. ASSUME ReadOriginal(c) PROVE Quiet(c)
  <2>1. PICK i \in mem[c].on : Go(c, "posting", [mem[c] EXCEPT !.saw = doc[i]])
    BY <1>1 DEF ReadOriginal
  <2>2. mem[c].what = "correct" /\ [mem[c] EXCEPT !.saw = doc[i]].what = mem[c].what
    BY <1>1, Memory DEF ReadOriginal, Typed, Place, Memories
  <2> QED BY <1>1, <2>1, <2>2, QuietRead DEF ReadOriginal, Stages, PayStages, ghosts, period
<1>2. ASSUME ReadTarget(c) PROVE Quiet(c)
  <2>1. mem[c].what = "remove"
    BY <1>2 DEF ReadTarget, Typed, Place
  <2>2. \/ Go(c, "missing", Blank)
        \/ Go(c, "posting", mem[c])
    BY <1>2 DEF ReadTarget, Answer
  <2> QED BY <1>2, <2>1, <2>2, QuietRead DEF ReadTarget, Stages, PayStages, ghosts, period
<1>3. ASSUME Correct(c) PROVE Quiet(c)
  <2>1. Go(c, "done", Blank) /\ pc[c] = "correct" /\ UNCHANGED <<key, before, holder>>
    BY <1>3 DEF Correct, Answer, ghosts, period
  <2>2. \A i \in Docs : Exists(i)' => Exists(i)
    <3>1. \A i \in mem[c].on : Exists(i)
      BY <2>1 DEF Typed, Place
    <3> QED BY <1>3, <3>1, Memory DEF Correct, Exists, Typed, TypeOK
  <2> QED BY <2>1, <2>2, MovesItself DEF Quiet, Stages, PayStages, Docs
<1>4. ASSUME Remove(c) PROVE Quiet(c)
  <2>1. Go(c, "done", Blank) /\ pc[c] = "remove" /\ UNCHANGED <<key, before, holder>>
    BY <1>4 DEF Remove, Answer, ghosts, period
  <2>2. \A i \in Docs : Exists(i)' => Exists(i)
    <3>1. \A i \in mem[c].on : Exists(i)
      BY <2>1 DEF Typed, Place
    <3> QED BY <1>4, <3>1, Memory DEF Remove, Exists, Typed, TypeOK
  <2> QED BY <2>1, <2>2, MovesItself DEF Quiet, Stages, PayStages, Docs
<1> QED BY <1>1, <1>2, <1>3, <1>4 DEF Amend

\* What is done about bills leaves the payments as they are.
LEMMA OnlyBills ==
    ASSUME Typed, NEW b \in Bills, NEW d, doc' = [doc EXCEPT ![b] = d]
    PROVE  \A i \in Callers : doc'[i] = doc[i]
BY NamesAssumption DEF Typed, TypeOK, Docs

LEMMA BillingKeepsPayments ==
    ASSUME Typed, NEW c \in Callers, Bill(c) \/ Mark(c) \/ Link(c) \/ Govern(c)
    PROVE  \A i \in Callers : doc'[i] = doc[i]
<1>1. CASE Raise(c)
  <2>1. PICK r \in mem[c].work : doc' = [doc EXCEPT ![r.bill] = Upserted(r)]
    BY <1>1 DEF Raise
  <2>2. r.bill \in Bills
    BY <1>1 DEF Raise, Typed, Place, NewRows, Bills
  <2> QED BY <2>1, <2>2, OnlyBills
<1>2. CASE Rework(c)
  <2>1. PICK r \in mem[c].work :
            doc' = [doc EXCEPT ![r.bill] =
              IF r.cancel THEN Cancelled(doc[r.bill])
              ELSE Reworked(doc[r.bill], mem[c].marks, r.bill)]
    BY <1>2 DEF Rework
  <2>2. r.bill \in Bills
    BY <1>2 DEF Rework, Typed, Place, OldRows
  <2> QED BY <2>1, <2>2, OnlyBills
<1>3. CASE ~Raise(c) /\ ~Rework(c)
  BY <1>3 DEF Bill, Mark, Link, Govern, ReadChild, ReadExisting, Stamp, SetMark,
     ReadAgreed, Agree, ReadStudent, ReadBills, ReadOwed, IssueLink, ReadPeriod,
     ChangeStatus
<1> QED BY <1>1, <1>2, <1>3

LEMMA QuietBilling ==
    ASSUME Typed, NEW c \in Callers, Bill(c) \/ Mark(c) \/ Link(c) \/ Govern(c)
    PROVE  /\ Quiet(c)
           /\ pc'[c] \notin {"original", "posting", "correct", "target", "remove"}
<1>1. (\A i \in Callers : Exists(i)' => Exists(i)) /\ Apart(c) /\ UNCHANGED before
  BY BillingKeepsPayments, InCallMoves DEF Exists, InCall
<1>2. UNCHANGED <<key, holder>>
  BY DEF Bill, Mark, Link, Govern, ReadChild, ReadExisting, Raise, Stamp, SetMark,
     ReadAgreed, Agree, ReadStudent, ReadBills, Rework, ReadOwed, IssueLink,
     ReadPeriod, ChangeStatus, period
<1>3. pc[c] \in Stages \ (PayStages \cup {"posting"})
  BY DEF Bill, Mark, Link, Govern, ReadChild, ReadExisting, Raise, Stamp, SetMark,
     ReadAgreed, Agree, ReadStudent, ReadBills, Rework, ReadOwed, IssueLink,
     ReadPeriod, ChangeStatus, Stages, PayStages
<1>4. pc'[c] \in {"done", "existing", "raise", "stamp", "student", "conflict", "agree",
                  "bills", "rework", "refused", "issue", "status", "missing"}
  <2>1. CASE Bill(c)
    BY <2>1, MovesItself, MovesOnly, WorkMoves
    DEF Bill, ReadChild, ReadExisting, Raise, Stamp, Answer
  <2>2. CASE Mark(c)
    <3>1. ASSUME ReadBills(c) \/ Rework(c) PROVE pc'[c] \in {"done", "rework"}
      BY <3>1, WorkMoves DEF ReadBills, Rework
    <3>2. ASSUME SetMark(c) \/ Agree(c) PROVE pc'[c] = "student"
      BY <3>2, MovesOnly DEF SetMark, Agree
    <3>3. ASSUME ReadAgreed(c) \/ ReadStudent(c)
          PROVE  pc'[c] \in {"conflict", "agree", "bills"}
      BY <3>3, MovesItself DEF ReadAgreed, ReadStudent, Answer
    <3> QED BY <2>2, <3>1, <3>2, <3>3 DEF Mark
  <2>3. CASE Link(c) \/ Govern(c)
    BY <2>3, MovesItself
    DEF Link, Govern, ReadOwed, IssueLink, ReadPeriod, ChangeStatus, Answer
  <2> QED BY <2>1, <2>2, <2>3
<1> QED BY <1>1, <1>2, <1>3, <1>4 DEF Quiet, PayStages
-----------------------------------------------------------------------------
(***************************************************************************)
(* The keys of payments.  A key is stored once, after its payment, and     *)
(* never taken away; whoever is on the way to a payment, and began when    *)
(* there was a key, has met one that had expired.                          *)
(***************************************************************************)
AnExpired == \E i \in Callers : key[i] = "expired"
Paying(c) == pc[c] \in PayStages \/ (pc[c] = "posting" /\ mem[c].what = "insert")

KeysInv ==
    \A c \in Callers :
        /\ key[c] # None => pc[c] \in {"recorded", "posted"}
        /\ Exists(c) => pc[c] \in {"store", "recorded", "posted", "failed"}
        /\ before[c] \subseteq Known
        /\ (Paying(c) \/ Exists(c)) /\ before[c] # {} => AnExpired

LEMMA InitKeys == Init => KeysInv
<1> SUFFICES ASSUME Init, NEW c \in Callers
             PROVE  key[c] = None /\ ~Exists(c) /\ before[c] = {}
  BY DEF KeysInv
<1>1. \A b \in Bills : b # c
  BY NamesAssumption
<1>2. ~Exists(c)
  <2>1. PICK B \in SUBSET Bills :
            doc = [i \in Docs |-> IF i \in B THEN Raised(NoMarks, i) ELSE None]
    BY DEF Init
  <2> QED BY <2>1, <1>1 DEF Exists, Docs
<1> QED BY <1>2 DEF Init

\* A step after which the keys are the same, and which brings nobody nearer to a
\* payment, changes nothing.
LEMMA QuietKeys == ASSUME Typed, KeysInv, NEW c \in Callers, Quiet(c) PROVE KeysInv'
<1>1. pc[c] \notin {"recorded", "posted", "failed", "store"}
  BY DEF Quiet, Stages, PayStages
<1>2. key[c] = None /\ ~Exists(c)
  BY <1>1 DEF KeysInv
<1>3. Known' = Known /\ AnExpired' = AnExpired /\ UNCHANGED <<key, before>>
  BY DEF Quiet, Known, AnExpired
<1>4. \A i \in Callers : Exists(i)' => Exists(i)
  BY DEF Quiet
<1>5. ~Paying(c)'
  BY DEF Quiet, Paying
<1>6. ASSUME NEW d \in Callers \ {c} PROVE pc'[d] = pc[d] /\ (Paying(d)' <=> Paying(d))
  BY DEF Quiet, Apart, Paying
<1> QED BY <1>2, <1>3, <1>4, <1>5, <1>6 DEF KeysInv

\* The other steps, by what they do: a call that ends, or goes on to pay, and has
\* seen why it may.
LEMMA SteadyKeys ==
    ASSUME Typed, KeysInv, NEW c \in Callers, Apart(c), UNCHANGED <<key, before>>,
           \A i \in Callers : Exists(i)' => Exists(i) \/ (i = c /\ Paying(c)),
           key[c] = None,
           Exists(c)' => pc'[c] \in {"store", "failed"},
           Paying(c)' => Paying(c) \/ before[c] = {} \/ AnExpired
    PROVE  KeysInv'
<1>1. Known' = Known /\ AnExpired' = AnExpired
  BY DEF Known, AnExpired
<1>2. ASSUME NEW d \in Callers \ {c} PROVE pc'[d] = pc[d] /\ (Paying(d)' <=> Paying(d))
  BY DEF Apart, Paying
<1> QED BY <1>1, <1>2 DEF KeysInv

LEMMA UnknownMeans ==
    ASSUME KeysInv, NEW c \in Callers, Unknown PROVE before[c] = {} \/ AnExpired
BY DEF KeysInv, Unknown, Known, AnExpired

LEMMA PayKeys == ASSUME Typed, KeysInv, NEW c \in Callers, Pay(c) PROVE KeysInv'
<1>1. Apart(c) /\ UNCHANGED before /\ pc[c] \in Stages
  BY InCallMoves DEF InCall
<1>2. key[c] = None
  BY <1>1 DEF KeysInv, Stages
<1>3. ASSUME LookForKey(c) PROVE KeysInv'
  <2>1. UNCHANGED <<doc, key>> /\ pc[c] = "key" /\ ~Exists(c)
    BY <1>3 DEF LookForKey, KeysInv
  <2>2. CASE Answer(c, "replayed")
    <3>1. ~Paying(c)'
      BY <2>2, MovesItself DEF Answer, Paying, PayStages
    <3> QED BY <1>1, <1>2, <2>1, <3>1, SteadyKeys DEF Exists
  <2>3. CASE Unknown
    BY <1>1, <1>2, <2>1, <2>3, UnknownMeans, SteadyKeys DEF Exists
  <2> QED BY <1>3, <2>2, <2>3 DEF LookForKey
<1>4. ASSUME PlanBegins(c) PROVE KeysInv'
  <2>1. UNCHANGED <<doc, key>> /\ pc[c] = "plan" /\ ~Exists(c)
    BY <1>4 DEF PlanBegins, KeysInv
  <2>2. CASE Answer(c, "replayed")
    <3>1. ~Paying(c)'
      BY <2>2, MovesItself DEF Answer, Paying, PayStages
    <3> QED BY <1>1, <1>2, <2>1, <3>1, SteadyKeys DEF Exists
  <2>3. CASE Unknown
    BY <1>1, <1>2, <2>1, <2>3, UnknownMeans, SteadyKeys DEF Exists
  <2> QED BY <1>4, <2>2, <2>3 DEF PlanBegins
<1>5. ASSUME PlanTouches(c) PROVE KeysInv'
  <2>1. UNCHANGED <<doc, key>> /\ Paying(c) /\ ~Exists(c)
    BY <1>5 DEF PlanTouches, KeysInv, Paying, PayStages
  <2> QED BY <1>1, <1>2, <2>1, SteadyKeys DEF Exists
<1>6. ASSUME InsertPayment(c) PROVE KeysInv'
  <2>1. UNCHANGED key /\ Paying(c) /\ pc'[c] = "store"
    BY <1>6, MovesOnly DEF InsertPayment, Paying, PayStages
  <2>2. \A i \in Callers \ {c} : doc'[i] = doc[i]
    BY <1>6 DEF InsertPayment, Docs, Typed, TypeOK
  <2> QED BY <1>1, <1>2, <2>1, <2>2, SteadyKeys DEF Exists
<1>7. ASSUME NEW a \in {"recorded", "posted"}, pc'[c] = a, key' = [key EXCEPT ![c] = "fresh"],
             \A i \in Callers \ {c} : doc'[i] = doc[i], Paying(c)
      PROVE  KeysInv'
  <2>1. key'[c] = "fresh" /\ \A d \in Callers \ {c} : key'[d] = key[d]
    BY <1>7 DEF Typed, TypeOK
  <2>2. Known \subseteq Known' /\ (AnExpired => AnExpired')
    BY <1>2, <2>1, NamesAssumption DEF Known, AnExpired
  <2>3. ASSUME NEW d \in Callers \ {c}
        PROVE  pc'[d] = pc[d] /\ (Paying(d)' <=> Paying(d)) /\ (Exists(d)' <=> Exists(d))
    BY <1>1, <1>7 DEF Apart, Paying, Exists
  <2> QED BY <1>1, <1>7, <2>1, <2>2, <2>3 DEF KeysInv
<1>8. ASSUME StoreKey(c) PROVE KeysInv'
  BY <1>7, <1>8, MovesItself DEF StoreKey, Answer, Paying, PayStages
<1>9. ASSUME PlanCommits(c) PROVE KeysInv'
  <2>1. \A i \in Callers \ {c} : doc'[i] = doc[i]
    BY <1>9 DEF PlanCommits, Docs, Typed, TypeOK
  <2> QED BY <1>7, <1>9, <2>1, MovesItself DEF PlanCommits, Answer, Paying, PayStages
<1> QED BY <1>3, <1>4, <1>5, <1>6, <1>8, <1>9 DEF Pay

LEMMA CheckKeys == ASSUME Typed, KeysInv, NEW c \in Callers, CheckPosting(c) PROVE KeysInv'
<1>1. Apart(c) /\ UNCHANGED <<key, before, doc>>
  BY InCallMoves DEF InCall, Amend, CheckPosting
<1>2. key[c] = None /\ ~Exists(c)
  BY DEF KeysInv, CheckPosting
<1>3. Paying(c)' => Paying(c)
  <2>1. pc'[c] = "refused" \/ pc'[c] = mem[c].what
    BY MovesItself DEF CheckPosting, Answer
  <2>2. mem[c].what \in {"insert", "correct", "remove"}
    BY DEF CheckPosting, Typed, Place
  <2> QED BY <2>1, <2>2 DEF CheckPosting, Paying, PayStages
<1> QED BY <1>1, <1>2, <1>3, SteadyKeys DEF Exists

LEMMA BeginKeys == ASSUME Typed, KeysInv, NEW c \in Callers, Begin(c) PROVE KeysInv'
<1>1. UNCHANGED <<doc, key>> /\ pc[c] = "idle" /\ before' = [before EXCEPT ![c] = Known]
  BY DEF Begin
<1>2. Apart(c) /\ ~Paying(c)'
  <2>1. \E s \in {"key", "plan", "agreed", "original", "target", "preview", "mark",
                  "link", "period"} : \E m : Go(c, s, m)
    BY DEF Begin
  <2> QED BY <2>1, MovesItself DEF Paying, PayStages
<1>3. ~Exists(c)' /\ key'[c] = None /\ Known' = Known /\ AnExpired' = AnExpired
  BY <1>1 DEF KeysInv, Exists, Known, AnExpired
<1>4. before'[c] = Known /\ \A d \in Callers \ {c} : before'[d] = before[d]
  BY <1>1 DEF Typed, TypeOK
<1>5. ASSUME NEW d \in Callers \ {c}
      PROVE  pc'[d] = pc[d] /\ (Paying(d)' <=> Paying(d)) /\ (Exists(d)' <=> Exists(d))
  BY <1>1, <1>2 DEF Apart, Paying, Exists
<1> QED BY <1>1, <1>2, <1>3, <1>4, <1>5 DEF KeysInv

LEMMA FailKeys == ASSUME Typed, KeysInv, NEW c \in Callers, Fail(c) PROVE KeysInv'
<1>1. pc'[c] = "failed" /\ Apart(c) /\ UNCHANGED <<doc, key, before>>
  BY MovesItself DEF Fail, Answer
<1>2. key[c] = None /\ ~Paying(c)'
  BY <1>1 DEF Fail, Stages, KeysInv, Paying, PayStages
<1> QED BY <1>1, <1>2, SteadyKeys DEF Exists

\* Settling a link neither makes a payment nor takes one away.
LEMMA SettleExists ==
    ASSUME Typed, NEW c \in Callers, Settle(c)
    PROVE  \A i \in Callers : doc'[i] = doc[i]
<1>1. link[c] \in Links
  BY SettledDocuments
<1> QED BY <1>1, NamesAssumption DEF Settle, Links, Docs

LEMMA NextKeys == Typed /\ KeysInv /\ [Next]_vars => KeysInv'
<1> SUFFICES ASSUME Typed, KeysInv, [Next]_vars PROVE KeysInv'
  OBVIOUS
<1>1. CASE UNCHANGED vars
  BY <1>1 DEF vars, KeysInv, Exists, Known, Paying, AnExpired
<1>2. ASSUME NEW c \in Callers, KeyExpires(c) PROVE KeysInv'
  <2>1. key'[c] = "expired" /\ key[c] = "fresh" /\ UNCHANGED <<doc, pc, mem, before>>
    BY <1>2 DEF KeyExpires, Typed, TypeOK, ghosts
  <2>2. \A d \in Callers \ {c} : key'[d] = key[d]
    BY <1>2 DEF KeyExpires, Typed, TypeOK
  <2>3. Known \subseteq Known' /\ AnExpired'
    BY <2>1, <2>2, NamesAssumption DEF Known, AnExpired
  <2>4. \A d \in Callers : (Exists(d)' <=> Exists(d)) /\ (Paying(d)' <=> Paying(d))
    BY <2>1 DEF Exists, Paying
  <2> QED BY <2>1, <2>2, <2>3, <2>4, NamesAssumption DEF KeysInv
<1>3. ASSUME NEW c \in Callers, Settle(c) PROVE KeysInv'
  BY <1>3, SettleExists DEF Settle, KeysInv, Exists, Known, Paying, AnExpired
<1> QED BY <1>1, <1>2, <1>3, BeginKeys, FailKeys, PayKeys, QuietAmend, CheckKeys,
           QuietBilling, QuietKeys DEF Next

\* A payment that goes through although its key was stored before the call began
\* shows that a key is older than a day.
THEOREM Resubmissions == Spec => []ResubmissionsAreRecognised
<1>1. Typed /\ KeysInv => ResubmissionsAreRecognised
  BY DEF KeysInv, ResubmissionsAreRecognised, AnExpired
<1>2. Init => Typed /\ KeysInv
  BY InitTyped, InitKeys
<1>3. (Typed /\ KeysInv) /\ [Next]_vars => (Typed /\ KeysInv)'
  BY NextTyped, NextKeys
<1> QED BY <1>1, <1>2, <1>3, PTL DEF Spec
-----------------------------------------------------------------------------
(***************************************************************************)
(* Plans.  Where there is a period, a plan whose snapshot is still that of *)
(* the period has seen it open, and either no plan has posted or a key has *)
(* expired; one that has written to it keeps it so until it commits.       *)
(***************************************************************************)
Clear == (\A d \in Callers : pc[d] # "posted") \/ AnExpired

PlansInv ==
    /\ \A c \in Callers :
          /\ pc[c] = "posted" => key[c] # None
          /\ pc[c] = "touch" =>
                /\ status # "none" /\ mem[c].count <= version
                /\ mem[c].count = version => status = "open" /\ Clear
          /\ holder = c <=> pc[c] = "commit" /\ status # "none"
          /\ holder = c => status = "open" /\ Clear
    /\ PlannedPaymentsAreSingle

LEMMA InitPlans == Init => PlansInv
BY NamesAssumption DEF Init, PlansInv, PlannedPaymentsAreSingle, Docs

LEMMA KeyStored ==
    ASSUME Typed, KeysInv, NEW c \in Callers, pc[c] \in Stages,
           key' = [key EXCEPT ![c] = "fresh"]
    PROVE  /\ AnExpired => AnExpired'
           /\ \A i \in Callers : key[i] # None => key'[i] # None
           /\ key'[c] # None
<1>1. key[c] = None
  BY DEF KeysInv, Stages
<1>2. key'[c] = "fresh" /\ \A i \in Callers \ {c} : key'[i] = key[i]
  BY DEF Typed, TypeOK
<1> QED BY <1>1, <1>2, NamesAssumption DEF AnExpired

\* A step of a call that is not a plan, or of a plan that gives up.
LEMMA SteadyPlans ==
    ASSUME Typed, PlansInv, NEW c \in Callers, Apart(c), pc[c] \in Stages \cup {"idle"},
           pc'[c] \notin {"posted", "touch", "commit"},
           AnExpired => AnExpired',
           \A i \in Callers : key[i] # None => key'[i] # None,
           holder' = IF holder = c THEN None ELSE holder,
           status' = status /\ version' = version
    PROVE  PlansInv'
<1>1. pc[c] # "posted" /\ pc'[c] # "posted"
  BY DEF Stages
<1>2. Clear => Clear'
  BY <1>1 DEF Clear, Apart
<1>3. PlannedPaymentsAreSingle'
  BY <1>1 DEF PlansInv, PlannedPaymentsAreSingle, AnExpired, Apart
<1>4. holder' # c /\ \A d \in Callers \ {c} : holder' = d <=> holder = d
  BY NamesAssumption DEF Docs
<1>5. ASSUME NEW d \in Callers \ {c}
      PROVE  /\ pc'[d] = "posted" => key'[d] # None
             /\ pc'[d] = "touch" =>
                   /\ status' # "none" /\ mem'[d].count <= version'
                   /\ mem'[d].count = version' => status' = "open" /\ Clear'
             /\ holder' = d <=> pc'[d] = "commit" /\ status' # "none"
             /\ holder' = d => status' = "open" /\ Clear'
  <2>1. pc'[d] = pc[d] /\ mem'[d] = mem[d]
    BY DEF Apart
  <2> QED BY <1>2, <1>4, <2>1 DEF PlansInv
<1> QED BY <1>1, <1>3, <1>4, <1>5 DEF PlansInv

LEMMA QuietPlans ==
    ASSUME Typed, KeysInv, PlansInv, NEW c \in Callers, Quiet(c),
           status' = status, version' = version
    PROVE  PlansInv'
<1>1. holder # c
  BY DEF Quiet, PlansInv, PayStages
<1> QED BY <1>1, SteadyPlans DEF Quiet, PayStages, AnExpired

LEMMA StatusPlans ==
    ASSUME Typed, KeysInv, PlansInv, NEW c \in Callers, ChangeStatus(c) PROVE PlansInv'
<1>1. Quiet(c) /\ Apart(c) /\ UNCHANGED <<key, holder>>
  BY QuietBilling DEF Govern, Quiet
<1>2. CASE UNCHANGED <<status, version>>
  BY <1>1, <1>2, QuietPlans
<1>3. CASE version' = version + 1
  <2>1. status # "none" /\ status' # "none" /\ \A d \in Callers : pc[d] # "commit"
    <3>1. version \in Nat
      BY DEF Typed, TypeOK
    <3>2. status \notin {"none", Wanted(c)} /\ status' = Wanted(c) /\ holder = None
      BY <1>3, <3>1 DEF ChangeStatus
    <3>3. \A d \in Callers : holder # d
      BY <3>2, NamesAssumption DEF Docs
    <3>4. status # "none" /\ \A d \in Callers : pc[d] # "commit"
      BY <3>2, <3>3 DEF PlansInv
    <3>5. status' # "none"
      BY <3>2 DEF Wanted
    <3> QED BY <3>4, <3>5
  <2>2. pc'[c] \notin {"posted", "touch", "commit"} /\ pc[c] # "posted"
    BY <1>1 DEF Quiet, PayStages, ChangeStatus
  <2>3. PlannedPaymentsAreSingle'
    BY <1>1, <2>1, <2>2 DEF PlansInv, PlannedPaymentsAreSingle, Apart
  <2>4. ASSUME NEW d \in Callers, pc'[d] = "touch" PROVE mem'[d].count < version'
    <3>1. pc[d] = "touch" /\ mem'[d] = mem[d]
      BY <1>1, <2>2, <2>4 DEF Apart
    <3>2. mem[d].count \in Nat /\ version \in Nat /\ mem[d].count <= version
      BY <3>1, Memory DEF PlansInv, Typed, TypeOK
    <3> QED BY <1>3, <3>1, <3>2
  <2>5. \A d \in Callers : pc'[d] # "commit" /\ holder' # d
    BY <1>1, <2>1, <2>2 DEF Apart, PlansInv
  <2>6. \A d \in Callers : pc'[d] = "posted" => key'[d] # None
    BY <1>1, <2>2 DEF Apart, PlansInv
  <2>7. \A d \in Callers : mem'[d].count < version' =>
            mem'[d].count <= version' /\ mem'[d].count # version'
    <3> SUFFICES ASSUME NEW d \in Callers PROVE mem'[d].count \in Nat /\ version' \in Nat
      OBVIOUS
    <3>1. Typed'
      BY ChangeStatusTyped
    <3> QED BY <3>1 DEF Typed, TypeOK, Memories
  <2> QED BY <2>1, <2>3, <2>4, <2>5, <2>6, <2>7 DEF PlansInv
<1> QED BY <1>2, <1>3 DEF ChangeStatus

LEMMA PayPlans ==
    ASSUME Typed, KeysInv, PlansInv, NEW c \in Callers, Pay(c) PROVE PlansInv'
<1>1. Apart(c) /\ pc[c] \in Stages
  BY InCallMoves DEF InCall
<1>2. ASSUME LookForKey(c) PROVE PlansInv'
  <2>1. pc'[c] \in {"replayed", "posting"} /\ holder # c
    BY <1>2, MovesItself DEF LookForKey, Answer, PlansInv
  <2> QED BY <1>1, <1>2, <2>1, SteadyPlans DEF LookForKey, period, AnExpired
<1>3. ASSUME InsertPayment(c) PROVE PlansInv'
  <2>1. pc'[c] = "store" /\ holder # c
    BY <1>3, MovesOnly DEF InsertPayment, PlansInv
  <2> QED BY <1>1, <1>3, <2>1, SteadyPlans DEF InsertPayment, period, AnExpired
<1>4. ASSUME StoreKey(c) PROVE PlansInv'
  <2>1. pc'[c] = "recorded" /\ holder # c
    BY <1>4, MovesItself DEF StoreKey, Answer, PlansInv
  <2> QED BY <1>1, <1>4, <2>1, KeyStored, SteadyPlans DEF StoreKey, period
<1>5. ASSUME PlanBegins(c) PROVE PlansInv'
  <2>1. holder # c /\ UNCHANGED <<key, period>>
    BY <1>5 DEF PlanBegins, PlansInv
  <2>2. CASE pc'[c] \in {"replayed", "refused"}
    BY <1>1, <2>1, <2>2, SteadyPlans DEF period, AnExpired
  <2>3. CASE Unknown /\ status = "open" /\ Go(c, "touch", [mem[c] EXCEPT !.count = version])
    <3>1. pc'[c] = "touch" /\ mem'[c].count = version /\ version \in Nat
      BY <2>3, MovesItself, Memory DEF Memories, Typed, TypeOK
    <3>2. Clear
      BY <2>3 DEF Unknown, Known, Clear, AnExpired, PlansInv
    <3>3. Clear'
      BY <1>1, <2>1, <3>1, <3>2 DEF Clear, AnExpired, Apart
    <3>4. PlannedPaymentsAreSingle'
      BY <1>1, <2>1, <3>1 DEF PlansInv, PlannedPaymentsAreSingle, Apart, period
    <3>5. ASSUME NEW d \in Callers \ {c} PROVE pc'[d] = pc[d] /\ mem'[d] = mem[d]
      BY <1>1 DEF Apart
    <3> QED BY <2>1, <2>3, <3>1, <3>3, <3>4, <3>5 DEF PlansInv, period
  <2>4. CASE status = "none" /\ Go(c, "commit", mem[c])
    <3>1. pc'[c] = "commit" /\ mem'[c] = mem[c]
      BY <2>4, MovesItself
    <3>2. \A d \in Callers : pc[d] # "touch" /\ holder # d
      BY <2>4 DEF PlansInv
    <3>3. \A d \in Callers : pc'[d] # "touch" /\ holder' # d
      BY <1>1, <2>1, <3>1, <3>2 DEF Apart, period
    <3>4. status' = "none" /\ \A d \in Callers : pc'[d] = "posted" => key'[d] # None
      BY <1>1, <2>1, <2>4, <3>1 DEF Apart, PlansInv, period
    <3> QED BY <3>3, <3>4 DEF PlansInv, PlannedPaymentsAreSingle
  <2> QED BY <1>5, <2>2, <2>3, <2>4, MovesItself DEF PlanBegins, Answer
<1>6. ASSUME PlanTouches(c) PROVE PlansInv'
  <2>1. UNCHANGED <<key, status, version>> /\ pc[c] = "touch" /\ holder # c
    BY <1>6 DEF PlanTouches, PlansInv
  <2>2. CASE ~Touchable(c)
    <3>1. pc'[c] = "conflict" /\ holder' = holder
      BY <1>6, <2>2, MovesItself DEF PlanTouches, Answer
    <3> QED BY <1>1, <2>1, <3>1, SteadyPlans DEF AnExpired
  <2>3. CASE Touchable(c)
    <3>1. pc'[c] = "commit" /\ holder' = c /\ holder = None
      BY <1>6, <2>3, MovesOnly DEF PlanTouches, Touchable
    <3>2. status = "open" /\ Clear
      BY <2>1, <2>3 DEF Touchable, PlansInv
    <3>3. Clear' /\ (Clear => Clear')
      BY <1>1, <2>1, <3>1, <3>2 DEF Clear, AnExpired, Apart
    <3>4. PlannedPaymentsAreSingle'
      BY <1>1, <2>1, <3>1 DEF PlansInv, PlannedPaymentsAreSingle, Apart
    <3>5. ASSUME NEW d \in Callers \ {c}
          PROVE  pc'[d] = pc[d] /\ mem'[d] = mem[d] /\ pc[d] # "commit"
      BY <1>1, <3>1, <3>2, NamesAssumption DEF Apart, PlansInv, Docs
    <3> QED BY <2>1, <3>1, <3>2, <3>3, <3>4, <3>5 DEF PlansInv
  <2> QED BY <2>2, <2>3
<1>7. ASSUME PlanCommits(c) PROVE PlansInv'
  <2>1. /\ pc'[c] = "posted" /\ pc[c] = "commit"
        /\ status' = status /\ key' = [key EXCEPT ![c] = "fresh"]
    BY <1>7, MovesItself DEF PlanCommits, Answer
  <2>2. /\ AnExpired => AnExpired'
        /\ \A i \in Callers : key[i] # None => key'[i] # None
        /\ key'[c] # None
    BY <1>1, <2>1, KeyStored
  <2>3. CASE status = "none"
    <3>1. holder' = holder /\ \A d \in Callers : pc[d] # "touch" /\ holder # d
      BY <1>7, <2>3 DEF PlanCommits, PlansInv
    <3>2. \A d \in Callers : pc'[d] # "touch" /\ holder' # d
      BY <1>1, <2>1, <3>1 DEF Apart
    <3>3. status' = "none" /\ \A d \in Callers : pc'[d] = "posted" => key'[d] # None
      BY <1>1, <2>1, <2>2, <2>3 DEF Apart, PlansInv
    <3> QED BY <3>2, <3>3 DEF PlansInv, PlannedPaymentsAreSingle
  <2>4. CASE status # "none"
    <3>1. Clear /\ holder = c
      BY <2>1, <2>4 DEF PlansInv
    <3>2. version' = version + 1 /\ holder' = None
      BY <1>7, <3>1 DEF PlanCommits
    <3>3. PlannedPaymentsAreSingle'
      BY <1>1, <2>2, <3>1 DEF Clear, PlannedPaymentsAreSingle, Apart, AnExpired
    <3>4. ASSUME NEW d \in Callers \ {c}
          PROVE  pc'[d] = pc[d] /\ mem'[d] = mem[d] /\ pc[d] # "commit" /\ holder' # d
      BY <1>1, <2>4, <3>1, <3>2, NamesAssumption DEF Apart, PlansInv, Docs
    <3>5. ASSUME NEW d \in Callers, pc'[d] = "touch"
          PROVE  mem'[d].count <= version' /\ mem'[d].count # version'
      <4>1. d # c /\ pc[d] = "touch" /\ mem'[d] = mem[d]
        BY <2>1, <3>4, <3>5
      <4>2. mem[d].count \in Nat /\ version \in Nat /\ mem[d].count <= version
        BY <4>1, Memory DEF PlansInv, Typed, TypeOK
      <4> QED BY <3>2, <4>1, <4>2
    <3>6. holder' # c
      BY <3>2, NamesAssumption DEF Docs
    <3> QED BY <2>1, <2>2, <2>4, <3>3, <3>4, <3>5, <3>6 DEF PlansInv
  <2> QED BY <2>3, <2>4
<1> QED BY <1>2, <1>3, <1>4, <1>5, <1>6, <1>7 DEF Pay

LEMMA NextPlans == Typed /\ KeysInv /\ PlansInv /\ [Next]_vars => PlansInv'
<1> SUFFICES ASSUME Typed, KeysInv, PlansInv, [Next]_vars PROVE PlansInv'
  OBVIOUS
<1>1. CASE UNCHANGED vars
  BY <1>1 DEF vars, period, PlansInv, Clear, AnExpired, PlannedPaymentsAreSingle
<1>2. ASSUME NEW c \in Callers, Begin(c) PROVE PlansInv'
  <2>1. \E s \in {"key", "plan", "agreed", "original", "target", "preview", "mark",
                  "link", "period"} : \E m : Go(c, s, m)
    BY <1>2 DEF Begin
  <2>2. Apart(c) /\ pc'[c] \notin {"posted", "touch", "commit"} /\ holder # c
    BY <1>2, <2>1, MovesItself DEF Begin, PlansInv
  <2> QED BY <1>2, <2>2, SteadyPlans DEF Begin, period, AnExpired
<1>3. ASSUME NEW c \in Callers, Fail(c) PROVE PlansInv'
  <2>1. pc'[c] = "failed" /\ Apart(c)
    BY <1>3, MovesItself DEF Fail, Answer
  <2> QED BY <1>3, <2>1, SteadyPlans DEF Fail, AnExpired
<1>4. ASSUME NEW c \in Callers, CheckPosting(c) PROVE PlansInv'
  <2>1. Apart(c) /\ UNCHANGED <<key, period>> /\ pc[c] = "posting" /\ holder # c
    BY <1>4, InCallMoves DEF InCall, Amend, CheckPosting, PlansInv
  <2>2. pc'[c] = "refused" \/ pc'[c] = mem[c].what
    BY <1>4, MovesItself DEF CheckPosting, Answer
  <2>3. mem[c].what \in {"insert", "correct", "remove"}
    BY <1>4 DEF CheckPosting, Typed, Place
  <2> QED BY <2>1, <2>2, <2>3, SteadyPlans DEF Stages, period, AnExpired
<1>5. ASSUME NEW c \in Callers, KeyExpires(c) PROVE PlansInv'
  <2>1. key'[c] = "expired" /\ UNCHANGED <<pc, mem, period>>
    BY <1>5 DEF KeyExpires, Typed, TypeOK
  <2>2. \A d \in Callers \ {c} : key'[d] = key[d]
    BY <1>5 DEF KeyExpires, Typed, TypeOK
  <2>3. AnExpired' /\ \A d \in Callers : key[d] # None => key'[d] # None
    BY <2>1, <2>2, NamesAssumption DEF AnExpired
  <2> QED BY <2>1, <2>3 DEF PlansInv, Clear, AnExpired, PlannedPaymentsAreSingle, period
<1>6. ASSUME NEW c \in Callers, Settle(c) PROVE PlansInv'
  BY <1>6 DEF Settle, period, PlansInv, Clear, AnExpired, PlannedPaymentsAreSingle
<1>7. ASSUME NEW c \in Callers, Amend(c), ~CheckPosting(c) PROVE PlansInv'
  <2>1. UNCHANGED period
    BY <1>7 DEF Amend, ReadOriginal, Correct, ReadTarget, Remove
  <2> QED BY <1>7, <2>1, QuietAmend, QuietPlans DEF period
<1>8. ASSUME NEW c \in Callers, Bill(c) \/ Mark(c) \/ Link(c) \/ ReadPeriod(c) PROVE PlansInv'
  <2>1. UNCHANGED period
    BY <1>8 DEF Bill, Mark, Link, ReadChild, ReadExisting, Raise, Stamp, SetMark,
       ReadAgreed, Agree, ReadStudent, ReadBills, Rework, ReadOwed, IssueLink, ReadPeriod
  <2> QED BY <1>8, <2>1, QuietBilling, QuietPlans DEF period, Govern
<1> QED BY <1>1, <1>2, <1>3, <1>4, <1>5, <1>6, <1>7, <1>8, PayPlans, StatusPlans
        DEF Next, Govern

LEMMA PlansHold == Spec => [](Typed /\ KeysInv /\ PlansInv)
<1>1. Init => Typed /\ KeysInv /\ PlansInv
  BY InitTyped, InitKeys, InitPlans
<1>2. (Typed /\ KeysInv /\ PlansInv) /\ [Next]_vars => (Typed /\ KeysInv /\ PlansInv)'
  BY NextTyped, NextKeys, NextPlans
<1> QED BY <1>1, <1>2, PTL DEF Spec

\* Where there is a period, of two plans that record the same payment only one
\* does, unless a key is older than a day.
THEOREM PlannedOnce == Spec => []PlannedPaymentsAreSingle
<1>1. PlansInv => PlannedPaymentsAreSingle
  BY DEF PlansInv
<1> QED BY <1>1, PlansHold, PTL

\* No plan posts into a period that has been closed, however late it commits.
THEOREM PlannedInTime == Spec => PlansPostIntoOpenPeriods
<1>1. PlansInv /\ [Next]_vars =>
        [\A c \in Callers : pc[c] = "commit" /\ pc'[c] = "posted" => status # "closed"]_vars
  BY DEF PlansInv
<1> QED BY <1>1, PlansHold, PTL DEF Spec, PlansPostIntoOpenPeriods
-----------------------------------------------------------------------------
(***************************************************************************)
(* Corrections.  A payment nobody has corrected is as it was recorded, any *)
(* other holds the snapshot of that; and what a correction has read of a   *)
(* payment gives it the same snapshot, however long ago it was read.       *)
(***************************************************************************)
Amending == {"original", "posting", "correct", "target", "remove"}

Recorded(d) == Figures(Payment(d.paid))

Genuine(d) ==
    IF d.corrections = 0 THEN d.original = None /\ Figures(d) = Recorded(d)
    ELSE d.original = Recorded(d)

\* What a call that amends a document holds of it.
Sound(c) ==
    /\ pc[c] \in Amending => \A i, j \in mem[c].on : i = j
    /\ (pc[c] = "correct" \/ (pc[c] = "posting" /\ mem[c].what = "correct")) =>
          \A i \in mem[c].on \cap Callers :
              IF mem[c].saw.original = None THEN Figures(mem[c].saw) = Recorded(doc[i])
              ELSE doc[i].original = Recorded(doc[i])

CorrectionsInv == \A c \in Callers : Sound(c) /\ (Exists(c) => Genuine(doc[c]))

LEMMA InitCorrections == Init => CorrectionsInv
<1> SUFFICES ASSUME Init, NEW c \in Callers PROVE Sound(c) /\ ~Exists(c)
  BY DEF CorrectionsInv
<1>1. pc[c] = "idle"
  BY DEF Init
<1>2. KeysInv
  BY InitKeys
<1> QED BY <1>1, <1>2 DEF Sound, Amending, KeysInv

\* A step that leaves payments genuine, and their snapshots as they are.
LEMMA SteadyCorrections ==
    ASSUME Typed, CorrectionsInv, NEW c \in Callers, Apart(c), Sound(c)',
           \A i \in Callers :
              /\ Exists(i)' => Genuine(doc[i])'
              /\ Exists(i) => doc'[i].paid = doc[i].paid
              /\ Exists(i) /\ doc[i].original = Recorded(doc[i]) =>
                    doc'[i].original = Recorded(doc[i])
    PROVE  CorrectionsInv'
<1>1. ASSUME NEW d \in Callers \ {c} PROVE Sound(d)'
  <2>1. pc'[d] = pc[d] /\ mem'[d] = mem[d]
    BY DEF Apart
  <2>2. Sound(d) /\ Place(d)
    BY DEF CorrectionsInv, Typed
  <2>3. CASE pc[d] \in {"correct", "posting"}
    <3>1. \A i \in mem[d].on : Exists(i)
      BY <2>2, <2>3 DEF Place
    <3>2. \A i \in mem[d].on \cap Callers : Recorded(doc'[i]) = Recorded(doc[i])
      BY <3>1 DEF Recorded
    <3> QED BY <2>1, <2>2, <3>1, <3>2 DEF Sound
  <2>4. CASE pc[d] \notin {"correct", "posting"}
    BY <2>1, <2>2, <2>4 DEF Sound
  <2> QED BY <2>3, <2>4
<1> QED BY <1>1 DEF CorrectionsInv

LEMMA SamePayments ==
    ASSUME Typed, CorrectionsInv, NEW c \in Callers, Apart(c), Sound(c)',
           \A i \in Callers : doc'[i] = doc[i]
    PROVE  CorrectionsInv'
<1>1. \A i \in Callers : Exists(i)' => Genuine(doc[i])'
  BY DEF CorrectionsInv, Exists, Genuine, Recorded, Figures
<1> QED BY <1>1, SteadyCorrections

LEMMA UnsoundOnly == ASSUME NEW c, pc'[c] \notin Amending PROVE Sound(c)'
BY DEF Sound, Amending

\* The payment itself is genuine; nobody had recorded one under that name.
LEMMA RecordCorrections ==
    ASSUME Typed, KeysInv, CorrectionsInv, NEW c \in Callers, Apart(c),
           NEW paid \in Tendered, doc' = [doc EXCEPT ![c] = Payment(paid)],
           pc[c] \in {"insert", "commit"},
           pc'[c] \notin Amending
    PROVE  CorrectionsInv'
<1>1. doc'[c] = Payment(paid) /\ ~Exists(c) /\ \A i \in Callers \ {c} : doc'[i] = doc[i]
  BY DEF Typed, TypeOK, Docs, KeysInv
<1>2. Genuine(doc[c])'
  <2>1. Payment(paid).paid = paid
    BY Amounts
  <2>2. Payment(paid).corrections = 0 /\ Payment(paid).original = None
    BY DEF Payment
  <2> QED BY <1>1, <2>1, <2>2 DEF Genuine, Recorded
<1>3. \A i \in Callers \ {c} : Exists(i)' => Genuine(doc[i])'
  BY <1>1 DEF CorrectionsInv, Exists, Genuine, Recorded, Figures
<1> QED BY <1>1, <1>2, <1>3, UnsoundOnly, SteadyCorrections

LEMMA PayCorrections ==
    ASSUME Typed, KeysInv, CorrectionsInv, NEW c \in Callers, Pay(c) PROVE CorrectionsInv'
<1>1. Apart(c)
  BY InCallMoves DEF InCall
<1>2. ASSUME LookForKey(c) PROVE CorrectionsInv'
  <2>1. UNCHANGED doc
    BY <1>2 DEF LookForKey
  <2>2. CASE Answer(c, "replayed")
    BY <1>1, <2>1, <2>2, MovesItself, UnsoundOnly, SamePayments DEF Answer, Amending
  <2>3. CASE Go(c, "posting", [mem[c] EXCEPT !.what = "insert"])
    <3>1. mem[c].on = {}
      BY <1>2 DEF LookForKey, Typed, Place
    <3>2. mem'[c].on = {}
      BY <2>3, <3>1, MovesItself, Memory DEF Memories
    <3>3. Sound(c)'
      BY <3>2 DEF Sound
    <3> QED BY <1>1, <2>1, <3>3, SamePayments
  <2> QED BY <1>2, <2>2, <2>3 DEF LookForKey
<1>3. ASSUME InsertPayment(c) PROVE CorrectionsInv'
  <2>1. (\E paid \in Tendered : doc' = [doc EXCEPT ![c] = Payment(paid)])
        /\ pc[c] = "insert" /\ pc'[c] = "store"
    BY <1>3, MovesOnly DEF InsertPayment
  <2> QED BY <1>1, <2>1, RecordCorrections DEF Amending
<1>4. ASSUME PlanCommits(c) PROVE CorrectionsInv'
  <2>1. (\E paid \in Tendered : doc' = [doc EXCEPT ![c] = Payment(paid)])
        /\ pc[c] = "commit" /\ pc'[c] = "posted"
    BY <1>4, MovesItself DEF PlanCommits, Answer
  <2> QED BY <1>1, <2>1, RecordCorrections DEF Amending
<1>5. ASSUME StoreKey(c) \/ PlanBegins(c) PROVE CorrectionsInv'
  <2>1. UNCHANGED doc /\ pc'[c] \in {"recorded", "replayed", "touch", "commit", "refused"}
    BY <1>5, MovesItself DEF StoreKey, PlanBegins, Answer
  <2> QED BY <1>1, <2>1, UnsoundOnly, SamePayments DEF Amending
<1>6. ASSUME PlanTouches(c) PROVE CorrectionsInv'
  <2>1. UNCHANGED doc /\ pc'[c] \in {"commit", "conflict"}
    BY <1>6, MovesItself, MovesOnly DEF PlanTouches, Answer
  <2> QED BY <1>1, <2>1, UnsoundOnly, SamePayments DEF Amending
<1> QED BY <1>2, <1>3, <1>4, <1>5, <1>6 DEF Pay

\* What a correction writes over a payment is genuine.
LEMMA CorrectCorrections ==
    ASSUME Typed, CorrectionsInv, NEW c \in Callers, Correct(c) PROVE CorrectionsInv'
<1>1. PICK i \in mem[c].on, new \in Documents :
          /\ i \in Docs /\ doc[i] \in Documents /\ Exists(i)
          /\ doc' = [doc EXCEPT ![i] = new]
          /\ new.paid = doc[i].paid /\ new.corrections # 0
          /\ new.original = Snapshot(doc[i], mem[c].saw)
  BY CorrectWrites
<1>2. doc'[i] = new /\ \A j \in Callers \ {i} : doc'[j] = doc[j]
  BY <1>1 DEF Typed, TypeOK, Docs
<1>3. Apart(c) /\ Sound(c)'
  BY MovesItself, UnsoundOnly DEF Correct, Answer, Amending
<1>4. Recorded(doc'[i]) = Recorded(doc[i])
  BY <1>1, <1>2 DEF Recorded
<1>5. i \in Callers => Snapshot(doc[i], mem[c].saw) = Recorded(doc[i])
  BY <1>1 DEF Correct, CorrectionsInv, Sound, Snapshot
<1>6. \A j \in Callers \ {i} : Exists(j)' => Genuine(doc[j])'
  BY <1>2 DEF CorrectionsInv, Exists, Genuine, Recorded, Figures
<1>7. i \in Callers => Genuine(doc[i])'
  BY <1>1, <1>2, <1>4, <1>5 DEF Genuine
<1> QED BY <1>1, <1>2, <1>3, <1>4, <1>5, <1>6, <1>7, SteadyCorrections

LEMMA RemoveCorrections ==
    ASSUME Typed, CorrectionsInv, NEW c \in Callers, Remove(c) PROVE CorrectionsInv'
<1>1. PICK i \in mem[c].on : doc' = [doc EXCEPT ![i].deleted = TRUE]
  BY DEF Remove
<1>2. i \in Docs /\ doc[i] \in Documents /\ Exists(i)
  BY Memory DEF Remove, Typed, Place
<1>3. Apart(c) /\ Sound(c)'
  BY MovesItself, UnsoundOnly DEF Remove, Answer, Amending
<1>4. \A j \in Callers \ {i} : doc'[j] = doc[j]
  BY <1>1 DEF Typed, TypeOK, Docs
<1>5. /\ doc'[i].amount = doc[i].amount /\ doc'[i].status = doc[i].status
      /\ doc'[i].paid = doc[i].paid
      /\ doc'[i].corrections = doc[i].corrections /\ doc'[i].original = doc[i].original
  BY <1>1, <1>2 DEF Documents, Typed, TypeOK
<1>6. \A j \in Callers : Exists(j)' => Genuine(doc[j])'
  BY <1>2, <1>4, <1>5 DEF CorrectionsInv, Exists, Genuine, Recorded, Figures
<1>7. Recorded(doc'[i]) = Recorded(doc[i])
  BY <1>5 DEF Recorded
<1> QED BY <1>3, <1>4, <1>5, <1>6, <1>7, SteadyCorrections

\* What a correction reads of a genuine payment gives it a genuine snapshot.
LEMMA AmendCorrections ==
    ASSUME Typed, CorrectionsInv, NEW c \in Callers, Amend(c) PROVE CorrectionsInv'
<1>1. Apart(c)
  BY InCallMoves DEF InCall
<1>2. ASSUME CheckPosting(c) PROVE CorrectionsInv'
  <2>1. UNCHANGED doc /\ pc[c] = "posting" /\ Sound(c)
    BY <1>2 DEF CheckPosting, CorrectionsInv
  <2>2. CASE Answer(c, "refused")
    BY <1>1, <2>1, <2>2, MovesItself, UnsoundOnly, SamePayments DEF Answer, Amending
  <2>3. CASE Go(c, mem[c].what, mem[c])
    <3>1. pc'[c] = mem[c].what /\ mem'[c] = mem[c]
      BY <2>3, MovesItself
    <3>2. mem[c].what \in {"insert", "correct", "remove"}
      BY <2>1 DEF Typed, Place
    <3>3. Sound(c)'
      BY <2>1, <3>1, <3>2 DEF Sound, Amending
    <3> QED BY <1>1, <2>1, <3>3, SamePayments
  <2> QED BY <1>2, <2>2, <2>3 DEF CheckPosting
<1>3. ASSUME ReadOriginal(c) PROVE CorrectionsInv'
  <2>1. PICK i \in mem[c].on : Go(c, "posting", [mem[c] EXCEPT !.saw = doc[i]])
    BY <1>3 DEF ReadOriginal
  <2>2. UNCHANGED doc /\ Exists(i) /\ \A j \in mem[c].on : j = i
    BY <1>3 DEF ReadOriginal, CorrectionsInv, Sound, Amending, Typed, Place
  <2>3. mem'[c].saw = doc[i] /\ mem'[c].on = mem[c].on
    BY <2>1, MovesItself, Memory DEF Memories
  <2>4. i \in Callers => Genuine(doc[i])
    BY <2>2 DEF CorrectionsInv
  <2>5. Recorded(doc[i]) # None
    BY NamesAssumption, AmountsAssumption DEF Recorded, Figures, Payment, Snapshots, Statuses
  <2>6. Sound(c)'
    BY <2>2, <2>3, <2>4, <2>5 DEF Sound, Genuine
  <2> QED BY <1>1, <2>2, <2>6, SamePayments
<1>4. ASSUME ReadTarget(c) PROVE CorrectionsInv'
  <2>1. UNCHANGED doc /\ \A i, j \in mem[c].on : i = j
    BY <1>4 DEF ReadTarget, CorrectionsInv, Sound, Amending
  <2>2. CASE Answer(c, "missing")
    BY <1>1, <2>1, <2>2, MovesItself, UnsoundOnly, SamePayments DEF Answer, Amending
  <2>3. CASE Go(c, "posting", mem[c])
    <3>1. pc'[c] = "posting" /\ mem'[c] = mem[c] /\ mem[c].what = "remove"
      BY <1>4, <2>3, MovesItself DEF ReadTarget, Typed, Place
    <3>2. Sound(c)'
      BY <2>1, <3>1 DEF Sound
    <3> QED BY <1>1, <2>1, <3>2, SamePayments
  <2> QED BY <1>4, <2>2, <2>3 DEF ReadTarget
<1> QED BY <1>2, <1>3, <1>4, CorrectCorrections, RemoveCorrections DEF Amend

LEMMA BeginCorrections ==
    ASSUME Typed, CorrectionsInv, NEW c \in Callers, Begin(c) PROVE CorrectionsInv'
<1>1. UNCHANGED doc
  BY DEF Begin
<1>2. CASE \E i \in {d \in Docs : Exists(d)} : Go(c, "original", Wants({i}, "correct", FALSE))
  <2>1. PICK i \in Docs : Go(c, "original", Wants({i}, "correct", FALSE))
    BY <1>2
  <2>2. {i} \in SUBSET Docs
    BY <2>1
  <2>3. Wants({i}, "correct", FALSE).on = {i}
    BY <2>2, PlainWantsMemory
  <2>4. Apart(c) /\ pc'[c] = "original" /\ mem'[c].on = {i}
    BY <2>1, <2>3, MovesItself
  <2>5. Sound(c)'
    BY <2>4 DEF Sound
  <2> QED BY <1>1, <2>4, <2>5, SamePayments
<1>3. CASE \E i \in {d \in Docs : Exists(d)} : Go(c, "target", Wants({i}, "remove", FALSE))
  <2>1. PICK i \in Docs : Go(c, "target", Wants({i}, "remove", FALSE))
    BY <1>3
  <2>2. {i} \in SUBSET Docs
    BY <2>1
  <2>3. Wants({i}, "remove", FALSE).on = {i}
    BY <2>2, PlainWantsMemory
  <2>4. Apart(c) /\ pc'[c] = "target" /\ mem'[c].on = {i}
    BY <2>1, <2>3, MovesItself
  <2>5. Sound(c)'
    BY <2>4 DEF Sound
  <2> QED BY <1>1, <2>4, <2>5, SamePayments
<1>4. CASE \E s \in {"key", "plan", "agreed", "preview", "mark", "link", "period"} :
              \E m : Go(c, s, m)
  BY <1>1, <1>4, MovesItself, UnsoundOnly, SamePayments DEF Amending
<1> QED BY <1>2, <1>3, <1>4 DEF Begin

LEMMA NextCorrections ==
    Typed /\ KeysInv /\ CorrectionsInv /\ [Next]_vars => CorrectionsInv'
<1> SUFFICES ASSUME Typed, KeysInv, CorrectionsInv, [Next]_vars PROVE CorrectionsInv'
  OBVIOUS
<1>1. CASE UNCHANGED vars
  BY <1>1 DEF vars, CorrectionsInv, Sound, Exists, Genuine, Figures
<1>2. ASSUME NEW c \in Callers, Bill(c) \/ Mark(c) \/ Link(c) \/ Govern(c)
      PROVE  CorrectionsInv'
  BY <1>2, BillingKeepsPayments, QuietBilling, UnsoundOnly, SamePayments
  DEF Quiet, Amending
<1>3. ASSUME NEW c \in Callers, Fail(c) PROVE CorrectionsInv'
  BY <1>3, MovesItself, UnsoundOnly, SamePayments DEF Fail, Answer, Amending
<1>4. ASSUME NEW c \in Callers, KeyExpires(c) \/ Settle(c) PROVE CorrectionsInv'
  <2>1. (\A i \in Callers : doc'[i] = doc[i]) /\ UNCHANGED <<pc, mem>>
    BY <1>4, SettleExists DEF KeyExpires, Settle
  <2>2. Apart(c) /\ Sound(c)'
    BY <2>1 DEF Apart, Sound, CorrectionsInv
  <2> QED BY <2>1, <2>2, SamePayments
<1> QED BY <1>1, <1>2, <1>3, <1>4, BeginCorrections, PayCorrections, AmendCorrections
        DEF Next

\* However many corrections of a payment overlap, the snapshot it keeps is of what
\* was recorded at first.
THEOREM Snapshotted == Spec => []SnapshotIsOriginal
<1>1. CorrectionsInv => SnapshotIsOriginal
  BY DEF CorrectionsInv, Genuine, Recorded, SnapshotIsOriginal
<1>2. Init => Typed /\ KeysInv /\ CorrectionsInv
  BY InitTyped, InitKeys, InitCorrections
<1>3. (Typed /\ KeysInv /\ CorrectionsInv) /\ [Next]_vars
        => (Typed /\ KeysInv /\ CorrectionsInv)'
  BY NextTyped, NextKeys, NextCorrections
<1> QED BY <1>1, <1>2, <1>3, PTL DEF Spec
-----------------------------------------------------------------------------
(***************************************************************************)
(* While no two calls overlap.  Then the bills a call is to work out again *)
(* still have no money against them.                                       *)
(***************************************************************************)
Unspoilt(c) == pc[c] = "rework" => \A r \in mem[c].work : doc[r.bill].paid = 0

AloneInv ==
    alone =>
        /\ \A c, d \in Callers : pc[c] \in Stages /\ pc[d] \in Stages => c = d
        /\ \A c \in Callers : Unspoilt(c)

LEMMA InitAlone == Init => AloneInv
<1> SUFFICES ASSUME Init PROVE AloneInv
  OBVIOUS
<1>1. \A c \in Callers : pc[c] = "idle"
  BY DEF Init
<1> QED BY <1>1 DEF AloneInv, Unspoilt, Stages

\* A step within a call, if the call is in order after it.
LEMMA SteadyAlone ==
    ASSUME Typed, AloneInv, NEW c \in Callers, InCall(c), alone => Unspoilt(c)'
    PROVE  AloneInv'
<1>1. pc[c] \in Stages /\ Apart(c) /\ alone' = alone
  BY InCallMoves
<1> SUFFICES ASSUME alone PROVE AloneInv'
  BY <1>1 DEF AloneInv
<1>2. \A d \in Callers \ {c} : pc'[d] \notin Stages
  BY <1>1 DEF AloneInv, Apart
<1>3. \A d \in Callers \ {c} : Unspoilt(d)'
  BY <1>2 DEF Unspoilt, Stages
<1> QED BY <1>2, <1>3 DEF AloneInv

\* The steps that write to a bill.
LEMMA BillsWritten ==
    ASSUME Typed, NEW c \in Callers, InCall(c),
           ~Correct(c), ~Remove(c), ~Raise(c), ~Rework(c)
    PROVE  \A b \in Bills : doc'[b] = doc[b]
<1>1. CASE InsertPayment(c) \/ PlanCommits(c)
  <2>1. PICK paid \in Tendered : doc' = [doc EXCEPT ![c] = Payment(paid)]
    BY <1>1 DEF InsertPayment, PlanCommits
  <2>2. \A b \in Bills : b # c /\ b \in Docs
    BY NamesAssumption DEF Docs
  <2> QED BY <2>1, <2>2 DEF Typed, TypeOK
<1>2. CASE ~InsertPayment(c) /\ ~PlanCommits(c)
  BY <1>2 DEF InCall, Pay, Amend, Bill, Mark, Link, Govern, LookForKey, StoreKey,
     PlanBegins, PlanTouches, CheckPosting, ReadOriginal, ReadTarget, ReadChild,
     ReadExisting, Stamp, SetMark, ReadAgreed, Agree, ReadStudent, ReadBills,
     ReadOwed, IssueLink, ReadPeriod, ChangeStatus
<1> QED BY <1>1, <1>2

\* Only what has read the bills reworks them.
LEMMA NotReworking ==
    ASSUME Typed, NEW c \in Callers, InCall(c), ~ReadBills(c), ~Rework(c)
    PROVE  pc'[c] # "rework"
<1>1. ASSUME Pay(c) \/ Link(c) \/ Govern(c) PROVE pc'[c] # "rework"
  BY <1>1, MovesItself, MovesOnly
  DEF Pay, Link, Govern, LookForKey, InsertPayment, StoreKey, PlanBegins, PlanTouches,
      PlanCommits, ReadOwed, IssueLink, ReadPeriod, ChangeStatus, Answer
<1>2. ASSUME CheckPosting(c) PROVE pc'[c] # "rework"
  <2>1. mem[c].what \in {"insert", "correct", "remove"}
    BY <1>2 DEF CheckPosting, Typed, Place
  <2> QED BY <1>2, <2>1, MovesItself DEF CheckPosting, Answer
<1>3. ASSUME Amend(c), ~CheckPosting(c) PROVE pc'[c] # "rework"
  <2>1. \/ Answer(c, "done") \/ Answer(c, "missing")
        \/ \E m : Go(c, "posting", m)
    BY <1>3 DEF Amend, ReadOriginal, Correct, ReadTarget, Remove
  <2> QED BY <2>1, MovesItself DEF Answer
<1>4. ASSUME Bill(c) PROVE pc'[c] # "rework"
  <2>1. \/ \E rows : Work(c, "raise", rows)
        \/ Move(c, "stamp") /\ UNCHANGED mem
        \/ \E s \in {"done", "existing"} : \E m : Go(c, s, m)
    BY <1>4 DEF Bill, ReadChild, ReadExisting, Raise, Stamp, Answer
  <2>2. ASSUME \E rows : Work(c, "raise", rows) PROVE pc'[c] # "rework"
    <3>1. PICK rows : Work(c, "raise", rows)
      BY <2>2
    <3>2. pc'[c] = "done" \/ pc'[c] = "raise"
      BY <3>1, WorkMoves
    <3> QED BY <3>2
  <2> QED BY <2>1, <2>2, MovesItself, MovesOnly
<1>5. ASSUME Mark(c) PROVE pc'[c] # "rework"
  BY <1>5, MovesItself, MovesOnly DEF Mark, SetMark, ReadAgreed, Agree, ReadStudent, Answer
<1> QED BY <1>1, <1>2, <1>3, <1>4, <1>5 DEF InCall

LEMMA WorkUnspoilt ==
    ASSUME Typed, NEW c \in Callers, NEW rows, Work(c, "rework", rows),
           \A r \in rows : doc'[r.bill].paid = 0
    PROVE  Unspoilt(c)'
<1>1. CASE pc'[c] = "done"
  BY <1>1 DEF Unspoilt
<1>2. CASE pc'[c] = "rework" /\ mem'[c] = [mem[c] EXCEPT !.work = rows]
  <2>1. mem'[c].work = rows
    BY <1>2, Memory DEF Memories
  <2> QED BY <1>2, <2>1 DEF Unspoilt
<1> QED BY <1>1, <1>2, WorkMoves

LEMMA ReadBillsAlone == ASSUME Typed, AloneInv, NEW c \in Callers, ReadBills(c) PROVE AloneInv'
<1> DEFINE rows == Changes(mem[c].marks)
<1>1. Work(c, "rework", rows) /\ UNCHANGED doc
  BY DEF ReadBills
<1>2. \A b \in Bills : Touched(b) => doc[b].paid = 0
  BY DEF Touched
<1>3. ASSUME NEW r \in rows PROVE doc[r.bill].paid = 0
  <2>1. \E b \in Bills : Touched(b) /\ r.bill = b
    <3>1. CASE mem[c].marks.rte
      BY <1>3, <3>1 DEF Changes
    <3>2. CASE ~mem[c].marks.rte
      BY <1>3, <3>2 DEF Changes
    <3> QED BY <3>1, <3>2
  <2> QED BY <2>1, <1>2
<1> HIDE DEF rows
<1>4. Unspoilt(c)'
  BY <1>1, <1>3, WorkUnspoilt
<1> QED BY <1>4, SteadyAlone DEF InCall, Mark

LEMMA ReworkAlone == ASSUME Typed, AloneInv, NEW c \in Callers, Rework(c) PROVE AloneInv'
<1>1. PICK r \in mem[c].work :
          /\ doc' = [doc EXCEPT ![r.bill] =
                IF r.cancel THEN Cancelled(doc[r.bill])
                ELSE Reworked(doc[r.bill], mem[c].marks, r.bill)]
          /\ Work(c, "rework", mem[c].work \ {r})
  BY DEF Rework
<1>2. ASSUME alone PROVE Unspoilt(c)'
  <2>1. \A n \in mem[c].work : doc[n.bill].paid = 0 /\ n.bill \in Bills /\ Exists(n.bill)
    BY <1>2 DEF Rework, AloneInv, Unspoilt, Typed, Place, OldRows
  <2>2. doc[r.bill] \in Documents /\ r.bill \in Docs
    BY <2>1, Memory DEF Docs
  <2>3. /\ doc'[r.bill] = IF r.cancel THEN Cancelled(doc[r.bill])
                          ELSE Reworked(doc[r.bill], mem[c].marks, r.bill)
        /\ \A b \in Bills \ {r.bill} : doc'[b] = doc[b]
    BY <1>1, <2>2 DEF Typed, TypeOK, Docs
  <2>4. doc'[r.bill].paid = 0
    BY <2>1, <2>2, <2>3 DEF Cancelled, Reworked, Documents
  <2>5. \A n \in mem[c].work : doc'[n.bill].paid = 0
    BY <2>1, <2>3, <2>4
  <2> QED BY <1>1, <2>5, WorkUnspoilt
<1> QED BY <1>2, SteadyAlone DEF InCall, Mark

LEMMA NextAlone == Typed /\ AloneInv /\ [Next]_vars => AloneInv'
<1> SUFFICES ASSUME Typed, AloneInv, [Next]_vars PROVE AloneInv'
  OBVIOUS
<1>1. CASE UNCHANGED vars
  BY <1>1 DEF vars, AloneInv, Unspoilt
<1>2. ASSUME NEW c \in Callers, InCall(c), ~ReadBills(c), ~Rework(c) PROVE AloneInv'
  BY <1>2, NotReworking, SteadyAlone DEF Unspoilt
<1>3. ASSUME NEW c \in Callers, Begin(c) PROVE AloneInv'
  <2> SUFFICES ASSUME alone' PROVE AloneInv'
    BY DEF AloneInv
  <2>1. alone /\ Busy = {}
    BY <1>3 DEF Begin
  <2>2. \E s \in {"key", "plan", "agreed", "original", "target", "preview", "mark",
                  "link", "period"} : \E m : Go(c, s, m)
    BY <1>3 DEF Begin
  <2>3. Apart(c) /\ pc'[c] # "rework"
    BY <2>2, MovesItself
  <2>4. \A d \in Callers \ {c} : pc'[d] \notin Stages
    BY <2>1, <2>3 DEF Busy, Apart
  <2>5. \A d \in Callers : Unspoilt(d)'
    BY <2>3, <2>4 DEF Unspoilt, Stages
  <2> QED BY <2>4, <2>5 DEF AloneInv
<1>4. ASSUME NEW c \in Callers, Settle(c) PROVE AloneInv'
  <2> SUFFICES ASSUME alone' PROVE AloneInv'
    BY DEF AloneInv
  <2>1. Busy = {} /\ UNCHANGED pc
    BY <1>4 DEF Settle
  <2>2. \A d \in Callers : pc'[d] \notin Stages
    BY <2>1 DEF Busy
  <2>3. \A d \in Callers : Unspoilt(d)'
    BY <2>2 DEF Unspoilt, Stages
  <2> QED BY <2>2, <2>3 DEF AloneInv
<1>5. ASSUME NEW c \in Callers, KeyExpires(c) \/ Fail(c) PROVE AloneInv'
  <2>1. CASE KeyExpires(c)
    BY <2>1 DEF KeyExpires, ghosts, AloneInv, Unspoilt
  <2>2. CASE Fail(c)
    BY <2>2 DEF Fail, AloneInv
  <2> QED BY <1>5, <2>1, <2>2
<1> QED BY <1>1, <1>2, <1>3, <1>4, <1>5, ReadBillsAlone, ReworkAlone DEF Next, InCall

LEMMA AloneHolds == Spec => [](Typed /\ AloneInv)
<1>1. Init => Typed /\ AloneInv
  BY InitTyped, InitAlone
<1>2. (Typed /\ AloneInv) /\ [Next]_vars => (Typed /\ AloneInv)'
  BY NextTyped, NextAlone
<1> QED BY <1>1, <1>2, PTL DEF Spec

\* What a bill keeps once money is against it.
Stands(b) ==
    /\ doc'[b].amount = doc[b].amount
    /\ doc'[b].status = "cancelled" => doc[b].status = "cancelled"

\* A step keeps the amount of a bill that has money against it, and does not
\* cancel it, unless it corrects that bill.
LEMMA StepKeepsReceipts ==
    ASSUME Typed, AloneInv, [Next]_vars, alone', NEW b \in Bills,
           Exists(b), doc[b].paid > 0
    PROVE  Stands(b) \/ \E c \in Callers : pc[c] = "correct" /\ b \in mem[c].on
<1>1. doc[b] \in Documents /\ b \in Docs /\ doc[b].paid # 0
  <2>1. b \in Docs /\ doc[b] \in Documents
    BY DEF Typed, TypeOK, Docs, Exists
  <2>2. doc[b].paid \in Nat
    BY <2>1 DEF Documents
  <2> QED BY <2>1, <2>2
<1>2. ASSUME doc'[b] = doc[b] PROVE Stands(b)
  BY <1>2 DEF Stands
<1>3. ASSUME NEW c \in Callers, InCall(c)
      PROVE  Stands(b) \/ \E d \in Callers : pc[d] = "correct" /\ b \in mem[d].on
  <2>1. alone
    BY <1>3, InCallMoves
  <2>2. CASE Correct(c)
    <3>1. PICK i \in mem[c].on : \A j \in Docs \ {i} : doc'[j] = doc[j]
      BY <2>2, CorrectWrites DEF Typed, TypeOK
    <3>2. pc[c] = "correct"
      BY <2>2 DEF Correct
    <3>3. b # i => doc'[b] = doc[b]
      BY <1>1, <3>1
    <3> QED BY <1>2, <3>1, <3>2, <3>3
  <2>3. CASE Remove(c)
    <3>1. PICK i \in mem[c].on : doc' = [doc EXCEPT ![i].deleted = TRUE]
      BY <2>3 DEF Remove
    <3>2. doc'[b] = IF i = b THEN [doc[b] EXCEPT !.deleted = TRUE] ELSE doc[b]
      BY <1>1, <3>1 DEF Typed, TypeOK
    <3> QED BY <1>1, <3>2 DEF Stands, Documents
  <2>4. CASE Raise(c)
    <3>1. PICK r \in mem[c].work : doc' = [doc EXCEPT ![r.bill] = Upserted(r)]
      BY <2>4 DEF Raise
    <3>2. doc'[b] = doc[b]
      BY <1>1, <3>1 DEF Upserted, Exists, Typed, TypeOK
    <3> QED BY <1>2, <3>2
  <2>5. CASE Rework(c)
    <3>1. PICK r \in mem[c].work :
              doc' = [doc EXCEPT ![r.bill] =
                IF r.cancel THEN Cancelled(doc[r.bill])
                ELSE Reworked(doc[r.bill], mem[c].marks, r.bill)]
      BY <2>5 DEF Rework
    <3>2. r.bill # b
      BY <1>1, <2>1, <2>5, <3>1 DEF Rework, AloneInv, Unspoilt
    <3>3. doc'[b] = doc[b]
      BY <1>1, <3>1, <3>2 DEF Typed, TypeOK
    <3> QED BY <1>2, <3>3
  <2>6. CASE ~Correct(c) /\ ~Remove(c) /\ ~Raise(c) /\ ~Rework(c)
    BY <1>2, <1>3, <2>6, BillsWritten
  <2> QED BY <2>2, <2>3, <2>4, <2>5, <2>6
<1>4. ASSUME NEW c \in Callers, Settle(c) PROVE Stands(b)
  <2>1. doc'[b] = IF b \in link[c].bills
                  THEN [doc[b] EXCEPT !.status = "paid", !.paid = doc[b].amount]
                  ELSE doc[b]
    BY <1>1, <1>4 DEF Settle
  <2> QED BY <1>1, <2>1 DEF Stands, Documents
<1>5. ASSUME UNCHANGED vars \/ \E c \in Callers : Begin(c) \/ KeyExpires(c) \/ Fail(c)
      PROVE  doc'[b] = doc[b]
  BY <1>5 DEF vars, Begin, KeyExpires, Fail
<1> QED BY <1>2, <1>3, <1>4, <1>5 DEF Next, InCall

\* When no two calls overlap, what a family has paid on is not worked out again
\* and not cancelled: only a correction does either.
THEOREM ReceiptsKept == Spec => ReceiptsStand
<1>1. (Typed /\ AloneInv) /\ [Next]_vars =>
        [alone' => \A b \in Bills :
            Exists(b) /\ doc[b].paid > 0 =>
                \/ /\ doc'[b].amount = doc[b].amount
                   /\ doc'[b].status = "cancelled" => doc[b].status = "cancelled"
                \/ \E c \in Callers : pc[c] = "correct" /\ b \in mem[c].on]_vars
  BY StepKeepsReceipts DEF Stands
<1> QED BY <1>1, AloneHolds, PTL DEF Spec, ReceiptsStand
-----------------------------------------------------------------------------
(***************************************************************************)
(* While no two calls overlap, every open bill is what the marks make it,  *)
(* or the one call there is will still work it out again.  A recorded      *)
(* one-time amount goes into some bills and not into others, so what the   *)
(* marks make of a bill is one of two amounts, and a stamp changes neither.*)
(***************************************************************************)
Nets(m, b) == {Net([m EXCEPT !.agreed = a, !.applied = None], b) : a \in BOOLEAN}

Follows(m, b, d) ==
    d.status = "pending" /\ d.paid = 0 /\ d.corrections = 0 =>
        /\ ~m.rte
        /\ Computable(m, b) => d.amount \in Nets(m, b)

AtWork(c) ==
    /\ pc[c] \in {"existing", "bills", "rework"} => mem[c].marks = marks
    /\ pc[c] \in {"existing", "raise", "stamp"} => ~marks.rte
    /\ pc[c] \in {"raise", "stamp"} =>
          \A r \in mem[c].work : r.new.amount \in Nets(marks, r.bill)
    /\ pc[c] = "rework" => \A r \in mem[c].work : r.cancel <=> marks.rte

Awaited(c, b) ==
    \/ pc[c] \in {"student", "bills"}
    \/ pc[c] = "rework" /\ \E r \in mem[c].work : r.bill = b

FollowInv ==
    alone =>
        /\ \A c \in Callers : AtWork(c)
        /\ \A b \in Bills : Exists(b) =>
              Follows(marks, b, doc[b]) \/ \E c \in Callers : Awaited(c, b)

LEMMA NetInNets == ASSUME NEW m \in Marks, NEW b \in Bills PROVE Net(m, b) \in Nets(m, b)
<1> DEFINE n(a) == [m EXCEPT !.agreed = a, !.applied = None]
<1>1. \A a \in BOOLEAN : Recurring(n(a), b) = Recurring(m, b)
  BY DEF Recurring, Marks
<1>2. CASE m.agreed /\ m.applied \in {None, b}
  <2>1. OneTimeFor(n(TRUE), b) = OneTimeFor(m, b)
    BY <1>2 DEF OneTimeFor, Marks
  <2>2. Net(n(TRUE), b) = Net(m, b)
    BY <1>1, <2>1 DEF Net
  <2> QED BY <2>2 DEF Nets
<1>3. CASE ~(m.agreed /\ m.applied \in {None, b})
  <2>1. OneTimeFor(n(FALSE), b) = OneTimeFor(m, b)
    BY <1>3 DEF OneTimeFor, Marks
  <2>2. Net(n(FALSE), b) = Net(m, b)
    BY <1>1, <2>1 DEF Net
  <2> QED BY <2>2 DEF Nets
<1> QED BY <1>2, <1>3

LEMMA StampedNets ==
    ASSUME NEW m \in Marks, NEW q, NEW b
    PROVE  LET n == [m EXCEPT !.applied = q]
           IN  /\ Nets(n, b) = Nets(m, b)
               /\ n.rte = m.rte /\ (Computable(n, b) <=> Computable(m, b))
<1> DEFINE n == [m EXCEPT !.applied = q]
<1>1. \A a : [n EXCEPT !.agreed = a, !.applied = None] = [m EXCEPT !.agreed = a, !.applied = None]
  BY DEF Marks
<1>2. Nets(n, b) = Nets(m, b)
  BY <1>1 DEF Nets
<1>3. n.rte = m.rte /\ (Computable(n, b) <=> Computable(m, b))
  BY DEF Marks, Computable
<1> QED BY <1>2, <1>3

LEMMA InitFollow == Init => FollowInv
<1> SUFFICES ASSUME Init PROVE FollowInv
  OBVIOUS
<1>1. \A c \in Callers : pc[c] = "idle"
  BY DEF Init
<1>2. marks = NoMarks /\ NoMarks \in Marks /\ ~NoMarks.rte
  BY DEF Init, NoMarks, Marks
<1>3. ASSUME NEW b \in Bills, Exists(b) PROVE Follows(marks, b, doc[b])
  <2>1. PICK B \in SUBSET Bills :
            doc = [i \in Docs |-> IF i \in B THEN Raised(NoMarks, i) ELSE None]
    BY DEF Init
  <2>2. doc[b] = Raised(NoMarks, b)
    BY <1>3, <2>1 DEF Exists, Docs
  <2> QED BY <1>2, <2>2, NetInNets DEF Raised, Follows
<1> QED BY <1>1, <1>3 DEF FollowInv, AtWork

\* While a call is at work, no other is.
LEMMA OnlyAwaits ==
    ASSUME AloneInv, FollowInv, alone, NEW c \in Callers, pc[c] \in Stages
    PROVE  /\ \A d \in Callers \ {c} : pc[d] \notin Stages
           /\ AtWork(c)
           /\ \A b \in Bills : Exists(b) => Follows(marks, b, doc[b]) \/ Awaited(c, b)
<1>1. \A d \in Callers \ {c} : pc[d] \notin Stages
  BY DEF AloneInv
<1>2. \A d \in Callers \ {c}, b \in Bills : ~Awaited(d, b)
  BY <1>1 DEF Awaited, Stages
<1> QED BY <1>1, <1>2 DEF FollowInv

\* A step within a call, if the call and the bills are in order after it.
LEMMA SteadyFollow ==
    ASSUME Typed, AloneInv, FollowInv, NEW c \in Callers, InCall(c),
           alone => /\ AtWork(c)'
                    /\ \A b \in Bills :
                          Exists(b)' => Follows(marks, b, doc[b])' \/ Awaited(c, b)'
    PROVE  FollowInv'
<1>1. pc[c] \in Stages /\ Apart(c) /\ alone' = alone
  BY InCallMoves
<1> SUFFICES ASSUME alone PROVE FollowInv'
  BY <1>1 DEF FollowInv
<1>2. \A d \in Callers \ {c} : pc'[d] \notin Stages
  BY <1>1, OnlyAwaits DEF Apart
<1>3. \A d \in Callers \ {c} : AtWork(d)'
  BY <1>2 DEF AtWork, Stages
<1> QED BY <1>3 DEF FollowInv

\* A step that changes neither a bill nor a mark, of a call that has none to
\* work out again.
LEMMA PlainFollow ==
    ASSUME Typed, AloneInv, FollowInv, NEW c \in Callers, InCall(c),
           pc[c] \notin {"student", "bills", "rework"},
           pc'[c] \notin {"existing", "raise", "stamp", "bills", "rework"},
           UNCHANGED marks, \A b \in Bills : doc'[b] = doc[b]
    PROVE  FollowInv'
<1>1. AtWork(c)'
  BY DEF AtWork
<1>2. ASSUME alone, NEW b \in Bills, Exists(b)' PROVE Follows(marks, b, doc[b])'
  <2>1. Exists(b) /\ ~Awaited(c, b) /\ pc[c] \in Stages
    BY <1>2, InCallMoves DEF Exists, Awaited
  <2>2. Follows(marks, b, doc[b])
    BY <1>2, <2>1, OnlyAwaits
  <2> QED BY <2>2
<1> QED BY <1>1, <1>2, SteadyFollow

LEMMA PlainlyFollow ==
    ASSUME Typed, AloneInv, FollowInv, NEW c \in Callers, Pay(c) \/ Link(c) \/ Govern(c)
    PROVE  FollowInv'
<1>1. pc[c] \notin {"student", "bills", "rework"} /\ UNCHANGED marks
  BY DEF Pay, Link, Govern, LookForKey, InsertPayment, StoreKey, PlanBegins,
     PlanTouches, PlanCommits, ReadOwed, IssueLink, ReadPeriod, ChangeStatus
<1>2. ~Correct(c) /\ ~Remove(c) /\ ~Raise(c) /\ ~Rework(c)
  BY DEF Pay, Link, Govern, LookForKey, InsertPayment, StoreKey, PlanBegins,
     PlanTouches, PlanCommits, ReadOwed, IssueLink, ReadPeriod, ChangeStatus, Correct,
     Remove, Raise, Rework
<1>3. pc'[c] \notin {"existing", "raise", "stamp", "bills", "rework"}
  <2>1. CASE Pay(c)
    BY <2>1, MovesItself, MovesOnly
    DEF Pay, LookForKey, InsertPayment, StoreKey, PlanBegins, PlanTouches, PlanCommits, Answer
  <2>2. CASE Link(c) \/ Govern(c)
    BY <2>2, MovesItself
    DEF Link, Govern, ReadOwed, IssueLink, ReadPeriod, ChangeStatus, Answer
  <2> QED BY <2>1, <2>2
<1> QED BY <1>1, <1>2, <1>3, BillsWritten, PlainFollow DEF InCall

\* A corrected bill is nobody's to vouch for, and one that is removed stays what
\* it was.
LEMMA AmendFollow ==
    ASSUME Typed, AloneInv, FollowInv, NEW c \in Callers, Amend(c) PROVE FollowInv'
<1>1. pc[c] \notin {"student", "bills", "rework"} /\ UNCHANGED marks
  BY DEF Amend, CheckPosting, ReadOriginal, Correct, ReadTarget, Remove
<1>2. pc'[c] \notin {"existing", "raise", "stamp", "bills", "rework"}
  <2>1. CASE CheckPosting(c)
    <3>1. mem[c].what \in {"insert", "correct", "remove"}
      BY <2>1 DEF CheckPosting, Typed, Place
    <3> QED BY <2>1, <3>1, MovesItself DEF CheckPosting, Answer
  <2>2. CASE ~CheckPosting(c)
    <3>1. \/ Answer(c, "done") \/ Answer(c, "missing")
          \/ \E m : Go(c, "posting", m)
      BY <2>2 DEF Amend, ReadOriginal, Correct, ReadTarget, Remove
    <3> QED BY <3>1, MovesItself DEF Answer
  <2> QED BY <2>1, <2>2
<1>3. AtWork(c)'
  BY <1>2 DEF AtWork
<1>4. alone => \A b \in Bills : Exists(b) => Follows(marks, b, doc[b])
  <2>1. pc[c] \in Stages /\ \A b \in Bills : ~Awaited(c, b)
    BY <1>1, InCallMoves DEF InCall, Awaited
  <2> QED BY <2>1, OnlyAwaits
<1>5. ASSUME NEW i \in mem[c].on, i \in Docs, Exists(i), NEW d,
             doc' = [doc EXCEPT ![i] = d],
             \A b \in Bills : b = i => (Follows(marks, b, doc[i]) => Follows(marks, b, d))
      PROVE  FollowInv'
  <2>1. doc'[i] = d /\ \A b \in Bills \ {i} : doc'[b] = doc[b]
    BY <1>5 DEF Typed, TypeOK, Docs
  <2>2. alone => \A b \in Bills : Exists(b)' => Follows(marks, b, doc[b])'
    BY <1>1, <1>4, <1>5, <2>1 DEF Exists
  <2> QED BY <1>3, <2>2, SteadyFollow DEF InCall
<1>6. ASSUME Correct(c) PROVE FollowInv'
  <2>1. PICK i \in mem[c].on, new \in Documents :
            /\ i \in Docs /\ Exists(i)
            /\ doc' = [doc EXCEPT ![i] = new] /\ new.corrections # 0
    BY <1>6, CorrectWrites
  <2>2. \A b \in Bills : Follows(marks, b, new)
    BY <2>1 DEF Follows
  <2> QED BY <1>5, <2>1, <2>2
<1>7. ASSUME Remove(c) PROVE FollowInv'
  <2>1. PICK i \in mem[c].on : doc' = [doc EXCEPT ![i].deleted = TRUE]
    BY <1>7 DEF Remove
  <2>2. i \in Docs /\ doc[i] \in Documents /\ Exists(i)
    BY <1>7, Memory DEF Remove, Typed, Place
  <2> DEFINE d == [doc[i] EXCEPT !.deleted = TRUE]
  <2>3. /\ d.status = doc[i].status /\ d.paid = doc[i].paid
        /\ d.amount = doc[i].amount /\ d.corrections = doc[i].corrections
    BY <2>2 DEF Documents
  <2>4. \A b \in Bills : b = i => (Follows(marks, b, doc[i]) => Follows(marks, b, d))
    <3> HIDE DEF d
    <3> QED BY <2>3 DEF Follows
  <2> QED BY <1>5, <2>1, <2>2, <2>4
<1>8. ASSUME ~Correct(c), ~Remove(c) PROVE FollowInv'
  <2>1. ~Raise(c) /\ ~Rework(c)
    BY <1>8 DEF Amend, CheckPosting, ReadOriginal, ReadTarget, Raise, Rework
  <2> QED BY <1>1, <1>2, <1>8, <2>1, BillsWritten, PlainFollow DEF InCall
<1> QED BY <1>6, <1>7, <1>8

\* What a call has left to do is all it was about.
LEMMA WorkLeft ==
    ASSUME Typed, NEW c \in Callers, NEW s, NEW rows, Work(c, s, rows)
    PROVE  \/ pc'[c] = "done" /\ rows = {}
           \/ pc'[c] = s /\ mem'[c].work = rows /\ mem'[c].marks = mem[c].marks
<1>1. CASE rows = {}
  BY <1>1, MovesItself DEF Work, Answer
<1>2. CASE rows # {}
  <2>1. pc'[c] = s /\ mem'[c] = [mem[c] EXCEPT !.work = rows]
    BY <1>2, MovesItself DEF Work
  <2> QED BY <2>1, Memory DEF Memories
<1> QED BY <1>1, <1>2

\* What is raised is raised from the marks, and a stamp does not change what
\* they make of the bills still to raise.
LEMMA BillFollow == ASSUME Typed, AloneInv, FollowInv, NEW c \in Callers, Bill(c) PROVE FollowInv'
<1>1. pc[c] \in {"preview", "existing", "raise", "stamp"}
  BY DEF Bill, ReadChild, ReadExisting, Raise, Stamp
<1>2. alone => AtWork(c) /\ \A b \in Bills : Exists(b) => Follows(marks, b, doc[b])
  <2>1. pc[c] \in Stages /\ \A b \in Bills : ~Awaited(c, b)
    BY <1>1 DEF Stages, Awaited
  <2> QED BY <2>1, OnlyAwaits
<1>3. ASSUME ReadChild(c) PROVE FollowInv'
  <2>1. UNCHANGED <<marks, doc>>
    BY <1>3 DEF ReadChild
  <2>2. \/ pc'[c] = "done"
        \/ pc'[c] = "existing" /\ ~marks.rte /\ mem'[c].marks = marks
    BY <1>3, MovesItself, Memory DEF ReadChild, Answer, Memories
  <2>3. AtWork(c)'
    BY <2>1, <2>2 DEF AtWork
  <2>4. alone => \A b \in Bills : Exists(b)' => Follows(marks, b, doc[b])'
    BY <1>2, <2>1 DEF Exists
  <2> QED BY <2>3, <2>4, SteadyFollow DEF InCall
<1>4. ASSUME ReadExisting(c), alone PROVE FollowInv'
  <2> DEFINE rows == {[bill |-> q, new |-> Raised(mem[c].marks, q)] :
                         q \in {q \in mem[c].on : ~Exists(q)}}
  <2>1. Work(c, "raise", rows) /\ UNCHANGED <<marks, doc>> /\ pc[c] = "existing"
    BY <1>4 DEF ReadExisting
  <2>2. mem[c].marks = marks /\ ~marks.rte /\ marks \in Marks /\ mem[c].on \subseteq Bills
    BY <1>2, <1>4, <2>1 DEF AtWork, Typed, TypeOK, Place, Bills
  <2>3. \A r \in rows : r.new.amount \in Nets(marks, r.bill)
    BY <2>2, NetInNets DEF Raised
  <2> HIDE DEF rows
  <2>4. AtWork(c)'
    BY <2>1, <2>2, <2>3, WorkLeft DEF AtWork
  <2>5. \A b \in Bills : Exists(b)' => Follows(marks, b, doc[b])'
    BY <1>2, <1>4, <2>1 DEF Exists
  <2> QED BY <2>4, <2>5, SteadyFollow DEF InCall
<1>5. ASSUME Raise(c), alone PROVE FollowInv'
  <2>1. PICK r \in mem[c].work :
            /\ doc' = [doc EXCEPT ![r.bill] = Upserted(r)]
            /\ IF r.new.once THEN Move(c, "stamp") /\ UNCHANGED mem
               ELSE Work(c, "raise", mem[c].work \ {r})
    BY <1>5 DEF Raise
  <2>2. UNCHANGED marks /\ pc[c] = "raise"
    BY <1>5 DEF Raise
  <2>3. ~marks.rte /\ \A n \in mem[c].work : n.new.amount \in Nets(marks, n.bill)
    BY <1>2, <1>5, <2>2 DEF AtWork
  <2>4. AtWork(c)'
    <3>1. CASE r.new.once
      <4>1. pc'[c] = "stamp" /\ mem'[c] = mem[c]
        BY <2>1, <3>1, MovesOnly
      <4> QED BY <2>2, <2>3, <4>1 DEF AtWork
    <3>2. CASE ~r.new.once
      BY <2>1, <2>2, <2>3, <3>2, WorkLeft DEF AtWork
    <3> QED BY <3>1, <3>2
  <2>5. r.bill \in Docs
    BY <2>1, <2>2 DEF Typed, Place, NewRows, Docs, Bills
  <2>6. doc'[r.bill] = Upserted(r) /\ \A b \in Bills \ {r.bill} : doc'[b] = doc[b]
    BY <2>1, <2>5 DEF Typed, TypeOK, Docs
  <2>7. Follows(marks, r.bill, r.new)
    BY <2>1, <2>3 DEF Follows
  <2>8. \A b \in Bills : Exists(b)' => Follows(marks, b, doc[b])'
    BY <1>2, <1>5, <2>2, <2>6, <2>7 DEF Exists, Upserted
  <2> QED BY <2>4, <2>8, SteadyFollow DEF InCall
<1>6. ASSUME Stamp(c), alone PROVE FollowInv'
  <2>1. PICK r \in mem[c].work :
            /\ marks' = [marks EXCEPT !.applied = r.bill]
            /\ Work(c, "raise", mem[c].work \ {r})
    BY <1>6 DEF Stamp
  <2>2. UNCHANGED doc /\ pc[c] = "stamp" /\ marks \in Marks
    BY <1>6 DEF Stamp, Typed, TypeOK
  <2>3. /\ marks'.rte = marks.rte
        /\ \A b : Nets(marks', b) = Nets(marks, b)
        /\ \A b : Computable(marks', b) <=> Computable(marks, b)
    BY <2>1, <2>2, StampedNets
  <2>4. ~marks.rte /\ \A n \in mem[c].work : n.new.amount \in Nets(marks, n.bill)
    BY <1>2, <1>6, <2>2 DEF AtWork
  <2>5. AtWork(c)'
    <3>1. ~marks'.rte /\ \A n \in mem[c].work : n.new.amount \in Nets(marks', n.bill)
      BY <2>3, <2>4
    <3>2. pc'[c] = "done" \/ (pc'[c] = "raise" /\ mem'[c].work = mem[c].work \ {r})
      BY <2>1, WorkLeft
    <3> QED BY <3>1, <3>2 DEF AtWork, Nets
  <2>6. ASSUME NEW b \in Bills, Exists(b)' PROVE Follows(marks, b, doc[b])'
    <3>1. Follows(marks, b, doc[b])
      BY <1>2, <1>6, <2>2, <2>6 DEF Exists
    <3>2. Follows(marks', b, doc[b])
      BY <2>3, <3>1 DEF Follows
    <3> QED BY <2>2, <3>2
  <2> QED BY <2>5, <2>6, SteadyFollow DEF InCall
<1>7. ASSUME ~alone PROVE FollowInv'
  BY <1>7, InCallMoves DEF InCall, FollowInv
<1> QED BY <1>3, <1>4, <1>5, <1>6, <1>7 DEF Bill

\* What the call has read of the marks, and not found to change, follows them.
LEMMA Unchanging ==
    ASSUME Typed, NEW b \in Bills, Exists(b),
           \A r \in Changes(marks) : r.bill # b
    PROVE  Follows(marks, b, doc[b])
<1> SUFFICES ASSUME doc[b].status = "pending", doc[b].paid = 0
             PROVE  /\ ~marks.rte
                    /\ Computable(marks, b) => doc[b].amount \in Nets(marks, b)
  BY DEF Follows
<1>1. Touched(b) /\ marks \in Marks
  BY DEF Touched, Open, Typed, TypeOK
<1>2. ~marks.rte
  <2> SUFFICES ASSUME marks.rte PROVE FALSE
    OBVIOUS
  <2>1. [bill |-> b, cancel |-> TRUE] \in Changes(marks)
    BY <1>1 DEF Changes
  <2> QED BY <2>1
<1>3. ASSUME Computable(marks, b) PROVE doc[b].amount \in Nets(marks, b)
  <2>1. CASE doc[b].amount = Net(marks, b)
    BY <1>1, <2>1, NetInNets
  <2>2. CASE doc[b].amount # Net(marks, b)
    <3>1. [bill |-> b, cancel |-> FALSE] \in Changes(marks)
      BY <1>1, <1>2, <1>3, <2>2 DEF Changes
    <3> QED BY <3>1
  <2> QED BY <2>1, <2>2
<1> QED BY <1>2, <1>3

\* After the marks are changed the call will work every open bill out again, and
\* it does so before it ends.
LEMMA MarkFollow == ASSUME Typed, AloneInv, FollowInv, NEW c \in Callers, Mark(c) PROVE FollowInv'
<1>1. ASSUME SetMark(c) \/ Agree(c) PROVE FollowInv'
  <2>1. pc'[c] = "student"
    BY <1>1, MovesOnly DEF SetMark, Agree
  <2>2. AtWork(c)' /\ \A b \in Bills : Awaited(c, b)'
    BY <2>1 DEF AtWork, Awaited
  <2> QED BY <2>2, SteadyFollow DEF InCall
<1>2. ASSUME ReadAgreed(c) PROVE FollowInv'
  <2>1. pc'[c] \in {"conflict", "agree"} /\ pc[c] = "agreed" /\ UNCHANGED <<marks, doc>>
    BY <1>2, MovesItself DEF ReadAgreed, Answer
  <2> QED BY <2>1, PlainFollow DEF InCall
<1>3. ASSUME ReadStudent(c) PROVE FollowInv'
  <2>1. pc'[c] = "bills" /\ mem'[c].marks = marks /\ UNCHANGED marks
    BY <1>3, MovesItself, Memory DEF ReadStudent, Memories
  <2>2. AtWork(c)' /\ \A b \in Bills : Awaited(c, b)'
    BY <2>1 DEF AtWork, Awaited
  <2> QED BY <2>2, SteadyFollow DEF InCall
<1>4. ASSUME ReadBills(c), alone PROVE FollowInv'
  <2> DEFINE rows == Changes(marks)
  <2>1. UNCHANGED <<marks, doc>> /\ pc[c] = "bills" /\ pc[c] \in Stages
    BY <1>4 DEF ReadBills, Stages
  <2>2. mem[c].marks = marks
    BY <1>4, <2>1, OnlyAwaits DEF AtWork
  <2>3. Work(c, "rework", rows)
    BY <1>4, <2>2 DEF ReadBills
  <2>4. \A r \in rows : r.cancel <=> marks.rte
    BY DEF Changes
  <2>5. \A b \in Bills : Exists(b) => Follows(marks, b, doc[b]) \/ \E r \in rows : r.bill = b
    BY Unchanging
  <2> HIDE DEF rows
  <2>6. \/ pc'[c] = "done" /\ rows = {}
        \/ pc'[c] = "rework" /\ mem'[c].work = rows /\ mem'[c].marks = marks
    BY <2>2, <2>3, WorkLeft
  <2>7. AtWork(c)'
    BY <2>1, <2>4, <2>6 DEF AtWork
  <2>8. \A b \in Bills : Exists(b)' => Follows(marks, b, doc[b])' \/ Awaited(c, b)'
    BY <2>1, <2>5, <2>6 DEF Exists, Awaited
  <2> QED BY <2>7, <2>8, SteadyFollow DEF InCall
<1>5. ASSUME Rework(c), alone PROVE FollowInv'
  <2>1. PICK r \in mem[c].work :
            /\ doc' = [doc EXCEPT ![r.bill] =
                  IF r.cancel THEN Cancelled(doc[r.bill])
                  ELSE Reworked(doc[r.bill], mem[c].marks, r.bill)]
            /\ Work(c, "rework", mem[c].work \ {r})
    BY <1>5 DEF Rework
  <2>2. UNCHANGED marks /\ pc[c] = "rework" /\ pc[c] \in Stages
    BY <1>5 DEF Rework, Stages
  <2>3. /\ AtWork(c)
        /\ \A b \in Bills : Exists(b) => Follows(marks, b, doc[b]) \/ Awaited(c, b)
    BY <1>5, <2>2, OnlyAwaits
  <2>4. mem[c].marks = marks /\ marks \in Marks /\ \A n \in mem[c].work : n.cancel <=> marks.rte
    BY <2>2, <2>3 DEF AtWork, Typed, TypeOK
  <2>5. r.bill \in Bills /\ r.bill \in Docs /\ doc[r.bill] \in Documents
    <3>1. r.bill \in Bills /\ Exists(r.bill)
      BY <2>1, <2>2 DEF Typed, Place, OldRows
    <3> QED BY <3>1, Memory DEF Docs
  <2> DEFINE d == IF r.cancel THEN Cancelled(doc[r.bill])
                  ELSE Reworked(doc[r.bill], marks, r.bill)
  <2>6. doc'[r.bill] = d /\ \A b \in Bills \ {r.bill} : doc'[b] = doc[b]
    BY <2>1, <2>4, <2>5 DEF Typed, TypeOK, Docs
  <2>7. Follows(marks, r.bill, d)
    <3>1. CASE r.cancel
      <4>1. d.status = "cancelled"
        BY <2>5, <3>1 DEF Cancelled, Documents
      <4> HIDE DEF d
      <4> QED BY <4>1 DEF Follows
    <3>2. CASE ~r.cancel
      <4>1. d.amount = Net(marks, r.bill)
        BY <2>5, <3>2 DEF Reworked, Documents
      <4>2. ~marks.rte /\ Net(marks, r.bill) \in Nets(marks, r.bill)
        BY <2>1, <2>4, <2>5, <3>2, NetInNets
      <4> HIDE DEF d
      <4> QED BY <4>1, <4>2 DEF Follows
    <3> QED BY <3>1, <3>2
  <2> HIDE DEF d
  <2>8. \/ pc'[c] = "done" /\ mem[c].work \ {r} = {}
        \/ pc'[c] = "rework" /\ mem'[c].work = mem[c].work \ {r} /\ mem'[c].marks = marks
    BY <2>1, <2>4, WorkLeft
  <2>9. AtWork(c)'
    BY <2>2, <2>4, <2>8 DEF AtWork
  <2>10. ASSUME NEW b \in Bills, Exists(b)', b # r.bill
         PROVE  Follows(marks, b, doc[b])' \/ Awaited(c, b)'
    <3>1. Follows(marks, b, doc[b]) \/ \E n \in mem[c].work \ {r} : n.bill = b
      BY <2>2, <2>3, <2>6, <2>10 DEF Exists, Awaited
    <3> QED BY <2>2, <2>6, <2>8, <2>10, <3>1 DEF Awaited
  <2>11. Follows(marks, r.bill, doc[r.bill])'
    BY <2>2, <2>6, <2>7
  <2> QED BY <2>9, <2>10, <2>11, SteadyFollow DEF InCall
<1>6. ASSUME ~alone PROVE FollowInv'
  BY <1>6, InCallMoves DEF InCall, FollowInv
<1> QED BY <1>1, <1>2, <1>3, <1>4, <1>5, <1>6 DEF Mark

LEMMA NextFollow == Typed /\ AloneInv /\ FollowInv /\ [Next]_vars => FollowInv'
<1> SUFFICES ASSUME Typed, AloneInv, FollowInv, [Next]_vars PROVE FollowInv'
  OBVIOUS
<1>1. CASE UNCHANGED vars
  BY <1>1 DEF vars, FollowInv, AtWork, Awaited, Exists
<1>2. ASSUME alone, Busy = {}, alone' = TRUE,
             UNCHANGED marks,
             \A c \in Callers : pc'[c] \notin {"existing", "raise", "stamp", "bills", "rework"},
             \A b \in Bills : Exists(b)' =>
                 \/ doc'[b] = doc[b]
                 \/ doc'[b].status = "paid"
      PROVE  FollowInv'
  <2>1. \A c \in Callers, b \in Bills : ~Awaited(c, b)
    BY <1>2 DEF Busy, Awaited, Stages
  <2>2. \A b \in Bills : Exists(b) => Follows(marks, b, doc[b])
    BY <1>2, <2>1 DEF FollowInv
  <2>3. \A b \in Bills : Exists(b)' => Follows(marks, b, doc[b])'
    BY <1>2, <2>2 DEF Exists, Follows
  <2>4. \A c \in Callers : AtWork(c)'
    BY <1>2 DEF AtWork
  <2> QED BY <2>3, <2>4 DEF FollowInv
<1>3. ASSUME NEW c \in Callers, Begin(c) PROVE FollowInv'
  <2> SUFFICES ASSUME alone' PROVE FollowInv'
    BY DEF FollowInv
  <2>1. alone /\ Busy = {} /\ alone' = TRUE /\ UNCHANGED <<marks, doc>>
    BY <1>3 DEF Begin
  <2>2. \E s \in {"key", "plan", "agreed", "original", "target", "preview", "mark",
                  "link", "period"} : \E m : Go(c, s, m)
    BY <1>3 DEF Begin
  <2>3. Apart(c) /\ pc'[c] \notin {"existing", "raise", "stamp", "bills", "rework"}
    BY <2>2, MovesItself
  <2>4. \A d \in Callers : pc'[d] \notin {"existing", "raise", "stamp", "bills", "rework"}
    BY <2>1, <2>3 DEF Busy, Apart, Stages
  <2> QED BY <1>2, <2>1, <2>4
<1>4. ASSUME NEW c \in Callers, Settle(c) PROVE FollowInv'
  <2> SUFFICES ASSUME alone' PROVE FollowInv'
    BY DEF FollowInv
  <2>1. alone /\ Busy = {} /\ alone' = TRUE /\ UNCHANGED <<marks, pc>>
    BY <1>4 DEF Settle
  <2>2. \A d \in Callers : pc'[d] \notin {"existing", "raise", "stamp", "bills", "rework"}
    BY <2>1 DEF Busy, Stages
  <2>3. ASSUME NEW b \in Bills PROVE doc'[b] = doc[b] \/ doc'[b].status = "paid"
    <3>1. CASE b \in link[c].bills
      <4>1. doc[b] \in Documents
        BY <1>4, <3>1, Memory, SettledDocuments DEF Docs
      <4>2. doc'[b] = [doc[b] EXCEPT !.status = "paid", !.paid = doc[b].amount]
        BY <1>4, <3>1 DEF Settle, Docs
      <4> QED BY <4>1, <4>2 DEF Documents
    <3>2. CASE b \notin link[c].bills
      BY <1>4, <3>2 DEF Settle, Docs
    <3> QED BY <3>1, <3>2
  <2> QED BY <1>2, <2>1, <2>2, <2>3
<1>5. ASSUME NEW c \in Callers, KeyExpires(c) \/ Fail(c) PROVE FollowInv'
  <2>1. CASE KeyExpires(c)
    BY <2>1 DEF KeyExpires, ghosts, FollowInv, AtWork, Awaited, Exists
  <2>2. CASE Fail(c)
    BY <2>2 DEF Fail, FollowInv
  <2> QED BY <1>5, <2>1, <2>2
<1> QED BY <1>1, <1>3, <1>4, <1>5, PlainlyFollow, AmendFollow, BillFollow, MarkFollow DEF Next

\* When no two calls overlap, a call that ends leaves every open bill that nobody
\* corrected as the marks make it, and a child with a government place none.
THEOREM MarksFollowed == Spec => []BillsFollowMarks
<1>1. FollowInv => BillsFollowMarks
  <2> SUFFICES ASSUME FollowInv, alone, Busy = {}, NEW b \in Bills, Open(b), doc[b].paid = 0,
                      doc[b].corrections = 0
               PROVE  /\ ~marks.rte
                      /\ Computable(marks, b) => doc[b].amount \in Nets(marks, b)
    BY DEF BillsFollowMarks, Nets
  <2>1. \A c \in Callers : ~Awaited(c, b)
    BY DEF Busy, Awaited, Stages
  <2> QED BY <2>1 DEF FollowInv, Follows, Open
<1>2. Init => Typed /\ AloneInv /\ FollowInv
  BY InitTyped, InitAlone, InitFollow
<1>3. (Typed /\ AloneInv /\ FollowInv) /\ [Next]_vars
        => (Typed /\ AloneInv /\ FollowInv)'
  BY NextTyped, NextAlone, NextFollow
<1> QED BY <1>1, <1>2, <1>3, PTL DEF Spec
=============================================================================
