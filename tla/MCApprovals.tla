---------------------------- MODULE MCApprovals ----------------------------
(* Small instances of Approvals for TLC. *)
EXTENDS Approvals, TLC

CONSTANTS c1, c2

AllRequests == {"plain", "ownerOnly", "certificate", "letter", "notice",
                "staffLeave", "change", "change2", "shortLeave", "longLeave"}
AllKinds ==
    "plain" :> "general" @@ "ownerOnly" :> "general"
    @@ "certificate" :> "certificate" @@ "letter" :> "certificate"
    @@ "notice" :> "announcement"
    @@ "staffLeave" :> "staff_leave"
    @@ "change" :> "profile_change" @@ "change2" :> "profile_change"
    @@ "shortLeave" :> "student_leave" @@ "longLeave" :> "student_leave"
StrictOnes == {"ownerOnly", "certificate", "notice", "longLeave"}
SamePerson == [q \in AllRequests |->
    CASE q = "change" -> {"change2"} [] q = "change2" -> {"change"}
      [] q = "shortLeave" -> {"longLeave"} [] q = "longLeave" -> {"shortLeave"}
      [] OTHER -> {}]

\* Who may be met making which call.  The owner differs from the principal
\* for general requests only.
Deciders(q) ==
    CASE AllKinds[q] = "general" -> {"owner", "principal"}
      [] AllKinds[q] = "student_leave" -> {"teacher", "principal"}
      [] OTHER -> {"principal"}
Talked == {"plain", "staffLeave", "longLeave"}
Makes(a) ==
    CASE a.op = "raise" ->
           /\ a.own /\ a.via = "screen" /\ a.verdict = "agreed"
           /\ \/ a.role = "colleague"
              \/ a.role = "principal" /\ AllKinds[a.req] \in Moderated
      [] a.op = "decide" ->
           /\ a.role \in Deciders(a.req)
           /\ a.own => AllKinds[a.req] = "profile_change"
      [] a.op = "delete" ->
           /\ AllKinds[a.req] \in Moderated /\ a.role = "principal"
           /\ ~a.own /\ a.via = "screen" /\ a.verdict = "agreed"
      [] OTHER ->
           /\ a.req \in Talked /\ a.via = "queue" /\ a.verdict = "agreed"
           /\ a.role = (IF a.op = "reopen" THEN "principal" ELSE "colleague")
           /\ a.own <=> a.role = "colleague"
Ops == <<"raise", "decide", "delete", "reply", "bring_in", "reopen">>
AllCalls == {a \in [op : {Ops[i] : i \in DOMAIN Ops}, req : AllRequests, via : {"queue", "screen"},
                    role : {"owner", "principal", "teacher", "colleague"},
                    own : BOOLEAN, verdict : {"agreed", "refused"}] : Makes(a)}
TwoCallers == {c1, c2}

\* The callers meet: about one request, or about two rivals.  They are
\* interchangeable, so those who are named first make the calls of the
\* operation listed first.
Rank(c) == CHOOSE i \in DOMAIN Ops : Ops[i] = call[c].op
Meet ==
    /\ \A c, d \in Callers : Req(c) = Req(d) \/ Req(d) \in Rivals[Req(c)]
    /\ Rank(c1) <= Rank(c2)
MCInit == call \in [Callers -> Calls] /\ Meet /\ Init
MCSpec == MCInit /\ [][Next]_vars /\ \A c \in Callers : WF_vars(Proceed(c))
=============================================================================
