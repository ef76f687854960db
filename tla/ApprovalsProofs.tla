--------------------------- MODULE ApprovalsProofs ---------------------------
(***************************************************************************)
(* What approval requests guarantee, for any number of requests, rows,     *)
(* users and handlers: an operation that is performed for a request had    *)
(* its votes, none of them by the requester, acts on what was asked about  *)
(* and is performed once, and a request that is approved was performed.    *)
(* The two exceptions are renewals asked for while another is under way.   *)
(***************************************************************************)
EXTENDS Approvals, FiniteSetTheorems, TLAPS

Live(r) == request[r].status \notin {"unused", "deleted"}
Served(r) ==
    \E d \in done : /\ d.op = request[r].op /\ d.target = request[r].target
                    /\ d.serial >= request[r].serial
AtWork(h) == handler[h].pc \in {"stage", "perform"}
Holds(h) == ({handler[h].req} \cup handler[h].dups) \ {NoRequest}

\* Nobody votes on a request of their own, and what is open has no certificate yet.
Voted == \A r \in Requests : IsFiniteSet(request[r].votes) /\ request[r].requester \notin request[r].votes
Unlinked == \A r \in Requests : request[r].status \in {"unused", "pending", "deleted"} => ~request[r].linked

\* A request is about a row that had the serial it names, or an older one, and where the row
\* shows that the operation was performed, it was.  A row renewed since an open request was
\* made has a renewed_at later than the request, unless that was made during the renewal.
Asked ==
    \A r \in Requests : Live(r) =>
        LET q == request[r]  t == target[q.target] IN
        /\ q.target \in Targets
        /\ q.serial <= t.serial
        /\ q.op = "sign" => q.serial = 0
        /\ q.op # "sign" => t.state # "csr"
        /\ \/ q.op = "sign" /\ t.state \in {"cert", "revoked"}
           \/ q.op = "renew" /\ q.serial < t.serial
           \/ q.op = "revoke" /\ t.state = "revoked"
           => Served(r)
        /\ q.status = "approved" => Served(r) \/ "moot" \in q.amid
        /\ q.op = "renew" /\ r \in t.renewed_at => q.serial < t.serial
        /\ q.status = "pending" /\ q.op = "renew" /\ q.serial < t.serial =>
              r \in t.renewed_at \/ "perform" \in q.amid

\* A time is later than requests that were made.
Stamped == \A t \in Targets : \A r \in target[t].renewed_at : request[r].status # "unused"

\* What was performed shows on its row, so that it is not performed again.
Rows == \A t \in Targets : target[t].state = "csr" => target[t].serial = 0
Performed ==
    \A d \in done :
        LET t == target[d.target] IN
        /\ d.op = "sign" => t.state # "csr"
        /\ d.op = "renew" => d.serial < t.serial
        /\ d.op = "revoke" => t.state \in {"revoked", "gone"}

\* An approver who performs a request has it and its duplicates to themselves.
Approving(h) ==
    LET w == handler[h]  r == w.req  q == request[r] IN
    /\ r \in Requests /\ Pending(r) /\ q.op = w.op /\ q.target = w.target
    /\ q.op = "renew" => q.serial = w.serial \/ "perform" \in q.amid
    /\ w.user \in Users \ q.votes /\ w.user # q.requester
    /\ Cardinality(q.votes) + 1 >= q.required
    /\ r \notin w.dups
    /\ \A x \in w.dups : Pending(x) /\ request[x].op = w.op /\ request[x].target = w.target

\* What a handler has begun fits the row it has read; what it has committed is closed.
HeldBy(h) ==
    LET w == handler[h]  r == w.req IN
    /\ AtWork(h) =>
          /\ w.target \in Targets /\ w.op \in {"sign", "renew"}
          /\ w.op = "renew" => w.serial < MaxSerial /\ target[w.target].state # "csr"
          /\ IF r = NoRequest THEN w.dups = {} ELSE Approving(h)
    /\ w.pc = "moot" =>
          /\ w.target \in Targets /\ w.op \in {"sign", "renew"}
          /\ w.op = "sign" => target[w.target].state # "csr"
    /\ (w.pc = "moot" /\ r # NoRequest) \/ w.pc = "link" =>
          r \in Requests /\ \A x \in {r} \cup w.dups : request[x].status \notin {"unused", "pending"}
    /\ w.pc \in {"expire", "relock"} => r \in Requests /\ request[r].status # "unused"

\* now is later than every open request to renew t but those made during a renewal.
Fresh(t, now) ==
    \A x \in Requests :
        /\ x \in now => request[x].status # "unused"
        /\ Pending(x) /\ request[x].op = "renew" /\ request[x].target = t => x \in now \/ "perform" \in request[x].amid

\* What a handler has not seen was asked for while it was at work.
Sees(h) ==
    LET w == handler[h] IN
    /\ w.pc = "perform" /\ w.op = "renew" => Fresh(w.target, w.now)
    /\ w.pc = "moot" =>
          \A x \in Requests : Pending(x) /\ request[x].op = w.op /\ request[x].target = w.target =>
              Served(x) \/ "moot" \in request[x].amid

Held == \A h \in Handlers : HeldBy(h) /\ Sees(h)

Exclusive ==
    \A g, h \in Handlers : AtWork(g) /\ AtWork(h) /\ g # h => Holds(g) \cap Holds(h) = {}

ApprovalInv ==
    /\ Voted /\ Unlinked /\ Asked /\ Stamped /\ Rows /\ Performed
    /\ PerformedAsAsked /\ FourEyes
    /\ Held /\ Exclusive

-----------------------------------------------------------------------------
(* The operators on requests *)

\* Two rows of approval_requests ask for the same thing of the same row, by the same user.
SameAsk(p, q) ==
    /\ p.op = q.op /\ p.target = q.target /\ p.serial = q.serial
    /\ p.requester = q.requester /\ p.required = q.required /\ p.amid = q.amid

LEMMA ResolveIs ==
  ASSUME NEW q \in Request, NEW outcome \in {"approved", "rejected"}, NEW user, NEW link
  PROVE  /\ Resolve(q, outcome, user, link) \in Request
         /\ Resolve(q, outcome, user, link).status \in {"expired", "cancelled", outcome}
         /\ Resolve(q, outcome, user, link).votes = q.votes
         /\ SameAsk(Resolve(q, outcome, user, link), q)
  <1>1. \A s \in {"expired", "cancelled", outcome} :
           LET p == [q EXCEPT !.status = s] IN
           p \in Request /\ p.status = s /\ p.votes = q.votes /\ SameAsk(p, q)
    BY DEF Request, Resolved, SameAsk
  <1>2. \A l \in BOOLEAN :
           LET p == [q EXCEPT !.status = outcome, !.linked = l] IN
           p \in Request /\ p.status = outcome /\ p.votes = q.votes /\ SameAsk(p, q)
    BY DEF Request, Resolved, SameAsk
  <1>3. (q.linked \/ (link /\ outcome = "approved")) \in BOOLEAN
    OBVIOUS
  <1>4. \/ Resolve(q, outcome, user, link) = [q EXCEPT !.status = "expired"]
        \/ Resolve(q, outcome, user, link) = [q EXCEPT !.status = "cancelled"]
        \/ Resolve(q, outcome, user, link) =
              [q EXCEPT !.status = outcome, !.linked = q.linked \/ (link /\ outcome = "approved")]
    BY DEF Resolve
  <1> QED
    BY <1>1, <1>2, <1>3, <1>4

\* An open request is resolved with this outcome, which its deadline or its requester may change.
Decision(p, q, outcome) ==
    p.status \in {"expired", "cancelled", outcome} /\ p.votes = q.votes /\ SameAsk(p, q)

LEMMA ResolvingIs ==
  ASSUME NEW reqs \in [Requests -> Request], NEW R \in SUBSET Requests,
         NEW outcome \in {"approved", "rejected"}, NEW user
  PROVE  /\ Resolving(reqs, R, outcome, user, TRUE) \in [Requests -> Request]
         /\ \A x \in R : Decision(Resolving(reqs, R, outcome, user, TRUE)[x], reqs[x], outcome)
         /\ Resolving(reqs, R, outcome, user, FALSE) \in [Requests -> Request]
         /\ \A x \in R : Decision(Resolving(reqs, R, outcome, user, FALSE)[x], reqs[x], outcome)
  <1>1. \A q \in Request : /\ Resolve(q, outcome, user, TRUE) \in Request
                           /\ Resolve(q, outcome, user, FALSE) \in Request
    BY ResolveIs
  <1>2. \A q \in Request :
           /\ Decision(Resolve(q, outcome, user, TRUE), q, outcome)
           /\ Decision(Resolve(q, outcome, user, FALSE), q, outcome)
    BY DEF Resolve, Decision, SameAsk, Request
  <1>3. /\ \A x \in R : /\ Resolving(reqs, R, outcome, user, TRUE)[x] = Resolve(reqs[x], outcome, user, TRUE)
                        /\ Resolving(reqs, R, outcome, user, FALSE)[x] = Resolve(reqs[x], outcome, user, FALSE)
                        /\ reqs[x] \in Request
        /\ \A x \in Requests : x \notin R => /\ Resolving(reqs, R, outcome, user, TRUE)[x] = reqs[x]
                                           /\ Resolving(reqs, R, outcome, user, FALSE)[x] = reqs[x]
    BY DEF Resolving
  <1>4. /\ Resolving(reqs, R, outcome, user, TRUE) \in [Requests -> Request]
        /\ Resolving(reqs, R, outcome, user, FALSE) \in [Requests -> Request]
    BY <1>1 DEF Resolving
  <1>5. \A x \in R : /\ Decision(Resolving(reqs, R, outcome, user, TRUE)[x], reqs[x], outcome)
                    /\ Decision(Resolving(reqs, R, outcome, user, FALSE)[x], reqs[x], outcome)
    BY <1>2, <1>3
  <1> QED
    BY <1>3, <1>4, <1>5

\* What a request becomes when the vote of user completes it.
Voting(q, user) == [q EXCEPT !.status = "approved", !.votes = q.votes \cup {user}]

LEMMA VotingIs ==
  ASSUME NEW q \in Request, NEW user \in Users
  PROVE  /\ Voting(q, user) \in Request /\ Voting(q, user).status = "approved"
         /\ Voting(q, user).votes = q.votes \cup {user} /\ SameAsk(Voting(q, user), q)
  BY DEF Voting, Request, Resolved, SameAsk

LEMMA ApprovedIs ==
  ASSUME TypeOK, NEW r \in Requests, NEW user \in Users, NEW dups \in SUBSET (Requests \ {r})
  PROVE  /\ Approved(r, user, dups) \in [Requests -> Request]
         /\ Approved(r, user, dups)[r].status = "approved"
         /\ Approved(r, user, dups)[r].votes = request[r].votes \cup {user}
         /\ SameAsk(Approved(r, user, dups)[r], request[r])
         /\ \A x \in dups : Decision(Approved(r, user, dups)[x], request[x], "approved")
         /\ \A x \in Requests \ {r} : x \notin dups => Approved(r, user, dups)[x] = request[x]
  <1> DEFINE reqs == [request EXCEPT ![r].status = "approved", ![r].votes = @ \cup {user}]
  <1>1. /\ reqs[r] = Voting(request[r], user) /\ \A x \in Requests \ {r} : reqs[x] = request[x]
        /\ DOMAIN reqs = Requests
    BY DEF TypeOK, Voting, Request
  <1>2. reqs \in [Requests -> Request]
    <2>1. \A x \in Requests : reqs[x] \in Request
      BY <1>1, VotingIs DEF TypeOK
    <2>2. reqs = [x \in Requests |-> reqs[x]]
      BY DEF TypeOK
    <2> QED
      BY <2>1, <2>2
  <1>3. Approved(r, user, dups) = Resolving(reqs, dups, "approved", user, FALSE)
    BY DEF Approved
  <1>4. /\ reqs[r].status = "approved" /\ reqs[r].votes = request[r].votes \cup {user}
        /\ SameAsk(reqs[r], request[r])
    BY <1>1, VotingIs DEF TypeOK
  <1> HIDE DEF reqs
  <1>5. /\ Resolving(reqs, dups, "approved", user, FALSE) \in [Requests -> Request]
        /\ \A x \in Requests : Resolving(reqs, dups, "approved", user, FALSE)[x] =
              IF x \in dups THEN Resolve(reqs[x], "approved", user, FALSE) ELSE reqs[x]
    BY <1>2, ResolveIs DEF Resolving
  <1>6. ASSUME NEW x \in dups
        PROVE  Decision(Approved(r, user, dups)[x], request[x], "approved")
    <2>1. x \in Requests /\ x # r /\ request[x] \in Request
      BY DEF TypeOK
    <2>2. Approved(r, user, dups)[x] = Resolve(request[x], "approved", user, FALSE)
      BY <1>1, <1>3, <1>5, <2>1
    <2>3. Decision(Resolve(request[x], "approved", user, FALSE), request[x], "approved")
      BY <2>1 DEF Resolve, Decision, SameAsk, Request
    <2> QED
      BY <2>2, <2>3
  <1> QED
    BY <1>1, <1>3, <1>4, <1>5, <1>6

LEMMA RevokingIs ==
  ASSUME NEW reqs \in [Requests -> Request], NEW t, NEW user
  PROVE  /\ Revoking(reqs, t, user) \in [Requests -> Request]
         /\ \A r \in Requests :
               IF r \in Open("renew", t)
               THEN Decision(Revoking(reqs, t, user)[r], reqs[r], "rejected")
               ELSE IF r \in Open("revoke", t) /\ reqs[r].status = "pending"
               THEN Decision(Revoking(reqs, t, user)[r], reqs[r], "approved")
               ELSE Revoking(reqs, t, user)[r] = reqs[r]
  <1> DEFINE R == {x \in Open("revoke", t) : reqs[x].status = "pending"}
             N == Open("renew", t)
             mid == Resolving(reqs, N, "rejected", user, FALSE)
  <1>0. R \in SUBSET Requests /\ N \in SUBSET Requests
    BY DEF Open
  <1>2. Revoking(reqs, t, user) = Resolving(mid, R, "approved", user, TRUE)
    BY DEF Revoking
  <1>3. \A r \in Requests : r \in N => r \notin R
    BY DEF Open
  <1>5. \A r \in Requests : r \in R <=> r \in Open("revoke", t) /\ reqs[r].status = "pending"
    OBVIOUS
  <1> HIDE DEF N, R
  <1>1. /\ mid \in [Requests -> Request] /\ \A r \in Requests : r \notin N => mid[r] = reqs[r]
        /\ \A r \in N : Decision(mid[r], reqs[r], "rejected")
    <2>1. Resolving(reqs, N, "rejected", user, FALSE) \in [Requests -> Request]
      BY <1>0, ResolvingIs
    <2>2. \A r \in Requests : r \notin N => Resolving(reqs, N, "rejected", user, FALSE)[r] = reqs[r]
      BY DEF Resolving
    <2>3. \A r \in N : Decision(Resolving(reqs, N, "rejected", user, FALSE)[r], reqs[r], "rejected")
      BY <1>0, ResolvingIs
    <2> QED
      BY <2>1, <2>2, <2>3
  <1> HIDE DEF mid
  <1>4. /\ Resolving(mid, R, "approved", user, TRUE) \in [Requests -> Request]
        /\ \A r \in Requests : r \notin R => Resolving(mid, R, "approved", user, TRUE)[r] = mid[r]
        /\ \A r \in R : Decision(Resolving(mid, R, "approved", user, TRUE)[r], mid[r], "approved")
    <2>1. Resolving(mid, R, "approved", user, TRUE) \in [Requests -> Request]
      BY <1>0, <1>1, ResolvingIs
    <2>2. \A r \in Requests : r \notin R => Resolving(mid, R, "approved", user, TRUE)[r] = mid[r]
      BY DEF Resolving
    <2>3. \A r \in R : Decision(Resolving(mid, R, "approved", user, TRUE)[r], mid[r], "approved")
      BY <1>0, <1>1, ResolvingIs
    <2> QED
      BY <2>1, <2>2, <2>3
  <1> DEFINE last == Revoking(reqs, t, user)
  <1>6. last \in [Requests -> Request]
    BY <1>2, <1>4
  <1>7. \A r \in Requests : /\ r \notin R => last[r] = mid[r]
                            /\ r \in R => Decision(last[r], mid[r], "approved")
    BY <1>2, <1>4
  <1> HIDE DEF last
  <1>8. \A r \in Requests :
           IF r \in N THEN Decision(last[r], reqs[r], "rejected")
           ELSE IF r \in R THEN Decision(last[r], reqs[r], "approved")
           ELSE last[r] = reqs[r]
    BY <1>1, <1>3, <1>7
  <1> QED
    BY <1>5, <1>6, <1>8 DEF last, N

LEMMA ExpiringIs ==
  ASSUME TypeOK, NEW R
  PROVE  /\ Expiring(R) \in [Requests -> Request]
         /\ \A r \in Requests : Expiring(R)[r] = IF r \in R THEN [request[r] EXCEPT !.status = "expired"]
                                                 ELSE request[r]
  BY DEF Expiring, TypeOK, Request, Resolved

LEMMA Blanks ==
  /\ Blank \in Request /\ Deleted \in Request /\ Idle \in Handler
  /\ Blank.status = "unused" /\ Blank.votes = {} /\ Blank.requester = NoUser /\ Blank.linked = FALSE
  /\ Deleted.status = "deleted" /\ Deleted.votes = {} /\ Deleted.requester = NoUser
  /\ Deleted.linked = FALSE /\ Idle.pc = "idle" /\ Idle.dups = {} /\ Idle.req = NoRequest
  <1>1. 0 \in 0..MaxSerial
    BY ApprovalAssumption
  <1>2. Blank \in Request
    BY <1>1 DEF Blank, Request, Resolved, Ops
  <1>3. Deleted \in Request
    BY <1>1 DEF Deleted, Blank, Request, Resolved, Ops
  <1>4. Idle \in Handler
    BY <1>1 DEF Idle, Handler, Ops
  <1> QED
    BY <1>2, <1>3, <1>4 DEF Blank, Deleted, Idle

\* A handler that has a request left to look at, and one that has begun to work.
LEMMA LeftIs ==
  ASSUME NEW pc \in {"relock", "link", "expire"}, NEW r \in Requests, NEW D \in SUBSET Requests
  PROVE  /\ [Idle EXCEPT !.pc = pc, !.req = r] \in Handler
         /\ [Idle EXCEPT !.pc = pc, !.req = r].pc = pc /\ [Idle EXCEPT !.pc = pc, !.req = r].req = r
         /\ [Idle EXCEPT !.pc = pc, !.req = r].dups = {}
         /\ [Idle EXCEPT !.pc = pc, !.req = r, !.dups = D] \in Handler
         /\ [Idle EXCEPT !.pc = pc, !.req = r, !.dups = D].pc = pc
         /\ [Idle EXCEPT !.pc = pc, !.req = r, !.dups = D].req = r
         /\ [Idle EXCEPT !.pc = pc, !.req = r, !.dups = D].dups = D
  BY Blanks DEF Idle, Handler

LEMMA WorkingIs ==
  ASSUME TypeOK, NEW pc \in {"stage", "perform"}, NEW op \in Ops, NEW t \in Targets,
         NEW r \in Requests \cup {NoRequest}, NEW user \in Users \cup {NoUser}, NEW D \in SUBSET Requests,
         NEW w, w = Working(pc, op, t, r, user, D)
  PROVE  /\ w \in Handler /\ w.pc = pc /\ w.op = op /\ w.target = t /\ w.serial = target[t].serial
         /\ w.req = r /\ w.user = user /\ w.dups = D
         /\ pc = "perform" /\ op = "renew" => w.now = Now(t)
  <1>1. Now(t) \in SUBSET Requests /\ target[t].serial \in 0..MaxSerial
    BY DEF Now, TypeOK, Target
  <1> QED
    BY <1>1 DEF Working, Handler

LEMMA AfterIs ==
  ASSUME NEW op \in Ops, NEW t \in Target, NEW now \in SUBSET Requests, op = "renew" => t.serial < MaxSerial
  PROVE  /\ After(op, t, now) \in Target
         /\ After(op, t, now).serial = (IF op = "renew" THEN t.serial + 1 ELSE t.serial)
         /\ After(op, t, now).state = (IF op = "sign" THEN "cert" ELSE IF op = "renew" THEN t.state ELSE "revoked")
         /\ After(op, t, now).renewed_at = (IF op = "renew" THEN now ELSE t.renewed_at)
  <1>0. MaxSerial \in Nat /\ t.serial \in 0..MaxSerial
    BY ApprovalAssumption DEF Target
  <1>1. CASE op = "sign"
    <2>1. After(op, t, now) = [t EXCEPT !.state = "cert"]
      BY <1>1 DEF After
    <2> QED
      BY <1>1, <2>1 DEF Target
  <1>2. CASE op = "renew"
    <2>1. After(op, t, now) = [t EXCEPT !.serial = t.serial + 1, !.renewed_at = now]
      BY <1>2 DEF After
    <2>2. t.serial + 1 \in 0..MaxSerial
      BY <1>0, <1>2
    <2> QED
      BY <1>2, <2>1, <2>2 DEF Target
  <1>3. CASE op = "revoke"
    <2>1. After(op, t, now) = [t EXCEPT !.state = "revoked"]
      BY <1>3 DEF After
    <2> QED
      BY <1>3, <2>1 DEF Target
  <1> QED
    BY <1>1, <1>2, <1>3 DEF Ops

LEMMA ForIs ==
  ASSUME TypeOK, NEW r \in Requests, request[r].target \in Targets, NEW reqs \in [Requests -> Request]
  PROVE  For(r, reqs) \in Done
  BY DEF For, Done, TypeOK, Request, Target

LEMMA DirectlyIs ==
  ASSUME TypeOK, NEW op \in Ops, NEW t \in Targets
  PROVE  Directly(op, t) \in Done
  BY DEF Directly, Done, TypeOK, Target

-----------------------------------------------------------------------------
(* Types *)


LEMMA TypeStep ==
  ASSUME TypeOK, ApprovalInv, [Next]_vars
  PROVE  TypeOK'
  <1>0. MaxSerial \in Nat /\ MaxFaults \in Nat
    BY ApprovalAssumption
  <1>f. ASSUME Fault PROVE faults' \in 0..MaxFaults
    BY <1>0, <1>f DEF Fault, TypeOK
  <1>1. ASSUME NEW r \in Requests, NEW op \in Ops, NEW t \in Targets, NEW user \in Users \cup {NoUser},
               NEW n \in Required, Queue(r, op, t, user, n)
        PROVE  TypeOK'
    <2>1. target[t].serial \in 0..MaxSerial
      BY DEF TypeOK, Target
    <2>2. \A A \in SUBSET {"perform", "moot"} :
             [Blank EXCEPT !.status = "pending", !.op = op, !.target = t, !.serial = target[t].serial,
                           !.requester = user, !.required = n, !.amid = A] \in Request
      BY <2>1 DEF Blank, Request, Resolved
    <2>3. (IF op = "renew" THEN Renewing(t) \cap {"perform", "moot"} ELSE {}) \in SUBSET {"perform", "moot"}
      OBVIOUS
    <2> QED
      BY <1>1, <2>2, <2>3 DEF Queue, TypeOK
  <1>2. ASSUME NEW r \in Requests, NEW user \in Users, Approve(r, user) PROVE TypeOK'
    <2>1. \A s \in {"expired", "rejected"} : [request EXCEPT ![r].status = s] \in [Requests -> Request]
      BY DEF TypeOK, Request, Resolved
    <2>2. [request EXCEPT ![r].votes = @ \cup {user}] \in [Requests -> Request]
      BY DEF TypeOK, Request
    <2>3. [request EXCEPT ![r].status = "approved", ![r].linked = TRUE, ![r].votes = @ \cup {user}]
             \in [Requests -> Request]
      <3> DEFINE p == [request[r] EXCEPT !.status = "approved", !.linked = TRUE, !.votes = @ \cup {user}]
      <3>1. p \in Request
        BY ZenonT(60) DEF TypeOK, Request, Resolved
      <3>2. [request EXCEPT ![r].status = "approved", ![r].linked = TRUE, ![r].votes = @ \cup {user}] =
               [request EXCEPT ![r] = p]
        BY DEF TypeOK, Request
      <3> HIDE DEF p
      <3> QED
        BY <3>1, <3>2 DEF TypeOK
    <2> QED
      BY <1>2, <2>1, <2>2, <2>3 DEF Approve, TypeOK
  <1>3. ASSUME NEW r \in Requests, NEW user \in Users, Reject(r, user) PROVE TypeOK'
    <2>1. \A s \in {"expired", "rejected"} : [request EXCEPT ![r].status = s] \in [Requests -> Request]
      BY DEF TypeOK, Request, Resolved
    <2> QED
      BY <1>3, <2>1 DEF Reject, TypeOK
  <1>4. ASSUME NEW h \in Handlers, NEW r \in Requests, NEW user \in Users, ApproveAndPerform(h, r, user)
        PROVE  TypeOK'
    <2>1. PICK w : w = Working(IF request[r].op = "sign" THEN "perform" ELSE "stage", request[r].op,
                              request[r].target, r, user, Open(request[r].op, request[r].target) \ {r})
      OBVIOUS
    <2>2. Open(request[r].op, request[r].target) \ {r} \subseteq Requests
      BY DEF Open
    <2>3. request[r].target \in Targets /\ request[r].op \in Ops
      BY <1>4 DEF ApproveAndPerform, Completes, Pending, ApprovalInv, Asked, Live, TypeOK, Request
    <2>4. w \in Handler
      BY <2>1, <2>2, <2>3, WorkingIs
    <2>5. handler' \in [Handlers -> Handler]
      BY <1>4, <2>1, <2>4 DEF ApproveAndPerform, TypeOK
    <2> QED
      BY <1>4, <2>5 DEF ApproveAndPerform, TypeOK
  <1>5. ASSUME NEW h \in Handlers, NEW r \in Requests, NEW user \in Users, ApproveRevocation(h, r, user)
        PROVE  TypeOK'
    <2> DEFINE t == request[r].target
               dups == Open("revoke", t) \ {r}
               reqs == Approved(r, user, dups)
    <2>0. t \in Targets /\ dups \in SUBSET (Requests \ {r})
      BY <1>5 DEF ApproveRevocation, Completes, Pending, ApprovalInv, Asked, Live, Open
    <2> HIDE DEF dups
    <2>1. reqs \in [Requests -> Request]
      BY <2>0, ApprovedIs
    <2>6. /\ [Idle EXCEPT !.pc = "link", !.req = r, !.dups = dups] \in Handler
          /\ [Idle EXCEPT !.pc = "relock", !.req = r] \in Handler
      BY <2>0, LeftIs
    <2>7. \/ handler' = [handler EXCEPT ![h] = [Idle EXCEPT !.pc = "link", !.req = r, !.dups = dups]]
          \/ handler' = [handler EXCEPT ![h] = [Idle EXCEPT !.pc = "relock", !.req = r]]
      BY <1>5 DEF ApproveRevocation, dups
    <2>3. handler' \in [Handlers -> Handler]
      BY <2>6, <2>7 DEF TypeOK
    <2>4. CASE /\ request' = Revoking(reqs, t, request[r].requester)
               /\ target' = [target EXCEPT ![t] = After("revoke", @, {})]
               /\ done' = done \cup {For(r, reqs)} /\ UNCHANGED faults
      <3>1. request' \in [Requests -> Request]
        BY <2>1, <2>4, RevokingIs
      <3>2. target' \in [Targets -> Target]
        <4>1. After("revoke", target[t], {}) \in Target
          BY <2>0, AfterIs DEF TypeOK, Ops
        <4> QED
          BY <2>0, <2>4, <4>1 DEF TypeOK
      <3>3. For(r, reqs) \in Done
        BY <2>0, <2>1, ForIs
      <3> QED
        BY <1>5, <2>3, <2>4, <3>1, <3>2, <3>3 DEF ApproveRevocation, TypeOK
    <2>5. CASE Fault /\ UNCHANGED <<request, target, done>>
      BY <1>5, <1>f, <2>3, <2>5 DEF ApproveRevocation, TypeOK
    <2> QED
      BY <1>5, <2>4, <2>5 DEF ApproveRevocation, dups
  <1>c. ASSUME NEW h \in Handlers, NEW user \in Users \cup {NoUser},
               handler' = [handler EXCEPT ![h] = Committed(handler[h], user)]
        PROVE  handler' \in [Handlers -> Handler]
    <2>1. 0 \in 0..MaxSerial /\ handler[h] \in Handler
      BY <1>0 DEF TypeOK
    <2>2. Committed(handler[h], user) \in Handler
      BY <2>1 DEF Committed, Handler
    <2> QED
      BY <1>c, <2>2 DEF TypeOK
  <1>6. ASSUME NEW h \in Handlers, Perform(h) PROVE TypeOK'
    <2> DEFINE r == handler[h].req
               q == request[r]
               reqs == Approved(r, handler[h].user, handler[h].dups)
    <2>0. /\ r \in Requests /\ handler[h].user \in Users /\ r \notin handler[h].dups
          /\ q.op \in {"sign", "renew"} /\ Live(r) /\ handler[h].now \in SUBSET Requests
          /\ q.op = handler[h].op /\ q.target = handler[h].target
          /\ q.op = "renew" => handler[h].serial < MaxSerial
      BY <1>6 DEF Perform, ApprovalInv, Held, HeldBy, AtWork, Approving, Pending, Live, TypeOK, Handler
    <2>1. q.target \in Targets
      BY <2>0 DEF ApprovalInv, Asked
    <2>2. reqs \in [Requests -> Request]
      <3> DEFINE u == handler[h].user
                 D == handler[h].dups
      <3>1. r \in Requests /\ u \in Users /\ D \in SUBSET (Requests \ {r})
        BY <2>0 DEF TypeOK, Handler
      <3> HIDE DEF r, u, D
      <3>2. Approved(r, u, D) \in [Requests -> Request]
        BY <3>1, ApprovedIs
      <3> QED
        BY <3>2 DEF r, u, D
    <2>3. target' \in [Targets -> Target]
      <3>1. q.op = "renew" => target[q.target].serial < MaxSerial
        BY <1>6, <2>0 DEF Perform, Claims
      <3>2. After(q.op, target[q.target], handler[h].now) \in Target
        BY <2>0, <2>1, <3>1, AfterIs DEF TypeOK, Ops
      <3> QED
        BY <1>6, <2>1, <3>2 DEF Perform, TypeOK
    <2>4. For(r, reqs) \in Done
      BY <2>0, <2>1, <2>2, ForIs
    <2>6. handler' \in [Handlers -> Handler]
      <3>1. q.requester \in Users \cup {NoUser}
        BY <2>0 DEF TypeOK, Request
      <3> QED
        BY <1>6, <1>c, <3>1 DEF Perform
    <2>7. request' \in [Requests -> Request]
      BY <1>6, <2>2 DEF Perform
    <2>8. done' \subseteq Done
      BY <1>6, <2>4 DEF Perform, TypeOK
    <2> QED
      BY <1>6, <2>3, <2>6, <2>7, <2>8 DEF Perform, TypeOK
  <1>d. ASSUME NEW h \in Handlers, PerformDirectly(h) PROVE TypeOK'
    <2> DEFINE w == handler[h]
    <2>0. /\ w.target \in Targets /\ w.op \in Ops /\ w.now \in SUBSET Requests
          /\ w.user \in Users \cup {NoUser} /\ w.op \in {"sign", "renew"}
          /\ w.op = "renew" => w.serial < MaxSerial
      BY <1>d DEF PerformDirectly, ApprovalInv, Held, HeldBy, AtWork, TypeOK, Handler
    <2>1. After(w.op, target[w.target], w.now) \in Target
      <3>1. w.op = "renew" => target[w.target].serial < MaxSerial
        BY <1>d, <2>0 DEF PerformDirectly, Claims
      <3> QED
        BY <2>0, <3>1, AfterIs DEF TypeOK
    <2>2. Directly(w.op, w.target) \in Done
      BY <2>0, DirectlyIs
    <2>3. handler' \in [Handlers -> Handler]
      BY <1>c, <1>d, <2>0 DEF PerformDirectly
    <2> QED
      BY <1>d, <2>0, <2>1, <2>2, <2>3 DEF PerformDirectly, TypeOK
  <1>7. ASSUME NEW h \in Handlers, PerformFails(h) PROVE TypeOK'
    <2>1. handler[h].req # NoRequest => [Idle EXCEPT !.pc = "relock", !.req = handler[h].req] \in Handler
      <3>1. handler[h].req \in Requests \cup {NoRequest} /\ {} \in SUBSET Requests
        BY DEF TypeOK, Handler
      <3> QED
        BY <3>1, LeftIs
    <2>2. handler' \in [Handlers -> Handler]
      BY <1>7, <2>1, Blanks DEF PerformFails, TypeOK
    <2> QED
      BY <1>7, <1>f, <2>2 DEF PerformFails, TypeOK
  <1>s. ASSUME NEW h \in Handlers, Stage(h) PROVE TypeOK'
    <2>1. Now(handler[h].target) \in SUBSET Requests
      BY DEF Now
    <2>2. [handler[h] EXCEPT !.pc = "perform", !.now = Now(handler[h].target)] \in Handler
      BY <2>1 DEF TypeOK, Handler
    <2> QED
      BY <1>s, <2>2 DEF Stage, TypeOK
  <1>m. ASSUME NEW h \in Handlers, ResolveMoot(h) PROVE TypeOK'
    <2> DEFINE w == handler[h]
               R == Open(w.op, w.target)
    <2>1. Resolving(request, R, "approved", w.user, TRUE) \in [Requests -> Request]
      BY ResolveIs DEF Resolving, TypeOK
    <2>2. w.req # NoRequest => [Idle EXCEPT !.pc = "link", !.req = w.req, !.dups = w.dups] \in Handler
      <3>1. PICK r, D : r = w.req /\ D = w.dups
        OBVIOUS
      <3>2. r \in Requests \cup {NoRequest} /\ D \in SUBSET Requests
        BY <3>1 DEF TypeOK, Handler
      <3>3. r \in Requests => [Idle EXCEPT !.pc = "link", !.req = r, !.dups = D] \in Handler
        BY <3>2, LeftIs
      <3> QED
        BY <3>1, <3>2, <3>3
    <2>3. handler' \in [Handlers -> Handler]
      BY <1>m, <2>2, Blanks DEF ResolveMoot, TypeOK
    <2> QED
      BY <1>f, <1>m, <2>1, <2>3 DEF ResolveMoot, TypeOK
  <1>8. ASSUME NEW h \in Handlers, Relock(h) PROVE TypeOK'
    <2>1. handler[h].req \in Requests
      BY <1>8 DEF Relock, ApprovalInv, Held, HeldBy
    <2>2. [request EXCEPT ![handler[h].req].status = "rejected"] \in [Requests -> Request]
      BY <2>1 DEF TypeOK, Request, Resolved
    <2>3. handler' \in [Handlers -> Handler]
      BY <1>8, Blanks DEF Relock, TypeOK
    <2> QED
      BY <1>8, <2>2, <2>3 DEF Relock, TypeOK
  <1>9. ASSUME NEW h \in Handlers, Link(h) PROVE TypeOK'
    <2>1. [x \in Requests |-> IF x \in {handler[h].req} \cup handler[h].dups /\ request[x].status # "deleted"
                              THEN [request[x] EXCEPT !.linked = TRUE] ELSE request[x]] \in [Requests -> Request]
      <3>1. \A q \in Request : [q EXCEPT !.linked = TRUE] \in Request
        BY ZenonT(60) DEF Request
      <3> QED
        BY <3>1 DEF TypeOK
    <2>2. handler' \in [Handlers -> Handler]
      BY <1>9, Blanks DEF Link, TypeOK
    <2> QED
      BY <1>9, <1>f, <2>1, <2>2 DEF Link, TypeOK
  <1>10. ASSUME NEW h \in Handlers, GetApprovalExpires(h) PROVE TypeOK'
    <2>1. handler' \in [Handlers -> Handler]
      BY <1>10, Blanks DEF GetApprovalExpires, TypeOK
    <2>2. request' \in [Requests -> Request]
      BY <1>10, ExpiringIs DEF GetApprovalExpires
    <2> QED
      BY <1>10, <2>1, <2>2 DEF GetApprovalExpires, TypeOK
  <1>11. ASSUME NEW h \in Handlers, RemoveRequests(h) PROVE TypeOK'
    <2>1. handler' \in [Handlers -> Handler]
      BY <1>11, Blanks DEF RemoveRequests, TypeOK
    <2>2. request' \in [Requests -> Request]
      BY <1>11, Blanks DEF RemoveRequests, TypeOK
    <2> QED
      BY <1>11, <2>1, <2>2 DEF RemoveRequests, TypeOK
  <1>12. ASSUME NEW h \in Handlers, DeletePolicy(h) PROVE TypeOK'
    <2>1. [Idle EXCEPT !.pc = "remove"] \in Handler
      BY Blanks DEF Idle, Handler
    <2>2. handler' \in [Handlers -> Handler]
      BY <1>12, <2>1 DEF DeletePolicy, TypeOK
    <2>3. request' \in [Requests -> Request]
      BY <1>12, ExpiringIs DEF DeletePolicy
    <2> QED
      BY <1>12, <2>2, <2>3 DEF DeletePolicy, TypeOK
  <1>13. ASSUME NEW r \in Requests, Deadline(r) PROVE TypeOK'
    <2>1. [request EXCEPT ![r].stale = TRUE] \in [Requests -> Request]
      <3>1. \A q \in Request : [q EXCEPT !.stale = TRUE] \in Request
        BY ZenonT(60) DEF Request
      <3> QED
        BY <3>1 DEF TypeOK
    <2> QED
      BY <1>13, <2>1 DEF Deadline, TypeOK
  <1>14. ASSUME NEW h \in Handlers, NEW r \in Requests, GetApproval(h, r) PROVE TypeOK'
    <2>1. [Idle EXCEPT !.pc = "expire", !.req = r] \in Handler
      <3>1. {} \in SUBSET Requests
        OBVIOUS
      <3> QED
        BY <3>1, LeftIs
    <2> QED
      BY <1>14, <2>1 DEF GetApproval, TypeOK
  <1>15. ASSUME ExpireStale PROVE TypeOK'
    BY <1>15, ExpiringIs DEF ExpireStale, TypeOK
  <1>16. ASSUME NEW t \in Targets, NEW user \in Users, RevokeDirectly(t, user) PROVE TypeOK'
    <2>1. request' \in [Requests -> Request]
      BY <1>16, RevokingIs DEF RevokeDirectly, TypeOK
    <2>2. target' \in [Targets -> Target]
      <3>1. After("revoke", target[t], {}) \in Target
        BY AfterIs DEF TypeOK, Ops
      <3> QED
        BY <1>16, <3>1 DEF RevokeDirectly, TypeOK
    <2>3. Directly("revoke", t) \in Done
      BY DirectlyIs DEF Ops
    <2> QED
      BY <1>16, <2>1, <2>2, <2>3 DEF RevokeDirectly, TypeOK
  <1>17. ASSUME NEW t \in Targets, DeleteCertificate(t) PROVE TypeOK'
    <2> DEFINE reqs == Resolving(request, UNION {Open(op, t) : op \in Ops}, "rejected", NoUser, FALSE)
    <2>1. reqs \in [Requests -> Request]
      BY ResolveIs DEF Resolving, TypeOK
    <2>2. request' = [r \in Requests |-> IF reqs[r].linked /\ reqs[r].target = t THEN Deleted ELSE reqs[r]]
      BY <1>17 DEF DeleteCertificate
    <2> HIDE DEF reqs
    <2>3. request' \in [Requests -> Request]
      BY <2>1, <2>2, Blanks
    <2>4. target' \in [Targets -> Target]
      BY <1>17 DEF DeleteCertificate, TypeOK, Target
    <2> QED
      BY <1>17, <2>3, <2>4 DEF DeleteCertificate, TypeOK
  <1>18. ASSUME NEW h \in Handlers, NEW t \in Targets, NEW op \in {"sign", "renew"},
                NEW user \in Users \cup {NoUser}, ActDirectly(h, op, t, user)
         PROVE  TypeOK'
    <2>1. PICK w : w = Working("perform", op, t, NoRequest, user, {})
      OBVIOUS
    <2>2. op \in Ops /\ {} \in SUBSET Requests
      BY DEF Ops
    <2>3. w \in Handler
      BY <2>1, <2>2, WorkingIs
    <2> QED
      BY <1>18, <2>1, <2>3 DEF ActDirectly, TypeOK
  <1>19. ASSUME Crash PROVE TypeOK'
    BY <1>19, <1>f, Blanks DEF Crash, TypeOK
  <1>20. CASE UNCHANGED vars
    BY <1>20 DEF vars, TypeOK
  <1>21. ASSUME NEW h \in Handlers, Continue(h) PROVE TypeOK'
    BY <1>6, <1>7, <1>8, <1>9, <1>10, <1>11, <1>21, <1>d, <1>m, <1>s DEF Continue
  <1>22. ASSUME NEW r \in Requests, NEW t \in Targets, NEW n \in Required, QueueScheduled(r, t, n) PROVE TypeOK'
    BY <1>1, <1>22 DEF QueueScheduled, Ops
  <1> QED
    BY <1>1, <1>2, <1>3, <1>4, <1>5, <1>12, <1>13, <1>14, <1>15, <1>16, <1>17, <1>18, <1>19, <1>20, <1>21, <1>22
    DEF Next

-----------------------------------------------------------------------------
(* What a step does to a request, to a row and to a handler *)

\* A request to renew a row, made while others renew it, says so.
Marked(p) ==
    \A h \in Handlers : handler'[h].op = "renew" /\ handler'[h].target = p.target
                          /\ handler'[h].pc \in {"perform", "moot"} => handler'[h].pc \in p.amid

\* A request is left alone, made, deleted, voted on or decided.  One that an approver is
\* performing when the step is over is still open, with the votes it had.
Changes(r) ==
    LET q == request[r]  p == request'[r] IN
    \/ p = q
    \/ /\ q.status = "unused" /\ p.status = "pending" /\ p.votes = {} /\ ~p.linked
       /\ p.target \in Targets /\ p.serial = target'[p.target].serial
       /\ target'[p.target].state = (IF p.op = "sign" THEN "csr" ELSE "cert")
       /\ p.op = "renew" => Marked(p)
    \/ q.status # "unused" /\ p = Deleted /\ ~Locked(r)'
    \/ /\ Live(r) /\ SameAsk(p, q)
       /\ p.votes = q.votes \/ \E u \in Users : u # q.requester /\ p.votes = q.votes \cup {u}
       /\ Locked(r)' => p.status = "pending" /\ p.votes = q.votes
       /\ \/ q.status = "pending" /\ p.status = "pending" /\ ~p.linked
          \/ /\ p.status \in Resolved
             /\ q.status = "pending" \/ p.status \in {q.status, "expired"}
             /\ p.status = "approved" => q.status = "approved" \/ Served(r)' \/ "moot" \in q.amid

\* The operation can be performed on a row that is as t.
Due(op, t) ==
    /\ op = "sign" => t.state = "csr"
    /\ op = "renew" => t.state # "csr"
    /\ op = "revoke" => t.state = "cert"

\* A row stays, is deleted or has an operation performed on it that is recorded.
Acts(t) ==
    \/ target'[t] = target[t]
    \/ /\ target'[t].state = "gone" /\ target'[t].serial = target[t].serial
       /\ target'[t].renewed_at = target[t].renewed_at
    \/ \E d \in done', now \in SUBSET Requests :
          /\ d.target = t /\ d.serial = target[t].serial
          /\ Due(d.op, target[t]) /\ (d.op = "renew" => Fresh(t, now))
          /\ target'[t].serial = (IF d.op = "renew" THEN target[t].serial + 1 ELSE target[t].serial)
          /\ target'[t].state =
                (IF d.op = "sign" THEN "cert" ELSE IF d.op = "renew" THEN target[t].state ELSE "revoked")
          /\ target'[t].renewed_at = (IF d.op = "renew" THEN now ELSE target[t].renewed_at)

\* The step performs d, begun at now, and nothing else.
Does(d, now) ==
    /\ done' = done \cup {d}
    /\ d.serial = target[d.target].serial
    /\ Due(d.op, target[d.target]) /\ (d.op = "renew" => target[d.target].serial < MaxSerial /\ Fresh(d.target, now))
    /\ target'[d.target] = After(d.op, target[d.target], now)
    /\ \A t \in Targets \ {d.target} : target'[t] = target[t]
    /\ d.by # NoRequest =>
          /\ d.serial = d.asked \/ (d.op = "renew" /\ "perform" \in d.amid)
          /\ Cardinality(d.votes) >= d.required /\ d.requester \notin d.votes

LEMMA VotesKept ==
  ASSUME TypeOK, Voted, Unlinked, \A r \in Requests : Changes(r)
  PROVE  Voted' /\ Unlinked'
  <1> SUFFICES ASSUME NEW r \in Requests
               PROVE  /\ IsFiniteSet(request'[r].votes) /\ request'[r].requester \notin request'[r].votes
                      /\ request'[r].status \in {"unused", "pending", "deleted"} => ~request'[r].linked
    BY DEF Voted, Unlinked
  <1> DEFINE q == request[r]
             p == request'[r]
  <1>0. IsFiniteSet(q.votes) /\ q.requester \notin q.votes
    BY DEF Voted
  <1>1. CASE p = q
    BY <1>0, <1>1 DEF Unlinked
  <1>2. CASE p.votes = {} /\ ~p.linked
    BY <1>2, FS_EmptySet
  <1>3. CASE p = Deleted
    BY <1>3, Blanks, FS_EmptySet
  <1>4. CASE /\ SameAsk(p, q) /\ (p.votes = q.votes \/ \E u \in Users : u # q.requester /\ p.votes = q.votes \cup {u})
             /\ ((p.status = "pending" /\ ~p.linked) \/ p.status \in Resolved)
    <2>1. IsFiniteSet(p.votes)
      BY <1>0, <1>4, FS_AddElement
    <2>2. p.requester \notin p.votes
      BY <1>0, <1>4 DEF SameAsk
    <2> QED
      BY <1>4, <2>1, <2>2 DEF Resolved
  <1> QED
    BY <1>1, <1>2, <1>3, <1>4 DEF Changes

LEMMA AskedKept ==
  ASSUME TypeOK, TypeOK', Asked, Stamped, Rows', done \subseteq done',
         \A r \in Requests : Changes(r), \A t \in Targets : Acts(t)
  PROVE  Asked' /\ Stamped'
  <1>0. \A s \in 0..MaxSerial : s \in Nat /\ s <= s
    BY ApprovalAssumption
  <1>s. ASSUME NEW t \in Targets, NEW r \in target'[t].renewed_at
        PROVE  r \in Requests /\ request[r].status # "unused"
    <2>1. CASE target'[t].renewed_at = target[t].renewed_at
      BY <2>1 DEF Stamped, TypeOK, Target
    <2>2. ASSUME NEW now \in SUBSET Requests, Fresh(t, now), target'[t].renewed_at = now
          PROVE  r \in Requests /\ request[r].status # "unused"
      BY <2>2 DEF Fresh
    <2> QED
      BY <2>1, <2>2 DEF Acts
  <1>t. Stamped'
    <2> SUFFICES ASSUME NEW t \in Targets, NEW r \in target'[t].renewed_at PROVE request'[r].status # "unused"
      BY DEF Stamped
    <2>1. r \in Requests /\ request[r].status # "unused"
      BY <1>s
    <2> QED
      BY <2>1, Blanks DEF Changes, Resolved
  <1> SUFFICES ASSUME NEW r \in Requests, request'[r].status \notin {"unused", "deleted"}
               PROVE  LET p == request'[r]  t == target'[p.target] IN
                      /\ p.target \in Targets
                      /\ p.serial <= t.serial
                      /\ p.op = "sign" => p.serial = 0
                      /\ p.op # "sign" => t.state # "csr"
                      /\ \/ p.op = "sign" /\ t.state \in {"cert", "revoked"}
                         \/ p.op = "renew" /\ p.serial < t.serial
                         \/ p.op = "revoke" /\ t.state = "revoked"
                         => Served(r)'
                      /\ p.status = "approved" => Served(r)' \/ "moot" \in p.amid
                      /\ p.op = "renew" /\ r \in t.renewed_at => p.serial < t.serial
                      /\ p.status = "pending" /\ p.op = "renew" /\ p.serial < t.serial =>
                            r \in t.renewed_at \/ "perform" \in p.amid
    BY <1>t DEF Asked, Live
  <1> DEFINE q == request[r]
             p == request'[r]
  <1>1. CASE /\ q.status = "unused" /\ p.status = "pending" /\ p.target \in Targets
             /\ p.serial = target'[p.target].serial
             /\ target'[p.target].state = (IF p.op = "sign" THEN "csr" ELSE "cert")
    <2>1. p.serial \in 0..MaxSerial
      BY DEF TypeOK, Request
    <2>2. p.op = "sign" => p.serial = 0
      BY <1>1 DEF Rows
    <2>3. p.serial <= target'[p.target].serial /\ ~(p.serial < target'[p.target].serial)
      BY <1>1, <2>1, ApprovalAssumption
    <2>4. r \notin target'[p.target].renewed_at
      BY <1>1, <1>s
    <2> QED
      BY <1>1, <2>2, <2>3, <2>4
  <1>2. CASE /\ Live(r) /\ SameAsk(p, q)
             /\ p.status = "pending" => q.status = "pending"
             /\ p.status = "approved" => q.status = "approved" \/ Served(r)' \/ "moot" \in q.amid
    <2> DEFINE b == target[q.target]
               a == target'[q.target]
    <2>0. /\ p.op = q.op /\ p.target = q.target /\ p.serial = q.serial /\ p.amid = q.amid
          /\ q.serial \in Nat /\ q.op \in Ops
      BY <1>0, <1>2 DEF SameAsk, TypeOK, Request
    <2>1. /\ q.target \in Targets /\ q.serial <= b.serial
          /\ q.op = "sign" => q.serial = 0
          /\ q.op # "sign" => b.state # "csr"
          /\ \/ q.op = "sign" /\ b.state \in {"cert", "revoked"}
             \/ q.op = "renew" /\ q.serial < b.serial
             \/ q.op = "revoke" /\ b.state = "revoked"
             => Served(r)
          /\ q.status = "approved" => Served(r) \/ "moot" \in q.amid
          /\ q.op = "renew" /\ r \in b.renewed_at => q.serial < b.serial
          /\ q.status = "pending" /\ q.op = "renew" /\ q.serial < b.serial =>
                r \in b.renewed_at \/ "perform" \in q.amid
      BY <1>2 DEF Asked
    <2>2. a \in Target /\ b \in Target /\ a.serial \in Nat /\ b.serial \in Nat
      BY <1>0, <2>1 DEF TypeOK, Target
    <2>3. Served(r) => Served(r)'
      BY <2>0 DEF Served
    <2>4. ASSUME NEW d \in done', d.op = q.op, d.target = q.target, d.serial = b.serial PROVE Served(r)'
      BY <2>0, <2>1, <2>2, <2>4 DEF Served
    <2> DEFINE Good == /\ q.serial <= a.serial
                       /\ b.state # "csr" => a.state # "csr"
                       /\ q.op = "sign" /\ a.state \in {"cert", "revoked"} => b.state \in {"cert", "revoked"} \/ Served(r)'
                       /\ q.op = "renew" /\ q.serial < a.serial => q.serial < b.serial \/ Served(r)'
                       /\ q.op = "revoke" /\ a.state = "revoked" => b.state = "revoked" \/ Served(r)'
                       /\ q.op = "renew" /\ r \in a.renewed_at => q.serial < a.serial
                       /\ q.status = "pending" /\ q.op = "renew" /\ q.serial < a.serial =>
                             r \in a.renewed_at \/ "perform" \in q.amid
    <2>5. Good
      <3>1. CASE a = b \/ (a.state = "gone" /\ a.serial = b.serial /\ a.renewed_at = b.renewed_at)
        BY <2>1, <3>1
      <3>2. ASSUME NEW d \in done', NEW now \in SUBSET Requests, d.target = q.target, d.serial = b.serial,
                   Due(d.op, b), d.op = "renew" => Fresh(q.target, now),
                   a.serial = (IF d.op = "renew" THEN b.serial + 1 ELSE b.serial),
                   a.state = (IF d.op = "sign" THEN "cert" ELSE IF d.op = "renew" THEN b.state ELSE "revoked"),
                   a.renewed_at = (IF d.op = "renew" THEN now ELSE b.renewed_at)
            PROVE  Good
        <4>1. d.op \in Ops
          BY DEF TypeOK, Done
        <4>2. CASE d.op = "sign"
          BY <2>0, <2>1, <2>2, <2>4, <3>2, <4>2 DEF Due
        <4>3. CASE d.op = "renew"
          <5>1. a.serial = b.serial + 1 /\ a.state = b.state /\ a.renewed_at = now
            BY <3>2, <4>3
          <5>2. q.status = "pending" /\ q.op = "renew" => r \in now \/ "perform" \in q.amid
            BY <3>2, <4>3 DEF Fresh, Pending
          <5>3. q.serial <= a.serial /\ q.serial < a.serial
            BY <2>0, <2>1, <2>2, <5>1
          <5>4. q.op = "renew" => Served(r)'
            BY <2>4, <3>2, <4>3
          <5> HIDE DEF a, b, q
          <5> QED
            BY <5>1, <5>2, <5>3, <5>4
        <4>4. CASE d.op = "revoke"
          BY <2>0, <2>1, <2>2, <2>4, <3>2, <4>4 DEF Due
        <4> QED
          BY <4>1, <4>2, <4>3, <4>4 DEF Ops
      <3>3. Acts(q.target)
        BY <2>1
      <3> HIDE DEF Good
      <3> QED
        BY <3>1, <3>2, <3>3 DEF Acts
    <2> QED
      BY <1>2, <2>0, <2>1, <2>3, <2>5
  <1>3. CASE p = q
    <2>1. Live(r)
      BY <1>3 DEF Live
    <2> QED
      BY <1>2, <1>3, <2>1 DEF SameAsk
  <1>4. p # Deleted
    BY Blanks
  <1>5. p.status \in Resolved => p.status # "pending"
    BY DEF Resolved
  <1> QED
    BY <1>1, <1>2, <1>3, <1>4, <1>5 DEF Changes

\* Rows that are performed on or deleted keep showing what was performed.
LEMMA RowsKept ==
  ASSUME TypeOK, TypeOK', Rows, Performed, \A t \in Targets : Acts(t)
  PROVE  /\ Rows' /\ \A t \in Targets : target[t].state # "csr" => target'[t].state # "csr"
         /\ \A d \in done : /\ d.op = "sign" => target'[d.target].state # "csr"
                            /\ d.op = "renew" => d.serial < target'[d.target].serial
                            /\ d.op = "revoke" => target'[d.target].state \in {"revoked", "gone"}
  <1>1. ASSUME NEW t \in Targets
        PROVE  /\ target[t].serial \in Nat /\ target'[t].serial \in Nat
               /\ target[t].serial <= target'[t].serial
               /\ target'[t].state = "csr" => target[t].state = "csr" /\ target'[t].serial = target[t].serial
               /\ target[t].state \in {"revoked", "gone"} => target'[t].state \in {"revoked", "gone"}
    <2>0. target[t].serial \in Nat /\ target'[t].serial \in Nat
      BY ApprovalAssumption DEF TypeOK, Target
    <2>1. CASE target'[t] = target[t] \/ (target'[t].state = "gone" /\ target'[t].serial = target[t].serial)
      BY <2>0, <2>1
    <2>2. ASSUME NEW d \in done', Due(d.op, target[t]),
                 target'[t].serial = (IF d.op = "renew" THEN target[t].serial + 1 ELSE target[t].serial),
                 target'[t].state =
                    (IF d.op = "sign" THEN "cert" ELSE IF d.op = "renew" THEN target[t].state ELSE "revoked")
          PROVE  /\ target[t].serial <= target'[t].serial
                 /\ target'[t].state = "csr" => target[t].state = "csr" /\ target'[t].serial = target[t].serial
                 /\ target[t].state \in {"revoked", "gone"} => target'[t].state \in {"revoked", "gone"}
      <3>1. d.op \in Ops
        BY DEF TypeOK, Done
      <3> QED
        BY <2>0, <2>2, <3>1 DEF Due, Ops
    <2> QED
      BY <2>0, <2>1, <2>2 DEF Acts
  <1>2. Rows' /\ \A t \in Targets : target[t].state # "csr" => target'[t].state # "csr"
    BY <1>1 DEF Rows
  <1>3. ASSUME NEW d \in done
        PROVE  /\ d.op = "sign" => target'[d.target].state # "csr"
               /\ d.op = "renew" => d.serial < target'[d.target].serial
               /\ d.op = "revoke" => target'[d.target].state \in {"revoked", "gone"}
    <2>1. d.target \in Targets /\ d.serial \in Nat
      BY ApprovalAssumption DEF TypeOK, Done
    <2>2. /\ d.op = "sign" => target[d.target].state # "csr"
          /\ d.op = "renew" => d.serial < target[d.target].serial
          /\ d.op = "revoke" => target[d.target].state \in {"revoked", "gone"}
      BY DEF Performed
    <2> QED
      BY <1>1, <2>1, <2>2
  <1> QED
    BY <1>2, <1>3

LEMMA DoesKept ==
  ASSUME TypeOK, TypeOK', Rows, Performed, PerformedAsAsked, FourEyes, NEW d \in Done,
         NEW now \in SUBSET Requests, Does(d, now)
  PROVE  /\ done \subseteq done' /\ \A t \in Targets : Acts(t)
         /\ Rows' /\ Performed' /\ PerformedAsAsked' /\ FourEyes'
  <1>0. d.target \in Targets /\ d.op \in Ops /\ d.serial \in Nat
    BY ApprovalAssumption DEF Done
  <1>1. done \subseteq done' /\ d \in done' /\ \A e \in done' : e \in done \/ e = d
    BY DEF Does
  <1>a. /\ target'[d.target].serial = (IF d.op = "renew" THEN d.serial + 1 ELSE d.serial)
        /\ target'[d.target].state = (IF d.op = "sign" THEN "cert"
                                      ELSE IF d.op = "renew" THEN target[d.target].state ELSE "revoked")
        /\ target'[d.target].renewed_at = (IF d.op = "renew" THEN now ELSE target[d.target].renewed_at)
    <2>1. target[d.target] \in Target /\ (d.op = "renew" => target[d.target].serial < MaxSerial)
      BY <1>0 DEF TypeOK, Does
    <2> QED
      BY <1>0, <2>1, AfterIs DEF Does
  <1>2. \A t \in Targets : Acts(t)
    <2>1. Acts(d.target)
      BY <1>0, <1>1, <1>a DEF Does, Acts
    <2>2. \A t \in Targets \ {d.target} : Acts(t)
      BY DEF Does, Acts
    <2> QED
      BY <2>1, <2>2
  <1>3. /\ Rows'
        /\ \A e \in done : /\ e.op = "sign" => target'[e.target].state # "csr"
                           /\ e.op = "renew" => e.serial < target'[e.target].serial
                           /\ e.op = "revoke" => target'[e.target].state \in {"revoked", "gone"}
    BY <1>2, RowsKept
  <1>4. /\ d.op = "sign" => target'[d.target].state # "csr"
        /\ d.op = "renew" => d.serial < target'[d.target].serial
        /\ d.op = "revoke" => target'[d.target].state \in {"revoked", "gone"}
    BY <1>0, <1>a DEF Ops
  <1>5. Performed'
    BY <1>1, <1>3, <1>4 DEF Performed
  <1>6. \A e \in done : ~(e.op = d.op /\ e.target = d.target /\ e.serial = d.serial)
    <2> SUFFICES ASSUME NEW e \in done, e.op = d.op, e.target = d.target, e.serial = d.serial PROVE FALSE
      OBVIOUS
    <2>1. /\ e.op = "sign" => target[e.target].state # "csr"
          /\ e.op = "renew" => e.serial < target[e.target].serial
          /\ e.op = "revoke" => target[e.target].state \in {"revoked", "gone"}
      BY DEF Performed
    <2>2. d.serial = target[d.target].serial /\ Due(d.op, target[d.target])
      BY DEF Does
    <2> QED
      BY <1>0, <2>1, <2>2 DEF Due, Ops
  <1>7. PerformedAsAsked'
    <2>1. \A e \in done' : e.by # NoRequest => e.serial = e.asked \/ (e.op = "renew" /\ "perform" \in e.amid)
      BY <1>1 DEF PerformedAsAsked, Does
    <2>2. \A e, f \in done' : <<e.op, e.target, e.serial>> = <<f.op, f.target, f.serial>> => e = f
      BY <1>1, <1>6 DEF PerformedAsAsked
    <2> QED
      BY <2>1, <2>2 DEF PerformedAsAsked
  <1>8. FourEyes'
    BY <1>1 DEF FourEyes, Does
  <1> QED
    BY <1>1, <1>2, <1>3, <1>5, <1>7, <1>8

\* What was performed stays so, and a certificate is never a request to sign again.
Onward ==
    /\ done \subseteq done'
    /\ \A t \in Targets : target[t].state # "csr" => target'[t].state # "csr"

\* A handler the step leaves alone keeps what it holds ...
LEMMA HandlerKept ==
  ASSUME TypeOK, NEW h \in Handlers, HeldBy(h), handler'[h] = handler[h], Onward, \A r \in Requests : Changes(r)
  PROVE  HeldBy(h)'
  <1> DEFINE w == handler[h]
             r == w.req
  <1>0. w.dups \subseteq Requests /\ (w.req = NoRequest \/ w.req \in Requests) /\ NoRequest \notin Requests
    BY ApprovalAssumption DEF TypeOK, Handler
  <1>1. ASSUME NEW x \in Requests, Locked(x)', request[x].status = "pending"
        PROVE  /\ request'[x].status = "pending" /\ request'[x].votes = request[x].votes
               /\ SameAsk(request'[x], request[x])
    BY <1>1 DEF Changes, SameAsk
  <1>2. ASSUME NEW x \in Requests, request[x].status \notin {"unused", "pending"}
        PROVE  request'[x].status \notin {"unused", "pending"}
    BY <1>2, Blanks DEF Changes, Resolved
  <1>3. ASSUME NEW x \in Requests, request[x].status # "unused" PROVE request'[x].status # "unused"
    BY <1>3, Blanks DEF Changes, Resolved
  <1>4. ASSUME AtWork(h), r # NoRequest PROVE Approving(h)'
    <2>1. Approving(h)
      BY <1>4 DEF HeldBy
    <2>2. \A x \in {r} \cup w.dups : x \in Requests /\ Locked(x)' /\ request[x].status = "pending"
      BY <1>0, <1>4, <2>1 DEF Locked, AtWork, Approving, Pending
    <2>3. \A x \in {r} \cup w.dups :
             /\ request'[x].status = "pending" /\ request'[x].votes = request[x].votes
             /\ SameAsk(request'[x], request[x])
      BY <1>1, <2>2
    <2> QED
      BY <2>1, <2>3 DEF Approving, Pending, SameAsk
  <1>5. ASSUME (w.pc = "moot" /\ r # NoRequest) \/ w.pc = "link"
        PROVE  r \in Requests /\ \A x \in {r} \cup w.dups : request'[x].status \notin {"unused", "pending"}
    BY <1>0, <1>2, <1>5 DEF HeldBy
  <1>6. ASSUME w.pc \in {"expire", "relock"} PROVE r \in Requests /\ request'[r].status # "unused"
    BY <1>3, <1>6 DEF HeldBy
  <1>7. ASSUME AtWork(h)
        PROVE  /\ w.target \in Targets /\ w.op \in {"sign", "renew"}
               /\ w.op = "renew" => w.serial < MaxSerial /\ target'[w.target].state # "csr"
               /\ r = NoRequest => w.dups = {}
    BY <1>7 DEF HeldBy, Onward
  <1>8. ASSUME w.pc = "moot"
        PROVE  /\ w.target \in Targets /\ w.op \in {"sign", "renew"}
               /\ w.op = "sign" => target'[w.target].state # "csr"
    BY <1>8 DEF HeldBy, Onward
  <1>9. AtWork(h)' <=> AtWork(h)
    BY DEF AtWork
  <1> QED
    BY <1>4, <1>5, <1>6, <1>7, <1>8, <1>9 DEF HeldBy

\* ... and what it has not seen since says so.
LEMMA SightKept ==
  ASSUME TypeOK, NEW h \in Handlers, HeldBy(h), Sees(h), handler'[h] = handler[h], Onward,
         \A r \in Requests : Changes(r)
  PROVE  Sees(h)'
  <1> DEFINE w == handler[h]
  <1>1. ASSUME NEW x \in Requests, request'[x].status = "pending"
        PROVE  \/ request[x].status = "pending" /\ SameAsk(request'[x], request[x])
               \/ /\ request[x].status = "unused"
                  /\ target'[request'[x].target].state = (IF request'[x].op = "sign" THEN "csr" ELSE "cert")
                  /\ request'[x].op = "renew" => Marked(request'[x])
    BY <1>1, Blanks DEF Changes, Resolved, SameAsk
  <1>2. ASSUME w.pc = "perform", w.op = "renew"
        PROVE  Fresh(w.target, w.now)'
    <2>1. Fresh(w.target, w.now)
      BY <1>2 DEF Sees
    <2> SUFFICES ASSUME NEW x \in Requests
                 PROVE  /\ x \in w.now => request'[x].status # "unused"
                        /\ /\ request'[x].status = "pending" /\ request'[x].op = "renew"
                           /\ request'[x].target = w.target
                           => x \in w.now \/ "perform" \in request'[x].amid
      BY DEF Fresh, Pending
    <2>2. x \in w.now => request'[x].status # "unused"
      BY <2>1, Blanks DEF Fresh, Changes, Resolved
    <2>3. ASSUME request'[x].status = "pending", request'[x].op = "renew", request'[x].target = w.target
          PROVE  x \in w.now \/ "perform" \in request'[x].amid
      <3>1. CASE request[x].status = "pending" /\ SameAsk(request'[x], request[x])
        BY <2>1, <2>3, <3>1 DEF Fresh, Pending, SameAsk
      <3>2. CASE Marked(request'[x])
        BY <1>2, <2>3, <3>2 DEF Marked
      <3> QED
        BY <1>1, <2>3, <3>1, <3>2
    <2> QED
      BY <2>2, <2>3
  <1>3. ASSUME w.pc = "moot", NEW x \in Requests, request'[x].status = "pending",
               request'[x].op = w.op, request'[x].target = w.target
        PROVE  Served(x)' \/ "moot" \in request'[x].amid
    <2>1. CASE request[x].status = "pending" /\ SameAsk(request'[x], request[x])
      <3>1. Served(x) \/ "moot" \in request[x].amid
        BY <1>3, <2>1 DEF Sees, Pending, SameAsk
      <3> QED
        BY <2>1, <3>1 DEF Served, SameAsk, Onward
    <2>2. CASE /\ target'[request'[x].target].state = (IF request'[x].op = "sign" THEN "csr" ELSE "cert")
               /\ request'[x].op = "renew" => Marked(request'[x])
      <3>1. w.op # "sign"
        BY <1>3, <2>2 DEF HeldBy, Onward
      <3>2. w.op = "renew"
        BY <1>3, <3>1 DEF HeldBy
      <3> QED
        BY <1>3, <2>2, <3>2 DEF Marked
    <2> QED
      BY <1>1, <1>3, <2>1, <2>2
  <1> QED
    BY <1>2, <1>3 DEF Sees, Pending

\* Handlers stay, or move to where they perform nothing.
Moves == \A h \in Handlers : handler'[h] = handler[h] \/ (~AtWork(h)' /\ HeldBy(h)' /\ Sees(h)')

LEMMA HandlersKept ==
  ASSUME TypeOK, Held, Exclusive, Moves, Onward, \A r \in Requests : Changes(r)
  PROVE  Held' /\ Exclusive'
  <1>1. Held'
    BY HandlerKept, SightKept DEF Held, Moves
  <1>2. Exclusive'
    BY DEF Exclusive, Moves, Holds, AtWork
  <1> QED
    BY <1>1, <1>2

\* Requests and handlers move; nothing is performed.
LEMMA QuietStep ==
  ASSUME TypeOK, TypeOK', ApprovalInv, UNCHANGED <<target, done>>, \A r \in Requests : Changes(r), Moves
  PROVE  ApprovalInv'
  <1>1. (\A t \in Targets : Acts(t)) /\ Onward
    BY DEF Acts, Onward
  <1>2. Rows' /\ Performed' /\ PerformedAsAsked' /\ FourEyes'
    BY DEF ApprovalInv, Rows, Performed, PerformedAsAsked, FourEyes
  <1>3. Asked' /\ Stamped'
    BY <1>1, <1>2, AskedKept DEF ApprovalInv
  <1> QED
    BY <1>1, <1>2, <1>3, VotesKept, HandlersKept DEF ApprovalInv

\* An operation is performed.
LEMMA ActingStep ==
  ASSUME TypeOK, TypeOK', ApprovalInv, NEW d \in Done, NEW now \in SUBSET Requests, Does(d, now),
         \A r \in Requests : Changes(r), Moves
  PROVE  ApprovalInv'
  <1>1. /\ done \subseteq done' /\ \A t \in Targets : Acts(t)
        /\ Rows' /\ Performed' /\ PerformedAsAsked' /\ FourEyes'
    BY DoesKept DEF ApprovalInv
  <1>2. Asked' /\ Stamped'
    BY <1>1, AskedKept DEF ApprovalInv
  <1>3. Onward
    BY <1>1, RowsKept DEF ApprovalInv, Onward
  <1> QED
    BY <1>1, <1>2, <1>3, VotesKept, HandlersKept DEF ApprovalInv

\* A row is deleted.
LEMMA GoneStep ==
  ASSUME TypeOK, TypeOK', ApprovalInv, UNCHANGED done, \A r \in Requests : Changes(r), Moves,
         \A t \in Targets : \/ target'[t] = target[t]
                            \/ /\ target'[t].state = "gone" /\ target'[t].serial = target[t].serial
                               /\ target'[t].renewed_at = target[t].renewed_at
  PROVE  ApprovalInv'
  <1>1. (\A t \in Targets : Acts(t)) /\ Onward
    BY DEF Acts, Onward
  <1>2. Rows' /\ Performed'
    BY <1>1, RowsKept DEF ApprovalInv, Performed
  <1>3. PerformedAsAsked' /\ FourEyes'
    BY DEF ApprovalInv, PerformedAsAsked, FourEyes
  <1>4. Asked' /\ Stamped'
    BY <1>1, <1>2, AskedKept DEF ApprovalInv
  <1> QED
    BY <1>1, <1>2, <1>3, <1>4, VotesKept, HandlersKept DEF ApprovalInv

\* A handler begins to work, or works on, and holds what nobody else holds.
LEMMA WorkStep ==
  ASSUME TypeOK, TypeOK', ApprovalInv, UNCHANGED <<request, target, done>>, NEW h \in Handlers,
         \A g \in Handlers \ {h} : handler'[g] = handler[g], HeldBy(h)', Sees(h)',
         \A g \in Handlers \ {h} : AtWork(g) => Holds(g) \cap Holds(h)' = {}
  PROVE  (\A x \in Requests : Changes(x)) /\ ApprovalInv'
  <1>1. (\A x \in Requests : Changes(x)) /\ (\A t \in Targets : Acts(t)) /\ Onward
    BY DEF Changes, Acts, Onward
  <1>2. Held'
    <2> SUFFICES ASSUME NEW g \in Handlers, g # h PROVE HeldBy(g)' /\ Sees(g)'
      BY DEF Held
    <2> QED
      BY <1>1, HandlerKept, SightKept DEF ApprovalInv, Held
  <1>3. Exclusive'
    <2> SUFFICES ASSUME NEW f \in Handlers, NEW g \in Handlers, f # g, AtWork(f)', AtWork(g)'
                 PROVE  Holds(f)' \cap Holds(g)' = {}
      BY DEF Exclusive
    <2>1. \A e \in Handlers \ {h} : (AtWork(e)' => AtWork(e)) /\ Holds(e)' = Holds(e)
      BY DEF AtWork, Holds
    <2>2. CASE f = h \/ g = h
      BY <2>1, <2>2
    <2>3. CASE f # h /\ g # h
      BY <2>1, <2>3 DEF ApprovalInv, Exclusive
    <2> QED
      BY <2>2, <2>3
  <1>4. Rows' /\ Performed' /\ PerformedAsAsked' /\ FourEyes'
    BY DEF ApprovalInv, Rows, Performed, PerformedAsAsked, FourEyes
  <1>5. Asked' /\ Stamped'
    BY <1>1, <1>4, AskedKept DEF ApprovalInv
  <1> QED
    BY <1>1, <1>2, <1>3, <1>4, <1>5, VotesKept DEF ApprovalInv

-----------------------------------------------------------------------------
(* Steps *)

LEMMA Unlocking ==
  ASSUME \A h \in Handlers : handler'[h] = handler[h] \/ handler'[h].pc \notin {"stage", "perform"}
  PROVE  \A x \in Requests : ~Locked(x) => ~Locked(x)'
  BY DEF Locked

\* An open request is decided and was not voted on.
LEMMA DecidedChanges ==
  ASSUME NEW x \in Requests, Pending(x), request'[x].status \in Resolved, SameAsk(request'[x], request[x]),
         request'[x].votes = request[x].votes, ~Locked(x)',
         request'[x].status = "approved" => Served(x)' \/ "moot" \in request[x].amid
  PROVE  Changes(x)
  BY DEF Changes, Live, Pending

\* The vote of u completes it.
LEMMA VotedChanges ==
  ASSUME NEW x \in Requests, NEW u \in Users, Pending(x), u # request[x].requester,
         request'[x].status = "approved", SameAsk(request'[x], request[x]),
         request'[x].votes = request[x].votes \cup {u}, ~Locked(x)', Served(x)'
  PROVE  Changes(x)
  BY DEF Changes, Live, Pending, Resolved

LEMMA ServedBy ==
  ASSUME TypeOK, ApprovalInv, NEW x \in Requests, Pending(x), SameAsk(request'[x], request[x]),
         NEW d \in done', d.op = request[x].op, d.target = request[x].target, d.serial = target[d.target].serial
  PROVE  Served(x)'
  <1>1. request[x].serial <= target[request[x].target].serial /\ request[x].target \in Targets
    BY DEF ApprovalInv, Asked, Live, Pending
  <1>2. request[x].serial \in Nat /\ target[request[x].target].serial \in Nat
    BY <1>1, ApprovalAssumption DEF TypeOK, Request, Target
  <1> QED
    BY <1>1, <1>2 DEF Served, SameAsk

\* Requests that expire, whatever their status was.
LEMMA ExpiredChanges ==
  ASSUME TypeOK, NEW x \in Requests, Live(x), ~Locked(x)',
         request'[x] = [request[x] EXCEPT !.status = "expired"]
  PROVE  Changes(x)
  <1>1. /\ request'[x].status = "expired" /\ request'[x].votes = request[x].votes
        /\ SameAsk(request'[x], request[x])
    BY DEF TypeOK, Request, SameAsk
  <1> QED
    BY <1>1 DEF Changes, Resolved

\* What an approver holds is open.
LEMMA LockedIsPending ==
  ASSUME ApprovalInv, NEW x \in Requests, Locked(x)
  PROVE  Pending(x)
  <1>1. PICK h \in Handlers : AtWork(h) /\ x \in {handler[h].req} \cup handler[h].dups
    BY DEF Locked, AtWork
  <1>2. HeldBy(h) /\ NoRequest \notin Requests
    BY ApprovalAssumption DEF ApprovalInv, Held
  <1>3. handler[h].req # NoRequest
    BY <1>1, <1>2 DEF HeldBy
  <1>4. Approving(h)
    BY <1>1, <1>2, <1>3 DEF HeldBy
  <1> QED
    BY <1>1, <1>4 DEF Approving

LEMMA RequestSteps ==
  ASSUME TypeOK, TypeOK', ApprovalInv, NEW r \in Requests,
         \/ \E t \in Targets, n \in Required, op \in Ops, user \in Users \cup {NoUser} : Queue(r, op, t, user, n)
         \/ \E user \in Users : Approve(r, user) \/ Reject(r, user)
         \/ Deadline(r)
  PROVE  (\A x \in Requests : Changes(x)) /\ ApprovalInv'
  <1>0. UNCHANGED <<target, done, handler>> /\ \A x \in Requests \ {r} : request'[x] = request[x]
    BY DEF Queue, Approve, Reject, Deadline, TypeOK
  <1>1. Moves /\ \A x \in Requests \ {r} : Changes(x)
    BY <1>0 DEF Moves, Changes
  <1>2. Locked(r)' <=> Locked(r)
    BY <1>0 DEF Locked
  <1>3. SUFFICES Changes(r)
    BY <1>0, <1>1, QuietStep
  <1>4. ASSUME NEW t \in Targets, NEW n \in Required, NEW op \in Ops, NEW user \in Users \cup {NoUser},
               Queue(r, op, t, user, n)
        PROVE  Changes(r)
    <2> DEFINE A == IF op = "renew" THEN Renewing(t) \cap {"perform", "moot"} ELSE {}
               p == [Blank EXCEPT !.status = "pending", !.op = op, !.target = t,
                                  !.serial = target[t].serial, !.requester = user, !.required = n, !.amid = A]
    <2>1. request'[r] = p
      BY <1>4 DEF Queue, TypeOK
    <2>2. /\ p.status = "pending" /\ p.votes = {} /\ p.linked = FALSE /\ p.target = t
          /\ p.op = op /\ p.serial = target[t].serial /\ p.amid = A
      BY DEF Blank
    <2>3. request[r].status = "unused" /\ target[t].state = (IF op = "sign" THEN "csr" ELSE "cert")
      BY <1>4 DEF Queue, Possible
    <2>4. op = "renew" => Marked(p)
      <3>1. op = "renew" => \A h \in Handlers : handler[h].op = "renew" /\ handler[h].target = t
                               /\ handler[h].pc \in {"perform", "moot"} => handler[h].pc \in A
        BY DEF Renewing
      <3> HIDE DEF p, A
      <3> QED
        BY <1>0, <2>2, <3>1 DEF Marked
    <2> HIDE DEF p, A
    <2> QED
      BY <1>0, <2>1, <2>2, <2>3, <2>4 DEF Changes
  <1>5. ASSUME NEW user \in Users, Reject(r, user) PROVE Changes(r)
    <2>1. /\ request'[r].status \in {"expired", "rejected"} /\ request'[r].votes = request[r].votes
          /\ SameAsk(request'[r], request[r])
      BY <1>5 DEF Reject, TypeOK, Request, SameAsk
    <2> QED
      BY <1>2, <1>5, <2>1, DecidedChanges DEF Reject, Resolved
  <1>6. ASSUME Deadline(r) PROVE Changes(r)
    <2>1. /\ request'[r].status = "pending" /\ request'[r].votes = request[r].votes
          /\ SameAsk(request'[r], request[r]) /\ request'[r].linked = request[r].linked
      BY <1>6 DEF Deadline, Pending, TypeOK, Request, SameAsk
    <2>2. request[r].status = "pending" /\ ~request[r].linked
      BY <1>6 DEF Deadline, Pending, ApprovalInv, Unlinked
    <2> QED
      BY <2>1, <2>2 DEF Changes, Live
  <1>7. ASSUME NEW user \in Users, Approve(r, user) PROVE Changes(r)
    <2>0. Pending(r) /\ ~Locked(r)' /\ ~request[r].linked
      BY <1>2, <1>7 DEF Approve, Pending, ApprovalInv, Unlinked
    <2>1. CASE \E s \in {"expired", "rejected"} : request' = [request EXCEPT ![r].status = s]
      <3>1. /\ request'[r].status \in {"expired", "rejected"} /\ request'[r].votes = request[r].votes
            /\ SameAsk(request'[r], request[r])
        BY <2>1 DEF TypeOK, Request, SameAsk
      <3> QED
        BY <2>0, <3>1, DecidedChanges DEF Resolved
    <2>2. CASE request[r].requester # user /\ request' = [request EXCEPT ![r].votes = @ \cup {user}]
      <3>1. /\ request'[r].status = request[r].status /\ request'[r].votes = request[r].votes \cup {user}
            /\ SameAsk(request'[r], request[r]) /\ request'[r].linked = request[r].linked
        BY <2>2 DEF TypeOK, Request, SameAsk
      <3> QED
        BY <2>0, <2>2, <3>1 DEF Changes, Live, Pending
    <2>3. CASE /\ request[r].requester # user /\ ~TargetGone(r) /\ AlreadyDone(r)
               /\ request' = [request EXCEPT ![r].status = "approved", ![r].linked = TRUE, ![r].votes = @ \cup {user}]
      <3>1. /\ request'[r].status = "approved" /\ request'[r].votes = request[r].votes \cup {user}
            /\ SameAsk(request'[r], request[r])
        BY <2>3 DEF TypeOK, Request, SameAsk
      <3>2. Served(r)
        <4> DEFINE q == request[r]
                   t == target[q.target]
        <4>1. /\ q.target \in Targets /\ q.op \in Ops
              /\ \/ q.op = "sign" /\ t.state \in {"cert", "revoked"}
                 \/ q.op = "renew" /\ q.serial < t.serial
                 \/ q.op = "revoke" /\ t.state = "revoked"
                 => Served(r)
              /\ q.op = "renew" /\ r \in t.renewed_at => q.serial < t.serial
          BY <2>0 DEF ApprovalInv, Asked, Live, Pending, TypeOK, Request
        <4>2. t.state \in {"csr", "cert", "revoked", "gone"} /\ t.state # "gone"
              /\ t.serial \in Nat /\ q.serial \in Nat
          BY <2>3, <4>1, ApprovalAssumption DEF TypeOK, Target, Request, TargetGone
        <4>3. /\ q.op = "sign" => t.state # "csr"
              /\ q.op = "renew" => r \in t.renewed_at
              /\ q.op = "revoke" => t.state = "revoked"
          BY <2>3, <4>1 DEF AlreadyDone, Ops
        <4> QED
          BY <4>1, <4>2, <4>3 DEF Ops
      <3>3. Served(r)'
        BY <1>0, <3>1, <3>2 DEF Served, SameAsk
      <3> QED
        BY <2>0, <2>3, <3>1, <3>3 DEF Changes, Live, Pending, Resolved
    <2> QED
      BY <1>7, <2>1, <2>2, <2>3 DEF Approve
  <1> QED
    BY <1>4, <1>5, <1>6, <1>7

\* Requests past their deadline expire, and perhaps the policy that has none left is removed.
LEMMA ExpirySteps ==
  ASSUME TypeOK, TypeOK', ApprovalInv, ExpireStale \/ \E h \in Handlers : DeletePolicy(h)
  PROVE  (\A x \in Requests : Changes(x)) /\ ApprovalInv'
  <1>1. UNCHANGED <<target, done>> /\ request' = Expiring(Stale)
    BY DEF ExpireStale, DeletePolicy
  <1>2. \A g \in Handlers : handler'[g] = handler[g] \/ handler'[g].pc = "remove"
    BY DEF ExpireStale, DeletePolicy, TypeOK, Idle
  <1>3. Moves
    BY <1>2 DEF Moves, HeldBy, Sees, AtWork
  <1>4. ASSUME NEW x \in Requests PROVE Changes(x)
    <2>1. CASE x \in Stale
      <3>1. Live(x) /\ ~Locked(x)'
        BY <1>2, <2>1, Unlocking DEF Stale, Live, Pending
      <3>2. request'[x] = [request[x] EXCEPT !.status = "expired"]
        BY <1>1, <2>1, ExpiringIs
      <3> QED
        BY <3>1, <3>2, ExpiredChanges
    <2>2. CASE x \notin Stale
      <3>1. request'[x] = request[x]
        BY <1>1, <2>2, ExpiringIs
      <3> QED
        BY <3>1 DEF Changes
    <2> QED
      BY <2>1, <2>2
  <1> QED
    BY <1>1, <1>3, <1>4, QuietStep

\* A handler ends, fails or begins without performing anything.
LEMMA HandlerSteps ==
  ASSUME TypeOK, TypeOK', ApprovalInv, NEW h \in Handlers,
         \/ PerformFails(h) \/ Relock(h) \/ Link(h) \/ GetApprovalExpires(h) \/ RemoveRequests(h)
         \/ \E r \in Requests : GetApproval(h, r)
  PROVE  (\A x \in Requests : Changes(x)) /\ ApprovalInv'
  <1>0. UNCHANGED <<target, done>> /\ \A g \in Handlers \ {h} : handler'[g] = handler[g]
    BY DEF PerformFails, Relock, Link, GetApprovalExpires, RemoveRequests, GetApproval, TypeOK
  <1>1. HeldBy(h)
    BY DEF ApprovalInv, Held
  <1>2. ASSUME \A x \in Requests : Changes(x), handler'[h] = Idle
        PROVE  (\A x \in Requests : Changes(x)) /\ ApprovalInv'
    <2>1. Moves
      BY <1>0, <1>2, Blanks DEF Moves, HeldBy, Sees, AtWork
    <2> QED
      BY <1>0, <1>2, <2>1, QuietStep
  <1>3. ASSUME UNCHANGED request, handler'[h].pc \in {"expire", "relock"}, handler'[h].req \in Requests,
               request[handler'[h].req].status # "unused"
        PROVE  (\A x \in Requests : Changes(x)) /\ ApprovalInv'
    <2>1. \A x \in Requests : Changes(x)
      BY <1>3 DEF Changes
    <2>2. Moves
      BY <1>0, <1>3 DEF Moves, HeldBy, Sees, AtWork
    <2> QED
      BY <1>0, <2>1, <2>2, QuietStep
  <1>4. CASE PerformFails(h)
    <2>1. UNCHANGED request /\ AtWork(h)
      BY <1>4 DEF PerformFails, AtWork
    <2>2. CASE handler[h].req = NoRequest
      <3>1. handler'[h] = Idle
        BY <1>4, <2>2 DEF PerformFails, TypeOK
      <3>2. \A x \in Requests : Changes(x)
        BY <2>1 DEF Changes
      <3> QED
        BY <1>2, <3>1, <3>2
    <2>3. CASE handler[h].req # NoRequest
      <3>1. handler'[h].pc = "relock" /\ handler'[h].req = handler[h].req
        BY <1>4, <2>3 DEF PerformFails, TypeOK, Handler, Idle
      <3>2. Approving(h)
        BY <1>1, <2>1, <2>3 DEF HeldBy
      <3> QED
        BY <1>3, <2>1, <3>1, <3>2 DEF Approving, Pending
    <2> QED
      BY <2>2, <2>3
  <1>5. CASE \E r \in Requests : GetApproval(h, r)
    <2>1. PICK r \in Requests : GetApproval(h, r)
      BY <1>5
    <2>2. /\ UNCHANGED request /\ handler'[h].pc = "expire" /\ handler'[h].req = r
          /\ request[r].status = "pending"
      BY <2>1 DEF GetApproval, TypeOK, Idle, Pending
    <2> QED
      BY <1>3, <2>2
  <1>6. CASE Relock(h)
    <2>0. handler'[h] = Idle /\ handler[h].req \in Requests /\ ~Locked(handler[h].req)
      BY <1>1, <1>6 DEF Relock, TypeOK, HeldBy
    <2>1. ASSUME NEW x \in Requests, request' # request PROVE Changes(x)
      <3>1. CASE x = handler[h].req
        <4>1. /\ request'[x].status = "rejected" /\ request'[x].votes = request[x].votes
              /\ SameAsk(request'[x], request[x]) /\ Pending(x)
          BY <1>6, <2>1, <3>1 DEF Relock, TypeOK, Request, SameAsk
        <4>2. ~Locked(x)'
          BY <1>0, <2>0, <3>1, Blanks, Unlocking
        <4> QED
          BY <4>1, <4>2, DecidedChanges DEF Resolved
      <3>2. CASE x # handler[h].req
        BY <1>6, <3>2 DEF Relock, TypeOK, Changes
      <3> QED
        BY <3>1, <3>2
    <2>2. ASSUME NEW x \in Requests, request' = request PROVE Changes(x)
      BY <2>2 DEF Changes
    <2> QED
      BY <1>2, <2>0, <2>1, <2>2
  <1>7. CASE Link(h)
    <2>0. handler'[h] = Idle /\ handler[h].req \in Requests
          /\ \A x \in {handler[h].req} \cup handler[h].dups : request[x].status \notin {"unused", "pending"}
      BY <1>1, <1>7 DEF Link, TypeOK, HeldBy
    <2>1. ASSUME NEW x \in Requests PROVE Changes(x)
      <3>1. CASE request'[x] = request[x]
        BY <3>1 DEF Changes
      <3>2. CASE request'[x] # request[x]
        <4>1. /\ x \in {handler[h].req} \cup handler[h].dups /\ request[x].status # "deleted"
              /\ request'[x] = [request[x] EXCEPT !.linked = TRUE]
          BY <1>7, <3>2 DEF Link, TypeOK
        <4>2. /\ request'[x].status = request[x].status /\ request'[x].votes = request[x].votes
              /\ SameAsk(request'[x], request[x])
          BY <4>1 DEF TypeOK, Request, SameAsk
        <4>3. request[x].status \in Resolved
          BY <2>0, <4>1 DEF TypeOK, Request
        <4>4. ~Locked(x)'
          <5>1. ~Locked(x)
            BY <4>3, LockedIsPending DEF Pending, Resolved
          <5> QED
            BY <1>0, <2>0, <5>1, Blanks, Unlocking
        <4> QED
          BY <4>2, <4>3, <4>4 DEF Changes, Live, Resolved
      <3> QED
        BY <3>1, <3>2
    <2> QED
      BY <1>2, <2>0, <2>1
  <1>8. CASE GetApprovalExpires(h)
    <2> DEFINE r == handler[h].req
               R == {r} \ {x \in Requests : request[x].status = "deleted"}
    <2>0. /\ handler'[h] = Idle /\ r \in Requests /\ request[r].status # "unused" /\ ~Locked(r)
          /\ request' = Expiring(R)
      BY <1>1, <1>8 DEF GetApprovalExpires, TypeOK, HeldBy
    <2>1. ASSUME NEW x \in Requests PROVE Changes(x)
      <3>1. CASE x \in R
        <4>1. Live(x) /\ ~Locked(x)'
          BY <1>0, <2>0, <3>1, Blanks, Unlocking DEF Live
        <4> HIDE DEF R
        <4>2. request'[x] = [request[x] EXCEPT !.status = "expired"]
          BY <2>0, <3>1, ExpiringIs
        <4> QED
          BY <4>1, <4>2, ExpiredChanges
      <3>2. CASE x \notin R
        <4> HIDE DEF R
        <4>1. request'[x] = request[x]
          BY <2>0, <3>2, ExpiringIs
        <4> QED
          BY <4>1 DEF Changes
      <3> QED
        BY <3>1, <3>2
    <2> QED
      BY <1>2, <2>0, <2>1
  <1>9. CASE RemoveRequests(h)
    <2>0. handler'[h] = Idle /\ \A x \in Requests : ~Locked(x)
      BY <1>9 DEF RemoveRequests, TypeOK
    <2>1. \A x \in Requests : ~Locked(x)'
      BY <1>0, <2>0, Blanks, Unlocking
    <2>2. ASSUME NEW x \in Requests PROVE Changes(x)
      <3>1. request'[x] = IF request[x].status = "unused" THEN request[x] ELSE Deleted
        BY <1>9 DEF RemoveRequests
      <3> QED
        BY <2>1, <3>1 DEF Changes
    <2> QED
      BY <1>2, <2>0, <2>2
  <1> QED
    BY <1>4, <1>5, <1>6, <1>7, <1>8, <1>9

LEMMA CrashStep ==
  ASSUME TypeOK, TypeOK', ApprovalInv, Crash
  PROVE  (\A x \in Requests : Changes(x)) /\ ApprovalInv'
  <1>1. UNCHANGED <<request, target, done>> /\ \A h \in Handlers : handler'[h] = Idle
    BY DEF Crash
  <1>2. \A x \in Requests : Changes(x)
    BY <1>1 DEF Changes
  <1>3. Moves
    BY <1>1, Blanks DEF Moves, HeldBy, Sees, AtWork
  <1> QED
    BY <1>1, <1>2, <1>3, QuietStep

\* The present is later than every open request to renew t.
LEMMA NowIsFresh ==
  ASSUME NEW t
  PROVE  Fresh(t, Now(t))
  BY DEF Fresh, Now, Pending

LEMMA ApproverStarts ==
  ASSUME TypeOK, TypeOK', ApprovalInv, NEW h \in Handlers, NEW r \in Requests, NEW user \in Users,
         ApproveAndPerform(h, r, user)
  PROVE  (\A x \in Requests : Changes(x)) /\ ApprovalInv'
  <1> DEFINE q == request[r]
             pc == IF q.op = "sign" THEN "perform" ELSE "stage"
  <1>a. PICK dups : dups = Open(q.op, q.target) \ {r}
    OBVIOUS
  <1>b. PICK w : w = Working(pc, q.op, q.target, r, user, dups)
    OBVIOUS
  <1>0. /\ UNCHANGED <<request, target, done>> /\ Completes(r, user) /\ q.op \in {"sign", "renew"}
        /\ handler'[h] = w /\ \A g \in Handlers \ {h} : handler'[g] = handler[g]
        /\ q.op = "renew" => target[q.target].serial < MaxSerial
    BY <1>a, <1>b DEF ApproveAndPerform, TypeOK, Room
  <1>1. /\ Pending(r) /\ ~Locked(r) /\ user \in Users \ q.votes /\ user # q.requester
        /\ Cardinality(q.votes) + 1 >= q.required /\ ~AlreadyDone(r)
    BY <1>0 DEF Completes
  <1>2. /\ q.target \in Targets /\ q.op \in Ops /\ q.serial <= target[q.target].serial
        /\ q.serial \in Nat /\ target[q.target].serial \in Nat
        /\ q.op # "sign" => target[q.target].state # "csr"
        /\ q.op = "renew" /\ q.serial < target[q.target].serial =>
              r \in target[q.target].renewed_at \/ "perform" \in q.amid
    BY <1>1, ApprovalAssumption DEF ApprovalInv, Asked, Live, Pending, TypeOK, Request, Target
  <1>3. dups \in SUBSET Requests /\ r \notin dups
        /\ \A x \in dups : /\ Pending(x) /\ ~Locked(x) /\ request[x].op = q.op /\ request[x].target = q.target
    BY <1>a DEF Open
  <1>4. q.op = "renew" => q.serial = target[q.target].serial \/ "perform" \in q.amid
    BY <1>1, <1>2 DEF AlreadyDone
  <1>5. /\ w.pc = pc /\ w.op = q.op /\ w.target = q.target /\ w.serial = target[q.target].serial
        /\ w.req = r /\ w.user = user /\ w.dups = dups
    <2>1. pc \in {"stage", "perform"} /\ r \in Requests \cup {NoRequest} /\ user \in Users \cup {NoUser}
      OBVIOUS
    <2> HIDE DEF pc
    <2> QED
      BY <1>2, <1>3, <1>b, <2>1, WorkingIs
  <1>6. HeldBy(h)'
    <2>1. Approving(h)'
      BY <1>0, <1>1, <1>3, <1>4, <1>5 DEF Approving, Pending
    <2>2. r # NoRequest /\ w.pc \in {"stage", "perform"}
      BY <1>5, ApprovalAssumption
    <2> QED
      BY <1>0, <1>2, <1>5, <2>1, <2>2 DEF HeldBy, AtWork
  <1>7. Sees(h)'
    BY <1>0, <1>5 DEF Sees
  <1>8. \A g \in Handlers \ {h} : AtWork(g) => Holds(g) \cap Holds(h)' = {}
    <2>1. Holds(h)' \subseteq {r} \cup dups
      BY <1>0, <1>5 DEF Holds
    <2>2. \A g \in Handlers \ {h} : AtWork(g) => r \notin Holds(g) /\ \A x \in dups : x \notin Holds(g)
      BY <1>1, <1>3 DEF Locked, AtWork, Holds
    <2> QED
      BY <2>1, <2>2
  <1> QED
    BY <1>0, <1>6, <1>7, <1>8, WorkStep

LEMMA DirectStart ==
  ASSUME TypeOK, TypeOK', ApprovalInv, NEW h \in Handlers, NEW t \in Targets, NEW op \in {"sign", "renew"},
         NEW user \in Users \cup {NoUser}, ActDirectly(h, op, t, user)
  PROVE  (\A x \in Requests : Changes(x)) /\ ApprovalInv'
  <1>a. PICK w : w = Working("perform", op, t, NoRequest, user, {})
    OBVIOUS
  <1>0. /\ UNCHANGED <<request, target, done>> /\ handler'[h] = w
        /\ \A g \in Handlers \ {h} : handler'[g] = handler[g]
        /\ op = "renew" => target[t].serial < MaxSerial /\ target[t].state # "csr"
    BY <1>a DEF ActDirectly, TypeOK, Room, Possible
  <1>1. /\ w.pc = "perform" /\ w.op = op /\ w.target = t /\ w.serial = target[t].serial
        /\ w.req = NoRequest /\ w.dups = {} /\ (op = "renew" => w.now = Now(t))
    <2>1. op \in Ops /\ {} \in SUBSET Requests
      BY DEF Ops
    <2> QED
      BY <1>a, <2>1, WorkingIs
  <1>2. HeldBy(h)'
    BY <1>0, <1>1 DEF HeldBy, AtWork
  <1>3. Sees(h)'
    <2>1. op = "renew" => Fresh(w.target, w.now)
      BY <1>1, NowIsFresh
    <2>2. Fresh(w.target, w.now) => Fresh(handler[h].target, handler[h].now)'
      BY <1>0 DEF Fresh, Pending
    <2> QED
      BY <1>0, <1>1, <2>1, <2>2 DEF Sees
  <1>4. Holds(h)' = {}
    BY <1>0, <1>1 DEF Holds
  <1> QED
    BY <1>0, <1>2, <1>3, <1>4, WorkStep

LEMMA StageStep ==
  ASSUME TypeOK, TypeOK', ApprovalInv, NEW h \in Handlers, Stage(h)
  PROVE  (\A x \in Requests : Changes(x)) /\ ApprovalInv'
  <1> DEFINE w == handler[h]
             v == handler'[h]
  <1>0. /\ UNCHANGED <<request, target, done>> /\ w.pc = "stage"
        /\ v.pc = "perform" /\ v.now = Now(w.target)
        /\ v.op = w.op /\ v.target = w.target /\ v.serial = w.serial /\ v.req = w.req
        /\ v.user = w.user /\ v.dups = w.dups
        /\ \A g \in Handlers \ {h} : handler'[g] = handler[g]
    BY DEF Stage, TypeOK, Handler
  <1>1. HeldBy(h) /\ AtWork(h)
    BY <1>0 DEF ApprovalInv, Held, AtWork
  <1>2. HeldBy(h)'
    <2>1. Approving(h) => Approving(h)'
      BY <1>0 DEF Approving, Pending
    <2> QED
      BY <1>0, <1>1, <2>1 DEF HeldBy, AtWork
  <1>3. Sees(h)'
    <2>1. Fresh(w.target, Now(w.target))
      BY NowIsFresh
    <2>2. Fresh(w.target, Now(w.target)) => Fresh(handler[h].target, handler[h].now)'
      BY <1>0 DEF Fresh, Pending
    <2> QED
      BY <1>0, <2>1, <2>2 DEF Sees
  <1>4. Holds(h)' = Holds(h)
    BY <1>0 DEF Holds
  <1>5. \A g \in Handlers \ {h} : AtWork(g) => Holds(g) \cap Holds(h)' = {}
    BY <1>1, <1>4 DEF ApprovalInv, Exclusive
  <1> QED
    BY <1>0, <1>2, <1>3, <1>5, WorkStep

\* What becomes of a request nobody holds when it is resolved, with what was done when it is approved.
LEMMA ResolvedChanges ==
  ASSUME TypeOK, ApprovalInv, NEW x \in Requests, Pending(x), ~Locked(x)',
         \/ Decision(request'[x], request[x], "rejected")
         \/ /\ Decision(request'[x], request[x], "approved")
            /\ \E d \in done' : /\ d.op = request[x].op /\ d.target = request[x].target
                                 /\ d.serial = target[d.target].serial
  PROVE  Changes(x)
  <1>1. /\ request'[x].status \in Resolved
        /\ request'[x].votes = request[x].votes /\ SameAsk(request'[x], request[x])
    BY DEF Decision, Resolved
  <1>2. request'[x].status = "approved" => Served(x)'
    BY <1>1, ServedBy DEF Decision
  <1> QED
    BY <1>1, <1>2, DecidedChanges DEF Resolved

\* The vote of user completes request r, which is performed as d.
LEMMA ForDoes ==
  ASSUME TypeOK, ApprovalInv, NEW r \in Requests, NEW user \in Users, NEW dups \in SUBSET (Requests \ {r}),
         request[r].target \in Targets, user \notin request[r].votes, user # request[r].requester,
         Cardinality(request[r].votes) + 1 >= request[r].required,
         \/ request[r].serial = target[request[r].target].serial
         \/ request[r].op = "renew" /\ "perform" \in request[r].amid,
         Due(request[r].op, target[request[r].target]), NEW now \in SUBSET Requests,
         request[r].op = "renew" =>
            target[request[r].target].serial < MaxSerial /\ Fresh(request[r].target, now),
         target'[request[r].target] = After(request[r].op, target[request[r].target], now),
         \A t \in Targets \ {request[r].target} : target'[t] = target[t],
         NEW d, d = For(r, Approved(r, user, dups)), done' = done \cup {d}
  PROVE  /\ d \in Done /\ Does(d, now)
         /\ d.op = request[r].op /\ d.target = request[r].target /\ d.serial = target[d.target].serial
  <1> DEFINE reqs == Approved(r, user, dups)
  <1>1. reqs \in [Requests -> Request] /\ reqs[r].votes = request[r].votes \cup {user}
    <2>1. r \in Requests /\ user \in Users /\ dups \in SUBSET (Requests \ {r})
      OBVIOUS
    <2> QED
      BY <2>1, ApprovedIs
  <1>3. d = For(r, reqs)
    OBVIOUS
  <1> HIDE DEF reqs
  <1>4. d \in Done
    BY <1>1, <1>3, ForIs
  <1>5. /\ d.op = request[r].op /\ d.target = request[r].target /\ d.serial = target[request[r].target].serial
        /\ d.asked = request[r].serial /\ d.requester = request[r].requester /\ d.required = request[r].required
        /\ d.votes = request[r].votes \cup {user} /\ d.amid = request[r].amid
    BY <1>1, <1>3 DEF For
  <1>6. IsFiniteSet(request[r].votes) /\ request[r].requester \notin request[r].votes
    BY DEF ApprovalInv, Voted
  <1>7. Cardinality(d.votes) = Cardinality(request[r].votes) + 1
    <2> DEFINE V == request[r].votes
    <2>1. IsFiniteSet(V) /\ user \notin V /\ d.votes = V \cup {user}
      BY <1>5, <1>6
    <2> HIDE DEF V
    <2>2. Cardinality(d.votes) = Cardinality(V) + 1
      BY <2>1, FS_AddElement
    <2> QED
      BY <2>2 DEF V
  <1>8. /\ target'[d.target] = After(d.op, target[d.target], now)
        /\ \A t \in Targets \ {d.target} : target'[t] = target[t]
    BY <1>5
  <1>9. /\ d.requester \notin d.votes /\ Cardinality(d.votes) >= d.required
        /\ d.serial = d.asked \/ (d.op = "renew" /\ "perform" \in d.amid)
    BY <1>5, <1>6, <1>7
  <1>10. Does(d, now)
    BY <1>5, <1>8, <1>9 DEF Does
  <1> QED
    BY <1>4, <1>5, <1>10

\* What is open when a handler has committed its operation as d was asked for before.
LEMMA CommittedSees ==
  ASSUME TypeOK, ApprovalInv, NEW h \in Handlers, NEW d \in done', \A x \in Requests : Changes(x),
         d.op = handler[h].op, d.target = handler[h].target, d.serial = target[d.target].serial,
         handler'[h].pc = "moot", handler'[h].op = handler[h].op, handler'[h].target = handler[h].target,
         \A x \in Requests : request'[x].status = "pending" => request'[x] = request[x]
  PROVE  Sees(h)'
  <1> SUFFICES ASSUME NEW x \in Requests, request'[x].status = "pending",
                      request'[x].op = d.op, request'[x].target = d.target
               PROVE  Served(x)'
    BY DEF Sees, Pending
  <1>1. Pending(x) /\ request'[x] = request[x] /\ SameAsk(request'[x], request[x])
    BY DEF Pending, SameAsk
  <1> QED
    BY <1>1, ServedBy

LEMMA PerformStep ==
  ASSUME TypeOK, TypeOK', ApprovalInv, NEW h \in Handlers, Perform(h)
  PROVE  (\A x \in Requests : Changes(x)) /\ ApprovalInv'
  <1>0. HeldBy(h) /\ Sees(h) /\ AtWork(h) /\ Approving(h)
    BY DEF Perform, ApprovalInv, Held, HeldBy, AtWork
  <1>a. PICK r \in Requests, u \in Users, D \in SUBSET Requests, now \in SUBSET Requests :
           r = handler[h].req /\ u = handler[h].user /\ D = handler[h].dups /\ now = handler[h].now
    BY <1>0 DEF Approving, TypeOK, Handler
  <1> DEFINE q == request[r]
             reqs == Approved(r, u, D)
  <1>b. PICK d : d = For(r, reqs)
    OBVIOUS
  <1>1. /\ r \in Requests /\ Pending(r) /\ q.op \in {"sign", "renew"} /\ u \in Users \ q.votes
        /\ q.op = handler[h].op /\ q.target = handler[h].target
        /\ u # q.requester /\ Cardinality(q.votes) + 1 >= q.required /\ D \in SUBSET (Requests \ {r})
        /\ q.op = "renew" => q.serial = handler[h].serial \/ "perform" \in q.amid
        /\ q.op = "renew" => handler[h].serial < MaxSerial
        /\ \A x \in D : Pending(x) /\ request[x].op = q.op /\ request[x].target = q.target
    BY <1>0, <1>a DEF Approving, HeldBy
  <1>2. /\ q.target \in Targets /\ (q.op = "sign" => q.serial = 0)
        /\ q.op # "sign" => target[q.target].state # "csr"
    BY <1>1 DEF ApprovalInv, Asked, Live, Pending
  <1>3. /\ q.serial = target[q.target].serial \/ (q.op = "renew" /\ "perform" \in q.amid)
        /\ Due(q.op, target[q.target])
        /\ q.op = "renew" => target[q.target].serial < MaxSerial /\ Fresh(q.target, now)
    <2>1. /\ q.op = "sign" => target[q.target].state = "csr"
          /\ q.op = "renew" => target[q.target].serial = handler[h].serial
      BY <1>1 DEF Perform, Claims
    <2>2. q.op = "sign" => q.serial = target[q.target].serial
      BY <1>2, <2>1 DEF ApprovalInv, Rows
    <2>3. q.op = "renew" => Fresh(q.target, now)
      BY <1>0, <1>1, <1>a DEF Sees, Perform
    <2> QED
      BY <1>1, <1>2, <2>1, <2>2, <2>3 DEF Due
  <1>4. /\ target' = [target EXCEPT ![q.target] = After(q.op, @, now)] /\ done' = done \cup {d}
        /\ request' = reqs
    BY <1>a, <1>b DEF Perform
  <1>5. /\ handler'[h].pc = "moot" /\ handler'[h].req = r /\ handler'[h].dups = D
        /\ handler'[h].op = q.op /\ handler'[h].target = q.target
        /\ \A g \in Handlers \ {h} : handler'[g] = handler[g]
    <2>1. handler[h] \in Handler /\ handler' = [handler EXCEPT ![h] = Committed(handler[h], q.requester)]
          /\ handler \in [Handlers -> Handler]
      BY <1>a DEF Perform, TypeOK
    <2>2. \A w \in Handler : \A u1 : LET v == Committed(w, u1) IN
             v.pc = "moot" /\ v.req = w.req /\ v.dups = w.dups /\ v.op = w.op /\ v.target = w.target
      BY DEF Committed, Handler
    <2>3. handler'[h] = Committed(handler[h], q.requester) /\ \A g \in Handlers \ {h} : handler'[g] = handler[g]
      BY <2>1
    <2> QED
      BY <1>1, <1>a, <2>1, <2>2, <2>3
  <1>6. \A x \in {r} \cup D : ~Locked(x)'
    <2> SUFFICES ASSUME NEW x \in {r} \cup D, NEW g \in Handlers, handler'[g].pc \in {"stage", "perform"},
                        x \in {handler'[g].req} \cup handler'[g].dups
                 PROVE  FALSE
      BY DEF Locked
    <2>1. g # h /\ handler'[g] = handler[g] /\ AtWork(g) /\ x # NoRequest
      BY <1>5, ApprovalAssumption DEF AtWork
    <2>2. x \in Holds(g) /\ x \in Holds(h)
      BY <1>a, <2>1 DEF Holds
    <2> QED
      BY <1>0, <2>1, <2>2 DEF ApprovalInv, Exclusive
  <1>9. /\ d \in Done /\ Does(d, now) /\ d.op = q.op /\ d.target = q.target /\ d.serial = target[d.target].serial
    <2>1. /\ target'[q.target] = After(q.op, target[q.target], now)
          /\ \A t \in Targets \ {q.target} : target'[t] = target[t]
      BY <1>2, <1>4 DEF TypeOK
    <2> QED
      BY <1>1, <1>2, <1>3, <1>4, <1>b, <2>1, ForDoes
  <1> HIDE DEF q
  <1>10. /\ reqs \in [Requests -> Request] /\ reqs[r].status = "approved"
         /\ reqs[r].votes = request[r].votes \cup {u} /\ SameAsk(reqs[r], request[r])
         /\ \A x \in D : Decision(reqs[x], request[x], "approved")
         /\ \A x \in Requests \ {r} : x \notin D => reqs[x] = request[x]
    BY <1>1, ApprovedIs
  <1> HIDE DEF reqs
  <1>12. d \in done' /\ request[r].op = d.op /\ request[r].target = d.target
    BY <1>4, <1>9 DEF q
  <1>13. Changes(r)
    <2>1. request'[r] = reqs[r] /\ r \in Requests
      BY <1>1, <1>4
    <2>2. Served(r)'
      BY <1>1, <1>9, <1>10, <1>12, <2>1, ServedBy
    <2> QED
      BY <1>1, <1>6, <1>10, <2>1, <2>2, VotedChanges DEF q
  <1>14. ASSUME NEW x \in D PROVE Changes(x)
    <2>1. x \in Requests /\ x # r /\ Pending(x) /\ request[x].op = d.op /\ request[x].target = d.target
      BY <1>1, <1>9
    <2>2. Decision(request'[x], request[x], "approved")
      BY <1>4, <1>10
    <2> QED
      BY <1>6, <1>9, <1>12, <2>1, <2>2, ResolvedChanges
  <1>16. ASSUME NEW x \in Requests, x \notin D, x # r PROVE Changes(x)
    BY <1>4, <1>10, <1>16 DEF Changes
  <1>17. \A x \in Requests : Changes(x)
    BY <1>13, <1>14, <1>16
  <1>18. \A x \in {r} \cup D : request'[x].status \notin {"unused", "pending"}
    BY <1>1, <1>4, <1>10 DEF Decision
  <1>19. Moves
    <2>1. HeldBy(h)'
      <3>1. q.op = "sign" => target'[q.target].state # "csr"
        <4>1. target[q.target] \in Target
          BY <1>2 DEF TypeOK
        <4>2. q.op = "sign" => After(q.op, target[q.target], now).state = "cert"
          BY <1>1, <4>1 DEF After, Target
        <4> QED
          BY <1>2, <1>4, <4>2 DEF TypeOK
      <3> QED
        BY <1>1, <1>2, <1>5, <1>18, <3>1 DEF HeldBy, AtWork
    <2>2. Sees(h)'
      <3>1. \A x \in Requests : request'[x].status = "pending" => request'[x] = request[x]
        BY <1>4, <1>10, <1>18
      <3> QED
        BY <1>1, <1>5, <1>9, <1>12, <1>17, <3>1, CommittedSees
    <2> QED
      BY <1>5, <2>1, <2>2 DEF Moves, AtWork
  <1> QED
    BY <1>9, <1>17, <1>19, ActingStep

LEMMA DirectStep ==
  ASSUME TypeOK, TypeOK', ApprovalInv, NEW h \in Handlers, PerformDirectly(h)
  PROVE  (\A x \in Requests : Changes(x)) /\ ApprovalInv'
  <1>a. PICK op \in Ops, t \in Targets, now \in SUBSET Requests :
           op = handler[h].op /\ t = handler[h].target /\ now = handler[h].now
    BY DEF PerformDirectly, ApprovalInv, Held, HeldBy, AtWork, TypeOK, Handler
  <1>b. PICK d : d = Directly(op, t)
    OBVIOUS
  <1>0. HeldBy(h) /\ Sees(h) /\ AtWork(h)
    BY DEF PerformDirectly, ApprovalInv, Held, AtWork
  <1>1. /\ UNCHANGED request /\ done' = done \cup {d} /\ target' = [target EXCEPT ![t] = After(op, @, now)]
    BY <1>a, <1>b DEF PerformDirectly
  <1>2. /\ op \in {"sign", "renew"} /\ Due(op, target[t])
        /\ op = "renew" => target[t].serial < MaxSerial /\ Fresh(t, now)
    <2>1. /\ op \in {"sign", "renew"}
          /\ op = "renew" => handler[h].serial < MaxSerial /\ target[t].state # "csr"
      BY <1>0, <1>a DEF HeldBy
    <2>2. /\ op = "sign" => target[t].state = "csr"
          /\ op = "renew" => target[t].serial = handler[h].serial
      BY <1>a, <2>1 DEF PerformDirectly, Claims
    <2>3. op = "renew" => Fresh(t, now)
      BY <1>0, <1>a DEF Sees, PerformDirectly
    <2> QED
      BY <2>1, <2>2, <2>3 DEF Due
  <1>3. /\ d \in Done /\ d.op = op /\ d.target = t /\ d.serial = target[t].serial /\ d.by = NoRequest
    BY <1>b, DirectlyIs DEF Directly
  <1>4. Does(d, now) /\ d \in done'
    BY <1>1, <1>2, <1>3 DEF Does, TypeOK
  <1>5. /\ handler'[h].pc = "moot" /\ handler'[h].req = NoRequest
        /\ handler'[h].op = op /\ handler'[h].target = t
        /\ \A g \in Handlers \ {h} : handler'[g] = handler[g]
    BY <1>a DEF PerformDirectly, Committed, TypeOK, Handler
  <1>6. \A x \in Requests : Changes(x)
    BY <1>1 DEF Changes
  <1>7. Moves
    <2>1. HeldBy(h)'
      <3>1. op = "sign" => target'[t].state # "csr"
        <4>1. target[t] \in Target
          BY DEF TypeOK
        <4>2. op = "sign" => After(op, target[t], now).state = "cert"
          BY <4>1 DEF After, Target
        <4> QED
          BY <1>1, <4>2 DEF TypeOK
      <3> QED
        BY <1>2, <1>5, <3>1 DEF HeldBy, AtWork
    <2>2. Sees(h)'
      BY <1>1, <1>3, <1>4, <1>5, <1>6, <1>a, CommittedSees
    <2> QED
      BY <1>5, <2>1, <2>2 DEF Moves, AtWork
  <1> QED
    BY <1>3, <1>4, <1>6, <1>7, ActingStep

LEMMA MootStep ==
  ASSUME TypeOK, TypeOK', ApprovalInv, NEW h \in Handlers, ResolveMoot(h)
  PROVE  (\A x \in Requests : Changes(x)) /\ ApprovalInv'
  <1>a. PICK R : R = Open(handler[h].op, handler[h].target)
    OBVIOUS
  <1>0. HeldBy(h) /\ Sees(h) /\ handler[h].pc = "moot"
    BY DEF ResolveMoot, ApprovalInv, Held
  <1>1. /\ UNCHANGED <<target, done>> /\ \A g \in Handlers \ {h} : handler'[g] = handler[g]
        /\ request' = request \/ request' = Resolving(request, R, "approved", handler[h].user, TRUE)
    BY <1>a DEF ResolveMoot, TypeOK
  <1>2. \/ handler'[h] = Idle /\ handler[h].req = NoRequest
        \/ /\ handler[h].req # NoRequest
           /\ handler'[h].pc = "link" /\ handler'[h].req = handler[h].req /\ handler'[h].dups = handler[h].dups
    BY DEF ResolveMoot, TypeOK, Idle
  <1>3. handler'[h].pc \notin {"stage", "perform", "moot", "expire", "relock"}
    BY <1>2, Blanks
  <1>4. R \in SUBSET Requests
        /\ \A x \in R : /\ Pending(x) /\ ~Locked(x) /\ ~Locked(x)'
                        /\ Served(x) \/ "moot" \in request[x].amid
    <2>1. R \in SUBSET Requests /\ \A x \in R : Pending(x) /\ ~Locked(x)
      BY <1>a DEF Open
    <2>2. \A x \in R : ~Locked(x)'
      BY <1>1, <1>3, <2>1, Unlocking
    <2>3. \A x \in R : Served(x) \/ "moot" \in request[x].amid
      BY <1>0, <1>a DEF Open, Sees
    <2> QED
      BY <2>1, <2>2, <2>3
  <1>5. \A x \in Requests : Changes(x)
    <2>1. CASE request' = request
      BY <2>1 DEF Changes
    <2>2. CASE request' = Resolving(request, R, "approved", handler[h].user, TRUE)
      <3>1. ASSUME NEW x \in R PROVE Changes(x)
        <4>1. Decision(request'[x], request[x], "approved")
          <5>1. request \in [Requests -> Request]
            BY DEF TypeOK
          <5> QED
            BY <1>4, <2>2, <5>1, ResolvingIs
        <4>2. Served(x) => Served(x)'
          BY <1>1, <4>1 DEF Served, Decision, SameAsk
        <4> QED
          BY <1>4, <4>1, <4>2, DecidedChanges DEF Decision, Resolved
      <3>2. ASSUME NEW x \in Requests, x \notin R PROVE Changes(x)
        <4>1. request'[x] = request[x]
          BY <2>2, <3>2 DEF Resolving
        <4> QED
          BY <4>1 DEF Changes
      <3> QED
        BY <3>1, <3>2
    <2> QED
      BY <1>1, <2>1, <2>2
  <1>6. handler'[h].pc = "link" =>
           /\ handler'[h].req \in Requests
           /\ \A x \in {handler'[h].req} \cup handler'[h].dups : request'[x].status \notin {"unused", "pending"}
    <2>1. handler[h].dups \subseteq Requests
      BY DEF TypeOK, Handler
    <2>2. ASSUME NEW x \in Requests, request[x].status \notin {"unused", "pending"}
          PROVE  request'[x].status \notin {"unused", "pending"}
      BY <1>5, <2>2, Blanks DEF Changes, Resolved
    <2> QED
      BY <1>0, <1>2, <2>1, <2>2, Blanks DEF HeldBy
  <1>7. Moves
    BY <1>1, <1>3, <1>6 DEF Moves, HeldBy, Sees, AtWork
  <1> QED
    BY <1>1, <1>5, <1>7, QuietStep

LEMMA RevocationStep ==
  ASSUME TypeOK, TypeOK', ApprovalInv, NEW h \in Handlers, NEW r \in Requests, NEW user \in Users,
         ApproveRevocation(h, r, user)
  PROVE  (\A x \in Requests : Changes(x)) /\ ApprovalInv'
  <1>a. PICK t : t = request[r].target
    OBVIOUS
  <1>b. PICK D : D = Open("revoke", t) \ {r}
    OBVIOUS
  <1>c. PICK d : d = For(r, Approved(r, user, D))
    OBVIOUS
  <1> DEFINE reqs == Approved(r, user, D)
             N == Open("renew", t)
  <1>1. /\ Pending(r) /\ ~Locked(r) /\ request[r].op = "revoke" /\ user \notin request[r].votes
        /\ user # request[r].requester /\ Cardinality(request[r].votes) + 1 >= request[r].required
        /\ request[r].serial = target[t].serial
        /\ \A g \in Handlers \ {h} : handler'[g] = handler[g]
    BY <1>a DEF ApproveRevocation, Completes, TargetGone, TypeOK
  <1>2. t \in Targets
    BY <1>1, <1>a DEF ApprovalInv, Asked, Live, Pending
  <1>3. /\ D \in SUBSET (Requests \ {r})
        /\ \A x \in D : Pending(x) /\ ~Locked(x) /\ request[x].op = "revoke" /\ request[x].target = t
        /\ \A x \in Open("revoke", t) : x = r \/ x \in D
    BY <1>b DEF Open
  <1>4. /\ N \in SUBSET Requests
        /\ \A x \in N : Pending(x) /\ ~Locked(x) /\ request[x].op = "renew"
    BY DEF Open
  <1>5. CASE Fault /\ UNCHANGED <<request, target, done>>
             /\ handler'[h] = [Idle EXCEPT !.pc = "relock", !.req = r]
    <2>1. \A x \in Requests : Changes(x)
      BY <1>5 DEF Changes
    <2>3. handler'[h].pc = "relock" /\ handler'[h].req = r
      BY <1>5 DEF Idle
    <2>2. Moves
      BY <1>1, <1>5, <2>3 DEF Moves, HeldBy, Sees, AtWork, Pending
    <2> QED
      BY <1>5, <2>1, <2>2, QuietStep
  <1>6. CASE /\ target[t].state = "cert"
             /\ request' = Revoking(reqs, t, request[r].requester)
             /\ target' = [target EXCEPT ![t] = After("revoke", @, {})]
             /\ done' = done \cup {d}
             /\ handler'[h] = [Idle EXCEPT !.pc = "link", !.req = r, !.dups = D]
    <2>1. handler'[h].pc = "link" /\ handler'[h].req = r /\ handler'[h].dups = D
      BY <1>6 DEF Idle
    <2>2. \A x \in Requests : ~Locked(x) => ~Locked(x)'
      BY <1>1, <2>1, Unlocking
    <2>3. /\ d \in Done /\ Does(d, {}) /\ d.op = "revoke" /\ d.target = t /\ d.serial = target[d.target].serial
      <3>1. /\ target'[t] = After("revoke", target[t], {}) /\ {} \in SUBSET Requests
            /\ \A s \in Targets \ {t} : target'[s] = target[s]
        BY <1>2, <1>6 DEF TypeOK
      <3>2. Due("revoke", target[t])
        BY <1>6 DEF Due
      <3> QED
        BY <1>1, <1>2, <1>3, <1>6, <1>a, <1>c, <3>1, <3>2, ForDoes
    <2>4. /\ reqs \in [Requests -> Request] /\ reqs[r].status = "approved"
          /\ reqs[r].votes = request[r].votes \cup {user} /\ SameAsk(reqs[r], request[r])
          /\ \A x \in D : Decision(reqs[x], request[x], "approved")
          /\ \A x \in Requests \ {r} : x \notin D => reqs[x] = request[x]
      BY <1>3, ApprovedIs
    <2> HIDE DEF reqs
    <2>5. \A x \in Requests :
             IF x \in N THEN Decision(request'[x], reqs[x], "rejected")
             ELSE IF x \in Open("revoke", t) /\ reqs[x].status = "pending"
             THEN Decision(request'[x], reqs[x], "approved")
             ELSE request'[x] = reqs[x]
      BY <1>6, <2>4, RevokingIs
    <2> HIDE DEF N
    <2>6. \A x \in {r} \cup D : x \notin N /\ reqs[x].status # "pending"
      BY <1>1, <1>3, <1>4, <2>4 DEF Decision
    <2>7. \A x \in {r} \cup D : request'[x] = reqs[x]
      BY <1>3, <2>5, <2>6
    <2>8. d \in done' /\ request[r].op = d.op /\ request[r].target = d.target
      BY <1>1, <1>6, <1>a, <2>3
    <2>9. Changes(r)
      <3>1. Served(r)'
        BY <1>1, <2>3, <2>4, <2>7, <2>8, ServedBy
      <3> QED
        BY <1>1, <2>2, <2>4, <2>7, <3>1, VotedChanges
    <2>10. ASSUME NEW x \in D PROVE Changes(x)
      <3>1. x \in Requests /\ Pending(x) /\ ~Locked(x)' /\ Decision(request'[x], request[x], "approved")
            /\ request[x].op = d.op /\ request[x].target = d.target
        BY <1>3, <2>2, <2>3, <2>4, <2>7
      <3> QED
        BY <2>3, <2>8, <3>1, ResolvedChanges
    <2>11. ASSUME NEW x \in N PROVE Changes(x)
      <3>1. x \in Requests /\ x \notin {r} \cup D
        BY <1>4, <2>6
      <3>2. Pending(x) /\ ~Locked(x)' /\ Decision(request'[x], request[x], "rejected")
        BY <1>4, <2>2, <2>4, <2>5, <3>1
      <3> QED
        BY <3>1, <3>2, ResolvedChanges
    <2>12. ASSUME NEW x \in Requests, x \notin N, x \notin D, x # r PROVE Changes(x)
      <3>1. x \notin Open("revoke", t)
        BY <1>3, <2>12
      <3>2. request'[x] = request[x]
        BY <2>4, <2>5, <2>12, <3>1
      <3> QED
        BY <3>2 DEF Changes
    <2>13. \A x \in Requests : Changes(x)
      BY <2>9, <2>10, <2>11, <2>12
    <2>14. \A x \in {r} \cup D : request'[x].status \notin {"unused", "pending"}
      BY <2>4, <2>7 DEF Decision
    <2>15. Moves
      <3>1. HeldBy(h)' /\ Sees(h)'
        BY <2>1, <2>14 DEF HeldBy, Sees, AtWork
      <3> QED
        BY <1>1, <2>1, <3>1 DEF Moves, AtWork
    <2>16. {} \in SUBSET Requests
      OBVIOUS
    <2> QED
      BY <2>3, <2>13, <2>15, <2>16, ActingStep
  <1>7. \/ /\ Fault /\ UNCHANGED <<request, target, done>>
           /\ handler' = [handler EXCEPT ![h] = [Idle EXCEPT !.pc = "relock", !.req = r]]
        \/ /\ target[t].state = "cert"
           /\ request' = Revoking(reqs, t, request[r].requester)
           /\ target' = [target EXCEPT ![t] = After("revoke", @, {})]
           /\ done' = done \cup {d}
           /\ handler' = [handler EXCEPT ![h] = [Idle EXCEPT !.pc = "link", !.req = r, !.dups = D]]
    BY <1>a, <1>b, <1>c DEF ApproveRevocation
  <1> QED
    BY <1>5, <1>6, <1>7 DEF TypeOK

\* Handlers stay, and a certificate is revoked that no request asked to revoke.
LEMMA RevokedStep ==
  ASSUME TypeOK, TypeOK', ApprovalInv, NEW t \in Targets, NEW user, RevokeDirectly(t, user)
  PROVE  (\A x \in Requests : Changes(x)) /\ ApprovalInv'
  <1>a. PICK d : d = Directly("revoke", t)
    OBVIOUS
  <1>1. /\ UNCHANGED handler /\ done' = done \cup {d}
        /\ target' = [target EXCEPT ![t] = After("revoke", @, {})] /\ Due("revoke", target[t])
    BY <1>a DEF RevokeDirectly, Due
  <1>2. Moves /\ \A x \in Requests : ~Locked(x) => ~Locked(x)'
    BY <1>1 DEF Moves, Locked
  <1>3. /\ d \in Done /\ d.op = "revoke" /\ d.target = t /\ d.serial = target[t].serial /\ d.by = NoRequest
    BY <1>a, DirectlyIs DEF Directly, Ops
  <1>4. Does(d, {}) /\ d \in done' /\ {} \in SUBSET Requests
    BY <1>1, <1>3 DEF Does, TypeOK
  <1> DEFINE O == Open("revoke", t)
             N == Open("renew", t)
  <1>5. /\ \A x \in O : Pending(x) /\ ~Locked(x)' /\ request[x].op = "revoke" /\ request[x].target = t
        /\ \A x \in N : Pending(x) /\ ~Locked(x)'
    BY <1>2 DEF Open
  <1>6. \A x \in Requests :
           IF x \in N THEN Decision(request'[x], request[x], "rejected")
           ELSE IF x \in O /\ request[x].status = "pending"
           THEN Decision(request'[x], request[x], "approved")
           ELSE request'[x] = request[x]
    <2>1. request \in [Requests -> Request] /\ request' = Revoking(request, t, user)
      BY DEF TypeOK, RevokeDirectly
    <2> QED
      BY <2>1, RevokingIs
  <1> HIDE DEF O, N
  <1>7. ASSUME NEW x \in Requests PROVE Changes(x)
    <2>1. CASE x \in N
      <3>1. Pending(x) /\ ~Locked(x)' /\ Decision(request'[x], request[x], "rejected")
        BY <1>5, <1>6, <2>1
      <3> QED
        BY <3>1, ResolvedChanges
    <2>2. CASE x \notin N /\ x \in O
      <3>1. Pending(x) /\ ~Locked(x)' /\ Decision(request'[x], request[x], "approved")
            /\ request[x].op = d.op /\ request[x].target = d.target
        BY <1>3, <1>5, <1>6, <2>2 DEF Pending
      <3> QED
        BY <1>3, <1>4, <3>1, ResolvedChanges
    <2>3. CASE x \notin N /\ x \notin O
      <3>1. request'[x] = request[x]
        BY <1>6, <2>3
      <3> QED
        BY <3>1 DEF Changes
    <2> QED
      BY <2>1, <2>2, <2>3
  <1> QED
    BY <1>2, <1>3, <1>4, <1>7, ActingStep

LEMMA DeletionStep ==
  ASSUME TypeOK, TypeOK', ApprovalInv, NEW t \in Targets, DeleteCertificate(t)
  PROVE  (\A x \in Requests : Changes(x)) /\ ApprovalInv'
  <1>a. PICK O : O = UNION {Open(op, t) : op \in Ops}
    OBVIOUS
  <1>b. PICK reqs : reqs = Resolving(request, O, "rejected", NoUser, FALSE)
    OBVIOUS
  <1>1. /\ UNCHANGED <<handler, done>> /\ target' = [target EXCEPT ![t].state = "gone"]
        /\ \A x \in Requests : request'[x] = IF reqs[x].linked /\ reqs[x].target = t THEN Deleted ELSE reqs[x]
    BY <1>a, <1>b DEF DeleteCertificate
  <1>2. \A s \in Targets : \/ target'[s] = target[s]
                           \/ /\ target'[s].state = "gone" /\ target'[s].serial = target[s].serial
                              /\ target'[s].renewed_at = target[s].renewed_at
    BY <1>1 DEF TypeOK, Target
  <1>3. Moves /\ \A x \in Requests : Locked(x)' <=> Locked(x)
    BY <1>1 DEF Moves, Locked
  <1>4. O \in SUBSET Requests /\ \A x \in O : Pending(x) /\ ~Locked(x)
    BY <1>a DEF Open
  <1>5. ASSUME NEW x \in Requests PROVE Changes(x)
    <2>0. request \in [Requests -> Request] /\ request[x] \in Request
      BY DEF TypeOK
    <2>1. CASE x \in O
      <3>1. reqs[x] = Resolve(request[x], "rejected", NoUser, FALSE)
        BY <1>b, <2>1 DEF Resolving
      <3>2. ~request[x].linked
        BY <1>4, <2>1 DEF ApprovalInv, Unlinked, Pending
      <3>3. ~Resolve(request[x], "rejected", NoUser, FALSE).linked
        BY <2>0, <3>2 DEF Resolve, Request
      <3>4. request'[x] = reqs[x]
        BY <1>1, <3>1, <3>3
      <3>5. Decision(request'[x], request[x], "rejected")
        BY <1>4, <1>b, <2>0, <2>1, <3>4, ResolvingIs
      <3> QED
        BY <1>3, <1>4, <2>1, <3>5, ResolvedChanges
    <2>2. CASE x \notin O
      <3>1. reqs[x] = request[x]
        BY <1>b, <2>2 DEF Resolving
      <3>2. CASE request'[x] = Deleted /\ request[x].linked
        <4>1. request[x].status \notin {"unused", "pending"}
          BY <3>2 DEF ApprovalInv, Unlinked
        <4>2. ~Locked(x)'
          BY <1>3, <4>1, LockedIsPending DEF Pending
        <4> QED
          BY <3>2, <4>1, <4>2 DEF Changes
      <3>3. CASE request'[x] = request[x]
        BY <3>3 DEF Changes
      <3> QED
        BY <1>1, <3>1, <3>2, <3>3
    <2> QED
      BY <2>1, <2>2
  <1> QED
    BY <1>1, <1>2, <1>3, <1>5, GoneStep

-----------------------------------------------------------------------------
(* The specification *)

LEMMA ApprovalStep ==
  ASSUME TypeOK, TypeOK', ApprovalInv, [Next]_vars
  PROVE  (\A x \in Requests : Changes(x)) /\ ApprovalInv'
  <1> DEFINE Goal == (\A x \in Requests : Changes(x)) /\ ApprovalInv'
  <1>1. ASSUME NEW r \in Requests, NEW t \in Targets, NEW n \in Required,
               \/ QueueScheduled(r, t, n)
               \/ \E op \in Ops, user \in Users : Queue(r, op, t, user, n)
        PROVE  Goal
    <2>1. \E op \in Ops, user \in Users \cup {NoUser} : Queue(r, op, t, user, n)
      BY <1>1 DEF QueueScheduled, Ops
    <2> QED
      BY <2>1, RequestSteps
  <1>2. ASSUME NEW r \in Requests, NEW user \in Users, Approve(r, user) \/ Reject(r, user)
        PROVE  Goal
    BY <1>2, RequestSteps
  <1>3. ASSUME NEW r \in Requests, NEW user \in Users, NEW h \in Handlers,
               ApproveAndPerform(h, r, user) \/ ApproveRevocation(h, r, user)
        PROVE  Goal
    BY <1>3, ApproverStarts, RevocationStep
  <1>4. ASSUME NEW h \in Handlers, Continue(h)
        PROVE  Goal
    <2>1. CASE Perform(h) \/ PerformDirectly(h) \/ ResolveMoot(h) \/ Stage(h)
      BY <2>1, PerformStep, DirectStep, MootStep, StageStep
    <2>2. CASE \/ PerformFails(h) \/ Relock(h) \/ Link(h) \/ GetApprovalExpires(h) \/ RemoveRequests(h)
      BY <2>2, HandlerSteps
    <2> QED
      BY <1>4, <2>1, <2>2 DEF Continue
  <1>5. ASSUME ExpireStale \/ \E h \in Handlers : DeletePolicy(h)
        PROVE  Goal
    BY <1>5, ExpirySteps
  <1>6. ASSUME NEW r \in Requests, Deadline(r)
        PROVE  Goal
    BY <1>6, RequestSteps
  <1>7. ASSUME NEW r \in Requests, NEW h \in Handlers, GetApproval(h, r)
        PROVE  Goal
    BY <1>7, HandlerSteps
  <1>8. ASSUME NEW t \in Targets, DeleteCertificate(t) \/ \E user \in Users : RevokeDirectly(t, user)
        PROVE  Goal
    BY <1>8, RevokedStep, DeletionStep
  <1>9. ASSUME NEW h \in Handlers, NEW t \in Targets, NEW op \in {"sign", "renew"},
               NEW user \in Users \cup {NoUser}, ActDirectly(h, op, t, user)
        PROVE  Goal
    BY <1>9, DirectStart
  <1>10. ASSUME Crash
         PROVE  Goal
    BY <1>10, CrashStep
  <1>11. ASSUME UNCHANGED vars
         PROVE  Goal
    <2>1. UNCHANGED <<request, target, handler, done>>
      BY <1>11 DEF vars
    <2>2. (\A x \in Requests : Changes(x)) /\ Moves
      BY <2>1 DEF Changes, Moves
    <2> QED
      BY <2>1, <2>2, QuietStep
  <1> HIDE DEF Goal
  <1>12. Goal
    BY <1>1, <1>2, <1>3, <1>4, <1>5, <1>6, <1>7, <1>8, <1>9, <1>10, <1>11 DEF Next
  <1> QED
    BY <1>12 DEF Goal

LEMMA ApprovalStart ==
  ASSUME Init
  PROVE  TypeOK /\ ApprovalInv
  <1>0. NoRequest \notin Requests /\ NoUser \notin Users /\ MaxSerial \in Nat /\ MaxFaults \in Nat
    BY ApprovalAssumption
  <1>1. Blank \in Request /\ Idle \in Handler
    BY Blanks
  <1>2. TypeOK
    BY <1>0, <1>1 DEF Init, TypeOK, Target
  <1>3. /\ \A r \in Requests : request[r] = Blank
        /\ \A h \in Handlers : handler[h] = Idle
        /\ done = {} /\ \A t \in Targets : target[t].serial = 0 /\ target[t].renewed_at = {}
    BY DEF Init
  <1>4. Voted /\ Unlinked
    <2>1. IsFiniteSet({})
      BY FS_EmptySet
    <2>2. \A r \in Requests : request[r].votes = {} /\ request[r].linked = FALSE
      BY <1>3 DEF Blank
    <2> QED
      BY <2>1, <2>2 DEF Voted, Unlinked
  <1>5. Asked /\ Stamped
    BY <1>3 DEF Asked, Stamped, Live, Blank
  <1>6. Rows /\ Performed /\ PerformedAsAsked /\ FourEyes
    BY <1>3 DEF Rows, Performed, PerformedAsAsked, FourEyes
  <1>7. Held /\ Exclusive
    BY <1>3 DEF Held, HeldBy, Sees, AtWork, Exclusive, Idle
  <1> QED
    BY <1>2, <1>4, <1>5, <1>6, <1>7 DEF ApprovalInv

\* The requests are as the rows, the votes and the handlers say in every reachable state.
LEMMA ApprovalsInvariant == Spec => [](TypeOK /\ ApprovalInv)
  <1>1. Init => TypeOK /\ ApprovalInv
    BY ApprovalStart
  <1>2. TypeOK /\ ApprovalInv /\ [Next]_vars => TypeOK' /\ ApprovalInv'
    BY TypeStep, ApprovalStep
  <1> QED
    BY <1>1, <1>2, PTL DEF Spec

\* Rows, requests, handlers and the operations performed keep their types, whatever the
\* handlers of api/v2/policies.py and the direct operations interleave.
THEOREM ApprovalsTyped == Spec => []TypeOK
  BY ApprovalsInvariant, PTL

\* approve_request and the resolve_moot_requests of sign_csr, renew_certificate_in_place and
\* revoke_certificate: a request that stands as approved had its operation performed, for it,
\* for another request or directly, and not before it was asked for; a rollback never
\* leaves the vote without the operation.  The exception is a renewal asked for between
\* another's commit and the transaction that closes what that one made moot.
THEOREM ApprovedWasPerformed == Spec => []ApprovedMeansPerformed
  <1>1. TypeOK /\ ApprovalInv => ApprovedMeansPerformed
    BY DEF ApprovalInv, Asked, Live, Served, ApprovedMeansPerformed
  <1> QED
    BY <1>1, ApprovalsInvariant, PTL

\* sign_csr, renew_certificate_in_place and revoke_certificate, for a request or directly:
\* nothing is performed twice, and what is performed for a request acts on the certificate
\* that was asked about, unless a renewal was asked for while another one of the row was
\* being signed.
THEOREM PerformedOnceAsAsked == Spec => []PerformedAsAsked
  <1>1. ApprovalInv => PerformedAsAsked
    BY DEF ApprovalInv
  <1> QED
    BY <1>1, ApprovalsInvariant, PTL

\* approve_request: what is performed for a request had the votes the policy asks for, by
\* as many users, none of whom asked for it.
THEOREM FourEyesSaw == Spec => []FourEyes
  <1>1. ApprovalInv => FourEyes
    BY DEF ApprovalInv
  <1> QED
    BY <1>1, ApprovalsInvariant, PTL

\* A resolved request is not decided again by a vote, a direct operation, a deletion or a
\* handler that fails: only get_approval, which read it before, writes that it expired.
THEOREM DecisionsStand == Spec => DecidedOnce
  <1>1. TypeOK /\ ApprovalInv /\ TypeOK' /\ [Next]_vars =>
           [\A r \in Requests : request[r].status \in Resolved =>
               request'[r].status \in {request[r].status, "expired", "deleted"}]_vars
    <2> SUFFICES ASSUME TypeOK, ApprovalInv, TypeOK', [Next]_vars, NEW r \in Requests,
                        request[r].status \in Resolved
                 PROVE  request'[r].status \in {request[r].status, "expired", "deleted"}
      OBVIOUS
    <2>1. Changes(r)
      BY ApprovalStep
    <2> QED
      BY <2>1, Blanks DEF Changes, Resolved
  <1> QED
    BY <1>1, ApprovalsInvariant, PTL DEF Spec, DecidedOnce
=============================================================================
