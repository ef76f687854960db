------------------------------ MODULE Approvals ------------------------------
(***************************************************************************)
(* Approval requests (services/approval_gate.py, api/v2/policies.py): an   *)
(* operation a policy holds back is queued as a request, approvers vote,   *)
(* and the vote that completes the request performs the operation in the   *)
(* transaction that records it.  Meanwhile the operation may be performed  *)
(* directly, another request may ask for the same, the target may be       *)
(* deleted and the deadline may pass.  Requests for what has just been     *)
(* performed are closed in a transaction of their own.                     *)
(*                                                                         *)
(* The operations are those on a stored row: signing a request, renewing   *)
(* a certificate and revoking it.  The row of a request an approver is     *)
(* performing is locked; others wait for it or, where the code asks for    *)
(* SKIP LOCKED, leave it alone.  The time at which a renewal is staged is  *)
(* the set of open requests for it made before: renewed_at > created_at is *)
(* membership.                                                             *)
(***************************************************************************)
EXTENDS Integers, FiniteSets

CONSTANTS
    Requests,       \* ids of approval_requests
    NoRequest,
    Targets,        \* rows of certificates: a request to sign, then a certificate
    Users,          \* who may ask and vote
    Admins,         \* those of them whom no policy holds back
    NoUser,         \* the renewal scheduler
    Handlers,       \* HTTP requests about an approval that may overlap
    Required,       \* values of min_approvers
    MaxSerial,      \* bound on renewals of a row
    MaxDone,        \* bound on operations performed before another one begins
    MaxFaults       \* bound on crashes, failed commits and failed operations

ASSUME ApprovalAssumption ==
    /\ NoRequest \notin Requests
    /\ NoUser \notin Users
    /\ Admins \subseteq Users
    /\ Required \subseteq Nat \ {0}
    /\ {MaxSerial, MaxDone, MaxFaults} \subseteq Nat

VARIABLES
    request,        \* approval_requests
    target,         \* certificates
    policy,         \* the policy exists
    handler,        \* what each handler is doing
    done,           \* the operations performed, with the request they were performed for
    faults

vars == <<request, target, policy, handler, done, faults>>

Ops == {"sign", "renew", "revoke"}
Resolved == {"approved", "rejected", "expired", "cancelled"}
Request == [status : Resolved \cup {"unused", "pending", "deleted"},
            op : Ops,
            target : Targets \cup {NoRequest},
            serial : 0..MaxSerial,          \* of the target when the request was made
            requester : Users \cup {NoUser},
            required : Required \cup {0},
            votes : SUBSET Users,           \* approving votes
            stale : BOOLEAN,                \* past its deadline
            linked : BOOLEAN,               \* certificate_id is set
            amid : SUBSET {"perform", "moot"}] \* how far renewals of the row were when it was made
Target == [state : {"csr", "cert", "revoked", "gone"}, serial : 0..MaxSerial,
           renewed_at : SUBSET Requests]
Handler == [pc : {"idle", "stage", "perform", "moot", "link", "relock", "expire", "remove"},
            op : Ops,
            target : Targets \cup {NoRequest},
            serial : 0..MaxSerial,          \* of the target as read
            now : SUBSET Requests,          \* when the renewal was staged
            req : Requests \cup {NoRequest},\* NoRequest: it acts directly
            user : Users \cup {NoUser},     \* who votes or acts; once performed, who asked for it
            dups : SUBSET Requests]         \* duplicates closed in the same transaction
Done == [op : Ops, target : Targets, serial : 0..MaxSerial,
         by : Requests \cup {NoRequest}, asked : 0..MaxSerial, amid : SUBSET {"perform", "moot"},
         requester : Users \cup {NoUser}, votes : SUBSET Users, required : Required \cup {0}]

Blank == [status |-> "unused", op |-> "sign", target |-> NoRequest, serial |-> 0,
          requester |-> NoUser, required |-> 0, votes |-> {}, stale |-> FALSE, linked |-> FALSE,
          amid |-> {}]
Deleted == [Blank EXCEPT !.status = "deleted"]
Idle == [pc |-> "idle", op |-> "sign", target |-> NoRequest, serial |-> 0, now |-> {},
         req |-> NoRequest, user |-> NoUser, dups |-> {}]

TypeOK ==
    /\ request \in [Requests -> Request]
    /\ target \in [Targets -> Target]
    /\ policy \in BOOLEAN
    /\ handler \in [Handlers -> Handler]
    /\ done \subseteq Done
    /\ faults \in 0..MaxFaults

Init ==
    /\ request = [r \in Requests |-> Blank]
    /\ target \in [Targets -> {[state |-> s, serial |-> 0, renewed_at |-> {}] : s \in {"csr", "cert"}}]
    /\ policy = TRUE
    /\ handler = [h \in Handlers |-> Idle]
    /\ done = {}
    /\ faults = 0

-----------------------------------------------------------------------------
Pending(r) == request[r].status = "pending"
Fault == faults < MaxFaults /\ faults' = faults + 1

\* Rows a handler has locked: the request it performs and the duplicates it closed.
Locked(r) ==
    \E h \in Handlers : handler[h].pc \in {"stage", "perform"} /\ r \in {handler[h].req} \cup handler[h].dups

\* The open requests to renew t: utc_now() as far as created_at is compared with it.
Now(t) == {r \in Requests : Pending(r) /\ request[r].op = "renew" /\ request[r].target = t}

\* The bounds on operations: n more may be performed, and the row renewed.
Room(n, op, t) == Cardinality(done) + n <= MaxDone /\ (op = "renew" => target[t].serial < MaxSerial)
Begun == Cardinality({h \in Handlers : handler[h].pc \in {"stage", "perform"}})

\* How far the renewals of t under way are: signing since their now, or committed
\* with the requests they made moot still open.
Renewing(t) == {handler[h].pc : h \in {g \in Handlers : handler[g].op = "renew" /\ handler[g].target = t}}

\* The operation of a request can be asked for / has been performed / never can be.
Possible(op, t) == target[t].state = (IF op = "sign" THEN "csr" ELSE "cert")
AlreadyDone(r) ==
    LET q == request[r]  t == target[q.target] IN
    CASE q.op = "sign" -> t.state # "csr"
      [] q.op = "renew" -> r \in t.renewed_at
      [] q.op = "revoke" -> t.state = "revoked"

\* _approval_target_gone: a row to revoke also counts as gone when it was renewed.
TargetGone(r) ==
    LET q == request[r]  t == target[q.target] IN
    \/ t.state = "gone"
    \/ q.op = "revoke" /\ t.serial # q.serial

\* Pending requests for op on target t that nobody holds.
Open(op, t) == {r \in Requests : Pending(r) /\ request[r].op = op /\ request[r].target = t /\ ~Locked(r)}

\* _resolve_moot_requests on one of those: user acted with this outcome, and the
\* certificate is linked when it is known already.
Resolve(q, outcome, user, link) ==
    IF q.stale THEN [q EXCEPT !.status = "expired"]
    ELSE IF outcome = "approved" /\ user \in Users /\ q.requester = user
    THEN [q EXCEPT !.status = "cancelled"]
    ELSE [q EXCEPT !.status = outcome, !.linked = @ \/ (link /\ outcome = "approved")]

\* The requests after those in R were resolved so.
Resolving(reqs, R, outcome, user, link) ==
    [r \in Requests |-> IF r \in R THEN Resolve(reqs[r], outcome, user, link) ELSE reqs[r]]

\* A direct operation is not done for any request.
Directly(op, t) ==
    [op |-> op, target |-> t, serial |-> target[t].serial, by |-> NoRequest,
     asked |-> target[t].serial, amid |-> {}, requester |-> NoUser, votes |-> {}, required |-> 0]

\* The target after op, begun at now.
After(op, t, now) ==
    CASE op = "sign" -> [t EXCEPT !.state = "cert"]
      [] op = "renew" -> [t EXCEPT !.serial = @ + 1, !.renewed_at = now]
      [] op = "revoke" -> [t EXCEPT !.state = "revoked"]

-----------------------------------------------------------------------------
(* Asking *)

\* queue_if_approval_required: a user who is no administrator asks.
Queue(r, op, t, user, n) ==
    /\ policy
    /\ request[r].status = "unused"
    /\ user \notin Admins
    /\ Possible(op, t)
    /\ Room(1, op, t)
    /\ request' = [request EXCEPT ![r] =
          [Blank EXCEPT !.status = "pending", !.op = op, !.target = t,
                        !.serial = target[t].serial, !.requester = user, !.required = n,
                        !.amid = IF op = "renew" THEN Renewing(t) \cap {"perform", "moot"} ELSE {}]]
    /\ UNCHANGED <<target, policy, handler, done, faults>>

\* The renewal scheduler asks once: not while a request waits, nor after its own
\* was declined for this serial.
QueueScheduled(r, t, n) ==
    /\ ~\E q \in Requests :
          /\ request[q].op = "renew" /\ request[q].target = t
          /\ \/ Pending(q) /\ ~request[q].stale
             \/ /\ request[q].status = "rejected" /\ request[q].requester = NoUser
                /\ request[q].serial = target[t].serial
    /\ Queue(r, "renew", t, NoUser, n)

-----------------------------------------------------------------------------
(* Voting *)

\* The completing vote of user on r, with what else is closed in its transaction.
Approved(r, user, dups) ==
    Resolving([request EXCEPT ![r].status = "approved", ![r].votes = @ \cup {user}],
              dups, "approved", user, FALSE)

\* What closes renewals and revocations of t when it is revoked.
Revoking(reqs, t, user) ==
    Resolving(Resolving(reqs, Open("renew", t), "rejected", user, FALSE),
              {r \in Open("revoke", t) : reqs[r].status = "pending"}, "approved", user, TRUE)

\* The operation of r, performed for it.
For(r, reqs) ==
    LET q == request[r] IN
    [op |-> q.op, target |-> q.target, serial |-> target[q.target].serial, by |-> r,
     asked |-> q.serial, amid |-> q.amid, requester |-> q.requester, votes |-> reqs[r].votes,
     required |-> q.required]

\* approve_request up to the vote that does not complete the request, and the
\* paths on which nothing is left to perform.
Approve(r, user) ==
    LET q == request[r] IN
    /\ Pending(r)
    /\ ~Locked(r)
    /\ \/ q.stale /\ request' = [request EXCEPT ![r].status = "expired"]
       \/ /\ ~q.stale
          /\ q.requester # user
          /\ user \notin q.votes
          /\ \/ TargetGone(r) /\ request' = [request EXCEPT ![r].status = "rejected"]
             \/ /\ ~TargetGone(r)
                /\ Cardinality(q.votes) + 1 < q.required
                /\ request' = [request EXCEPT ![r].votes = @ \cup {user}]
             \/ /\ ~TargetGone(r)
                /\ Cardinality(q.votes) + 1 >= q.required
                /\ AlreadyDone(r)
                /\ request' = [request EXCEPT ![r].status = "approved", ![r].linked = TRUE,
                                              ![r].votes = @ \cup {user}]
    /\ UNCHANGED <<target, policy, handler, done, faults>>

\* Fault: nothing keeps a requester from voting.
Completes_Self(r, user) ==
    /\ Pending(r)
    /\ ~Locked(r)
    /\ ~request[r].stale
    /\ user \notin request[r].votes
    /\ ~TargetGone(r)
    /\ ~AlreadyDone(r)
    /\ Cardinality(request[r].votes) + 1 >= request[r].required

\* The vote completes the request: it is recorded but not committed.
Completes(r, user) ==
    /\ Pending(r)
    /\ ~Locked(r)
    /\ ~request[r].stale
    /\ request[r].requester # user
    /\ user \notin request[r].votes
    /\ ~TargetGone(r)
    /\ ~AlreadyDone(r)
    /\ Cardinality(request[r].votes) + 1 >= request[r].required

\* What a handler has read of target t when it begins op.
Working(pc, op, t, r, user, dups) ==
    [pc |-> pc, op |-> op, target |-> t, serial |-> target[t].serial,
     now |-> IF pc = "perform" /\ op = "renew" THEN Now(t) ELSE {}, req |-> r, user |-> user, dups |-> dups]

\* The row and its duplicates are locked until the commit.
ApproveAndPerform(h, r, user) ==
    LET q == request[r] IN
    /\ handler[h].pc = "idle"
    /\ Completes(r, user)
    /\ q.op \in {"sign", "renew"}
    /\ Room(Begun + 1, q.op, q.target)
    /\ handler' = [handler EXCEPT ![h] =
          Working(IF q.op = "sign" THEN "perform" ELSE "stage", q.op, q.target, r, user,
                  Open(q.op, q.target) \ {r})]
    /\ UNCHANGED <<request, target, policy, done, faults>>

\* A revocation has nothing to wait for before its commit.
ApproveRevocation(h, r, user) ==
    LET t == request[r].target
        reqs == Approved(r, user, Open("revoke", t) \ {r})
    IN
    /\ handler[h].pc = "idle"
    /\ Completes(r, user)
    /\ request[r].op = "revoke"
    /\ Room(Begun + 1, "revoke", t)
    /\ \/ /\ target[t].state = "cert"
          /\ request' = Revoking(reqs, t, request[r].requester)
          /\ target' = [target EXCEPT ![t] = After("revoke", @, {})]
          /\ done' = done \cup {For(r, reqs)}
          /\ handler' = [handler EXCEPT ![h] =
                [Idle EXCEPT !.pc = "link", !.req = r, !.dups = Open("revoke", t) \ {r}]]
          /\ UNCHANGED faults
       \/ /\ Fault
          /\ handler' = [handler EXCEPT ![h] = [Idle EXCEPT !.pc = "relock", !.req = r]]
          /\ UNCHANGED <<request, target, done>>
    /\ UNCHANGED policy

\* Fault: nothing makes sure that the row is still as it was read.
Claims_Always(h) == target[handler[h].target].state # "gone"

\* sign_csr stores the certificate in a row that has none, _take_serial renews the
\* one whose serial it read.
Claims(h) ==
    LET t == target[handler[h].target] IN
    IF handler[h].op = "sign" THEN t.state = "csr"
    ELSE t.state # "gone" /\ t.serial = handler[h].serial

\* _stage_renewal up to its now: the row is read again.  A certificate that is
\* revoked is not renewed.
Stage(h) ==
    /\ handler[h].pc = "stage"
    /\ Claims(h)
    /\ target[handler[h].target].state # "revoked"
    /\ handler' = [handler EXCEPT ![h] = [@ EXCEPT !.pc = "perform", !.now = Now(handler[h].target)]]
    /\ UNCHANGED <<request, target, policy, done, faults>>

\* What is left to do of w, which user asked for.
Committed(w, user) == [w EXCEPT !.pc = "moot", !.serial = 0, !.now = {}, !.user = user]

\* Signing takes a while; then the operation, the vote and the duplicates are committed
\* together.
Perform(h) ==
    LET r == handler[h].req
        q == request[r]
        reqs == Approved(r, handler[h].user, handler[h].dups)
    IN
    /\ handler[h].pc = "perform"
    /\ r # NoRequest
    /\ Claims(h)
    /\ target' = [target EXCEPT ![q.target] = After(q.op, @, handler[h].now)]
    /\ done' = done \cup {For(r, reqs)}
    /\ request' = reqs
    /\ handler' = [handler EXCEPT ![h] = Committed(handler[h], q.requester)]
    /\ UNCHANGED <<policy, faults>>

\* Fault: the vote is recorded again after the rollback.
PerformFails_KeepsVote(h) ==
    LET r == handler[h].req IN
    /\ handler[h].pc \in {"stage", "perform"}
    /\ r # NoRequest
    /\ (~Claims(h) /\ UNCHANGED faults) \/ Fault
    /\ request' = [request EXCEPT ![r].status = "approved", ![r].votes = @ \cup {handler[h].user}]
    /\ handler' = [handler EXCEPT ![h] = Idle]
    /\ UNCHANGED <<target, policy, done>>

\* Everything is rolled back, the vote too, and the locks are gone.
PerformFails(h) ==
    /\ handler[h].pc \in {"stage", "perform"}
    /\ \/ ~Claims(h) /\ UNCHANGED faults
       \/ handler[h].pc = "stage" /\ target[handler[h].target].state = "revoked" /\ UNCHANGED faults
       \/ Fault
    /\ handler' = [handler EXCEPT ![h] =
          IF @.req = NoRequest THEN Idle ELSE [Idle EXCEPT !.pc = "relock", !.req = handler[h].req]]
    /\ UNCHANGED <<request, target, policy, done>>

\* Requests that ask for what was performed are closed afterwards, those made since
\* included, or that fails.
ResolveMoot(h) ==
    LET w == handler[h]  R == Open(w.op, w.target) IN
    /\ w.pc = "moot"
    /\ \/ request' = Resolving(request, R, "approved", w.user, TRUE) /\ UNCHANGED faults
       \/ R # {} /\ Fault /\ UNCHANGED request
    /\ handler' = [handler EXCEPT ![h] =
          IF @.req = NoRequest THEN Idle
          ELSE [Idle EXCEPT !.pc = "link", !.req = handler[h].req, !.dups = handler[h].dups]]
    /\ UNCHANGED <<target, policy, done>>

\* The request is read again: still pending, it is closed if its target went away.
Relock(h) ==
    LET r == handler[h].req IN
    /\ handler[h].pc = "relock"
    /\ ~Locked(r)
    /\ \/ UNCHANGED request
       \/ /\ Pending(r)
          /\ target[request[r].target].state = "gone"
          /\ request' = [request EXCEPT ![r].status = "rejected"]
    /\ handler' = [handler EXCEPT ![h] = Idle]
    /\ UNCHANGED <<target, policy, done, faults>>

\* _link_approval, _link_duplicates: fails when the request or the certificate is
\* gone, or the request has a certificate.
Link(h) ==
    LET r == handler[h].req
        ok == request[r].status # "deleted" /\ ~request[r].linked /\ target[request[r].target].state # "gone"
    IN
    /\ handler[h].pc = "link"
    /\ \/ /\ ok
          /\ request' = [x \in Requests |-> IF x \in {r} \cup handler[h].dups /\ request[x].status # "deleted"
                                           THEN [request[x] EXCEPT !.linked = TRUE] ELSE request[x]]
          /\ UNCHANGED faults
       \/ ~ok /\ UNCHANGED <<request, faults>>
       \/ Fault /\ UNCHANGED request
    /\ handler' = [handler EXCEPT ![h] = Idle]
    /\ UNCHANGED <<target, policy, done>>

\* Fault: the status is not looked at.
Reject_Blind(r, user) ==
    /\ Pending(r) \/ request[r].status \in Resolved
    /\ ~Locked(r)
    /\ user \notin request[r].votes
    /\ request' = [request EXCEPT ![r].status = "rejected"]
    /\ UNCHANGED <<target, policy, handler, done, faults>>

\* Any rejection closes a request, that of its requester too.
Reject(r, user) ==
    /\ Pending(r)
    /\ ~Locked(r)
    /\ \/ request[r].stale /\ request' = [request EXCEPT ![r].status = "expired"]
       \/ /\ ~request[r].stale
          /\ user \notin request[r].votes
          /\ request' = [request EXCEPT ![r].status = "rejected"]
    /\ UNCHANGED <<target, policy, handler, done, faults>>

-----------------------------------------------------------------------------
(* Expiry *)

\* Requests expire by the clock; that of a duplicate was compared when it was taken.
Deadline(r) ==
    /\ Pending(r)
    /\ ~request[r].stale
    /\ \A h \in Handlers : r \notin handler[h].dups
    /\ request' = [request EXCEPT ![r].stale = TRUE]
    /\ UNCHANGED <<target, policy, handler, done, faults>>

Stale == {r \in Requests : Pending(r) /\ request[r].stale /\ ~Locked(r)}

\* Fault: the status is misspelt.
Expiring_Misspelt(R) ==
    [r \in Requests |-> IF r \in R THEN [request[r] EXCEPT !.status = "timeout"] ELSE request[r]]

Expiring(R) == [r \in Requests |-> IF r \in R THEN [request[r] EXCEPT !.status = "expired"] ELSE request[r]]

\* expire_stale_requests: the lists, the counters, the renewal scheduler and an hourly task.
ExpireStale ==
    /\ Stale # {}
    /\ request' = Expiring(Stale)
    /\ UNCHANGED <<target, policy, handler, done, faults>>

\* get_approval reads without a lock what an approver may be working on ...
GetApproval(h, r) ==
    /\ handler[h].pc = "idle"
    /\ Pending(r)
    /\ request[r].stale
    /\ handler' = [handler EXCEPT ![h] = [Idle EXCEPT !.pc = "expire", !.req = r]]
    /\ UNCHANGED <<request, target, policy, done, faults>>

\* ... and writes the row it has read once that approver is done.
GetApprovalExpires(h) ==
    LET r == handler[h].req IN
    /\ handler[h].pc = "expire"
    /\ ~Locked(r)
    /\ request' = Expiring({r} \ {x \in Requests : request[x].status = "deleted"})
    /\ handler' = [handler EXCEPT ![h] = Idle]
    /\ UNCHANGED <<target, policy, done, faults>>

-----------------------------------------------------------------------------
(* Acting directly *)

\* sign_csr and renew_certificate_in_place by whom no policy holds back, the renewal
\* scheduler included ...
ActDirectly(h, op, t, user) ==
    /\ handler[h].pc = "idle"
    /\ op \in {"sign", "renew"}
    /\ Possible(op, t)
    /\ Room(Begun + 1, op, t)
    /\ user \in Admins \/ ~policy
    /\ user = NoUser => op = "renew"
    /\ handler' = [handler EXCEPT ![h] = Working("perform", op, t, NoRequest, user, {})]
    /\ UNCHANGED <<request, target, policy, done, faults>>

\* ... up to their commit.
PerformDirectly(h) ==
    LET w == handler[h] IN
    /\ w.pc = "perform"
    /\ w.req = NoRequest
    /\ Claims(h)
    /\ target' = [target EXCEPT ![w.target] = After(w.op, @, w.now)]
    /\ done' = done \cup {Directly(w.op, w.target)}
    /\ handler' = [handler EXCEPT ![h] = Committed(w, w.user)]
    /\ UNCHANGED <<request, policy, faults>>

\* revoke_certificate resolves in the same transaction.
RevokeDirectly(t, user) ==
    /\ user \in Admins \/ ~policy
    /\ target[t].state = "cert"
    /\ Room(Begun + 1, "revoke", t)
    /\ target' = [target EXCEPT ![t] = After("revoke", @, {})]
    /\ done' = done \cup {Directly("revoke", t)}
    /\ request' = Revoking(request, t, user)
    /\ UNCHANGED <<policy, handler, faults>>

\* delete_certificate: what waits for the row is rejected, what is linked to it deleted.
DeleteCertificate(t) ==
    /\ target[t].state # "gone"
    /\ target' = [target EXCEPT ![t].state = "gone"]
    /\ LET reqs == Resolving(request, UNION {Open(op, t) : op \in Ops}, "rejected", NoUser, FALSE) IN
       request' = [r \in Requests |-> IF reqs[r].linked /\ reqs[r].target = t THEN Deleted ELSE reqs[r]]
    /\ UNCHANGED <<policy, handler, done, faults>>

\* delete_policy expires what is stale and counts what is pending ...
DeletePolicy(h) ==
    /\ handler[h].pc = "idle"
    /\ policy
    /\ request' = Expiring(Stale)
    /\ handler' = IF \E r \in Requests : request'[r].status = "pending" THEN handler
                  ELSE [handler EXCEPT ![h] = [Idle EXCEPT !.pc = "remove"]]
    /\ <<request', handler'>> # <<request, handler>>
    /\ UNCHANGED <<target, policy, done, faults>>

\* ... and then deletes every request of the policy, one queued since too.
RemoveRequests(h) ==
    /\ handler[h].pc = "remove"
    /\ \A r \in Requests : ~Locked(r)
    /\ policy' = FALSE
    /\ request' = [r \in Requests |-> IF request[r].status = "unused" THEN request[r] ELSE Deleted]
    /\ handler' = [handler EXCEPT ![h] = Idle]
    /\ UNCHANGED <<target, done, faults>>

\* The process dies; what was not committed is gone.
Crash ==
    /\ \E h \in Handlers : handler[h].pc # "idle"
    /\ Fault
    /\ handler' = [h \in Handlers |-> Idle]
    /\ UNCHANGED <<request, target, policy, done>>

-----------------------------------------------------------------------------
Continue(h) ==
    \/ Stage(h) \/ Perform(h) \/ PerformDirectly(h) \/ PerformFails(h)
    \/ ResolveMoot(h) \/ Relock(h) \/ Link(h)
    \/ GetApprovalExpires(h) \/ RemoveRequests(h)

Next ==
    \/ \E r \in Requests, t \in Targets, n \in Required :
          \/ QueueScheduled(r, t, n)
          \/ \E op \in Ops, user \in Users : Queue(r, op, t, user, n)
    \/ \E r \in Requests, user \in Users :
          \/ Approve(r, user) \/ Reject(r, user)
          \/ \E h \in Handlers : ApproveAndPerform(h, r, user) \/ ApproveRevocation(h, r, user)
    \/ \E h \in Handlers : Continue(h) \/ DeletePolicy(h)
    \/ \E r \in Requests : Deadline(r) \/ \E h \in Handlers : GetApproval(h, r)
    \/ ExpireStale
    \/ \E t \in Targets : DeleteCertificate(t) \/ \E user \in Users : RevokeDirectly(t, user)
    \/ \E h \in Handlers, t \in Targets, op \in {"sign", "renew"}, user \in Users \cup {NoUser} :
          ActDirectly(h, op, t, user)
    \/ Crash

Spec == Init /\ [][Next]_vars

-----------------------------------------------------------------------------
\* No request stands as approved whose operation was not performed: for it, for
\* another request or directly, and not before it was asked for.  The exception is a
\* renewal asked for after one of the same row was committed and before that one closed
\* what it had made moot.
ApprovedMeansPerformed ==
    \A r \in Requests : request[r].status = "approved" =>
        \/ "moot" \in request[r].amid
        \/ \E d \in done :
              /\ d.op = request[r].op /\ d.target = request[r].target
              /\ d.serial >= request[r].serial

\* An operation is performed once for what it was asked about: no row is signed
\* twice, no serial renewed twice, and an approved renewal or revocation acts on the
\* certificate that was asked about, never on one renewed in its place.  The exception
\* is a renewal asked for while another of the row was being signed: it renews again.
PerformedAsAsked ==
    /\ \A d \in done : d.by # NoRequest =>
          d.serial = d.asked \/ (d.op = "renew" /\ "perform" \in d.amid)
    /\ \A d, e \in done : <<d.op, d.target, d.serial>> = <<e.op, e.target, e.serial>> => d = e

\* What is performed for a request was approved by as many users as the policy asks
\* for, and its requester is none of them.
FourEyes ==
    \A d \in done : d.by # NoRequest => Cardinality(d.votes) >= d.required /\ d.requester \notin d.votes

\* A resolved request is never decided again: only a reader that found it stale
\* before may still write that it expired.
DecidedOnce ==
    [][\A r \in Requests : request[r].status \in Resolved =>
          request'[r].status \in {request[r].status, "expired", "deleted"}]_vars
=============================================================================
