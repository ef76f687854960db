------------------------------ MODULE AcmeOrders ------------------------------
(***************************************************************************)
(* Orders of the built-in ACME server (api/acme/acme_api.py,               *)
(* services/acme/mixins, services/acme/order_purge.py): orders, their      *)
(* authorizations and challenges, the validations that wait on the network *)
(* between reading a challenge and settling it, finalization, which waits  *)
(* on CAA lookups and on signing, expiry, deactivation and the purge.      *)
(*                                                                         *)
(* One account: everything belongs to it.  A request that does not wait is *)
(* one step, since one worker serves all requests with greenlets.          *)
(***************************************************************************)
EXTENDS Integers, FiniteSets

CONSTANTS
    Orders,         \* ids of acme_orders
    NoOrder,        \* the order of a standalone authorization
    Names,          \* DNS names, without a wildcard's "*."
    AutoApproved,   \* names of the domains with auto_approve
    Asked,          \* the sets of identifiers that clients order
    Handlers,       \* requests that wait on the network
    MaxTicks,       \* bound on orders and standalone authorizations created
    MaxAuthz,       \* bound on authorizations
    MaxAnswers,     \* bound on answers to challenges
    MaxFaults       \* bound on crashes and failed commits

Identifier == [name : Names, wildcard : BOOLEAN]
Authzs == 1..MaxAuthz
Types == {"http-01", "dns-01"}

ASSUME AcmeAssumption ==
    /\ NoOrder \notin Orders
    /\ AutoApproved \subseteq Names
    /\ Asked \subseteq (SUBSET Identifier) \ {{}}
    /\ \A ids \in Asked : IsFiniteSet(ids)
    /\ {MaxTicks, MaxAuthz, MaxAnswers, MaxFaults} \subseteq Nat

VARIABLES
    order,          \* acme_orders
    authz,          \* acme_authorizations with their challenges
    nextAuthz,      \* the authorizations created so far
    ticks,          \* creations so far: when an order, and its authorizations, were created
    past,           \* what was created at this tick and before has expired
    handler,        \* what each waiting request is doing
    answers,        \* the answers to challenges so far
    proved,         \* identifiers whose control was proved, or that need no proof
    relinquished,   \* proofs the account gave up
    issued,         \* certificates issued for each order
    partial,        \* orders whose creation failed after a first commit
    reopened,       \* orders that a late answer made ready once more
    faults

ghosts == <<answers, proved, relinquished, issued, partial, reopened, faults>>
vars == <<order, authz, nextAuthz, ticks, past, handler, ghosts>>

Ticks == 1..MaxTicks
Order == [status : {"none", "pending", "ready", "processing", "valid", "invalid", "gone"},
          identifiers : SUBSET Identifier,
          expires : {0} \cup Ticks]     \* seven days after this tick
Authz == [status : {"pending", "valid", "invalid", "deactivated", "gone"},
          identifier : Identifier,
          order : Orders \cup {NoOrder},
          expires : Ticks,
          challenge : [Types -> {"none", "pending", "valid", "invalid"}],
          proof : 0..(MaxAnswers + MaxAuthz)]   \* what validated it, 0 for nothing
Handler == [pc : {"idle", "validate", "finalize"},
            order : Orders \cup {NoOrder},
            authz : {0} \cup Authzs,
            type : Types,
            number : 0..MaxAnswers]     \* of the answer

NoRow == [status |-> "none", identifiers |-> {}, expires |-> 0]
Idle == [pc |-> "idle", order |-> NoOrder, authz |-> 0, type |-> "dns-01", number |-> 0]

\* The rows of authorizations are numbered from 1.
TypeOK ==
    /\ order \in [Orders -> Order]
    /\ nextAuthz \in 0..MaxAuthz
    /\ ticks \in {0} \cup Ticks
    /\ past \in 0..ticks
    /\ authz \in [1..nextAuthz -> Authz]
    /\ handler \in [Handlers -> Handler]
    /\ answers \in 0..MaxAnswers
    /\ proved \subseteq Identifier
    /\ relinquished \subseteq 1..(MaxAnswers + MaxAuthz)
    /\ issued \in [Orders -> Nat]
    /\ {partial, reopened} \subseteq SUBSET Orders
    /\ faults \in 0..MaxFaults

Init ==
    /\ order = [o \in Orders |-> NoRow]
    /\ authz = << >>
    /\ nextAuthz = 0
    /\ ticks = 0
    /\ past = 0
    /\ handler = [h \in Handlers |-> Idle]
    /\ answers = 0
    /\ proved = {}
    /\ relinquished = {}
    /\ issued = [o \in Orders |-> 0]
    /\ partial = {}
    /\ reopened = {}
    /\ faults = 0

-----------------------------------------------------------------------------
Open == {"pending", "ready"}
Rows == DOMAIN authz
AuthzsOf(o) == {a \in Rows : authz[a].order = o /\ authz[a].status # "gone"}
Lapsed(x) == x.expires <= past

\* _create_challenges: a wildcard is validated by dns-01 alone
Challenges(i, s) ==
    [t \in Types |-> IF i.wildcard /\ t = "http-01" THEN "none" ELSE s]

\* Fault: a form that forgets the wildcard flag, which the stored identifier does not show.
Reusable_AnyFlag(i) ==
    {a \in Rows : /\ authz[a].status = "valid"
                  /\ ~Lapsed(authz[a])
                  /\ authz[a].identifier.name = i.name}

\* the valid authorizations of the account that a new order may take up
Reusable(i) ==
    {a \in Rows : /\ authz[a].status = "valid"
                  /\ ~Lapsed(authz[a])
                  /\ authz[a].identifier = i}

\* the one that expires last
Reused(i) == CHOOSE a \in Reusable(i) : \A b \in Reusable(i) : authz[a].expires >= authz[b].expires

\* _is_domain_auto_approved: nothing has to be proved for the domain
AutoApproves(i) == i.name \in AutoApproved

\* _create_authorization: authorization number n, for identifier i of order o, now
NewAuthz(n, i, o) ==
    IF Reusable(i) # {} THEN
        LET s == authz[Reused(i)] IN
        [status |-> "valid", identifier |-> i, order |-> o, expires |-> s.expires,
         challenge |-> [t \in Types |-> IF s.challenge[t] = "valid" THEN "valid" ELSE "none"],
         proof |-> s.proof]
    ELSE
        LET approved == AutoApproves(i) IN
        [status |-> IF approved THEN "valid" ELSE "pending",
         identifier |-> i, order |-> o, expires |-> ticks + 1,
         challenge |-> Challenges(i, IF approved THEN "valid" ELSE "pending"),
         proof |-> IF approved THEN MaxAnswers + n ELSE 0]

\* authorizations, and orders, as expiring authorizations leaves them
Expired(x) ==
    [x EXCEPT !.status = "invalid",
              !.challenge = [t \in Types |-> IF @[t] = "pending" THEN "invalid" ELSE @[t]]]
\* Fault: a form that writes a status that the protocol does not have.
Invalidated_Misnamed(x) == IF x.status \in Open THEN [x EXCEPT !.status = "expired"] ELSE x
Invalidated(x) == IF x.status \in Open THEN [x EXCEPT !.status = "invalid"] ELSE x
InvalidateOrders(S) ==
    [o \in Orders |-> IF o \in S THEN Invalidated(order[o]) ELSE order[o]]

-----------------------------------------------------------------------------
\* create_order for identifiers ids, in the order of the request.  Each authorization that is
\* new is committed on its own, with everything before it; a failure after such a commit
\* leaves the order pending with the authorizations of done only.
CreateOrder(o, ids, done, fails) ==
    LET numbers == nextAuthz + 1 .. nextAuthz + Cardinality(done)
        f == CHOOSE g \in [numbers -> done] : \A i \in done : \E n \in numbers : g[n] = i
        new == [n \in numbers |-> NewAuthz(n, f[n], o)]
        ready == ~fails /\ \A n \in numbers : new[n].status = "valid"
    IN
    /\ order[o].status = "none"
    /\ ticks < MaxTicks
    /\ ticks' = ticks + 1
    /\ nextAuthz + Cardinality(done) <= MaxAuthz
    /\ fails => \E i \in done : Reusable(i) = {}
    /\ authz' = [n \in Rows \cup numbers |-> IF n \in Rows THEN authz[n] ELSE new[n]]
    /\ order' = [order EXCEPT ![o] = [status |-> IF ready THEN "ready" ELSE "pending",
                                      identifiers |-> ids, expires |-> ticks']]
    /\ proved' = proved \cup {i \in done : AutoApproves(i)}
    /\ nextAuthz' = nextAuthz + Cardinality(done)
    /\ UNCHANGED <<past, handler, answers, relinquished, issued, reopened>>

NewOrder(o, ids) ==
    /\ CreateOrder(o, ids, ids, FALSE)
    /\ UNCHANGED <<partial, faults>>

NewOrderFails(o, ids) ==
    /\ faults < MaxFaults
    /\ \E done \in (SUBSET ids) \ {{}} : CreateOrder(o, ids, done, TRUE)
    /\ partial' = partial \cup {o}
    /\ faults' = faults + 1

\* create_pre_authorization, when there is no valid one to answer with
PreAuthorize(i) ==
    /\ Reusable(i) = {}
    /\ nextAuthz < MaxAuthz
    /\ nextAuthz' = nextAuthz + 1
    /\ ticks < MaxTicks
    /\ ticks' = ticks + 1
    /\ authz' = [n \in 1..nextAuthz' |->
                    IF n \in Rows THEN authz[n] ELSE NewAuthz(n, i, NoOrder)]
    /\ proved' = IF AutoApproves(i) THEN proved \cup {i} ELSE proved
    /\ UNCHANGED <<order, past, handler, answers, relinquished, issued, partial, reopened, faults>>

-----------------------------------------------------------------------------
\* respond_to_challenge up to the network: a settled challenge, and one whose authorization
\* is not pending, is not validated.
Answer(h, a, t) ==
    /\ handler[h] = Idle
    /\ answers < MaxAnswers
    /\ answers' = answers + 1
    /\ authz[a].status = "pending"
    /\ authz[a].challenge[t] = "pending"
    /\ handler' = [handler EXCEPT ![h] = [pc |-> "validate", order |-> NoOrder,
                                          authz |-> a, type |-> t, number |-> answers']]
    /\ UNCHANGED <<order, authz, nextAuthz, ticks, past, proved, relinquished, issued, partial,
                   reopened, faults>>

\* Fault: a form that goes by what was read before the wait, when the authorization was pending.
Relinquished_Before(a) == FALSE
\* the status of the authorization as it is now, not as it was before the wait
Relinquished(a) == authz[a].status = "deactivated"

AllValid(o, rows) == \A a \in AuthzsOf(o) : rows[a].status = "valid"

\* The validation succeeded: _update_authorization_status.
Succeeds(h) ==
    LET a == handler[h].authz
        t == handler[h].type
        x == authz[a]
        o == x.order
        settled == [authz EXCEPT ![a].status = "valid",
                                 ![a].proof = handler[h].number,
                                 ![a].challenge = [u \in Types |->
                                    IF u = t THEN "valid"
                                    ELSE IF @[u] = "pending" THEN "none" ELSE @[u]]]
        ready == o # NoOrder /\ AllValid(o, settled)
    IN
    /\ IF Relinquished(a)
       THEN /\ authz' = [authz EXCEPT ![a].challenge[t] = "valid"]
            /\ UNCHANGED <<order, proved, reopened>>
       ELSE /\ authz' = settled
            /\ order' = IF ready THEN [order EXCEPT ![o].status = "ready"] ELSE order
            /\ proved' = proved \cup {x.identifier}
            /\ reopened' = IF ready /\ order[o].status # "pending"
                           THEN reopened \cup {o} ELSE reopened

\* It failed: _invalidate_challenge.
Fails(h) ==
    LET a == handler[h].authz
        t == handler[h].type
    IN
    /\ IF Relinquished(a)
       THEN /\ authz' = [authz EXCEPT ![a].challenge[t] = "invalid"]
            /\ UNCHANGED order
       ELSE /\ authz' = [authz EXCEPT ![a].status = "invalid", ![a].challenge[t] = "invalid"]
            /\ order' = InvalidateOrders({authz[a].order})
    /\ UNCHANGED <<proved, reopened>>

\* The answer of the network.  A challenge deleted meanwhile, with its authorization or as the
\* sibling of one that succeeded, is not there to be written.
AnswerEnds(h) ==
    /\ handler[h].pc = "validate"
    /\ handler' = [handler EXCEPT ![h] = Idle]
    /\ IF authz[handler[h].authz].challenge[handler[h].type] = "none"
       THEN UNCHANGED <<order, authz, proved, reopened>>
       ELSE Succeeds(h) \/ Fails(h)
    /\ UNCHANGED <<nextAuthz, ticks, past, answers, relinquished, issued, partial, faults>>

-----------------------------------------------------------------------------
\* Fault: a form that takes an order that somebody else is finalizing.
Claimable_Processing(o) == order[o].status \in {"ready", "processing"}
\* begin_order_processing: the update that only a ready order matches
Claimable(o) == order[o].status = "ready"

\* finalize_order up to the CAA lookups; the order's expiry is not looked at
Finalize(h, o) ==
    /\ handler[h] = Idle
    /\ Claimable(o)
    /\ order' = [order EXCEPT ![o].status = "processing"]
    /\ handler' = [handler EXCEPT ![h] = [Idle EXCEPT !.pc = "finalize", !.order = o]]
    /\ UNCHANGED <<authz, nextAuthz, ticks, past, ghosts>>

\* The certificate is stored and the order is valid, whatever it has become meanwhile; an
\* order purged meanwhile is not there to be written.
FinalizeIssues(h) ==
    LET o == handler[h].order IN
    /\ handler[h].pc = "finalize"
    /\ handler' = [handler EXCEPT ![h] = Idle]
    /\ issued' = [issued EXCEPT ![o] = @ + 1]
    /\ order' = IF order[o].status = "gone" THEN order ELSE [order EXCEPT ![o].status = "valid"]
    /\ UNCHANGED <<authz, nextAuthz, ticks, past, answers, proved, relinquished, partial, reopened, faults>>

\* The request is at fault (the order is invalid, whatever it has become), CAA forbids it
\* (it is invalid if still processing), or it may be tried again (ready if still processing).
FinalizeRefused(h) ==
    LET o == handler[h].order IN
    /\ handler[h].pc = "finalize"
    /\ handler' = [handler EXCEPT ![h] = Idle]
    /\ \/ /\ order[o].status # "gone"
          /\ order' = [order EXCEPT ![o].status = "invalid"]
       \/ \E s \in {"invalid", "ready"} :
            order' = IF order[o].status = "processing" THEN [order EXCEPT ![o].status = s]
                                                       ELSE order
    /\ UNCHANGED <<authz, nextAuthz, ticks, past, ghosts>>

\* The certificate is stored but the order cannot be: restore_processing_order.
FinalizeBreaks(h) ==
    LET o == handler[h].order IN
    /\ handler[h].pc = "finalize"
    /\ faults < MaxFaults
    /\ faults' = faults + 1
    /\ handler' = [handler EXCEPT ![h] = Idle]
    /\ issued' = [issued EXCEPT ![o] = @ + 1]
    /\ order' = IF order[o].status = "processing" THEN [order EXCEPT ![o].status = "ready"]
                                                  ELSE order
    /\ UNCHANGED <<authz, nextAuthz, ticks, past, answers, proved, relinquished, partial, reopened>>

-----------------------------------------------------------------------------
\* order_info: expire_order_if_needed
ReadOrder(o) ==
    /\ order[o].status \in Open
    /\ Lapsed(order[o])
    /\ order' = InvalidateOrders({o})
    /\ authz' = [a \in Rows |-> IF a \in AuthzsOf(o) /\ authz[a].status = "pending"
                               THEN Expired(authz[a]) ELSE authz[a]]
    /\ UNCHANGED <<nextAuthz, ticks, past, handler, ghosts>>

\* authorization_info: expire_authorization_if_needed
ReadAuthz(a) ==
    /\ authz[a].status = "pending"
    /\ Lapsed(authz[a])
    /\ authz' = [authz EXCEPT ![a] = Expired(@)]
    /\ order' = InvalidateOrders({authz[a].order})
    /\ UNCHANGED <<nextAuthz, ticks, past, handler, ghosts>>

\* Fault: a form that deactivates the authorization alone.
SameProof_Alone(a) == {a}
\* the authorization and, when it is valid, the valid copies of the same proof
SameProof(a) ==
    {a} \cup {b \in Rows : /\ {authz[a].status, authz[b].status} = {"valid"}
                           /\ authz[b].identifier = authz[a].identifier
                           /\ authz[b].expires = authz[a].expires}

\* deactivate_authorization; a pending one that has lapsed is expired instead
Deactivate(a) ==
    /\ authz[a].status = "valid" \/ (authz[a].status = "pending" /\ ~Lapsed(authz[a]))
    /\ authz' = [b \in Rows |-> IF b \in SameProof(a)
                               THEN [authz[b] EXCEPT !.status = "deactivated"] ELSE authz[b]]
    /\ order' = InvalidateOrders({authz[b].order : b \in SameProof(a)})
    /\ relinquished' = relinquished \cup ({authz[a].proof} \ {0})
    /\ UNCHANGED <<nextAuthz, ticks, past, handler, answers, proved, issued, partial, reopened, faults>>

-----------------------------------------------------------------------------
\* _PURGEABLE_STATUSES
Purgeable(o) ==
    Lapsed(order[o]) /\ order[o].status \in {"pending", "ready", "processing", "invalid"}

\* purge_expired_orders
Purge ==
    LET orders == {o \in Orders : Purgeable(o)}
        rows == {a \in Rows : \/ authz[a].order \in orders /\ authz[a].status # "gone"
                              \/ /\ authz[a].order = NoOrder
                                 /\ Lapsed(authz[a])
                                 /\ authz[a].status \notin {"valid", "gone"}}
        stale == {a \in Rows \ rows : /\ authz[a].status = "valid"
                                      /\ \E t \in Types : authz[a].challenge[t] = "pending"}
    IN
    /\ orders # {} \/ rows # {} \/ stale # {}
    /\ order' = [o \in Orders |-> IF o \in orders THEN [NoRow EXCEPT !.status = "gone"] ELSE order[o]]
    /\ authz' = [a \in Rows |->
          IF a \in rows
          THEN [authz[a] EXCEPT !.status = "gone", !.challenge = [t \in Types |-> "none"], !.proof = 0]
          ELSE IF a \in stale
          THEN [authz[a] EXCEPT !.challenge = [t \in Types |-> IF @[t] = "pending" THEN "none" ELSE @[t]]]
          ELSE authz[a]]
    /\ UNCHANGED <<nextAuthz, ticks, past, handler, ghosts>>

\* Seven days have passed since the next creation.
Lapse ==
    /\ past < ticks
    /\ past' = past + 1
    /\ UNCHANGED <<order, authz, nextAuthz, ticks, handler, ghosts>>

\* The process stops: what waited is gone, what was committed stays.
Crash ==
    /\ faults < MaxFaults
    /\ faults' = faults + 1
    /\ handler' = [h \in Handlers |-> Idle]
    /\ UNCHANGED <<order, authz, nextAuthz, ticks, past, answers, proved, relinquished, issued,
                   partial, reopened>>

Next ==
    \/ \E o \in Orders, ids \in Asked : NewOrder(o, ids) \/ NewOrderFails(o, ids)
    \/ \E ids \in Asked : \E i \in ids : PreAuthorize(i)
    \/ \E h \in Handlers :
         \/ \E a \in Rows, t \in Types : Answer(h, a, t)
         \/ AnswerEnds(h)
         \/ \E o \in Orders : Finalize(h, o)
         \/ FinalizeIssues(h) \/ FinalizeRefused(h) \/ FinalizeBreaks(h)
    \/ \E o \in Orders : ReadOrder(o)
    \/ \E a \in Rows : ReadAuthz(a) \/ Deactivate(a)
    \/ Purge
    \/ Lapse
    \/ Crash

Spec == Init /\ [][Next]_vars

-----------------------------------------------------------------------------
\* An order is ready, being finalized or issued only when control of every identifier it
\* names was proved, by a validation or by an operator's auto_approve, wildcards apart from
\* the names they stand beside; the exception is an order whose creation broke off.
IssuedMeansProved ==
    \A o \in Orders : order[o].status \in {"ready", "processing", "valid"} =>
        order[o].identifiers \subseteq proved \/ o \in partial

\* One order, one certificate ("only the one that flips `ready` to `processing` may finalize
\* it", begin_order_processing), plus one per crash or failed commit, unless a validation that
\* ended late made the order ready again.
IssuedOnce == \A o \in Orders : issued[o] <= 1 + faults \/ o \in reopened

\* A proof the account gave up serves no valid authorization, copies in other orders and
\* those a later order could have taken up included.
RelinquishedIsUnused ==
    \A a \in Rows : authz[a].status = "valid" => authz[a].proof \notin relinquished

\* A deactivated authorization is final: a validation under way when it was deactivated
\* does not bring it back.
DeactivatedIsFinal ==
    [][\A a \in Rows : authz[a].status = "deactivated" =>
            authz'[a].status \in {"deactivated", "gone"}]_vars
=============================================================================
