--------------------------- MODULE AcmeOrdersProofs ---------------------------
(***************************************************************************)
(* What the orders of the ACME server guarantee, for any number of orders, *)
(* names and requests that wait: an order is finalized only when control   *)
(* of all its identifiers was proved, it issues once unless something      *)
(* failed or reopened it, a proof that was given up serves nobody, and a   *)
(* deactivated authorization stays so.                                     *)
(***************************************************************************)
EXTENDS AcmeOrders, FiniteSetTheorems, WellFoundedInduction, TLAPS

\* The proofs that have been numbered: answers to challenges and automatic approvals.
Numbers == 1..answers \cup (MaxAnswers + 1)..(MaxAnswers + nextAuthz)

\* A valid authorization rests on a proof of its identifier that was not given up.
Backed ==
    \A a \in Rows :
        /\ authz[a].proof \in {0} \cup Numbers
        /\ authz[a].status = "pending" => authz[a].proof = 0
        /\ authz[a].status = "valid" => /\ authz[a].identifier \in proved
                                       /\ authz[a].proof \in Numbers \ relinquished

\* The copies of a proof agree on the columns by which deactivation looks for them.
Alike ==
    \A a, b \in Rows :
        authz[a].status = "valid" /\ authz[b].status = "valid" /\ authz[a].proof = authz[b].proof =>
            authz[a].identifier = authz[b].identifier /\ authz[a].expires = authz[b].expires

\* An answer that is being validated has a number that no proof has yet.
Validating(h) ==
    handler[h].pc = "validate" =>
        /\ handler[h].authz \in Rows
        /\ handler[h].number \in 1..answers
        /\ handler[h].number \notin relinquished
        /\ \A a \in Rows : authz[a].proof # handler[h].number
Distinct ==
    \A g, h \in Handlers :
        handler[g].pc = "validate" /\ handler[h].pc = "validate" /\ g # h => handler[g].number # handler[h].number

ProofInv ==
    /\ relinquished \subseteq Numbers
    /\ Backed /\ Alike
    /\ \A h \in Handlers : Validating(h)
    /\ Distinct

\* Rows go with their order, and nothing of an authorization is left when it is purged.
Together ==
    \A a \in Rows :
        /\ authz[a].status = "gone" => \A t \in Types : authz[a].challenge[t] = "none"
        /\ authz[a].status # "gone" /\ authz[a].order # NoOrder =>
              order[authz[a].order].status \notin {"none", "gone"}

\* An order has an authorization for every identifier it names.
Covered(o) ==
    order[o].status \notin {"none", "gone"} /\ o \notin partial =>
        \A i \in order[o].identifiers :
            \E a \in Rows : authz[a].order = o /\ authz[a].status # "gone" /\ authz[a].identifier = i

Proved(o) == order[o].identifiers \subseteq proved \/ o \in partial

\* What is finalized was ready, whatever the order has become.
Finalizing(h) ==
    handler[h].pc = "finalize" =>
        handler[h].order \in Orders /\ order[handler[h].order].status # "none" /\ Proved(handler[h].order)

OrderInv ==
    /\ Together
    /\ \A o \in Orders : Covered(o)
    /\ IssuedMeansProved
    /\ \A h \in Handlers : Finalizing(h)

\* An order that no late answer made ready again is finalized by one request at a time.
Busy(o) == \E h \in Handlers : handler[h].pc = "finalize" /\ handler[h].order = o
Once(o) ==
    /\ issued[o] <= 1 + faults
    /\ order[o].status \in {"none", "pending", "ready", "processing"} \/ Busy(o) => issued[o] <= faults
    /\ Busy(o) => order[o].status \in {"processing", "gone"}
    /\ \A g, h \in Handlers :
          /\ handler[g].pc = "finalize" /\ handler[g].order = o
          /\ handler[h].pc = "finalize" /\ handler[h].order = o
          => g = h

OnceInv == \A o \in Orders \ reopened : Once(o)

AcmeInv == ProofInv /\ OrderInv /\ OnceInv

-----------------------------------------------------------------------------
(* Creating authorizations *)

\* Among authorizations there is one that expires last.
LEMMA LatestExists ==
  ASSUME NEW S, S # {}, NEW n \in Nat, NEW e, \A a \in S : e[a] \in 1..n
  PROVE  \E a \in S : \A b \in S : e[a] >= e[b]
  <1> DEFINE T == {n - e[a] : a \in S}
             R == OpToRel(<, Nat)
  <1>1. T \subseteq Nat /\ T # {}
    OBVIOUS
  <1>2. IsWellFoundedOn(R, Nat)
    BY NatLessThanWellFounded
  <1> HIDE DEF T, R
  <1>3. PICK x \in T : \A y \in T : ~(<<y, x>> \in R)
    BY <1>1, <1>2, WFMin
  <1>4. \A y \in T : ~(y < x)
    BY <1>1, <1>3 DEF R, OpToRel
  <1>5. PICK a \in S : x = n - e[a]
    BY DEF T
  <1>6. ASSUME NEW b \in S PROVE e[a] >= e[b]
    <2>1. n - e[b] \in T
      BY DEF T
    <2>2. ~(n - e[b] < n - e[a])
      BY <1>4, <1>5, <2>1
    <2>3. e[a] \in Int /\ e[b] \in Int
      OBVIOUS
    <2> QED
      BY <2>2, <2>3
  <1> QED
    BY <1>6

LEMMA ReusedIs ==
  ASSUME TypeOK, NEW i, Reusable(i) # {}
  PROVE  /\ Reused(i) \in Rows /\ authz[Reused(i)] \in Authz
         /\ authz[Reused(i)].status = "valid" /\ authz[Reused(i)].identifier = i
  <1>1. \A a \in Reusable(i) : a \in Rows /\ authz[a] \in Authz
    BY DEF Reusable, Rows, TypeOK
  <1>2. \E a \in Reusable(i) : \A b \in Reusable(i) : authz[a].expires >= authz[b].expires
    <2> DEFINE S == Reusable(i)
               e == [a \in S |-> authz[a].expires]
    <2>1. MaxTicks \in Nat /\ \A a \in S : e[a] \in 1..MaxTicks
      BY <1>1, AcmeAssumption DEF Authz, Ticks
    <2>2. \A a \in S : e[a] = authz[a].expires
      OBVIOUS
    <2>3. S # {}
      OBVIOUS
    <2> HIDE DEF S, e
    <2>4. \E a \in S : \A b \in S : e[a] >= e[b]
      BY <2>1, <2>3, LatestExists
    <2>5. \E a \in S : \A b \in S : authz[a].expires >= authz[b].expires
      BY <2>2, <2>4
    <2> QED
      BY <2>5 DEF S
  <1>3. Reused(i) \in Reusable(i)
    BY <1>2 DEF Reused
  <1> QED
    BY <1>1, <1>3 DEF Reusable

\* The authorizations of a request are numbered one after another.
LEMMA Enumerated ==
  ASSUME NEW S, IsFiniteSet(S), NEW m \in Nat
  PROVE  /\ Cardinality(S) \in Nat
         /\ \E g \in [m + 1 .. m + Cardinality(S) -> S] :
               \A i \in S : \E n \in m + 1 .. m + Cardinality(S) : g[n] = i
  <1>1. PICK c \in Nat : c = Cardinality(S) /\ ExistsBijection(1..c, S)
    BY FS_CardinalityType
  <1>2. PICK f \in [1..c -> S] : \A i \in S : \E k \in 1..c : f[k] = i
    BY <1>1 DEF ExistsBijection, Bijection, Surjection
  <1> DEFINE g == [n \in m + 1 .. m + c |-> f[n - m]]
  <1>3. g \in [m + 1 .. m + c -> S]
    OBVIOUS
  <1>4. ASSUME NEW i \in S PROVE \E n \in m + 1 .. m + c : g[n] = i
    <2>1. PICK k \in 1..c : f[k] = i
      BY <1>2
    <2>2. m + k \in m + 1 .. m + c /\ (m + k) - m = k
      OBVIOUS
    <2> QED
      BY <2>1, <2>2
  <1> HIDE DEF g
  <1> QED
    BY <1>1, <1>3, <1>4

\* A new authorization waits for a proof, is a copy of a valid one or is approved on its own.
Starts(x, n, i, o) ==
    /\ x \in Authz /\ x.identifier = i /\ x.order = o
    /\ \/ x.status = "pending" /\ x.proof = 0
       \/ /\ x.status = "valid"
          /\ \E s \in Rows : /\ authz[s].status = "valid" /\ authz[s].identifier = i
                             /\ authz[s].expires = x.expires /\ authz[s].proof = x.proof
       \/ x.status = "valid" /\ AutoApproves(i) /\ x.proof = MaxAnswers + n

LEMMA NewAuthzIs ==
  ASSUME TypeOK, ticks < MaxTicks, NEW n \in Nat, n > nextAuthz, n <= MaxAuthz,
         NEW i \in Identifier, NEW o \in Orders \cup {NoOrder}
  PROVE  Starts(NewAuthz(n, i, o), n, i, o)
  <1>0. ticks + 1 \in Ticks /\ MaxAnswers + n \in 0..(MaxAnswers + MaxAuthz)
        /\ 0 \in 0..(MaxAnswers + MaxAuthz)
    BY AcmeAssumption DEF TypeOK, Ticks
  <1>1. CASE Reusable(i) # {}
    <2>1. PICK s \in Rows : /\ s = Reused(i) /\ authz[s] \in Authz
                            /\ authz[s].status = "valid" /\ authz[s].identifier = i
      BY <1>1, ReusedIs
    <2>2. NewAuthz(n, i, o) =
            [status |-> "valid", identifier |-> i, order |-> o, expires |-> authz[s].expires,
             challenge |-> [t \in Types |-> IF authz[s].challenge[t] = "valid" THEN "valid" ELSE "none"],
             proof |-> authz[s].proof]
      BY <1>1, <2>1 DEF NewAuthz
    <2>3. [t \in Types |-> IF authz[s].challenge[t] = "valid" THEN "valid" ELSE "none"]
            \in [Types -> {"none", "pending", "valid", "invalid"}]
      OBVIOUS
    <2>4. NewAuthz(n, i, o) \in Authz
      BY <2>1, <2>2, <2>3 DEF Authz
    <2> QED
      BY <2>1, <2>2, <2>4 DEF Starts
  <1>2. CASE Reusable(i) = {}
    <2>1. PICK c \in [Types -> {"none", "pending", "valid", "invalid"}] :
             c = Challenges(i, IF AutoApproves(i) THEN "valid" ELSE "pending")
      BY DEF Challenges
    <2>2. NewAuthz(n, i, o) =
            [status |-> IF AutoApproves(i) THEN "valid" ELSE "pending",
             identifier |-> i, order |-> o, expires |-> ticks + 1, challenge |-> c,
             proof |-> IF AutoApproves(i) THEN MaxAnswers + n ELSE 0]
      BY <1>2, <2>1 DEF NewAuthz
    <2>3. NewAuthz(n, i, o) \in Authz
      BY <1>0, <2>1, <2>2 DEF Authz
    <2> QED
      BY <2>2, <2>3 DEF Starts
  <1> QED
    BY <1>1, <1>2

\* Authorizations of o for the identifiers in done are added to the others.
Grows(o, done) ==
    /\ nextAuthz' \in 0..MaxAuthz /\ nextAuthz <= nextAuthz'
    /\ authz' \in [1..nextAuthz' -> Authz]
    /\ \A a \in Rows : authz'[a] = authz[a]
    /\ \A a \in 1..nextAuthz' : a \notin Rows => \E i \in done : Starts(authz'[a], a, i, o)
    /\ \A i \in done : \E a \in 1..nextAuthz' : a \notin Rows /\ authz'[a].identifier = i
    /\ proved \subseteq proved' /\ proved' \subseteq proved \cup done
    /\ \A i \in done : AutoApproves(i) => i \in proved'
    /\ UNCHANGED <<past, handler, answers, relinquished, issued, reopened>>
    /\ ticks < MaxTicks /\ ticks' = ticks + 1

LEMMA CreateIs ==
  ASSUME TypeOK, NEW o \in Orders, NEW ids \in SUBSET Identifier, NEW done \in SUBSET ids, IsFiniteSet(done),
         NEW fails \in BOOLEAN, CreateOrder(o, ids, done, fails)
  PROVE  /\ Grows(o, done)
         /\ order[o].status = "none"
         /\ \A x \in Orders \ {o} : order'[x] = order[x]
         /\ order'[o].identifiers = ids /\ order'[o].expires = ticks + 1
         /\ \/ order'[o].status = "pending"
            \/ /\ order'[o].status = "ready" /\ ~fails
               /\ \A a \in 1..nextAuthz' : a \notin Rows => authz'[a].status = "valid"
         /\ order' \in [Orders -> Order]
  <1>0. nextAuthz \in Nat /\ Rows = 1..nextAuthz /\ Cardinality(done) \in Nat
    BY AcmeAssumption, Enumerated DEF TypeOK, Rows
  <1>a. PICK numbers : numbers = nextAuthz + 1 .. nextAuthz + Cardinality(done)
    OBVIOUS
  <1>b. PICK f : f = CHOOSE g \in [numbers -> done] : \A i \in done : \E n \in numbers : g[n] = i
    OBVIOUS
  <1>1. f \in [numbers -> done] /\ \A i \in done : \E n \in numbers : f[n] = i
    <2>1. \E g \in [nextAuthz + 1 .. nextAuthz + Cardinality(done) -> done] :
             \A i \in done : \E n \in nextAuthz + 1 .. nextAuthz + Cardinality(done) : g[n] = i
      BY <1>0, Enumerated, ZenonT(60)
    <2> QED
      BY <1>a, <1>b, <2>1
  <1>2. /\ order[o].status = "none" /\ ticks < MaxTicks /\ ticks' = ticks + 1
        /\ nextAuthz' = nextAuthz + Cardinality(done) /\ nextAuthz' <= MaxAuthz
        /\ proved' = proved \cup {i \in done : AutoApproves(i)}
        /\ UNCHANGED <<past, handler, answers, relinquished, issued, reopened>>
    BY DEF CreateOrder
  <1>3. authz' = [n \in Rows \cup numbers |-> IF n \in Rows THEN authz[n] ELSE NewAuthz(n, f[n], o)]
    BY <1>0, <1>a, <1>b DEF CreateOrder
  <1>4. order' = [order EXCEPT ![o] =
           [status |-> IF ~fails /\ \A n \in numbers : NewAuthz(n, f[n], o).status = "valid"
                       THEN "ready" ELSE "pending",
            identifiers |-> ids, expires |-> ticks + 1]]
    BY <1>2, <1>a, <1>b DEF CreateOrder
  <1>5. Rows \cup numbers = 1..nextAuthz' /\ \A n \in 1..nextAuthz' : n \in numbers <=> n \notin Rows
    BY <1>0, <1>2, <1>a
  <1>6. nextAuthz' \in 0..MaxAuthz /\ nextAuthz <= nextAuthz'
    BY <1>0, <1>2, AcmeAssumption
  <1>7. \A a \in Rows : authz'[a] = authz[a]
    BY <1>3, <1>5
  <1>8. ASSUME NEW a \in 1..nextAuthz', a \notin Rows
        PROVE  /\ a \in numbers /\ f[a] \in done /\ authz'[a] = NewAuthz(a, f[a], o)
               /\ Starts(authz'[a], a, f[a], o)
    <2>1. a \in numbers /\ f[a] \in done /\ f[a] \in Identifier
      BY <1>1, <1>5, <1>8
    <2>2. authz'[a] = NewAuthz(a, f[a], o)
      BY <1>3, <1>5, <1>8, <2>1
    <2>3. a \in Nat /\ a > nextAuthz /\ a <= MaxAuthz
      BY <1>0, <1>2, <1>6, <1>8, AcmeAssumption
    <2> QED
      BY <1>2, <2>1, <2>2, <2>3, NewAuthzIs
  <1>9. authz' \in [1..nextAuthz' -> Authz]
    <2>1. \A a \in 1..nextAuthz' : authz'[a] \in Authz
      BY <1>0, <1>7, <1>8 DEF TypeOK, Starts
    <2> QED
      BY <1>3, <1>5, <2>1
  <1>10. \A i \in done : \E a \in 1..nextAuthz' : a \notin Rows /\ authz'[a].identifier = i
    BY <1>1, <1>5, <1>8 DEF Starts
  <1>11. Grows(o, done)
    BY <1>2, <1>6, <1>7, <1>8, <1>9, <1>10 DEF Grows
  <1>12. order' \in [Orders -> Order] /\ order'[o].identifiers = ids /\ order'[o].expires = ticks + 1
         /\ \A x \in Orders \ {o} : order'[x] = order[x]
    <2>1. ticks + 1 \in {0} \cup Ticks
      BY <1>2, AcmeAssumption DEF TypeOK, Ticks
    <2> QED
      BY <1>4, <2>1 DEF TypeOK, Order
  <1>13. \/ order'[o].status = "pending"
         \/ /\ order'[o].status = "ready" /\ ~fails
            /\ \A n \in numbers : NewAuthz(n, f[n], o).status = "valid"
    BY <1>4 DEF TypeOK
  <1> QED
    BY <1>2, <1>8, <1>11, <1>12, <1>13

LEMMA PreAuthorizeIs ==
  ASSUME TypeOK, NEW i \in Identifier, PreAuthorize(i)
  PROVE  Grows(NoOrder, {i}) /\ UNCHANGED <<order, partial, faults>>
  <1>0. nextAuthz \in Nat /\ Rows = 1..nextAuthz
    BY AcmeAssumption DEF TypeOK, Rows
  <1>1. /\ nextAuthz' = nextAuthz + 1 /\ nextAuthz' \in 0..MaxAuthz /\ nextAuthz' <= MaxAuthz
        /\ authz' = [n \in 1..nextAuthz' |-> IF n \in Rows THEN authz[n] ELSE NewAuthz(n, i, NoOrder)]
        /\ ticks < MaxTicks /\ ticks' = ticks + 1
        /\ proved' = IF AutoApproves(i) THEN proved \cup {i} ELSE proved
        /\ UNCHANGED <<order, past, handler, answers, relinquished, issued, partial, reopened, faults>>
    BY <1>0, AcmeAssumption DEF PreAuthorize
  <1>2. \A a \in 1..nextAuthz' : a \notin Rows <=> a = nextAuthz + 1
    BY <1>0, <1>1
  <1>3. \A a \in Rows : authz'[a] = authz[a]
    BY <1>0, <1>1
  <1>4. ASSUME NEW a \in 1..nextAuthz', a \notin Rows
        PROVE  Starts(authz'[a], a, i, NoOrder)
    <2>1. authz'[a] = NewAuthz(a, i, NoOrder)
      BY <1>1, <1>4
    <2>2. a \in Nat /\ a > nextAuthz /\ a <= MaxAuthz
      BY <1>0, <1>1, <1>2, <1>4, AcmeAssumption
    <2> QED
      BY <1>1, <2>1, <2>2, NewAuthzIs
  <1>5. authz' \in [1..nextAuthz' -> Authz]
    <2>1. \A a \in 1..nextAuthz' : authz'[a] \in Authz
      BY <1>0, <1>3, <1>4 DEF TypeOK, Starts
    <2> QED
      BY <1>1, <2>1
  <1>6. nextAuthz + 1 \in 1..nextAuthz' /\ nextAuthz + 1 \notin Rows /\ authz'[nextAuthz + 1].identifier = i
    BY <1>0, <1>1, <1>2, <1>4 DEF Starts
  <1> QED
    BY <1>0, <1>1, <1>3, <1>4, <1>5, <1>6 DEF Grows

-----------------------------------------------------------------------------
(* Types *)

LEMMA Blanks ==
  /\ Idle \in Handler /\ Idle.pc = "idle" /\ Idle.order = NoOrder
  /\ NoRow \in Order /\ NoRow.status = "none" /\ NoRow.identifiers = {}
  BY AcmeAssumption DEF Idle, Handler, Types, NoRow, Order

LEMMA InvalidatedIs ==
  ASSUME TypeOK, NEW S
  PROVE  /\ InvalidateOrders(S) \in [Orders -> Order]
         /\ \A o \in Orders :
               /\ InvalidateOrders(S)[o].identifiers = order[o].identifiers
               /\ \/ InvalidateOrders(S)[o].status = order[o].status
                  \/ order[o].status \in Open /\ InvalidateOrders(S)[o].status = "invalid"
  <1>1. \A o \in Orders : order[o] \in Order
    BY DEF TypeOK
  <1>2. \A x \in Order : /\ Invalidated(x) \in Order /\ Invalidated(x).identifiers = x.identifiers
                         /\ \/ Invalidated(x).status = x.status
                            \/ x.status \in Open /\ Invalidated(x).status = "invalid"
    BY DEF Invalidated, Order, Open
  <1> QED
    BY <1>1, <1>2 DEF InvalidateOrders

\* What became of an authorization that was not validated.
Fades(q, p) ==
    /\ p \in Authz
    /\ p.identifier = q.identifier /\ p.order = q.order /\ p.expires = q.expires
    /\ p.status \in {q.status, "invalid", "deactivated", "gone"}
    /\ p.proof \in {0, q.proof}
    /\ p.status = "gone" => \A t \in Types : p.challenge[t] = "none"
    /\ p.status # "gone" => q.status # "gone" /\ p.proof = q.proof

LEMMA FadesSame ==
  ASSUME TypeOK, Together, NEW a \in Rows
  PROVE  Fades(authz[a], authz[a])
  BY DEF TypeOK, Together, Fades, Rows, Authz

LEMMA ExpiredIs ==
  ASSUME NEW q \in Authz, q.status # "gone"
  PROVE  Fades(q, Expired(q)) /\ Expired(q).status = "invalid"
  <1>1. [t \in Types |-> IF q.challenge[t] = "pending" THEN "invalid" ELSE q.challenge[t]]
           \in [Types -> {"none", "pending", "valid", "invalid"}]
    BY DEF Authz
  <1> QED
    BY <1>1 DEF Expired, Fades, Authz

\* Rows after a step that fades them.
Faded == authz' \in [1..nextAuthz -> Authz] /\ nextAuthz' = nextAuthz /\ \A a \in Rows : Fades(authz[a], authz'[a])

LEMMA ReadingFades ==
  ASSUME TypeOK, Together,
         (\E o \in Orders : ReadOrder(o)) \/ \E a \in Rows : ReadAuthz(a)
  PROVE  /\ Faded /\ \A a \in Rows : authz'[a].status = "gone" <=> authz[a].status = "gone"
         /\ UNCHANGED <<ticks, past, handler, ghosts>>
         /\ \E S : order' = InvalidateOrders(S)
         /\ \A a \in Rows : authz[a].status = "deactivated" => authz'[a].status = "deactivated"
  <1>0. Rows = 1..nextAuthz /\ \A a \in Rows : authz[a] \in Authz
    BY DEF TypeOK, Rows
  <1>1. /\ UNCHANGED <<nextAuthz, ticks, past, handler, ghosts>>
        /\ \E S : order' = InvalidateOrders(S)
    BY DEF ReadOrder, ReadAuthz
  <1>2. /\ DOMAIN authz' = Rows
        /\ \A a \in Rows : \/ authz'[a] = authz[a]
                           \/ authz[a].status = "pending" /\ authz'[a] = Expired(authz[a])
        /\ authz' = [a \in Rows |-> authz'[a]]
    BY <1>0 DEF ReadOrder, ReadAuthz, Rows, TypeOK
  <1>3. \A a \in Rows : Fades(authz[a], authz'[a])
    BY <1>0, <1>2, FadesSame, ExpiredIs
  <1>4. authz' \in [1..nextAuthz -> Authz]
    BY <1>0, <1>2, <1>3 DEF Fades
  <1>5. \A a \in Rows : authz'[a].status = "gone" <=> authz[a].status = "gone"
    BY <1>0, <1>2, ExpiredIs
  <1>6. \A a \in Rows : authz[a].status = "deactivated" => authz'[a].status = "deactivated"
    BY <1>2
  <1> QED
    BY <1>1, <1>3, <1>4, <1>5, <1>6 DEF Faded

LEMMA DeactivatingFades ==
  ASSUME TypeOK, Together, NEW a \in Rows, Deactivate(a)
  PROVE  /\ Faded /\ \A b \in Rows : authz'[b].status = "gone" <=> authz[b].status = "gone"
         /\ UNCHANGED <<ticks, past, handler, answers, proved, issued, partial, reopened, faults>>
         /\ \E S : order' = InvalidateOrders(S)
         /\ \A b \in Rows : IF b \in SameProof(a) THEN authz'[b].status = "deactivated" ELSE authz'[b] = authz[b]
         /\ relinquished' = relinquished \cup ({authz[a].proof} \ {0})
         /\ authz[a].status \in {"pending", "valid"}
  <1>0. Rows = 1..nextAuthz /\ \A b \in Rows : authz[b] \in Authz
    BY DEF TypeOK, Rows
  <1>1. /\ authz' = [b \in Rows |-> IF b \in SameProof(a)
                                    THEN [authz[b] EXCEPT !.status = "deactivated"] ELSE authz[b]]
        /\ UNCHANGED <<nextAuthz, ticks, past, handler, answers, proved, issued, partial, reopened, faults>>
        /\ \E S : order' = InvalidateOrders(S)
        /\ relinquished' = relinquished \cup ({authz[a].proof} \ {0})
        /\ authz[a].status \in {"pending", "valid"}
    BY DEF Deactivate
  <1>2. \A b \in SameProof(a) : authz[b].status \in {"pending", "valid"}
    BY <1>1 DEF SameProof
  <1>3. ASSUME NEW b \in Rows
        PROVE  /\ Fades(authz[b], authz'[b])
               /\ authz'[b].status = "gone" <=> authz[b].status = "gone"
               /\ IF b \in SameProof(a) THEN authz'[b].status = "deactivated" ELSE authz'[b] = authz[b]
    <2>1. CASE b \in SameProof(a)
      <3>1. authz'[b] = [authz[b] EXCEPT !.status = "deactivated"] /\ authz[b].status # "gone"
        BY <1>1, <1>2, <2>1
      <3> QED
        BY <1>0, <2>1, <3>1 DEF Fades, Authz
    <2>2. CASE b \notin SameProof(a)
      BY <1>1, <2>2, FadesSame
    <2> QED
      BY <2>1, <2>2
  <1>4. authz' \in [1..nextAuthz -> Authz]
    BY <1>0, <1>1, <1>3 DEF Fades
  <1> QED
    BY <1>1, <1>3, <1>4 DEF Faded

LEMMA PurgeFades ==
  ASSUME TypeOK, Together, Purge
  PROVE  /\ Faded /\ UNCHANGED <<ticks, past, handler, ghosts>>
         /\ order' \in [Orders -> Order]
         /\ \A a \in Rows : authz[a].status \in {"valid", "deactivated"} => authz'[a].status \in {authz[a].status, "gone"}
         /\ \A o \in Orders :
               \/ order'[o] = order[o]
               \/ order[o].status \notin {"none", "gone"} /\ order'[o].status = "gone" /\ order'[o].identifiers = {}
         /\ \A a \in Rows : authz[a].order \in Orders =>
               \/ authz'[a].status = "gone"
               \/ authz'[a].status = authz[a].status /\ order'[authz[a].order] = order[authz[a].order]
         /\ \A a \in Rows : authz[a].order \in Orders /\ order'[authz[a].order].status # "gone" =>
               authz'[a].status = authz[a].status
  <1>0. Rows = 1..nextAuthz /\ \A b \in Rows : authz[b] \in Authz
    BY DEF TypeOK, Rows
  <1> DEFINE N(q) == [q EXCEPT !.status = "gone", !.challenge = [t \in Types |-> "none"], !.proof = 0]
             C(q) == [q EXCEPT !.challenge = [t \in Types |-> IF q.challenge[t] = "pending" THEN "none" ELSE q.challenge[t]]]
  <1>a. PICK orders : orders = {o \in Orders : Purgeable(o)}
    OBVIOUS
  <1>b. PICK rows : rows = {a \in Rows : \/ authz[a].order \in orders /\ authz[a].status # "gone"
                                         \/ /\ authz[a].order = NoOrder
                                            /\ Lapsed(authz[a])
                                            /\ authz[a].status \notin {"valid", "gone"}}
    OBVIOUS
  <1>c. PICK stale : stale = {a \in Rows \ rows : /\ authz[a].status = "valid"
                                                 /\ \E t \in Types : authz[a].challenge[t] = "pending"}
    OBVIOUS
  <1>1. /\ order' = [o \in Orders |-> IF o \in orders THEN [NoRow EXCEPT !.status = "gone"] ELSE order[o]]
        /\ authz' = [a \in Rows |-> IF a \in rows THEN N(authz[a])
                                    ELSE IF a \in stale THEN C(authz[a]) ELSE authz[a]]
        /\ UNCHANGED <<nextAuthz, ticks, past, handler, ghosts>>
    BY <1>a, <1>b, <1>c DEF Purge
  <1>2. ASSUME NEW q \in Authz
        PROVE  N(q) \in Authz /\ Fades(q, N(q)) /\ N(q).status = "gone"
    <2>1. [t \in Types |-> "none"] \in [Types -> {"none", "pending", "valid", "invalid"}]
      OBVIOUS
    <2>2. 0 \in 0..(MaxAnswers + MaxAuthz)
      BY AcmeAssumption
    <2>3. N(q) \in Authz /\ N(q).status = "gone" /\ N(q).proof = 0 /\ \A t \in Types : N(q).challenge[t] = "none"
      BY <2>1, <2>2 DEF Authz
    <2>4. N(q).identifier = q.identifier /\ N(q).order = q.order /\ N(q).expires = q.expires
      BY DEF Authz
    <2> QED
      BY <2>3, <2>4 DEF Fades
  <1>3. ASSUME NEW q \in Authz, q.status = "valid"
        PROVE  C(q) \in Authz /\ Fades(q, C(q)) /\ C(q).status = "valid"
    <2>1. [t \in Types |-> IF q.challenge[t] = "pending" THEN "none" ELSE q.challenge[t]]
             \in [Types -> {"none", "pending", "valid", "invalid"}]
      BY DEF Authz
    <2> QED
      BY <1>3, <2>1 DEF Fades, Authz
  <1> HIDE DEF N, C
  <1>4. ASSUME NEW a \in Rows
        PROVE  /\ Fades(authz[a], authz'[a])
               /\ \/ a \in rows /\ authz'[a].status = "gone"
                  \/ a \notin rows /\ authz'[a].status = authz[a].status
    <2>1. CASE a \in rows
      BY <1>0, <1>1, <1>2, <2>1
    <2>2. CASE a \notin rows /\ a \in stale
      BY <1>0, <1>1, <1>3, <1>c, <2>2
    <2>3. CASE a \notin rows /\ a \notin stale
      BY <1>1, <2>3, FadesSame
    <2> QED
      BY <2>1, <2>2, <2>3
  <1>5. Faded
    <2>1. authz' \in [1..nextAuthz -> Authz]
      BY <1>0, <1>1, <1>4 DEF Fades
    <2> QED
      BY <1>1, <1>4, <2>1 DEF Faded
  <1>6. [NoRow EXCEPT !.status = "gone"] \in Order /\ [NoRow EXCEPT !.status = "gone"].status = "gone"
        /\ [NoRow EXCEPT !.status = "gone"].identifiers = {}
    BY DEF NoRow, Order
  <1>7. \A o \in orders : o \in Orders /\ order[o].status \notin {"none", "gone"}
    BY <1>a DEF Purgeable
  <1>8. /\ order' \in [Orders -> Order]
        /\ \A o \in Orders :
               \/ o \notin orders /\ order'[o] = order[o]
               \/ /\ o \in orders /\ order[o].status \notin {"none", "gone"}
                  /\ order'[o].status = "gone" /\ order'[o].identifiers = {}
    BY <1>1, <1>6, <1>7 DEF TypeOK
  <1>9. ASSUME NEW a \in Rows, authz[a].order \in Orders
        PROVE  /\ \/ authz'[a].status = "gone"
                  \/ authz'[a].status = authz[a].status /\ order'[authz[a].order] = order[authz[a].order]
               /\ order'[authz[a].order].status # "gone" => authz'[a].status = authz[a].status
    <2>1. a \in rows <=> authz[a].order \in orders /\ authz[a].status # "gone"
      BY <1>b, <1>9, AcmeAssumption
    <2> QED
      BY <1>4, <1>8, <1>9, <2>1
  <1> QED
    BY <1>1, <1>4, <1>5, <1>8, <1>9

\* A step that proves nothing: rows fade but stay, deactivated ones as they are, and orders may
\* become invalid.
Declines ==
    /\ Faded
    /\ \A a \in Rows : /\ authz'[a].status = "gone" <=> authz[a].status = "gone"
                       /\ authz[a].status = "deactivated" => authz'[a].status = "deactivated"
    /\ order' \in [Orders -> Order]
    /\ \A o \in Orders : /\ order'[o].identifiers = order[o].identifiers
                         /\ \/ order'[o].status = order[o].status
                            \/ order[o].status \in Open /\ order'[o].status = "invalid"
    /\ UNCHANGED <<proved, reopened>>

\* The answer of number k validates authorization a, and perhaps its order is ready with that.
Validates(a, k) ==
    LET o == authz[a].order IN
    /\ authz' \in [1..nextAuthz -> Authz] /\ nextAuthz' = nextAuthz
    /\ authz[a].status \notin {"gone", "deactivated"}
    /\ authz'[a].status = "valid" /\ authz'[a].proof = k
    /\ authz'[a].identifier = authz[a].identifier
    /\ authz'[a].order = o /\ authz'[a].expires = authz[a].expires
    /\ \A b \in Rows \ {a} : authz'[b] = authz[b]
    /\ proved' = proved \cup {authz[a].identifier}
    /\ \/ UNCHANGED <<order, reopened>>
       \/ /\ o \in Orders
          /\ \A b \in AuthzsOf(o) : authz'[b].status = "valid"
          /\ order' = [order EXCEPT ![o].status = "ready"]
          /\ reopened' = IF order[o].status # "pending" THEN reopened \cup {o} ELSE reopened

\* The challenge of an authorization is written, and its status too.
Written(q, t, s) == [q EXCEPT !.challenge[t] = s]
Refused(q, t) == [q EXCEPT !.status = "invalid", !.challenge[t] = "invalid"]

LEMMA ChallengeSet ==
  ASSUME NEW q \in Authz, q.status # "gone", NEW t \in Types, NEW s \in {"valid", "invalid"}
  PROVE  /\ Fades(q, Written(q, t, s)) /\ Written(q, t, s).status = q.status
         /\ Fades(q, Refused(q, t)) /\ Refused(q, t).status = "invalid"
  <1>1. /\ [q.challenge EXCEPT ![t] = s] \in [Types -> {"none", "pending", "valid", "invalid"}]
        /\ [q.challenge EXCEPT ![t] = "invalid"] \in [Types -> {"none", "pending", "valid", "invalid"}]
    BY DEF Authz
  <1> QED
    BY <1>1 DEF Fades, Authz, Written, Refused

LEMMA AnswerIs ==
  ASSUME TypeOK, Together, NEW h \in Handlers, Validating(h), AnswerEnds(h)
  PROVE  /\ handler[h].pc = "validate" /\ handler' = [handler EXCEPT ![h] = Idle]
         /\ UNCHANGED <<nextAuthz, ticks, past, answers, relinquished, issued, partial, faults>>
         /\ handler[h].authz \in Rows
         /\ Declines \/ Validates(handler[h].authz, handler[h].number)
  <1>0. Rows = 1..nextAuthz /\ \A b \in Rows : authz[b] \in Authz
    BY DEF TypeOK, Rows
  <1>a. PICK a \in Rows : a = handler[h].authz
    BY DEF AnswerEnds, Validating
  <1>b. PICK t \in Types : t = handler[h].type
    BY DEF TypeOK, Handler
  <1>c. PICK k \in 0..MaxAnswers : k = handler[h].number
    BY DEF TypeOK, Handler
  <1>1. /\ handler[h].pc = "validate" /\ handler' = [handler EXCEPT ![h] = Idle]
        /\ UNCHANGED <<nextAuthz, ticks, past, answers, relinquished, issued, partial, faults>>
    BY DEF AnswerEnds
  <1>2. ASSUME UNCHANGED <<order, proved, reopened>> \/ (UNCHANGED <<proved, reopened>> /\ \E S : order' = InvalidateOrders(S)),
               authz' \in [1..nextAuthz -> Authz],
               \A b \in Rows \ {a} : authz'[b] = authz[b],
               Fades(authz[a], authz'[a]), authz'[a].status = "gone" <=> authz[a].status = "gone",
               authz[a].status = "deactivated" => authz'[a].status = "deactivated"
        PROVE  Declines
    <2>1. Faded
      BY <1>1, <1>2, FadesSame DEF Faded
    <2>2. /\ order' \in [Orders -> Order]
          /\ \A o \in Orders : /\ order'[o].identifiers = order[o].identifiers
                               /\ \/ order'[o].status = order[o].status
                                  \/ order[o].status \in Open /\ order'[o].status = "invalid"
      BY <1>2, InvalidatedIs DEF TypeOK
    <2> QED
      BY <1>2, <2>1, <2>2 DEF Declines
  <1>3. CASE authz[a].challenge[t] = "none"
    <2>1. UNCHANGED <<order, authz, proved, reopened>>
      BY <1>3, <1>a, <1>b DEF AnswerEnds
    <2>2. Fades(authz[a], authz'[a]) /\ authz' \in [1..nextAuthz -> Authz]
      BY <2>1, FadesSame DEF TypeOK
    <2> QED
      BY <1>1, <1>2, <1>a, <2>1, <2>2
  <1>4. CASE authz[a].challenge[t] # "none"
    <2>0. authz[a].status # "gone"
      BY <1>4 DEF Together
    <2>1. CASE Fails(h)
      <3>1. CASE authz[a].status = "deactivated"
        <4>1. /\ authz' = [authz EXCEPT ![a] = [@ EXCEPT !.challenge[t] = "invalid"]]
              /\ UNCHANGED <<order, proved, reopened>>
          BY <1>a, <1>b, <2>1, <3>1 DEF Fails, Relinquished
        <4>2. /\ authz'[a] = Written(authz[a], t, "invalid") /\ \A b \in Rows \ {a} : authz'[b] = authz[b]
          BY <4>1 DEF Rows, Written, Refused
        <4>3. Fades(authz[a], authz'[a]) /\ authz'[a].status = authz[a].status
          BY <1>0, <2>0, <4>2, ChallengeSet
        <4>4. authz' \in [1..nextAuthz -> Authz]
          BY <1>0, <4>1, <4>3 DEF Fades, TypeOK
        <4> QED
          BY <1>1, <1>2, <1>a, <4>1, <4>2, <4>3, <4>4
      <3>2. CASE authz[a].status # "deactivated"
        <4>1. /\ authz' = [authz EXCEPT ![a] = [@ EXCEPT !.status = "invalid", !.challenge[t] = "invalid"]]
              /\ order' = InvalidateOrders({authz[a].order}) /\ UNCHANGED <<proved, reopened>>
          BY <1>a, <1>b, <2>1, <3>2 DEF Fails, Relinquished
        <4>2. /\ authz'[a] = Refused(authz[a], t)
              /\ \A b \in Rows \ {a} : authz'[b] = authz[b]
          BY <4>1 DEF Rows, Written, Refused
        <4>3. Fades(authz[a], authz'[a]) /\ authz'[a].status = "invalid"
          BY <1>0, <2>0, <4>2, ChallengeSet
        <4>4. authz' \in [1..nextAuthz -> Authz]
          BY <1>0, <4>1, <4>3 DEF Fades, TypeOK
        <4> QED
          BY <1>1, <1>2, <1>a, <2>0, <3>2, <4>1, <4>2, <4>3, <4>4
      <3> QED
        BY <3>1, <3>2
    <2>2. CASE Succeeds(h)
      <3>1. CASE authz[a].status = "deactivated"
        <4>1. /\ authz' = [authz EXCEPT ![a] = [@ EXCEPT !.challenge[t] = "valid"]]
              /\ UNCHANGED <<order, proved, reopened>>
          BY <1>a, <1>b, <2>2, <3>1 DEF Succeeds, Relinquished
        <4>2. /\ authz'[a] = Written(authz[a], t, "valid") /\ \A b \in Rows \ {a} : authz'[b] = authz[b]
          BY <4>1 DEF Rows, Written, Refused
        <4>3. Fades(authz[a], authz'[a]) /\ authz'[a].status = authz[a].status
          BY <1>0, <2>0, <4>2, ChallengeSet
        <4>4. authz' \in [1..nextAuthz -> Authz]
          BY <1>0, <4>1, <4>3 DEF Fades, TypeOK
        <4> QED
          BY <1>1, <1>2, <1>a, <4>1, <4>2, <4>3, <4>4
      <3>2. CASE authz[a].status # "deactivated"
        <4>a. PICK c : c = [u \in Types |-> IF u = t THEN "valid"
                                            ELSE IF authz[a].challenge[u] = "pending" THEN "none" ELSE authz[a].challenge[u]]
          OBVIOUS
        <4>b. PICK o : o = authz[a].order
          OBVIOUS
        <4>1. c \in [Types -> {"none", "pending", "valid", "invalid"}]
          BY <1>0, <4>a DEF Authz
        <4>2. /\ authz' = [authz EXCEPT ![a] = [@ EXCEPT !.status = "valid", !.proof = k, !.challenge = c]]
              /\ proved' = proved \cup {authz[a].identifier}
          BY <1>a, <1>b, <1>c, <2>2, <3>2, <4>a DEF Succeeds, Relinquished
        <4>3. \/ UNCHANGED <<order, reopened>>
              \/ /\ o # NoOrder /\ AllValid(o, authz')
                 /\ order' = [order EXCEPT ![o].status = "ready"]
                 /\ reopened' = IF order[o].status # "pending" THEN reopened \cup {o} ELSE reopened
          BY <1>a, <1>b, <1>c, <2>2, <3>2, <4>b DEF Succeeds, Relinquished
        <4>4. /\ authz'[a] = [authz[a] EXCEPT !.status = "valid", !.proof = k, !.challenge = c]
              /\ \A b \in Rows \ {a} : authz'[b] = authz[b]
          BY <4>2 DEF Rows
        <4>5. k \in 0..(MaxAnswers + MaxAuthz)
          BY AcmeAssumption
        <4>6. /\ authz'[a] \in Authz /\ authz'[a].status = "valid" /\ authz'[a].proof = k
              /\ authz'[a].identifier = authz[a].identifier
              /\ authz'[a].order = authz[a].order /\ authz'[a].expires = authz[a].expires
          BY <1>0, <4>1, <4>4, <4>5 DEF Authz
        <4>7. authz' \in [1..nextAuthz -> Authz]
          BY <1>0, <4>2, <4>6 DEF TypeOK
        <4>8. o \in Orders \cup {NoOrder}
          BY <1>0, <4>b DEF Authz
        <4>9. Validates(a, k)
          BY <1>1, <2>0, <3>2, <4>b, <4>2, <4>3, <4>4, <4>6, <4>7, <4>8 DEF Validates, AllValid
        <4> QED
          BY <1>1, <1>a, <1>c, <4>9
      <3> QED
        BY <3>1, <3>2
    <2> QED
      BY <1>4, <1>a, <1>b, <2>1, <2>2 DEF AnswerEnds
  <1> QED
    BY <1>3, <1>4

LEMMA TypeStep ==
  ASSUME TypeOK, ProofInv, OrderInv, [Next]_vars
  PROVE  TypeOK'
  <1>0. /\ Rows = 1..nextAuthz /\ \A b \in Rows : authz[b] \in Authz
        /\ nextAuthz \in Nat /\ ticks \in Nat /\ faults \in Nat /\ past \in Nat /\ answers \in Nat
        /\ MaxTicks \in Nat /\ MaxFaults \in Nat /\ MaxAnswers \in Nat /\ MaxAuthz \in Nat
        /\ Together /\ partial \subseteq Orders /\ reopened \subseteq Orders
    BY AcmeAssumption DEF TypeOK, Rows, Ticks, OrderInv
  <1>1. ASSUME NEW o \in Orders, NEW ids \in Asked, NewOrder(o, ids) \/ NewOrderFails(o, ids)
        PROVE  TypeOK'
    <2>0. ids \in SUBSET Identifier /\ IsFiniteSet(ids)
      BY AcmeAssumption
    <2>1. PICK done \in SUBSET ids, fails \in BOOLEAN : CreateOrder(o, ids, done, fails)
      BY <1>1 DEF NewOrder, NewOrderFails
    <2>2. IsFiniteSet(done)
      BY <2>0, FS_Subset
    <2>3. Grows(o, done) /\ order' \in [Orders -> Order]
      BY <2>0, <2>1, <2>2, CreateIs
    <2>4. faults' \in 0..MaxFaults /\ partial' \subseteq Orders
      <3>1. faults' = faults \/ (faults < MaxFaults /\ faults' = faults + 1)
        BY <1>1 DEF NewOrder, NewOrderFails
      <3>2. partial' = partial \/ partial' = partial \cup {o}
        BY <1>1 DEF NewOrder, NewOrderFails
      <3> QED
        BY <1>0, <3>1, <3>2 DEF TypeOK
    <2>5. ticks' \in {0} \cup Ticks /\ past' \in 0..ticks'
      BY <1>0, <2>3 DEF Grows, TypeOK, Ticks
    <2>6. proved' \subseteq Identifier
      BY <2>0, <2>3 DEF Grows, TypeOK
    <2> QED
      BY <2>3, <2>4, <2>5, <2>6 DEF TypeOK, Grows
  <1>2. ASSUME NEW ids \in Asked, NEW i \in ids, PreAuthorize(i)
        PROVE  TypeOK'
    <2>0. i \in Identifier
      BY AcmeAssumption
    <2>1. Grows(NoOrder, {i}) /\ UNCHANGED <<order, partial, faults>>
      BY <1>2, <2>0, PreAuthorizeIs
    <2>2. ticks' \in {0} \cup Ticks /\ past' \in 0..ticks'
      BY <1>0, <2>1 DEF Grows, TypeOK, Ticks
    <2>3. proved' \subseteq Identifier
      BY <2>0, <2>1 DEF Grows, TypeOK
    <2> QED
      BY <2>1, <2>2, <2>3 DEF TypeOK, Grows
  <1>3. ASSUME NEW h \in Handlers, NEW a \in Rows, NEW t \in Types, Answer(h, a, t)
        PROVE  TypeOK'
    <2>1. answers' = answers + 1 /\ answers' \in 0..MaxAnswers
      BY <1>0, <1>3 DEF Answer
    <2>2. [pc |-> "validate", order |-> NoOrder, authz |-> a, type |-> t, number |-> answers'] \in Handler
      BY <1>0, <2>1 DEF Handler, Authzs, TypeOK
    <2>3. handler' \in [Handlers -> Handler]
      BY <1>3, <2>2 DEF Answer, TypeOK
    <2> QED
      BY <1>3, <2>1, <2>3 DEF TypeOK, Answer
  <1>4. ASSUME NEW h \in Handlers, AnswerEnds(h)
        PROVE  TypeOK'
    <2>0. Validating(h)
      BY DEF ProofInv
    <2>1. /\ handler' = [handler EXCEPT ![h] = Idle]
          /\ UNCHANGED <<nextAuthz, ticks, past, answers, relinquished, issued, partial, faults>>
          /\ handler[h].authz \in Rows
          /\ Declines \/ Validates(handler[h].authz, handler[h].number)
      BY <1>0, <1>4, <2>0, AnswerIs
    <2>2. handler' \in [Handlers -> Handler]
      BY <2>1, Blanks DEF TypeOK
    <2>3. CASE Declines
      BY <2>1, <2>2, <2>3 DEF TypeOK, Declines, Faded
    <2>4. CASE Validates(handler[h].authz, handler[h].number)
      <3>1. authz' \in [1..nextAuthz' -> Authz] /\ proved' \subseteq Identifier
        <4>1. authz' \in [1..nextAuthz' -> Authz] /\ proved' = proved \cup {authz[handler[h].authz].identifier}
          BY <2>4 DEF Validates
        <4>2. authz[handler[h].authz] \in Authz
          BY <1>0, <2>1 DEF TypeOK
        <4>3. authz[handler[h].authz].identifier \in Identifier
          BY <4>2 DEF Authz
        <4> QED
          BY <4>1, <4>3 DEF TypeOK
      <3>2. order' \in [Orders -> Order] /\ reopened' \subseteq Orders
        <4>1. PICK o : o = authz[handler[h].authz].order
          OBVIOUS
        <4>2. \/ UNCHANGED <<order, reopened>>
              \/ /\ o \in Orders /\ order' = [order EXCEPT ![o].status = "ready"]
                 /\ reopened' \subseteq reopened \cup {o}
          BY <2>4, <4>1 DEF Validates
        <4>3. ASSUME o \in Orders PROVE [order EXCEPT ![o].status = "ready"] \in [Orders -> Order]
          BY <4>3 DEF TypeOK, Order
        <4> QED
          BY <4>2, <4>3 DEF TypeOK
      <3> QED
        BY <2>1, <2>2, <3>1, <3>2 DEF TypeOK
    <2> QED
      BY <2>1, <2>3, <2>4
  <1>5. ASSUME NEW h \in Handlers, NEW o \in Orders, Finalize(h, o)
        PROVE  TypeOK'
    <2>1. [Idle EXCEPT !.pc = "finalize", !.order = o] \in Handler
      BY Blanks DEF Handler
    <2>2. handler' \in [Handlers -> Handler] /\ order' \in [Orders -> Order]
      BY <1>5, <2>1 DEF Finalize, TypeOK, Order
    <2> QED
      BY <1>5, <2>2 DEF TypeOK, Finalize, ghosts
  <1>6. ASSUME NEW h \in Handlers, FinalizeIssues(h) \/ FinalizeRefused(h) \/ FinalizeBreaks(h)
        PROVE  TypeOK'
    <2>1. PICK o \in Orders : o = handler[h].order
      BY <1>6 DEF OrderInv, Finalizing, FinalizeIssues, FinalizeRefused, FinalizeBreaks
    <2>2. /\ handler' = [handler EXCEPT ![h] = Idle]
          /\ UNCHANGED <<authz, nextAuthz, ticks, past, answers, proved, relinquished, partial, reopened>>
          /\ order' = order \/ \E s \in {"valid", "invalid", "ready"} : order' = [order EXCEPT ![o].status = s]
          /\ issued' = issued \/ issued' = [issued EXCEPT ![o] = @ + 1]
          /\ faults' \in 0..MaxFaults
      BY <1>0, <1>6, <2>1 DEF FinalizeIssues, FinalizeRefused, FinalizeBreaks, ghosts, TypeOK
    <2>3. order' \in [Orders -> Order]
      <3>1. ASSUME NEW s \in {"valid", "invalid", "ready"}, order' = [order EXCEPT ![o].status = s]
            PROVE  order' \in [Orders -> Order]
        BY <3>1 DEF TypeOK, Order
      <3> QED
        BY <2>2, <3>1 DEF TypeOK
    <2>4. handler' \in [Handlers -> Handler]
      BY <2>2, Blanks DEF TypeOK
    <2>5. issued' \in [Orders -> Nat]
      <3>1. issued \in [Orders -> Nat] /\ issued[o] + 1 \in Nat
        BY DEF TypeOK
      <3> QED
        BY <2>2, <3>1
    <2> QED
      BY <2>2, <2>3, <2>4, <2>5 DEF TypeOK
  <1>7. ASSUME (\E o \in Orders : ReadOrder(o)) \/ \E a \in Rows : ReadAuthz(a)
        PROVE  TypeOK'
    <2>1. Faded /\ UNCHANGED <<ticks, past, handler, ghosts>> /\ \E S : order' = InvalidateOrders(S)
      BY <1>0, <1>7, ReadingFades
    <2>2. order' \in [Orders -> Order]
      BY <2>1, InvalidatedIs
    <2> QED
      BY <2>1, <2>2 DEF TypeOK, Faded, ghosts
  <1>8. ASSUME NEW a \in Rows, Deactivate(a)
        PROVE  TypeOK'
    <2>1. /\ Faded /\ UNCHANGED <<ticks, past, handler, answers, proved, issued, partial, reopened, faults>>
          /\ \E S : order' = InvalidateOrders(S)
          /\ relinquished' = relinquished \cup ({authz[a].proof} \ {0})
      BY <1>0, <1>8, DeactivatingFades
    <2>2. order' \in [Orders -> Order]
      BY <2>1, InvalidatedIs
    <2>3. relinquished' \subseteq 1..(MaxAnswers + MaxAuthz)
      <3>1. authz[a].proof \in 0..(MaxAnswers + MaxAuthz)
        BY <1>0 DEF Authz
      <3>2. authz[a].proof # 0 => authz[a].proof \in 1..(MaxAnswers + MaxAuthz)
        BY <1>0, <3>1
      <3>3. relinquished \subseteq 1..(MaxAnswers + MaxAuthz)
        BY DEF TypeOK
      <3> QED
        BY <2>1, <3>2, <3>3
    <2> QED
      BY <2>1, <2>2, <2>3 DEF TypeOK, Faded
  <1>9. ASSUME Purge
        PROVE  TypeOK'
    <2>1. Faded /\ UNCHANGED <<ticks, past, handler, ghosts>> /\ order' \in [Orders -> Order]
      BY <1>0, <1>9, PurgeFades
    <2> QED
      BY <2>1 DEF TypeOK, Faded, ghosts
  <1>10. ASSUME Lapse
         PROVE  TypeOK'
    <2>1. past' \in 0..ticks
      BY <1>0, <1>10 DEF Lapse, TypeOK
    <2> QED
      BY <1>10, <2>1 DEF TypeOK, Lapse, ghosts
  <1>11. ASSUME Crash
         PROVE  TypeOK'
    <2>1. faults' \in 0..MaxFaults /\ handler' \in [Handlers -> Handler]
      BY <1>0, <1>11, Blanks DEF Crash
    <2> QED
      BY <1>11, <2>1 DEF TypeOK, Crash
  <1>12. ASSUME UNCHANGED vars
         PROVE  TypeOK'
    BY <1>12 DEF TypeOK, vars, ghosts
  <1> QED
    BY <1>1, <1>2, <1>3, <1>4, <1>5, <1>6, <1>7, <1>8, <1>9, <1>10, <1>11, <1>12 DEF Next

-----------------------------------------------------------------------------
(* Proofs of control *)

\* Rows fade, and no proof is made or given up.
LEMMA ProofsKept ==
  ASSUME TypeOK, TypeOK', ProofInv, Faded, UNCHANGED <<answers, relinquished>>, proved \subseteq proved',
         \A h \in Handlers : handler'[h] = handler[h] \/ handler'[h].pc # "validate"
  PROVE  ProofInv'
  <1>0. /\ Rows' = Rows /\ Numbers' = Numbers
        /\ \A a \in Rows : Fades(authz[a], authz'[a])
    BY DEF Faded, Rows, TypeOK, Numbers
  <1>1. Backed'
    BY <1>0 DEF Backed, ProofInv, Fades
  <1>2. Alike'
    <2>1. \A a \in Rows : authz'[a].status = "valid" =>
             /\ authz[a].status = "valid" /\ authz'[a].proof = authz[a].proof
             /\ authz'[a].identifier = authz[a].identifier /\ authz'[a].expires = authz[a].expires
      BY <1>0 DEF Fades
    <2> QED
      BY <1>0, <2>1 DEF Alike, ProofInv
  <1>3. ASSUME NEW h \in Handlers PROVE Validating(h)'
    <2>1. CASE handler'[h].pc # "validate"
      BY <2>1 DEF Validating
    <2>2. CASE handler'[h] = handler[h] /\ handler[h].pc = "validate"
      <3>1. /\ handler[h].authz \in Rows /\ handler[h].number \in 1..answers
            /\ handler[h].number \notin relinquished
            /\ \A a \in Rows : authz[a].proof # handler[h].number
        BY <2>2 DEF ProofInv, Validating
      <3>2. \A a \in Rows : authz'[a].proof # handler[h].number
        BY <1>0, <3>1 DEF Fades
      <3> QED
        BY <1>0, <2>2, <3>1, <3>2 DEF Validating
    <2> QED
      BY <2>1, <2>2
  <1>4. Distinct'
    BY DEF ProofInv, Distinct
  <1> QED
    BY <1>0, <1>1, <1>2, <1>3, <1>4 DEF ProofInv

\* An answer takes the next number.
LEMMA AnswerProofs ==
  ASSUME TypeOK, TypeOK', ProofInv, NEW h \in Handlers, NEW a \in Rows, NEW t \in Types, Answer(h, a, t)
  PROVE  ProofInv'
  <1>0. /\ answers \in Nat /\ nextAuthz \in Nat /\ MaxAnswers \in Nat /\ answers < MaxAnswers
        /\ answers' = answers + 1 /\ UNCHANGED <<authz, nextAuthz, relinquished, proved>>
        /\ \A g \in Handlers \ {h} : handler'[g] = handler[g]
        /\ handler'[h].pc = "validate" /\ handler'[h].authz = a /\ handler'[h].number = answers + 1
    BY AcmeAssumption DEF Answer, TypeOK
  <1>1. /\ Rows' = Rows /\ Numbers \subseteq Numbers' /\ answers + 1 \notin Numbers /\ answers + 1 # 0
    BY <1>0 DEF Rows, Numbers
  <1>2. relinquished' \subseteq Numbers' /\ Backed' /\ Alike'
    BY <1>0, <1>1 DEF ProofInv, Backed, Alike
  <1>3. ASSUME NEW g \in Handlers \ {h} PROVE Validating(g)'
    <2>1. Validating(g) /\ handler'[g] = handler[g] /\ 1..answers \subseteq 1..(answers + 1)
      BY <1>0 DEF ProofInv
    <2> QED
      BY <1>0, <1>1, <2>1 DEF Validating
  <1>4. Validating(h)'
    <2>1. answers + 1 \in 1..answers'
      BY <1>0
    <2>2. answers + 1 \notin relinquished /\ \A b \in Rows : authz[b].proof # answers + 1
      BY <1>1 DEF ProofInv, Backed
    <2> QED
      BY <1>0, <1>1, <2>1, <2>2 DEF Validating
  <1>5. Distinct'
    <2>1. \A g \in Handlers \ {h} : handler'[g].pc = "validate" => handler'[g].number # answers + 1
      BY <1>0 DEF ProofInv, Validating
    <2> QED
      BY <1>0, <2>1 DEF ProofInv, Distinct
  <1> QED
    BY <1>2, <1>3, <1>4, <1>5 DEF ProofInv

\* A validation makes a proof that nothing has yet.
LEMMA ValidatedProofs ==
  ASSUME TypeOK, TypeOK', ProofInv, NEW h \in Handlers, handler[h].pc = "validate",
         handler' = [handler EXCEPT ![h] = Idle], UNCHANGED <<answers, relinquished>>,
         Validates(handler[h].authz, handler[h].number)
  PROVE  ProofInv'
  <1>a. PICK a : a = handler[h].authz
    OBVIOUS
  <1>b. PICK k : k = handler[h].number
    OBVIOUS
  <1>0. /\ a \in Rows /\ k \in 1..answers /\ k \notin relinquished /\ \A b \in Rows : authz[b].proof # k
    BY <1>a, <1>b DEF ProofInv, Validating
  <1>1. /\ authz'[a].status = "valid" /\ authz'[a].proof = k /\ authz'[a].identifier = authz[a].identifier
        /\ \A b \in Rows \ {a} : authz'[b] = authz[b]
        /\ proved' = proved \cup {authz[a].identifier}
        /\ Rows' = Rows /\ Numbers' = Numbers
    BY <1>a, <1>b DEF Validates, Rows, TypeOK, Numbers
  <1>2. \A g \in Handlers : handler'[g] = IF g = h THEN Idle ELSE handler[g]
    BY DEF TypeOK
  <1>3. k \in Numbers
    BY <1>0 DEF Numbers
  <1>4. Backed'
    BY <1>0, <1>1, <1>3 DEF ProofInv, Backed
  <1>5. Alike'
    BY <1>0, <1>1 DEF ProofInv, Alike
  <1>6. ASSUME NEW g \in Handlers PROVE Validating(g)'
    <2>1. CASE g = h
      BY <1>2, <2>1, Blanks DEF Validating
    <2>2. CASE g # h /\ handler[g].pc = "validate"
      <3>1. Validating(g) /\ handler[g].number # k
        BY <2>2, <1>b DEF ProofInv, Distinct
      <3> QED
        BY <1>0, <1>1, <1>2, <2>2, <3>1 DEF Validating
    <2>3. CASE g # h /\ handler[g].pc # "validate"
      BY <1>2, <2>3 DEF Validating
    <2> QED
      BY <2>1, <2>2, <2>3
  <1>7. Distinct'
    BY <1>2, Blanks DEF ProofInv, Distinct
  <1> QED
    BY <1>1, <1>4, <1>5, <1>6, <1>7 DEF ProofInv

\* Deactivation finds every copy of the proof that is given up.
LEMMA DeactivateProofs ==
  ASSUME TypeOK, TypeOK', ProofInv, Together, NEW a \in Rows, Deactivate(a)
  PROVE  ProofInv'
  <1>0. /\ Faded /\ UNCHANGED <<handler, answers, proved>>
        /\ relinquished' = relinquished \cup ({authz[a].proof} \ {0})
        /\ \A b \in Rows : IF b \in SameProof(a) THEN authz'[b].status = "deactivated" ELSE authz'[b] = authz[b]
        /\ authz[a].status \in {"pending", "valid"}
    BY DeactivatingFades
  <1>1. /\ Rows' = Rows /\ Numbers' = Numbers
        /\ \A b \in Rows : Fades(authz[b], authz'[b])
    BY <1>0 DEF Faded, Rows, TypeOK, Numbers
  <1>2. \A b \in Rows : authz'[b].status = "valid" =>
             /\ authz[b].status = "valid" /\ authz'[b] = authz[b] /\ b \notin SameProof(a)
    BY <1>0, <1>1
  <1>3. ASSUME NEW b \in Rows, authz'[b].status = "valid"
        PROVE  authz[b].proof \notin relinquished'
    <2>1. authz[b].status = "valid" /\ b \notin SameProof(a)
      BY <1>2, <1>3
    <2>2. authz[b].proof \notin relinquished /\ authz[b].proof # 0
      <3>1. 0 \notin Numbers
        BY AcmeAssumption DEF Numbers
      <3> QED
        BY <2>1, <3>1 DEF ProofInv, Backed
    <2>3. CASE authz[a].status = "pending"
      <3>1. authz[a].proof = 0
        BY <2>3 DEF ProofInv, Backed
      <3> QED
        BY <1>0, <2>2, <3>1
    <2>4. CASE authz[a].status = "valid"
      <3>1. ~(authz[b].identifier = authz[a].identifier /\ authz[b].expires = authz[a].expires)
        BY <2>1, <2>4 DEF SameProof
      <3>2. authz[b].proof # authz[a].proof
        BY <2>1, <2>4, <3>1 DEF ProofInv, Alike
      <3> QED
        BY <1>0, <2>2, <3>2
    <2> QED
      BY <1>0, <2>3, <2>4
  <1>4. relinquished' \subseteq Numbers'
    BY <1>0, <1>1 DEF ProofInv, Backed
  <1>5. Backed'
    <2>1. ASSUME NEW b \in Rows
          PROVE  /\ authz'[b].proof \in {0} \cup Numbers
                 /\ authz'[b].status = "pending" => authz'[b].proof = 0
                 /\ authz'[b].status = "valid" => authz'[b].identifier \in proved /\ authz'[b].proof \in Numbers
      BY <1>1 DEF ProofInv, Backed, Fades
    <2> QED
      BY <1>0, <1>1, <1>2, <1>3, <2>1 DEF Backed
  <1>6. Alike'
    BY <1>1, <1>2 DEF ProofInv, Alike
  <1>7. ASSUME NEW h \in Handlers PROVE Validating(h)'
    <2>1. CASE handler[h].pc # "validate"
      BY <1>0, <2>1 DEF Validating
    <2>2. CASE handler[h].pc = "validate"
      <3>1. /\ handler[h].authz \in Rows /\ handler[h].number \in 1..answers
            /\ handler[h].number \notin relinquished
            /\ \A b \in Rows : authz[b].proof # handler[h].number
        BY <2>2 DEF ProofInv, Validating
      <3>2. \A b \in Rows : authz'[b].proof # handler[h].number
        BY <1>1, <3>1 DEF Fades
      <3> QED
        BY <1>0, <1>1, <3>1, <3>2 DEF Validating
    <2> QED
      BY <2>1, <2>2
  <1>8. Distinct'
    BY <1>0 DEF ProofInv, Distinct
  <1> QED
    BY <1>4, <1>5, <1>6, <1>7, <1>8 DEF ProofInv

LEMMA MoreNumbers ==
  ASSUME NEW p \in Nat, NEW n \in Nat, NEW m \in Nat, n <= m
  PROVE  (p + 1)..(p + n) \subseteq (p + 1)..(p + m)
  OBVIOUS

\* A new authorization copies a proof or is approved with one of its own.
LEMMA GrowProofs ==
  ASSUME TypeOK, TypeOK', ProofInv, NEW o, NEW done, Grows(o, done)
  PROVE  ProofInv'
  <1>0. /\ nextAuthz \in Nat /\ nextAuthz' \in Nat /\ answers \in 0..MaxAnswers /\ MaxAnswers \in Nat
        /\ nextAuthz <= nextAuthz' /\ Rows = 1..nextAuthz /\ Rows' = 1..nextAuthz'
        /\ UNCHANGED <<handler, answers, relinquished>> /\ proved \subseteq proved'
        /\ \A a \in Rows : authz'[a] = authz[a]
    BY AcmeAssumption DEF TypeOK, Grows, Rows
  <1>1. Rows \subseteq Rows' /\ Numbers \subseteq Numbers' /\ 0 \notin Numbers
    <2>1. Rows \subseteq Rows'
      BY <1>0
    <2>2. \A k \in Numbers : k \in Numbers'
      <3> PICK n \in Nat, m \in Nat : n = nextAuthz /\ m = nextAuthz' /\ n <= m
        BY <1>0
      <3>0. MaxAnswers \in Nat /\ answers' = answers
        BY <1>0
      <3>1. (MaxAnswers + 1)..(MaxAnswers + n) \subseteq (MaxAnswers + 1)..(MaxAnswers + m)
        BY <3>0, MoreNumbers
      <3> QED
        BY <3>0, <3>1 DEF Numbers
    <2>3. 0 \notin Numbers
      BY <1>0 DEF Numbers
    <2> QED
      BY <2>1, <2>2, <2>3
  <1>2. ASSUME NEW a \in Rows', a \notin Rows
        PROVE  /\ MaxAnswers + a \notin Numbers /\ MaxAnswers + a \in Numbers'
               /\ \/ authz'[a].status = "pending" /\ authz'[a].proof = 0
                  \/ /\ authz'[a].status = "valid"
                     /\ \E s \in Rows : /\ authz[s].status = "valid" /\ authz[s].identifier = authz'[a].identifier
                                        /\ authz[s].expires = authz'[a].expires /\ authz[s].proof = authz'[a].proof
                  \/ /\ authz'[a].status = "valid"
                     /\ authz'[a].identifier \in proved' /\ authz'[a].proof = MaxAnswers + a
    <2>1. PICK i \in done : Starts(authz'[a], a, i, o)
      BY <1>0, <1>2 DEF Grows
    <2>2. AutoApproves(i) => i \in proved'
      BY DEF Grows
    <2>3. MaxAnswers + a \notin Numbers /\ MaxAnswers + a \in Numbers'
      <3>1. a \in Int /\ a > nextAuthz /\ a <= nextAuthz' /\ answers <= MaxAnswers /\ answers \in Int
        BY <1>0, <1>2
      <3>2. MaxAnswers + a \notin Numbers
        BY <1>0, <3>1 DEF Numbers
      <3>3. MaxAnswers \in Int /\ nextAuthz' \in Int /\ a >= 1
        BY <1>0, <3>1
      <3>4. MaxAnswers + a \in MaxAnswers + 1 .. MaxAnswers + nextAuthz'
        <4>1. ASSUME NEW m \in Int, NEW n \in Int, NEW k \in Int, k >= 1, k <= n
              PROVE  m + k \in m + 1 .. m + n
          BY <4>1
        <4> QED
          BY <3>1, <3>3, <4>1
      <3> QED
        BY <3>2, <3>4 DEF Numbers
    <2> QED
      BY <2>1, <2>2, <2>3 DEF Starts
  <1>3. \A a \in Rows : authz[a].status = "valid" =>
           authz[a].identifier \in proved /\ authz[a].proof \in Numbers /\ authz[a].proof \notin relinquished
    BY DEF ProofInv, Backed
  <1>4. ASSUME NEW a \in Rows'
        PROVE  /\ authz'[a].proof \in {0} \cup Numbers'
               /\ authz'[a].status = "pending" => authz'[a].proof = 0
               /\ authz'[a].status = "valid" => /\ authz'[a].identifier \in proved'
                                               /\ authz'[a].proof \in Numbers' \ relinquished
    <2>1. CASE a \in Rows
      BY <1>0, <1>1, <2>1 DEF ProofInv, Backed
    <2>2. CASE a \notin Rows
      <3>1. MaxAnswers + a \notin relinquished
        BY <1>2, <2>2 DEF ProofInv
      <3> QED
        BY <1>0, <1>1, <1>2, <1>3, <2>2, <3>1
    <2> QED
      BY <2>1, <2>2
  <1>5. Backed' /\ relinquished' \subseteq Numbers'
    BY <1>0, <1>1, <1>4 DEF Backed, ProofInv
  <1>6. Alike'
    <2>1. ASSUME NEW a \in Rows', authz'[a].status = "valid"
          PROVE  \/ \E s \in Rows : /\ authz[s].status = "valid" /\ authz[s].identifier = authz'[a].identifier
                                    /\ authz[s].expires = authz'[a].expires /\ authz[s].proof = authz'[a].proof
                                    /\ authz'[a].proof \in Numbers
                 \/ authz'[a].proof = MaxAnswers + a /\ authz'[a].proof \notin Numbers
      <3>1. CASE a \in Rows
        BY <1>0, <1>3, <2>1, <3>1
      <3>2. CASE a \notin Rows
        BY <1>2, <1>3, <2>1, <3>2
      <3> QED
        BY <3>1, <3>2
    <2>2. ASSUME NEW a \in Rows', NEW b \in Rows', authz'[a].status = "valid", authz'[b].status = "valid",
                 authz'[a].proof = authz'[b].proof
          PROVE  authz'[a].identifier = authz'[b].identifier /\ authz'[a].expires = authz'[b].expires
      <3>1. CASE authz'[a].proof \in Numbers
        BY <2>1, <2>2, <3>1 DEF ProofInv, Alike
      <3>2. CASE authz'[a].proof \notin Numbers
        <4>1. MaxAnswers + a = MaxAnswers + b
          BY <2>1, <2>2, <3>2
        <4>2. a = b
          BY <1>0, <4>1
        <4> QED
          BY <4>2
      <3> QED
        BY <3>1, <3>2
    <2> QED
      BY <2>2 DEF Alike
  <1>7. ASSUME NEW h \in Handlers PROVE Validating(h)'
    <2>1. CASE handler[h].pc # "validate"
      BY <1>0, <2>1 DEF Validating
    <2>2. CASE handler[h].pc = "validate"
      <3>1. /\ handler[h].authz \in Rows /\ handler[h].number \in 1..answers
            /\ handler[h].number \notin relinquished
            /\ \A b \in Rows : authz[b].proof # handler[h].number
        BY <2>2 DEF ProofInv, Validating
      <3>2. ASSUME NEW a \in Rows' PROVE authz'[a].proof # handler[h].number
        <4>1. handler[h].number # 0 /\ handler[h].number \in Numbers
          BY <1>0, <3>1 DEF Numbers
        <4> QED
          BY <1>0, <1>2, <3>1, <4>1
      <3> QED
        BY <1>0, <1>1, <3>1, <3>2 DEF Validating
    <2> QED
      BY <2>1, <2>2
  <1>8. Distinct'
    BY <1>0 DEF ProofInv, Distinct
  <1> QED
    BY <1>5, <1>6, <1>7, <1>8 DEF ProofInv

-----------------------------------------------------------------------------
(* Orders and what they are finalized with *)

Earned == {"ready", "processing", "valid"}
Early == {"none", "pending", "ready", "processing"}

\* An authorization stays with its order and its identifier, and is not purged.
Stays(a) ==
    /\ authz'[a].identifier = authz[a].identifier /\ authz'[a].order = authz[a].order
    /\ authz'[a].status = "gone" <=> authz[a].status = "gone"
    /\ authz'[a].status = "gone" => \A t \in Types : authz'[a].challenge[t] = "none"

\* An order that was there stays, and is ready, being finalized or valid only if its identifiers
\* are proved; a new one has its authorizations.
Moves(o) ==
    /\ \/ /\ order'[o].identifiers = order[o].identifiers
          /\ order'[o].status = order[o].status \/ {order[o].status, order'[o].status} \cap {"none", "gone"} = {}
       \/ order[o].status = "none" /\ order'[o].status \notin {"none", "gone"} /\ Covered(o)'
    /\ order'[o].status \in Earned =>
          Proved(o)' \/ (order[o].status \in Earned /\ order'[o].identifiers = order[o].identifiers)

LEMMA OrdersKept ==
  ASSUME TypeOK, TypeOK', OrderInv, proved \subseteq proved', partial \subseteq partial',
         Rows \subseteq Rows', \A a \in Rows : Stays(a),
         \A a \in Rows' : a \notin Rows =>
             /\ authz'[a].status # "gone"
             /\ authz'[a].order # NoOrder => order'[authz'[a].order].status \notin {"none", "gone"},
         \A o \in Orders : Moves(o),
         \A h \in Handlers : handler'[h] = handler[h] \/ Finalizing(h)'
  PROVE  OrderInv'
  <1>0. \A a \in Rows : authz[a].order \in Orders \cup {NoOrder}
    BY DEF TypeOK, Rows, Authz
  <1>1. Together'
    <2>1. ASSUME NEW a \in Rows
          PROVE  /\ authz'[a].status = "gone" => \A t \in Types : authz'[a].challenge[t] = "none"
                 /\ authz'[a].status # "gone" /\ authz'[a].order # NoOrder =>
                       order'[authz'[a].order].status \notin {"none", "gone"}
      <3>1. Stays(a)
        OBVIOUS
      <3>2. ASSUME authz'[a].status # "gone", authz'[a].order # NoOrder
            PROVE  order'[authz'[a].order].status \notin {"none", "gone"}
        <4>1. authz[a].order \in Orders /\ order[authz[a].order].status \notin {"none", "gone"}
          BY <1>0, <3>1, <3>2 DEF Stays, OrderInv, Together
        <4>2. Moves(authz[a].order)
          BY <4>1
        <4> QED
          BY <3>1, <4>1, <4>2, ZenonT(60) DEF Moves, Stays
      <3> QED
        BY <3>1, <3>2 DEF Stays
    <2> QED
      BY <2>1 DEF Together
  <1>2. ASSUME NEW o \in Orders PROVE Covered(o)'
    <2>1. CASE order[o].status = "none" /\ Covered(o)'
      BY <2>1
    <2>2. CASE /\ order'[o].identifiers = order[o].identifiers
               /\ order'[o].status = order[o].status \/ {order[o].status, order'[o].status} \cap {"none", "gone"} = {}
      <3> SUFFICES ASSUME order'[o].status \notin {"none", "gone"}, o \notin partial', NEW i \in order'[o].identifiers
                   PROVE  \E a \in Rows' : authz'[a].order = o /\ authz'[a].status # "gone" /\ authz'[a].identifier = i
        BY DEF Covered
      <3>1. order[o].status \notin {"none", "gone"} /\ o \notin partial /\ i \in order[o].identifiers
        BY <2>2
      <3>2. PICK a \in Rows : authz[a].order = o /\ authz[a].status # "gone" /\ authz[a].identifier = i
        BY <3>1 DEF OrderInv, Covered
      <3>3. Stays(a) /\ a \in Rows'
        OBVIOUS
      <3> QED
        BY <3>2, <3>3 DEF Stays
    <2>3. Moves(o)
      OBVIOUS
    <2> QED
      BY <2>1, <2>2, <2>3 DEF Moves
  <1>3. IssuedMeansProved'
    <2> SUFFICES ASSUME NEW o \in Orders, order'[o].status \in Earned
                 PROVE  Proved(o)'
      BY DEF IssuedMeansProved, Proved, Earned
    <2>1. Moves(o)
      OBVIOUS
    <2>2. CASE order[o].status \in Earned /\ order'[o].identifiers = order[o].identifiers
      BY <2>2 DEF OrderInv, IssuedMeansProved, Proved, Earned
    <2> QED
      BY <2>1, <2>2 DEF Moves
  <1>4. ASSUME NEW h \in Handlers PROVE Finalizing(h)'
    <2>1. CASE handler'[h] = handler[h] /\ handler[h].pc = "finalize"
      <3>1. PICK o \in Orders : o = handler[h].order /\ order[o].status # "none" /\ Proved(o)
        BY <2>1 DEF OrderInv, Finalizing
      <3>2. Moves(o)
        OBVIOUS
      <3>3. order'[o].status # "none" /\ Proved(o)'
        BY <3>1, <3>2 DEF Moves, Proved
      <3> QED
        BY <2>1, <3>1, <3>3 DEF Finalizing
    <2>2. CASE handler'[h] = handler[h] /\ handler[h].pc # "finalize"
      BY <2>2 DEF Finalizing
    <2> QED
      BY <2>1, <2>2
  <1> QED
    BY <1>1, <1>2, <1>3, <1>4 DEF OrderInv

\* Nothing is issued, and nobody begins to finalize.
LEMMA OnceKept ==
  ASSUME TypeOK, TypeOK', OnceInv, UNCHANGED issued, faults <= faults', reopened \subseteq reopened',
         \A h \in Handlers : handler'[h] = handler[h] \/ handler'[h].pc # "finalize",
         \A o \in Orders : o \notin reopened' =>
             /\ order'[o].status \in Early => order[o].status \in Early \/ Busy(o)
             /\ Busy(o)' /\ order[o].status \in {"processing", "gone"} => order'[o].status \in {"processing", "gone"}
  PROVE  OnceInv'
  <1> SUFFICES ASSUME NEW o \in Orders, o \notin reopened'
               PROVE  Once(o)'
    BY DEF OnceInv
  <1>0. issued[o] \in Nat /\ faults \in Nat /\ faults' \in Nat
    BY AcmeAssumption DEF TypeOK
  <1>1. Once(o) /\ (Busy(o)' => Busy(o))
    BY DEF OnceInv, Busy
  <1>2. /\ issued'[o] <= 1 + faults'
        /\ order'[o].status \in Early \/ Busy(o)' => issued'[o] <= faults'
    BY <1>0, <1>1 DEF Once, Early
  <1>3. Busy(o)' => order'[o].status \in {"processing", "gone"}
    BY <1>1 DEF Once
  <1>4. \A g, h \in Handlers :
           /\ handler'[g].pc = "finalize" /\ handler'[g].order = o
           /\ handler'[h].pc = "finalize" /\ handler'[h].order = o
           => g = h
    BY <1>1 DEF Once
  <1> QED
    BY <1>2, <1>3, <1>4 DEF Once, Early

-----------------------------------------------------------------------------
(* Steps *)

\* Deactivated authorizations stay so.
Final == \A a \in Rows : authz[a].status = "deactivated" => authz'[a].status \in {"deactivated", "gone"}

\* Handlers stay or end.
Ends == \A h \in Handlers : handler'[h] = handler[h] \/ handler'[h] = Idle

LEMMA StillFaded ==
  ASSUME TypeOK, Together, UNCHANGED <<authz, nextAuthz>>
  PROVE  Faded /\ Rows' = Rows /\ \A a \in Rows : Stays(a)
  BY FadesSame DEF Faded, Fades, TypeOK, Rows, Stays

LEMMA DeclinedOrders ==
  ASSUME TypeOK, TypeOK', OrderInv, OnceInv, Declines, Ends, UNCHANGED <<issued, partial>>, faults <= faults'
  PROVE  OrderInv' /\ OnceInv' /\ Final
  <1>0. Rows' = Rows /\ \A a \in Rows : Fades(authz[a], authz'[a])
    BY DEF Declines, Faded, Rows, TypeOK
  <1>1. \A a \in Rows : Stays(a)
    BY <1>0 DEF Declines, Stays, Fades
  <1>2. \A o \in Orders : Moves(o)
    BY DEF Declines, Moves, Open, Earned
  <1>3. \A h \in Handlers : handler'[h] = handler[h] \/ (handler'[h].pc # "finalize" /\ Finalizing(h)')
    BY Blanks DEF Ends, Finalizing
  <1>4. UNCHANGED proved
    BY DEF Declines
  <1>5. OrderInv'
    BY <1>0, <1>1, <1>2, <1>3, <1>4, OrdersKept
  <1>6. \A o \in Orders :
           /\ order'[o].status \in Early => order[o].status \in Early
           /\ order[o].status \in {"processing", "gone"} => order'[o].status \in {"processing", "gone"}
    BY DEF Declines, Early, Open
  <1>7. OnceInv'
    BY <1>3, <1>6, OnceKept DEF Declines
  <1>8. Final
    BY DEF Declines, Final
  <1> QED
    BY <1>5, <1>7, <1>8

LEMMA DeclinedStep ==
  ASSUME TypeOK, TypeOK', AcmeInv, Declines, Ends, UNCHANGED <<answers, relinquished, issued, partial>>,
         faults <= faults'
  PROVE  AcmeInv' /\ Final
  <1>1. \A h \in Handlers : handler'[h] = handler[h] \/ handler'[h].pc # "validate"
    BY Blanks DEF Ends
  <1>2. ProofInv'
    BY <1>1, ProofsKept DEF AcmeInv, Declines
  <1> QED
    BY <1>2, DeclinedOrders DEF AcmeInv

\* Reading what has lapsed, a quiet step and a crash.
LEMMA QuietSteps ==
  ASSUME TypeOK, TypeOK', AcmeInv,
         \/ (\E o \in Orders : ReadOrder(o)) \/ \E a \in Rows : ReadAuthz(a)
         \/ Lapse \/ Crash \/ UNCHANGED vars
  PROVE  AcmeInv' /\ Final
  <1>0. Together /\ faults \in Nat
    BY AcmeAssumption DEF AcmeInv, OrderInv, TypeOK
  <1>1. ASSUME (\E o \in Orders : ReadOrder(o)) \/ \E a \in Rows : ReadAuthz(a)
        PROVE  AcmeInv' /\ Final
    <2>1. /\ Faded /\ UNCHANGED <<handler, ghosts>> /\ \E S : order' = InvalidateOrders(S)
          /\ \A a \in Rows : authz'[a].status = "gone" <=> authz[a].status = "gone"
          /\ \A a \in Rows : authz[a].status = "deactivated" => authz'[a].status = "deactivated"
      BY <1>0, <1>1, ReadingFades
    <2>2. Declines
      BY <2>1, InvalidatedIs DEF Declines, ghosts
    <2>3. Ends /\ UNCHANGED <<answers, relinquished, issued, partial>> /\ faults <= faults'
      BY <1>0, <2>1 DEF Ends, ghosts
    <2> QED
      BY <2>2, <2>3, DeclinedStep
  <1>2. ASSUME Lapse \/ Crash \/ UNCHANGED vars
        PROVE  AcmeInv' /\ Final
    <2>1. /\ UNCHANGED <<order, authz, nextAuthz, answers, proved, relinquished, issued, partial, reopened>>
          /\ Ends /\ faults <= faults'
      BY <1>0, <1>2 DEF Lapse, Crash, vars, ghosts, Ends
    <2>2. Declines
      BY <1>0, <2>1, StillFaded DEF Declines, TypeOK
    <2> QED
      BY <2>1, <2>2, DeclinedStep
  <1> QED
    BY <1>1, <1>2

LEMMA DeactivateStep ==
  ASSUME TypeOK, TypeOK', AcmeInv, NEW a \in Rows, Deactivate(a)
  PROVE  AcmeInv' /\ Final
  <1>0. Together /\ faults \in Nat
    BY AcmeAssumption DEF AcmeInv, OrderInv, TypeOK
  <1>1. /\ Faded /\ UNCHANGED <<handler, proved, issued, partial, reopened, faults>>
        /\ \E S : order' = InvalidateOrders(S)
        /\ \A b \in Rows : authz'[b].status = "gone" <=> authz[b].status = "gone"
        /\ \A b \in Rows : IF b \in SameProof(a) THEN authz'[b].status = "deactivated" ELSE authz'[b] = authz[b]
    BY <1>0, DeactivatingFades
  <1>2. Declines
    BY <1>1, InvalidatedIs DEF Declines
  <1>3. Ends /\ faults <= faults'
    BY <1>0, <1>1 DEF Ends
  <1>4. ProofInv'
    BY <1>0, DeactivateProofs DEF AcmeInv
  <1> QED
    BY <1>1, <1>2, <1>3, <1>4, DeclinedOrders DEF AcmeInv

LEMMA AnswerStep ==
  ASSUME TypeOK, TypeOK', AcmeInv, NEW h \in Handlers, NEW a \in Rows, NEW t \in Types, Answer(h, a, t)
  PROVE  AcmeInv' /\ Final
  <1>0. Together /\ faults \in Nat
    BY AcmeAssumption DEF AcmeInv, OrderInv, TypeOK
  <1>1. UNCHANGED <<order, authz, nextAuthz, proved, issued, partial, reopened, faults>>
    BY DEF Answer
  <1>2. \A g \in Handlers : handler'[g] = handler[g] \/ (handler'[g].pc # "finalize" /\ Finalizing(g)')
    BY DEF Answer, TypeOK, Finalizing
  <1>3. ProofInv'
    BY AnswerProofs DEF AcmeInv
  <1>4. OrderInv'
    <2>1. \A o \in Orders : Moves(o)
      BY <1>1 DEF Moves
    <2> QED
      BY <1>0, <1>1, <1>2, <2>1, StillFaded, OrdersKept DEF AcmeInv
  <1>5. OnceInv'
    BY <1>0, <1>1, <1>2, OnceKept DEF AcmeInv
  <1>6. Final
    BY <1>1 DEF Final
  <1> QED
    BY <1>3, <1>4, <1>5, <1>6 DEF AcmeInv

\* A validation that makes an order ready proved the last of its identifiers.
LEMMA ValidatedStep ==
  ASSUME TypeOK, TypeOK', AcmeInv, NEW h \in Handlers, handler[h].pc = "validate",
         handler' = [handler EXCEPT ![h] = Idle], UNCHANGED <<answers, relinquished, issued, partial, faults>>,
         Validates(handler[h].authz, handler[h].number)
  PROVE  AcmeInv' /\ Final
  <1>a. PICK a : a = handler[h].authz
    OBVIOUS
  <1>b. PICK o : o = authz[a].order
    OBVIOUS
  <1>0. a \in Rows /\ Together /\ faults \in Nat
    BY <1>a, AcmeAssumption DEF AcmeInv, ProofInv, Validating, OrderInv, TypeOK
  <1>1. /\ Rows' = Rows /\ \A b \in Rows \ {a} : authz'[b] = authz[b]
        /\ authz[a].status \notin {"gone", "deactivated"} /\ authz'[a].status = "valid"
        /\ authz'[a].identifier = authz[a].identifier /\ authz'[a].order = o
        /\ proved' = proved \cup {authz[a].identifier}
    BY <1>a, <1>b DEF Validates, Rows, TypeOK
  <1>2. \/ UNCHANGED <<order, reopened>>
        \/ /\ o \in Orders /\ \A b \in AuthzsOf(o) : authz'[b].status = "valid"
           /\ order' = [order EXCEPT ![o].status = "ready"]
           /\ reopened' = IF order[o].status # "pending" THEN reopened \cup {o} ELSE reopened
    BY <1>a, <1>b DEF Validates
  <1>3. ProofInv'
    BY ValidatedProofs DEF AcmeInv
  <1>4. \A b \in Rows : Stays(b)
    BY <1>0, <1>1, <1>b DEF Stays, Together
  <1>5. \A g \in Handlers : handler'[g] = handler[g] \/ (handler'[g].pc # "finalize" /\ Finalizing(g)')
    BY Blanks DEF TypeOK, Finalizing
  <1>6. CASE UNCHANGED <<order, reopened>>
    <2>1. \A x \in Orders : Moves(x)
      BY <1>6 DEF Moves
    <2>2. OrderInv'
      BY <1>1, <1>4, <1>5, <2>1, OrdersKept DEF AcmeInv
    <2>3. OnceInv'
      BY <1>0, <1>5, <1>6, OnceKept DEF AcmeInv
    <2> QED
      BY <1>0, <1>1, <1>3, <2>2, <2>3 DEF AcmeInv, Final
  <1>7. CASE /\ o \in Orders /\ \A b \in AuthzsOf(o) : authz'[b].status = "valid"
             /\ order' = [order EXCEPT ![o].status = "ready"]
             /\ reopened' = IF order[o].status # "pending" THEN reopened \cup {o} ELSE reopened
    <2>1. /\ order'[o].status = "ready" /\ order'[o].identifiers = order[o].identifiers
          /\ \A x \in Orders \ {o} : order'[x] = order[x]
      BY <1>7 DEF TypeOK, Order
    <2>2. order[o].status \notin {"none", "gone"}
      BY <1>0, <1>1, <1>7, <1>b, AcmeAssumption DEF Together
    <2>3. Proved(o)'
      <3> SUFFICES ASSUME o \notin partial, NEW i \in order[o].identifiers
                   PROVE  i \in proved'
        BY <2>1 DEF Proved
      <3>1. PICK b \in Rows : authz[b].order = o /\ authz[b].status # "gone" /\ authz[b].identifier = i
        BY <1>7, <2>2 DEF AcmeInv, OrderInv, Covered
      <3>2. authz'[b].status = "valid" /\ authz'[b].identifier = i
        BY <1>1, <1>7, <3>1 DEF AuthzsOf
      <3> QED
        BY <1>1, <1>3, <3>2 DEF ProofInv, Backed
    <2>4. \A x \in Orders : Moves(x)
      BY <2>1, <2>2, <2>3 DEF Moves
    <2>5. OrderInv'
      BY <1>1, <1>4, <1>5, <2>4, OrdersKept DEF AcmeInv
    <2>6. ASSUME NEW x \in Orders, x \notin reopened'
          PROVE  /\ order'[x].status \in Early => order[x].status \in Early
                 /\ order[x].status \in {"processing", "gone"} => order'[x].status \in {"processing", "gone"}
      <3>1. CASE x = o
        BY <1>7, <2>6, <3>1 DEF Early
      <3>2. CASE x # o
        BY <2>1, <3>2
      <3> QED
        BY <3>1, <3>2
    <2>7. OnceInv'
      <3>1. reopened \subseteq reopened' /\ faults <= faults' /\ UNCHANGED issued
        BY <1>0, <1>7
      <3> QED
        BY <1>5, <2>6, <3>1, OnceKept DEF AcmeInv
    <2> QED
      BY <1>0, <1>1, <1>3, <2>5, <2>7 DEF AcmeInv, Final
  <1> QED
    BY <1>2, <1>6, <1>7

\* Only the request that takes the order from ready to processing finalizes it.
LEMMA FinalizeStep ==
  ASSUME TypeOK, TypeOK', AcmeInv, NEW h \in Handlers, NEW o \in Orders, Finalize(h, o)
  PROVE  AcmeInv' /\ Final
  <1>0. Together /\ faults \in Nat /\ issued[o] \in Nat
    BY AcmeAssumption DEF AcmeInv, OrderInv, TypeOK
  <1>1. /\ order[o].status = "ready" /\ handler[h].pc = "idle"
        /\ UNCHANGED <<authz, nextAuthz, answers, proved, relinquished, issued, partial, reopened, faults>>
        /\ \A g \in Handlers \ {h} : handler'[g] = handler[g]
        /\ handler'[h].pc = "finalize" /\ handler'[h].order = o
        /\ order'[o].status = "processing" /\ order'[o].identifiers = order[o].identifiers
        /\ \A x \in Orders \ {o} : order'[x] = order[x]
    BY Blanks DEF Finalize, Claimable, ghosts, TypeOK, Handler, Order
  <1>2. Faded /\ Rows' = Rows /\ \A a \in Rows : Stays(a)
    BY <1>0, <1>1, StillFaded
  <1>3. ProofInv'
    BY <1>1, <1>2, ProofsKept DEF AcmeInv
  <1>4. OrderInv'
    <2>1. Proved(o)'
      BY <1>1 DEF AcmeInv, OrderInv, IssuedMeansProved, Proved
    <2>2. \A x \in Orders : Moves(x)
      BY <1>1, <2>1 DEF Moves, Earned
    <2>3. Finalizing(h)'
      BY <1>1, <2>1 DEF Finalizing
    <2> QED
      BY <1>1, <1>2, <2>2, <2>3, OrdersKept DEF AcmeInv
  <1>5. ASSUME NEW x \in Orders, x \notin reopened
        PROVE  Once(x)'
    <2>1. Once(x)
      BY <1>5 DEF AcmeInv, OnceInv
    <2>2. CASE x = o
      <3>1. ~Busy(o) /\ issued[o] <= faults
        BY <1>1, <2>1, <2>2 DEF Once
      <3>2. \A g \in Handlers \ {h} : ~(handler'[g].pc = "finalize" /\ handler'[g].order = o)
        BY <1>1, <3>1 DEF Busy
      <3>3. issued'[o] <= 1 + faults' /\ issued'[o] <= faults'
        BY <1>0, <1>1, <3>1
      <3> QED
        BY <1>1, <2>2, <3>2, <3>3 DEF Once
    <2>3. CASE x # o
      <3>1. \A g \in Handlers :
               handler'[g].pc = "finalize" /\ handler'[g].order = x <=> handler[g].pc = "finalize" /\ handler[g].order = x
        BY <1>1, <2>3
      <3>2. Busy(x)' <=> Busy(x)
        BY <3>1 DEF Busy
      <3> QED
        BY <1>1, <2>1, <2>3, <3>1, <3>2 DEF Once
    <2> QED
      BY <2>2, <2>3
  <1>6. OnceInv' /\ Final
    BY <1>1, <1>5 DEF OnceInv, Final
  <1> QED
    BY <1>3, <1>4, <1>6 DEF AcmeInv

LEMMA FinalizeEnds ==
  ASSUME TypeOK, TypeOK', AcmeInv, NEW h \in Handlers, FinalizeIssues(h) \/ FinalizeRefused(h) \/ FinalizeBreaks(h)
  PROVE  AcmeInv' /\ Final
  <1>a. PICK o : o = handler[h].order
    OBVIOUS
  <1>0. /\ handler[h].pc = "finalize" /\ o \in Orders /\ order[o].status # "none" /\ Proved(o)
        /\ Together /\ faults \in Nat /\ faults' \in Nat
    BY <1>a, AcmeAssumption
    DEF AcmeInv, OrderInv, Finalizing, FinalizeIssues, FinalizeRefused, FinalizeBreaks, TypeOK
  <1>1. /\ UNCHANGED <<authz, nextAuthz, answers, proved, relinquished, partial, reopened>>
        /\ handler' = [handler EXCEPT ![h] = Idle]
        /\ faults' = faults \/ faults' = faults + 1
    BY DEF FinalizeIssues, FinalizeRefused, FinalizeBreaks, ghosts
  <1>2. /\ order'[o].identifiers = order[o].identifiers /\ \A x \in Orders \ {o} : order'[x] = order[x]
        /\ \/ order'[o].status = order[o].status
           \/ order[o].status \notin {"none", "gone"} /\ order'[o].status \in {"valid", "invalid", "ready"}
    <2>1. \/ order' = order
          \/ \E s \in {"valid", "invalid", "ready"} : order[o].status # "gone" /\ order' = [order EXCEPT ![o].status = s]
      BY <1>a DEF FinalizeIssues, FinalizeRefused, FinalizeBreaks
    <2>2. ASSUME NEW s \in {"valid", "invalid", "ready"}, order[o].status # "gone", order' = [order EXCEPT ![o].status = s]
          PROVE  /\ order'[o].identifiers = order[o].identifiers /\ \A x \in Orders \ {o} : order'[x] = order[x]
                 /\ order[o].status \notin {"none", "gone"} /\ order'[o].status = s
      BY <1>0, <2>2 DEF TypeOK, Order
    <2> QED
      BY <2>1, <2>2
  <1>3. /\ \A x \in Orders \ {o} : issued'[x] = issued[x]
        /\ issued[o] \in Nat
        /\ \/ issued'[o] = issued[o] + 1 /\ faults' = faults /\ order'[o].status \in {"valid", "gone"}
           \/ issued'[o] = issued[o] /\ faults' = faults
           \/ issued'[o] = issued[o] + 1 /\ faults' = faults + 1
    <2>1. CASE FinalizeIssues(h)
      <3>1. issued' = [issued EXCEPT ![o] = @ + 1] /\ faults' = faults
        BY <1>a, <2>1 DEF FinalizeIssues
      <3>2. order'[o].status \in {"valid", "gone"}
        BY <1>0, <1>a, <2>1 DEF FinalizeIssues, TypeOK, Order
      <3> QED
        BY <1>0, <3>1, <3>2 DEF TypeOK
    <2>2. CASE FinalizeRefused(h)
      BY <1>0, <2>2 DEF FinalizeRefused, ghosts, TypeOK
    <2>3. CASE FinalizeBreaks(h)
      BY <1>0, <1>a, <2>3 DEF FinalizeBreaks, TypeOK
    <2> QED
      BY <2>1, <2>2, <2>3
  <1>4. \A g \in Handlers : handler'[g] = IF g = h THEN Idle ELSE handler[g]
    BY <1>1 DEF TypeOK
  <1>5. Faded /\ Rows' = Rows /\ \A a \in Rows : Stays(a)
    BY <1>0, <1>1, StillFaded
  <1>6. ProofInv'
    <2>1. \A g \in Handlers : handler'[g] = handler[g] \/ handler'[g].pc # "validate"
      BY <1>4, Blanks
    <2> QED
      BY <1>1, <1>5, <2>1, ProofsKept DEF AcmeInv
  <1>7. OrderInv'
    <2>1. \A g \in Handlers : handler'[g] = handler[g] \/ Finalizing(g)'
      BY <1>4, Blanks DEF Finalizing
    <2>2. Proved(o)'
      BY <1>0, <1>1, <1>2 DEF Proved
    <2>3. \A x \in Orders : Moves(x)
      BY <1>2, <2>2 DEF Moves, Earned
    <2> QED
      BY <1>1, <1>5, <2>1, <2>3, OrdersKept DEF AcmeInv
  <1>8. ASSUME NEW x \in Orders, x \notin reopened
        PROVE  Once(x)'
    <2>1. Once(x)
      BY <1>8 DEF AcmeInv, OnceInv
    <2>2. CASE x = o
      <3>1. Busy(o) /\ issued[o] <= faults
        BY <1>0, <1>a, <2>1, <2>2 DEF Once, Busy
      <3>2. \A g \in Handlers : ~(handler'[g].pc = "finalize" /\ handler'[g].order = o)
        BY <1>0, <1>4, <1>a, <2>1, <2>2, Blanks DEF Once
      <3>3. issued'[o] <= 1 + faults' /\ (order'[o].status \in Early => issued'[o] <= faults')
        BY <1>0, <1>3, <3>1 DEF Early
      <3>4. ~Busy(o)'
        BY <3>2 DEF Busy
      <3> QED
        BY <2>2, <3>2, <3>3, <3>4 DEF Once, Early
    <2>3. CASE x # o
      <3>1. \A g \in Handlers :
               handler'[g].pc = "finalize" /\ handler'[g].order = x <=> handler[g].pc = "finalize" /\ handler[g].order = x
        BY <1>0, <1>4, <1>a, <2>3, Blanks
      <3>2. Busy(x)' <=> Busy(x)
        BY <3>1 DEF Busy
      <3>3. issued'[x] = issued[x] /\ issued[x] \in Nat /\ order'[x] = order[x]
        BY <1>2, <1>3, <2>3 DEF TypeOK
      <3>4. issued'[x] <= 1 + faults' /\ (issued[x] <= faults => issued'[x] <= faults')
        BY <1>0, <1>1, <2>1, <3>3 DEF Once
      <3> QED
        BY <2>1, <3>1, <3>2, <3>3, <3>4 DEF Once
    <2> QED
      BY <2>2, <2>3
  <1>9. OnceInv' /\ Final
    BY <1>1, <1>8 DEF OnceInv, Final
  <1> QED
    BY <1>6, <1>7, <1>9 DEF AcmeInv

\* What is purged goes with all its authorizations.
LEMMA PurgeStep ==
  ASSUME TypeOK, TypeOK', AcmeInv, Purge
  PROVE  AcmeInv' /\ Final
  <1>0. Together /\ faults \in Nat
    BY AcmeAssumption DEF AcmeInv, OrderInv, TypeOK
  <1>1. /\ Faded /\ UNCHANGED <<handler, answers, proved, relinquished, issued, partial, reopened, faults>>
        /\ \A a \in Rows : authz[a].status = "deactivated" => authz'[a].status \in {authz[a].status, "gone"}
        /\ \A o \in Orders :
               \/ order'[o] = order[o]
               \/ order[o].status \notin {"none", "gone"} /\ order'[o].status = "gone" /\ order'[o].identifiers = {}
        /\ \A a \in Rows : authz[a].order \in Orders =>
               \/ authz'[a].status = "gone"
               \/ authz'[a].status = authz[a].status /\ order'[authz[a].order] = order[authz[a].order]
        /\ \A a \in Rows : authz[a].order \in Orders /\ order'[authz[a].order].status # "gone" =>
               authz'[a].status = authz[a].status
    BY <1>0, PurgeFades DEF ghosts
  <1>2. Rows' = Rows /\ \A a \in Rows : Fades(authz[a], authz'[a]) /\ authz[a].order \in Orders \cup {NoOrder}
    BY <1>1 DEF Faded, Rows, TypeOK, Authz
  <1>3. ProofInv'
    BY <1>1, ProofsKept DEF AcmeInv
  <1>4. Together'
    BY <1>0, <1>1, <1>2 DEF Together, Fades
  <1>5. ASSUME NEW o \in Orders PROVE Covered(o)'
    <2> SUFFICES ASSUME order'[o].status \notin {"none", "gone"}, o \notin partial', NEW i \in order'[o].identifiers
                 PROVE  \E a \in Rows' : authz'[a].order = o /\ authz'[a].status # "gone" /\ authz'[a].identifier = i
      BY DEF Covered
    <2>1. order'[o] = order[o] /\ Covered(o)
      BY <1>1 DEF AcmeInv, OrderInv
    <2>2. PICK a \in Rows : authz[a].order = o /\ authz[a].status # "gone" /\ authz[a].identifier = i
      BY <1>1, <2>1 DEF Covered
    <2>3. authz'[a].status = authz[a].status
      BY <1>1, <2>2
    <2> QED
      BY <1>2, <2>2, <2>3 DEF Fades
  <1>6. IssuedMeansProved'
    BY <1>1 DEF AcmeInv, OrderInv, IssuedMeansProved
  <1>7. \A h \in Handlers : Finalizing(h)'
    BY <1>1 DEF AcmeInv, OrderInv, Finalizing, Proved
  <1>8. OnceInv'
    <2>1. \A o \in Orders :
             /\ order'[o].status \in Early => order[o].status \in Early
             /\ order[o].status \in {"processing", "gone"} => order'[o].status \in {"processing", "gone"}
      BY <1>1 DEF Early
    <2> QED
      BY <1>0, <1>1, <2>1, OnceKept DEF AcmeInv
  <1>9. Final
    BY <1>1 DEF Final
  <1> QED
    BY <1>3, <1>4, <1>5, <1>6, <1>7, <1>8, <1>9 DEF AcmeInv, OrderInv

\* Authorizations are created for an order that is there then, or for none.
LEMMA GrowStep ==
  ASSUME TypeOK, TypeOK', AcmeInv, NEW o, NEW done, Grows(o, done), o = NoOrder \/ order'[o].status \notin {"none", "gone"},
         \A x \in Orders : Moves(x), partial \subseteq partial', faults <= faults',
         \A x \in Orders : \/ order'[x].status = order[x].status
                           \/ order[x].status = "none" /\ order'[x].status \in Early
  PROVE  AcmeInv' /\ Final
  <1>0. Together /\ Rows = 1..nextAuthz /\ Rows' = 1..nextAuthz' /\ nextAuthz \in Nat
    BY AcmeAssumption DEF AcmeInv, OrderInv, TypeOK, Rows
  <1>1. /\ Rows \subseteq Rows' /\ \A a \in Rows : authz'[a] = authz[a]
        /\ UNCHANGED <<handler, issued, reopened>> /\ proved \subseteq proved'
    <2>1. nextAuthz' \in Nat /\ nextAuthz <= nextAuthz'
      BY AcmeAssumption DEF Grows
    <2> QED
      BY <1>0, <2>1 DEF Grows
  <1>2. ProofInv'
    BY GrowProofs DEF AcmeInv
  <1>3. \A a \in Rows : Stays(a)
    BY <1>0, <1>1 DEF Stays, Together
  <1>4. \A a \in Rows' : a \notin Rows =>
           /\ authz'[a].status # "gone"
           /\ authz'[a].order # NoOrder => order'[authz'[a].order].status \notin {"none", "gone"}
    BY <1>0 DEF Grows, Starts
  <1>5. OrderInv'
    BY <1>1, <1>3, <1>4, OrdersKept DEF AcmeInv
  <1>6. OnceInv'
    <2>1. \A x \in Orders :
             /\ order'[x].status \in Early => order[x].status \in Early
             /\ order[x].status \in {"processing", "gone"} => order'[x].status \in {"processing", "gone"}
      BY DEF Early
    <2> QED
      BY <1>1, <2>1, OnceKept DEF AcmeInv
  <1>7. Final
    BY <1>1 DEF Final
  <1> QED
    BY <1>2, <1>5, <1>6, <1>7 DEF AcmeInv

LEMMA NewOrderStep ==
  ASSUME TypeOK, TypeOK', AcmeInv, NEW o \in Orders, NEW ids \in Asked, NewOrder(o, ids) \/ NewOrderFails(o, ids)
  PROVE  AcmeInv' /\ Final
  <1>0. ids \in SUBSET Identifier /\ IsFiniteSet(ids) /\ faults \in Nat
    BY AcmeAssumption DEF TypeOK
  <1>1. PICK done \in SUBSET ids :
           \/ CreateOrder(o, ids, done, TRUE) /\ o \in partial'
           \/ CreateOrder(o, ids, done, FALSE) /\ done = ids
    BY DEF NewOrder, NewOrderFails
  <1>2. IsFiniteSet(done) /\ partial \subseteq partial' /\ faults <= faults'
    <2>1. partial' = partial \/ partial' = partial \cup {o}
      BY DEF NewOrder, NewOrderFails
    <2>2. faults' = faults \/ faults' = faults + 1
      BY DEF NewOrder, NewOrderFails
    <2>3. faults <= faults'
      BY <1>0, <2>2
    <2> QED
      BY <1>0, <2>1, <2>3, FS_Subset
  <1>3. /\ Grows(o, done) /\ order[o].status = "none" /\ \A x \in Orders \ {o} : order'[x] = order[x]
        /\ order'[o].identifiers = ids
        /\ \/ order'[o].status = "pending"
           \/ /\ order'[o].status = "ready"
              /\ \A a \in 1..nextAuthz' : a \notin Rows => authz'[a].status = "valid"
    <2>1. CASE CreateOrder(o, ids, done, TRUE)
      BY <1>0, <1>2, <2>1, CreateIs
    <2>2. CASE CreateOrder(o, ids, done, FALSE)
      BY <1>0, <1>2, <2>2, CreateIs
    <2> QED
      BY <1>1, <2>1, <2>2
  <1>4. Rows' = 1..nextAuthz' /\ ProofInv'
    BY <1>3, GrowProofs DEF AcmeInv, TypeOK, Rows
  <1>5. ASSUME o \notin partial', NEW i \in ids
        PROVE  \E a \in Rows' : a \notin Rows /\ authz'[a].order = o /\ authz'[a].status # "gone" /\ authz'[a].identifier = i
    <2>1. i \in done
      BY <1>1, <1>5
    <2>2. PICK a \in 1..nextAuthz' : a \notin Rows /\ authz'[a].identifier = i
      BY <1>3, <2>1 DEF Grows
    <2>3. authz'[a].order = o /\ authz'[a].status # "gone"
      BY <1>3, <2>2 DEF Grows, Starts
    <2> QED
      BY <1>4, <2>2, <2>3
  <1>6. Covered(o)'
    BY <1>3, <1>5 DEF Covered
  <1>7. order'[o].status = "ready" => Proved(o)'
    <2> SUFFICES ASSUME order'[o].status = "ready", o \notin partial', NEW i \in ids
                 PROVE  i \in proved'
      BY <1>3 DEF Proved
    <2>1. PICK a \in Rows' : a \notin Rows /\ authz'[a].identifier = i
      BY <1>5
    <2>2. authz'[a].status = "valid"
      BY <1>3, <1>4, <2>1
    <2> QED
      BY <1>4, <2>1, <2>2 DEF ProofInv, Backed
  <1>8. \A x \in Orders : Moves(x)
    BY <1>3, <1>6, <1>7 DEF Moves, Earned
  <1>9. \A x \in Orders : \/ order'[x].status = order[x].status
                          \/ order[x].status = "none" /\ order'[x].status \in Early
    BY <1>3 DEF Early
  <1> QED
    BY <1>2, <1>3, <1>8, <1>9, GrowStep

LEMMA PreAuthorizeStep ==
  ASSUME TypeOK, TypeOK', AcmeInv, NEW i \in Identifier, PreAuthorize(i)
  PROVE  AcmeInv' /\ Final
  <1>a. PICK done : done = {i}
    OBVIOUS
  <1>1. Grows(NoOrder, done) /\ UNCHANGED <<order, partial, faults>>
    BY <1>a, PreAuthorizeIs
  <1>2. faults <= faults' /\ \A x \in Orders : Moves(x)
    BY <1>1, AcmeAssumption DEF Moves, TypeOK
  <1> QED
    BY <1>1, <1>2, GrowStep

-----------------------------------------------------------------------------
(* The specification *)

LEMMA AcmeStep ==
  ASSUME TypeOK, TypeOK', AcmeInv, [Next]_vars
  PROVE  AcmeInv' /\ Final
  <1>1. ASSUME NEW ids \in Asked, NEW i \in ids, PreAuthorize(i)
        PROVE  AcmeInv' /\ Final
    <2>1. i \in Identifier
      BY AcmeAssumption
    <2> QED
      BY <1>1, <2>1, PreAuthorizeStep
  <1>2. ASSUME NEW h \in Handlers, AnswerEnds(h)
        PROVE  AcmeInv' /\ Final
    <2>0. Together /\ Validating(h) /\ faults \in Nat
      BY AcmeAssumption DEF AcmeInv, OrderInv, ProofInv, TypeOK
    <2>1. /\ handler[h].pc = "validate" /\ handler' = [handler EXCEPT ![h] = Idle]
          /\ UNCHANGED <<answers, relinquished, issued, partial, faults>>
          /\ Declines \/ Validates(handler[h].authz, handler[h].number)
      BY <1>2, <2>0, AnswerIs
    <2>2. CASE Declines
      <3>1. Ends /\ faults <= faults'
        BY <2>0, <2>1 DEF Ends, TypeOK
      <3> QED
        BY <2>1, <2>2, <3>1, DeclinedStep
    <2>3. CASE Validates(handler[h].authz, handler[h].number)
      BY <2>1, <2>3, ValidatedStep
    <2> QED
      BY <2>1, <2>2, <2>3
  <1>3. ASSUME NEW o \in Orders, NEW ids \in Asked, NewOrder(o, ids) \/ NewOrderFails(o, ids)
        PROVE  AcmeInv' /\ Final
    BY <1>3, NewOrderStep
  <1>4. ASSUME NEW h \in Handlers, NEW a \in Rows, NEW t \in Types, Answer(h, a, t)
        PROVE  AcmeInv' /\ Final
    BY <1>4, AnswerStep
  <1>5. ASSUME NEW h \in Handlers, NEW o \in Orders, Finalize(h, o)
        PROVE  AcmeInv' /\ Final
    BY <1>5, FinalizeStep
  <1>6. ASSUME NEW h \in Handlers, FinalizeIssues(h) \/ FinalizeRefused(h) \/ FinalizeBreaks(h)
        PROVE  AcmeInv' /\ Final
    BY <1>6, FinalizeEnds
  <1>7. ASSUME NEW a \in Rows, Deactivate(a)
        PROVE  AcmeInv' /\ Final
    BY <1>7, DeactivateStep
  <1>8. ASSUME Purge
        PROVE  AcmeInv' /\ Final
    BY <1>8, PurgeStep
  <1>9. ASSUME \/ (\E o \in Orders : ReadOrder(o)) \/ \E a \in Rows : ReadAuthz(a)
               \/ Lapse \/ Crash \/ UNCHANGED vars
        PROVE  AcmeInv' /\ Final
    BY <1>9, QuietSteps
  <1> QED
    BY <1>1, <1>2, <1>3, <1>4, <1>5, <1>6, <1>7, <1>8, <1>9 DEF Next

LEMMA AcmeStart ==
  ASSUME Init
  PROVE  TypeOK /\ AcmeInv
  <1>0. MaxTicks \in Nat /\ MaxFaults \in Nat /\ MaxAnswers \in Nat /\ MaxAuthz \in Nat
    BY AcmeAssumption
  <1>1. authz \in [1..0 -> Authz] /\ Rows = {} /\ nextAuthz = 0
    BY DEF Init, Rows
  <1>2. TypeOK
    BY <1>0, <1>1, Blanks DEF Init, TypeOK
  <1>3. /\ \A o \in Orders : order[o] = NoRow /\ issued[o] = 0
        /\ \A h \in Handlers : handler[h].pc = "idle"
        /\ relinquished = {} /\ faults = 0
    BY Blanks DEF Init
  <1>4. ProofInv
    BY <1>1, <1>3 DEF ProofInv, Backed, Alike, Validating, Distinct
  <1>5. OrderInv
    BY <1>1, <1>3, Blanks DEF OrderInv, Together, Covered, IssuedMeansProved, Finalizing
  <1>6. OnceInv
    BY <1>3 DEF OnceInv, Once, Busy
  <1> QED
    BY <1>2, <1>4, <1>5, <1>6 DEF AcmeInv

LEMMA AcmeInvariant == Spec => [](TypeOK /\ AcmeInv)
  <1>1. Init => TypeOK /\ AcmeInv
    BY AcmeStart
  <1>2. TypeOK /\ AcmeInv /\ [Next]_vars => TypeOK' /\ AcmeInv'
    BY TypeStep, AcmeStep DEF AcmeInv
  <1> QED
    BY <1>1, <1>2, PTL DEF Spec

\* Orders, authorizations and the requests that wait on them keep their types, whatever
\* validations, finalizations, expiry, deactivation and the purge interleave.
THEOREM OrdersTyped == Spec => []TypeOK
  BY AcmeInvariant, PTL

\* create_order, _update_authorization_status and begin_order_processing: an order that was
\* created completely is ready, processing or valid only when control of each of its
\* identifiers was proved, copies of earlier authorizations and late answers included.
THEOREM IdentifiersWereProved == Spec => []IssuedMeansProved
  <1>1. AcmeInv => IssuedMeansProved
    BY DEF AcmeInv, OrderInv
  <1> QED
    BY <1>1, AcmeInvariant, PTL

\* begin_order_processing: requests that finalize the same order issue one certificate, and one
\* more for each crash or failed commit, unless a late answer made the order ready again.
THEOREM OrdersIssueOnce == Spec => []IssuedOnce
  <1>1. AcmeInv => IssuedOnce
    BY DEF AcmeInv, OnceInv, Once, IssuedOnce
  <1> QED
    BY <1>1, AcmeInvariant, PTL

\* deactivate_authorization: the columns by which it looks for copies find all of them, so that
\* no valid authorization rests on a proof that was given up.
THEOREM GivenUpProofsAreUnused == Spec => []RelinquishedIsUnused
  <1>1. AcmeInv => RelinquishedIsUnused
    BY DEF AcmeInv, ProofInv, Backed, RelinquishedIsUnused
  <1> QED
    BY <1>1, AcmeInvariant, PTL

\* _update_authorization_status and _invalidate_challenge: what ends late, or expires, leaves a
\* deactivated authorization as it is.
THEOREM DeactivationStands == Spec => DeactivatedIsFinal
  <1>1. TypeOK /\ AcmeInv /\ TypeOK' /\ [Next]_vars =>
           [\A a \in Rows : authz[a].status = "deactivated" => authz'[a].status \in {"deactivated", "gone"}]_vars
    BY AcmeStep DEF Final
  <1> QED
    BY <1>1, AcmeInvariant, PTL DEF Spec, DeactivatedIsFinal
=============================================================================
