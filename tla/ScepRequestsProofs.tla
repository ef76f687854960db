-------------------------- MODULE ScepRequestsProofs --------------------------
(***************************************************************************)
(* SCEP enrolment for every number of transactions, handlers, certificates *)
(* and faults: a transaction yields one certificate, a certificate is      *)
(* renewed once, Intune agrees with the tables and the device is told one  *)
(* answer, with the exceptions the properties name.                        *)
(***************************************************************************)
EXTENDS ScepRequests, FiniteSetTheorems, TLAPS

\* The certificates issued and those being issued are within the bound.
Counted ==
    /\ IsFiniteSet(Issued)
    /\ IsFiniteSet(Busy)
    /\ Cardinality(Issued) + Cardinality(Busy) <= MaxCert

\* What a handler works on exists; approvals are not Intune's.
Serving ==
    \A h \in Busy :
        /\ handler[h].txn \in Txns
        /\ handler[h].renews \in {NoCert} \cup Issued
        /\ handler[h].pc = "approve" => ~handler[h].intune

\* What the tables refer to exists.
Linked ==
    /\ \A t \in Txns :
          /\ request[t].renews \in {NoCert} \cup Issued
          /\ request[t].cert \in {NoCert} \cup Issued
          /\ request[t].status = "approved" => request[t].cert \in Issued
    /\ \A c \in Issued : cert[c].renews \in {NoCert} \cup Issued

\* TypeOK alone is not inductive: a number must be left for the certificate being issued.
Typed == TypeOK /\ Counted /\ Serving /\ Linked

\* Who waits for Intune holds the certificate it renews, alone.
Claimed ==
    \A h \in Handlers : handler[h].pc = "notify" =>
        /\ Claims(handler[h].renews)
        /\ \A g \in Handlers \ {h} : handler[g].pc = "notify" /\ handler[g].renews = handler[h].renews =>
              handler[h].renews = NoCert

\* Who inserts a row is alone, and the row is not there yet.
Inserted ==
    \A h \in Handlers : handler[h].pc \in {"sign", "notify"} =>
        /\ request[handler[h].txn].status = "none"
        /\ \A g \in Handlers \ {h} : handler[g].pc \in {"sign", "notify"} => handler[g].txn # handler[h].txn

\* Who approves a request is alone and the request is pending, or the request was crossed.
Approval ==
    \A h \in Handlers : handler[h].pc = "approve" =>
        /\ request[handler[h].txn].status # "none"
        /\ handler[h].txn \notin crossed =>
              /\ request[handler[h].txn].status = "pending"
              /\ \A g \in Handlers \ {h} : handler[g].pc = "approve" => handler[g].txn # handler[h].txn

\* A transaction that has a certificate is approved, or was crossed.
Decided == \A c \in Issued : request[cert[c].txn].status = "approved" \/ cert[c].txn \in crossed

Orderly == Inserted /\ Approval /\ Decided /\ OneCertificate

ScepInv == Typed /\ Claimed /\ RenewedOnce /\ Orderly /\ IntuneAgrees

-----------------------------------------------------------------------------
(* What the parts of the actions do *)

LEMMA StepBusy ==
  ASSUME handler \in [Handlers -> Handler], NEW h \in Handlers, NEW x \in Handler, Step(h, x)
  PROVE  /\ handler' \in [Handlers -> Handler]
         /\ handler'[h] = x
         /\ \A g \in Handlers \ {h} : handler'[g] = handler[g]
         /\ Busy' = IF x.pc = "idle" THEN Busy \ {h} ELSE Busy \cup {h}
  <1>1. /\ handler' \in [Handlers -> Handler]
        /\ handler'[h] = x
        /\ \A g \in Handlers \ {h} : handler'[g] = handler[g]
    BY DEF Step
  <1> QED
    BY <1>1 DEF Busy

LEMMA IdleTyped == Idle \in Handler /\ Idle.pc = "idle"
  BY DEF Idle, Handler

\* A handler that goes back to idle keeps the count within the bound.
LEMMA FinishCounted ==
  ASSUME TypeOK, Counted, NEW h \in Handlers, Step(h, Idle)
  PROVE  /\ handler' \in [Handlers -> Handler]
         /\ handler'[h] = Idle
         /\ \A g \in Handlers \ {h} : handler'[g] = handler[g]
         /\ Busy' = Busy \ {h}
         /\ IsFiniteSet(Busy')
         /\ Cardinality(Busy') \in Nat
         /\ Cardinality(Busy') = IF h \in Busy THEN Cardinality(Busy) - 1 ELSE Cardinality(Busy)
  <1>1. /\ handler' \in [Handlers -> Handler]
        /\ handler'[h] = Idle
        /\ \A g \in Handlers \ {h} : handler'[g] = handler[g]
        /\ Busy' = Busy \ {h}
    BY StepBusy, IdleTyped DEF TypeOK
  <1>2. IsFiniteSet(Busy)
    BY DEF Counted
  <1>3. /\ IsFiniteSet(Busy \ {h})
        /\ Cardinality(Busy \ {h}) = IF h \in Busy THEN Cardinality(Busy) - 1 ELSE Cardinality(Busy)
    BY <1>2, FS_RemoveElement
  <1>4. Cardinality(Busy \ {h}) \in Nat
    BY <1>3, FS_CardinalityType
  <1> QED
    BY <1>1, <1>3, <1>4

\* A handler that starts takes one of the numbers left.
LEMMA BeginCounted ==
  ASSUME TypeOK, Counted, NEW h \in Handlers, handler[h] = Idle, Room,
         NEW x \in Handler, x.pc # "idle", Step(h, x), UNCHANGED cert
  PROVE  Counted'
  <1>1. Busy' = Busy \cup {h}
    BY StepBusy DEF TypeOK
  <1>2. h \notin Busy
    BY IdleTyped DEF Busy
  <1>3. IsFiniteSet(Busy) /\ IsFiniteSet(Issued)
    BY DEF Counted
  <1>4. IsFiniteSet(Busy') /\ Cardinality(Busy') = Cardinality(Busy) + 1
    BY <1>1, <1>2, <1>3, FS_AddElement
  <1>5. Cardinality(Busy) \in Nat /\ Cardinality(Issued) \in Nat
    BY <1>3, FS_CardinalityType
  <1>6. Issued' = Issued
    BY DEF Issued
  <1>7. MaxCert \in Nat
    BY ScepAssumption
  <1> QED
    BY <1>3, <1>4, <1>5, <1>6, <1>7 DEF Counted, Room

\* A stored certificate takes the next number; of the others only the renewed one changes.
LEMMA IssueEffect ==
  ASSUME Typed, NEW h \in Busy, Issue(h), Step(h, Idle)
  PROVE  LET n == Cardinality(Issued) + 1 IN
         /\ n \in Certs
         /\ n \notin Issued
         /\ Issued' = Issued \cup {n}
         /\ Issued' = 1..Cardinality(Issued')
         /\ cert' \in [Issued' -> Cert]
         /\ cert'[n].txn = handler[h].txn /\ cert'[n].renews = handler[h].renews
         /\ cert'[n].intune = handler[h].intune /\ cert'[n].status = "valid" /\ cert'[n].archived = FALSE
         /\ \A c \in Issued :
               /\ cert'[c].txn = cert[c].txn /\ cert'[c].renews = cert[c].renews
               /\ cert'[c].intune = cert[c].intune /\ cert'[c].status = cert[c].status
               /\ cert'[c].archived = IF c = handler[h].renews THEN TRUE ELSE cert[c].archived
         /\ request' \in [Txns -> Request]
         /\ request'[handler[h].txn].status = "approved"
         /\ request'[handler[h].txn].renews = handler[h].renews /\ request'[handler[h].txn].cert = n
         /\ \A t \in Txns \ {handler[h].txn} : request'[t] = request[t]
         /\ Counted'
  <1> DEFINE n == Cardinality(Issued) + 1
             x == handler[h]
             new == [txn |-> x.txn, renews |-> x.renews, intune |-> x.intune,
                     status |-> "valid", archived |-> FALSE]
  <1>0. TypeOK /\ Counted /\ Serving /\ Linked
    BY DEF Typed
  <1>1. IsFiniteSet(Issued) /\ IsFiniteSet(Busy) /\ MaxCert \in Nat /\ h \in Handlers
    BY <1>0, ScepAssumption DEF Counted, Busy
  <1>2. Cardinality(Issued) \in Nat /\ Cardinality(Busy) \in Nat /\ Cardinality(Busy) # 0
    BY <1>1, FS_CardinalityType, FS_EmptySet
  <1>3. n \in Certs /\ n \in Nat
    BY <1>0, <1>2, ScepAssumption DEF Counted, Certs
  <1>4. Issued = 1..Cardinality(Issued)
    BY <1>0 DEF TypeOK
  <1>5. n \notin Issued
    BY <1>2, <1>4
  <1>6. cert' = [c \in Issued \cup {n} |->
                  IF c = n THEN new
                  ELSE IF c = x.renews THEN [cert[c] EXCEPT !.archived = TRUE] ELSE cert[c]]
    BY DEF Issue, Store
  <1>7. Issued' = Issued \cup {n}
    BY <1>6 DEF Issued
  <1>8. Cardinality(Issued') = n /\ IsFiniteSet(Issued')
    BY <1>1, <1>5, <1>7, FS_AddElement
  <1>9. Issued' = 1..n
    BY <1>2, <1>4, <1>7
  <1>10. x \in Handler /\ x.txn \in Txns /\ x.renews \in {NoCert} \cup Issued
    BY <1>0, <1>1 DEF TypeOK, Serving
  <1>11. new \in Cert
    BY <1>10 DEF Handler, Cert
  <1>12. \A c \in Issued : cert[c] \in Cert /\ [cert[c] EXCEPT !.archived = TRUE] \in Cert
    BY <1>0 DEF TypeOK, Cert
  <1>13. cert' \in [Issued' -> Cert]
    BY <1>6, <1>7, <1>11, <1>12
  <1>14. /\ cert'[n].txn = x.txn /\ cert'[n].renews = x.renews
         /\ cert'[n].intune = x.intune /\ cert'[n].status = "valid" /\ cert'[n].archived = FALSE
         /\ \A c \in Issued :
               /\ cert'[c].txn = cert[c].txn /\ cert'[c].renews = cert[c].renews
               /\ cert'[c].intune = cert[c].intune /\ cert'[c].status = cert[c].status
               /\ cert'[c].archived = IF c = x.renews THEN TRUE ELSE cert[c].archived
    <2>1. /\ cert'[n] = new
          /\ \A c \in Issued : cert'[c] = IF c = x.renews THEN [cert[c] EXCEPT !.archived = TRUE] ELSE cert[c]
      BY <1>5, <1>6, <1>7
    <2>2. ASSUME NEW c \in Issued
          PROVE  /\ cert'[c].txn = cert[c].txn /\ cert'[c].renews = cert[c].renews
                 /\ cert'[c].intune = cert[c].intune /\ cert'[c].status = cert[c].status
                 /\ cert'[c].archived = IF c = x.renews THEN TRUE ELSE cert[c].archived
      <3>1. cert[c] \in Cert
        BY <1>12
      <3>2. CASE c = x.renews
        <4>1. cert'[c] = [cert[c] EXCEPT !.archived = TRUE]
          BY <2>1, <3>2
        <4> QED
          BY <3>1, <3>2, <4>1 DEF Cert
      <3>3. CASE c # x.renews
        BY <2>1, <3>3
      <3> QED
        BY <3>2, <3>3
    <2> HIDE DEF n, x
    <2>3. /\ cert'[n].txn = x.txn /\ cert'[n].renews = x.renews
          /\ cert'[n].intune = x.intune /\ cert'[n].status = "valid" /\ cert'[n].archived = FALSE
      BY <2>1
    <2> QED
      BY <2>2, <2>3
  <1>15. [status |-> "approved", renews |-> x.renews, cert |-> n] \in Request
    BY <1>3, <1>10 DEF Request, Handler
  <1>16. request' = [request EXCEPT ![x.txn] = [status |-> "approved", renews |-> x.renews, cert |-> n]]
    BY DEF Issue
  <1>17. /\ request' \in [Txns -> Request]
         /\ request'[x.txn].status = "approved"
         /\ request'[x.txn].renews = x.renews /\ request'[x.txn].cert = n
         /\ \A t \in Txns \ {x.txn} : request'[t] = request[t]
    BY <1>0, <1>10, <1>15, <1>16 DEF TypeOK
  <1>18. Counted'
    <2>1. IsFiniteSet(Busy') /\ Cardinality(Busy') = Cardinality(Busy) - 1
      BY <1>0, <1>1, FinishCounted
    <2> QED
      BY <1>0, <1>1, <1>2, <1>8, <2>1 DEF Counted
  <1> QED
    BY <1>3, <1>5, <1>7, <1>8, <1>9, <1>13, <1>14, <1>17, <1>18

-----------------------------------------------------------------------------
(* Types *)

LEMMA InitTyped == Init => Typed
  <1> SUFFICES ASSUME Init PROVE Typed
    OBVIOUS
  <1>1. Issued = {} /\ cert \in [{} -> Cert]
    BY DEF Init, Issued
  <1>2. Busy = {}
    BY DEF Init, Busy, Idle
  <1>3. IsFiniteSet({}) /\ Cardinality({}) = 0
    BY FS_EmptySet
  <1>4. TypeOK
    <2>1. NoRequest \in Request
      BY DEF NoRequest, Request
    <2> QED
      BY <1>1, <1>3, <2>1, IdleTyped, ScepAssumption DEF TypeOK, Init
  <1>5. Counted
    BY <1>1, <1>2, <1>3, ScepAssumption DEF Counted
  <1>6. Serving /\ Linked
    BY <1>1, <1>2 DEF Serving, Linked, Init, NoRequest
  <1> QED
    BY <1>4, <1>5, <1>6 DEF Typed

\* The tables stay and every waiting handler goes on or gives up.
LEMMA FewerTyped ==
  ASSUME Typed, handler' \in [Handlers -> Handler], UNCHANGED <<request, cert>>,
         \A g \in Handlers : handler'[g] = handler[g] \/ handler'[g] = Idle
  PROVE  Counted' /\ Serving' /\ Linked'
  <1>1. TypeOK /\ Counted /\ Serving /\ Linked
    BY DEF Typed
  <1>2. Issued' = Issued
    BY DEF Issued
  <1>3. Busy' \subseteq Busy
    BY IdleTyped DEF Busy
  <1>4. IsFiniteSet(Busy)
    BY <1>1 DEF Counted
  <1>5. IsFiniteSet(Busy') /\ Cardinality(Busy') <= Cardinality(Busy)
    BY <1>3, <1>4, FS_Subset
  <1>6. Cardinality(Busy') \in Nat /\ Cardinality(Busy) \in Nat /\ Cardinality(Issued) \in Nat
    BY <1>1, <1>4, <1>5, FS_CardinalityType DEF Counted
  <1>7. Counted'
    BY <1>1, <1>2, <1>5, <1>6, ScepAssumption DEF Counted
  <1>8. Serving'
    <2> SUFFICES ASSUME NEW g \in Busy'
                 PROVE  handler'[g] = handler[g] /\ g \in Busy
      BY <1>1, <1>2 DEF Serving
    <2> QED
      BY <1>3, IdleTyped DEF Busy
  <1>9. Linked'
    BY <1>1, <1>2 DEF Linked
  <1> QED
    BY <1>7, <1>8, <1>9

\* A handler begins or goes on, the tables staying.
LEMMA BusyTyped ==
  ASSUME Typed, NEW h \in Handlers, NEW x \in Handler, x.pc # "idle", Step(h, x),
         h \in Busy \/ (handler[h] = Idle /\ Room),
         x.txn \in Txns, x.renews \in {NoCert} \cup Issued, x.pc = "approve" => ~x.intune,
         UNCHANGED <<request, cert>>
  PROVE  handler' \in [Handlers -> Handler] /\ Counted' /\ Serving' /\ Linked'
  <1>1. TypeOK /\ Counted /\ Serving /\ Linked
    BY DEF Typed
  <1>2. /\ handler' \in [Handlers -> Handler]
        /\ handler'[h] = x
        /\ \A g \in Handlers \ {h} : handler'[g] = handler[g]
        /\ Busy' = Busy \cup {h}
    BY <1>1, StepBusy DEF TypeOK
  <1>3. Issued' = Issued
    BY DEF Issued
  <1>4. Counted'
    <2>1. CASE h \in Busy
      <3>1. Busy' = Busy
        BY <1>2, <2>1
      <3> QED
        BY <1>1, <1>3, <3>1 DEF Counted
    <2>2. CASE handler[h] = Idle /\ Room
      BY <1>1, <2>2, BeginCounted
    <2> QED
      BY <2>1, <2>2
  <1>5. Serving'
    <2> SUFFICES ASSUME NEW g \in Busy'
                 PROVE  /\ handler'[g].txn \in Txns
                        /\ handler'[g].renews \in {NoCert} \cup Issued
                        /\ handler'[g].pc = "approve" => ~handler'[g].intune
      BY <1>3 DEF Serving
    <2>1. CASE g = h
      BY <1>2, <2>1
    <2>2. CASE g # h
      <3>1. g \in Busy /\ g \in Handlers \ {h}
        BY <1>2, <2>2 DEF Busy
      <3> QED
        BY <1>1, <1>2, <3>1 DEF Serving
    <2> QED
      BY <2>1, <2>2
  <1>6. Linked'
    BY <1>1, <1>3 DEF Linked
  <1> QED
    BY <1>2, <1>4, <1>5, <1>6

\* What Step makes of the handlers when the handler goes idle.
LEMMA IdleHandlers ==
  ASSUME TypeOK, NEW h \in Handlers, Step(h, Idle)
  PROVE  /\ handler' \in [Handlers -> Handler]
         /\ \A g \in Handlers : handler'[g] = handler[g] \/ handler'[g] = Idle
         /\ handler'[h] = Idle
  BY IdleTyped, StepBusy DEF TypeOK

LEMMA IssueTyped ==
  ASSUME Typed, NEW h \in Busy, Issue(h), Step(h, Idle)
  PROVE  /\ request' \in [Txns -> Request]
         /\ Issued' = 1..Cardinality(Issued')
         /\ cert' \in [Issued' -> Cert]
         /\ handler' \in [Handlers -> Handler]
         /\ Counted' /\ Serving' /\ Linked'
  <1> DEFINE n == Cardinality(Issued) + 1
             x == handler[h]
  <1>0. TypeOK /\ Serving /\ Linked /\ h \in Handlers
    BY DEF Typed, Busy
  <1>1. /\ Issued' = Issued \cup {n}
        /\ Issued' = 1..Cardinality(Issued')
        /\ cert' \in [Issued' -> Cert]
        /\ cert'[n].renews = x.renews
        /\ \A c \in Issued : cert'[c].renews = cert[c].renews
        /\ request' \in [Txns -> Request]
        /\ request'[x.txn].renews = x.renews /\ request'[x.txn].cert = n
        /\ \A t \in Txns \ {x.txn} : request'[t] = request[t]
        /\ Counted'
    BY IssueEffect
  <1>2. /\ handler' \in [Handlers -> Handler]
        /\ \A g \in Handlers : handler'[g] = handler[g] \/ handler'[g] = Idle
    BY <1>0, IdleHandlers
  <1>3. Serving'
    <2> SUFFICES ASSUME NEW g \in Busy'
                 PROVE  handler'[g] = handler[g] /\ g \in Busy
      BY <1>0, <1>1 DEF Serving
    <2> QED
      BY <1>2, IdleTyped DEF Busy
  <1>4. x.renews \in {NoCert} \cup Issued
    BY <1>0 DEF Serving
  <1>5. Linked'
    <2>1. ASSUME NEW t \in Txns
          PROVE  /\ request'[t].renews \in {NoCert} \cup Issued'
                 /\ request'[t].cert \in {NoCert} \cup Issued'
                 /\ request'[t].status = "approved" => request'[t].cert \in Issued'
      BY <1>0, <1>1, <1>4 DEF Linked
    <2>2. ASSUME NEW c \in Issued'
          PROVE  cert'[c].renews \in {NoCert} \cup Issued'
      <3>1. CASE c = n
        BY <1>1, <1>4, <3>1
      <3>2. CASE c \in Issued
        <4>1. cert'[c].renews = cert[c].renews
          BY <1>0, <1>1, <3>2 DEF TypeOK, Cert
        <4> QED
          BY <1>0, <1>1, <3>2, <4>1 DEF Linked
      <3> QED
        BY <1>1, <3>1, <3>2
    <2> QED
      BY <2>1, <2>2 DEF Linked
  <1> QED
    BY <1>1, <1>2, <1>3, <1>5

\* The status of a certificate changes and nothing else of the tables.
LEMMA StatusEffect ==
  ASSUME Typed, NEW c \in Issued, NEW st \in {"valid", "revoked", "gone"},
         cert' = [cert EXCEPT ![c].status = st]
  PROVE  /\ Issued' = Issued
         /\ cert' \in [Issued -> Cert]
         /\ cert'[c].status = st
         /\ \A d \in Issued :
               /\ cert'[d].txn = cert[d].txn /\ cert'[d].renews = cert[d].renews
               /\ cert'[d].intune = cert[d].intune /\ cert'[d].archived = cert[d].archived
               /\ d # c => cert'[d].status = cert[d].status
  <1>1. cert \in [Issued -> Cert]
    BY DEF Typed, TypeOK
  <1>2. Issued' = Issued
    BY DEF Issued
  <1> QED
    BY <1>1, <1>2 DEF Cert

\* The certificates issued are within the bound.
LEMMA IssuedWithin == Typed => Issued \subseteq Certs
  <1> SUFFICES ASSUME Typed PROVE Issued \subseteq Certs
    OBVIOUS
  <1>1. Cardinality(Issued) \in Nat /\ Cardinality(Busy) \in Nat
    BY FS_CardinalityType DEF Typed, Counted
  <1> QED
    BY <1>1, ScepAssumption DEF Typed, TypeOK, Counted, Certs

LEMMA StepTyped == Typed /\ [Next]_vars => Typed'
  <1> SUFFICES ASSUME Typed, [Next]_vars PROVE Typed'
    OBVIOUS
  <1>0. TypeOK /\ Counted /\ Serving /\ Linked
    BY DEF Typed
  <1> USE DEF Typed
  <1>1. ASSUME NEW h \in Handlers, NEW t \in Txns, NEW c \in {NoCert} \cup Issued, Enrol(h, t, c)
        PROVE  Typed'
    <2>1. CASE mode = "manual"
      <3>1. Step(h, Idle) /\ request' = [request EXCEPT ![t] = [@ EXCEPT !.status = "pending", !.renews = c]]
        BY <1>1, <2>1 DEF Enrol, Enrolling
      <3>2. Issued' = Issued /\ cert' = cert
        BY <1>1 DEF Enrol, Issued
      <3>3. /\ handler' \in [Handlers -> Handler]
            /\ \A g \in Handlers : handler'[g] = handler[g]
        BY <1>0, <1>1, <3>1, IdleHandlers, StepBusy, IdleTyped DEF TypeOK, Enrol
      <3>4. Busy' = Busy
        BY <3>3 DEF Busy
      <3>5. request[t] \in Request /\ c \in {NoCert} \cup Certs
        BY <1>0, <1>1, IssuedWithin DEF TypeOK
      <3>6. [request[t] EXCEPT !.status = "pending", !.renews = c] \in Request
        BY <3>5 DEF Request
      <3>7. /\ request' \in [Txns -> Request]
            /\ request'[t] = [request[t] EXCEPT !.status = "pending", !.renews = c]
            /\ \A u \in Txns \ {t} : request'[u] = request[u]
        BY <1>0, <3>1, <3>6 DEF TypeOK
      <3>8. request'[t].status = "pending" /\ request'[t].renews = c /\ request'[t].cert = request[t].cert
        BY <3>5, <3>7 DEF Request
      <3>9. TypeOK'
        BY <1>0, <1>1, <3>2, <3>3, <3>7 DEF TypeOK, Enrol
      <3>10. Counted' /\ Serving'
        BY <1>0, <3>2, <3>3, <3>4 DEF Counted, Serving, Busy
      <3>11. Linked'
        BY <1>0, <3>2, <3>7, <3>8 DEF Linked
      <3> QED
        BY <3>9, <3>10, <3>11
    <2>2. CASE mode # "manual"
      <3> DEFINE x == [pc |-> "sign", txn |-> t, renews |-> c, intune |-> mode = "intune"]
      <3>1. Step(h, x) /\ UNCHANGED <<request, cert>> /\ handler[h] = Idle /\ Room
        BY <1>1, <2>2 DEF Enrol, Enrolling
      <3>2. x \in Handler /\ x.pc # "idle" /\ x.txn \in Txns /\ x.renews \in {NoCert} \cup Issued
            /\ x.pc # "approve"
        BY <1>0, <1>1, IssuedWithin DEF Handler
      <3>3. handler' \in [Handlers -> Handler] /\ Counted' /\ Serving' /\ Linked'
        BY <3>1, <3>2, BusyTyped
      <3> QED
        BY <1>0, <1>1, <3>1, <3>3 DEF TypeOK, Enrol, Issued
    <2> QED
      BY <2>1, <2>2
  <1>2. ASSUME NEW h \in Handlers, NEW t \in Txns, NEW c \in {NoCert} \cup Issued, Validate(h, t, c)
        PROVE  Typed'
    <2> DEFINE x == [pc |-> "validate", txn |-> t, renews |-> c, intune |-> TRUE]
    <2>1. Step(h, x) /\ UNCHANGED <<request, cert>> /\ handler[h] = Idle /\ Room
      BY <1>2 DEF Validate
    <2>2. x \in Handler /\ x.pc # "idle" /\ x.txn \in Txns /\ x.renews \in {NoCert} \cup Issued
          /\ x.pc # "approve"
      BY <1>0, <1>2, IssuedWithin DEF Handler
    <2>3. handler' \in [Handlers -> Handler] /\ Counted' /\ Serving' /\ Linked'
      BY <2>1, <2>2, BusyTyped
    <2> QED
      BY <1>0, <1>2, <2>1, <2>3 DEF TypeOK, Validate, Issued
  <1>3. ASSUME NEW h \in Handlers, NEW t \in Txns, Approve(h, t)
        PROVE  Typed'
    <2> DEFINE x == [pc |-> "approve", txn |-> t, renews |-> request[t].renews, intune |-> FALSE]
    <2>1. Step(h, x) /\ UNCHANGED <<request, cert>> /\ handler[h] = Idle /\ Room /\ crossed' \subseteq Txns
      BY <1>0, <1>3 DEF Approve, TypeOK
    <2>2. x \in Handler /\ x.pc # "idle" /\ x.txn \in Txns /\ x.renews \in {NoCert} \cup Issued /\ ~x.intune
      BY <1>0, <1>3, IssuedWithin DEF Handler, Linked
    <2>3. handler' \in [Handlers -> Handler] /\ Counted' /\ Serving' /\ Linked'
      BY <2>1, <2>2, BusyTyped
    <2> QED
      BY <1>0, <1>3, <2>1, <2>3 DEF TypeOK, Approve, Issued
  <1>4. ASSUME NEW h \in Handlers, Step(h, Idle), UNCHANGED <<request, cert, mode, profile, crossed>>,
               notified' \subseteq Txns, faults' \in 0..MaxFaults
        PROVE  Typed'
    <2>1. /\ handler' \in [Handlers -> Handler]
          /\ \A g \in Handlers : handler'[g] = handler[g] \/ handler'[g] = Idle
      BY <1>0, <1>4, IdleHandlers
    <2>2. Counted' /\ Serving' /\ Linked'
      BY <1>4, <2>1, FewerTyped
    <2> QED
      BY <1>0, <1>4, <2>1, <2>2 DEF TypeOK, Issued
  <1>5. ASSUME NEW h \in Handlers, Validated(h)
        PROVE  Typed'
    <2>1. UNCHANGED <<cert, mode, profile, notified, crossed, faults>> /\ handler[h].pc = "validate"
      BY <1>5 DEF Validated
    <2>2. CASE Step(h, Idle) /\ UNCHANGED request
      BY <1>0, <1>4, <2>1, <2>2 DEF TypeOK
    <2>3. CASE Enrolling(h, handler[h].txn, handler[h].renews, "intune")
      <3> DEFINE x == [pc |-> "sign", txn |-> handler[h].txn, renews |-> handler[h].renews, intune |-> TRUE]
      <3>1. Step(h, x) /\ UNCHANGED request
        BY <2>3 DEF Enrolling
      <3>2. h \in Busy
        BY <2>1 DEF Busy
      <3>3. x \in Handler /\ x.pc # "idle" /\ x.txn \in Txns /\ x.renews \in {NoCert} \cup Issued
            /\ x.pc # "approve"
        BY <1>0, <3>2, IssuedWithin DEF Handler, Serving
      <3>4. handler' \in [Handlers -> Handler] /\ Counted' /\ Serving' /\ Linked'
        BY <2>1, <3>1, <3>2, <3>3, BusyTyped
      <3> QED
        BY <1>0, <2>1, <3>1, <3>4 DEF TypeOK, Issued
    <2> QED
      BY <1>5, <2>2, <2>3 DEF Validated
  <1>6. ASSUME NEW h \in Busy, Issue(h), Step(h, Idle), UNCHANGED <<mode, profile, crossed, faults>>,
               notified' \subseteq Txns
        PROVE  Typed'
    <2>1. /\ request' \in [Txns -> Request]
          /\ Issued' = 1..Cardinality(Issued')
          /\ cert' \in [Issued' -> Cert]
          /\ handler' \in [Handlers -> Handler]
          /\ Counted' /\ Serving' /\ Linked'
      BY <1>6, IssueTyped
    <2> QED
      BY <1>0, <1>6, <2>1 DEF TypeOK
  <1>7. ASSUME NEW h \in Handlers, Signed(h)
        PROVE  Typed'
    <2>1. UNCHANGED <<mode, profile, notified, crossed, faults>> /\ handler[h].pc = "sign" /\ h \in Busy
      BY <1>7 DEF Signed, Busy
    <2>2. CASE ~handler[h].intune
      <3>1. Issue(h) /\ Step(h, Idle)
        BY <1>7, <2>2 DEF Signed
      <3> QED
        BY <1>0, <1>6, <2>1, <3>1 DEF TypeOK
    <2>3. CASE handler[h].intune
      <3> DEFINE x == [handler[h] EXCEPT !.pc = "notify"]
      <3>1. Step(h, x) /\ UNCHANGED <<request, cert>>
        BY <1>7, <2>3 DEF Signed
      <3>2. handler[h] \in Handler
        BY <1>0 DEF TypeOK
      <3>3. x \in Handler /\ x.pc = "notify" /\ x.txn = handler[h].txn /\ x.renews = handler[h].renews
        BY <3>2 DEF Handler
      <3>4. x.txn \in Txns /\ x.renews \in {NoCert} \cup Issued
        BY <1>0, <2>1, <3>3 DEF Serving
      <3> HIDE DEF x
      <3>5. handler' \in [Handlers -> Handler] /\ Counted' /\ Serving' /\ Linked'
        BY <2>1, <3>1, <3>3, <3>4, BusyTyped
      <3> QED
        BY <1>0, <2>1, <3>1, <3>5 DEF TypeOK, Issued
    <2> QED
      BY <2>2, <2>3
  <1>8. ASSUME NEW h \in Handlers, NotSigned(h)
        PROVE  Typed'
    BY <1>0, <1>4, <1>8 DEF NotSigned, TypeOK
  <1>9. ASSUME NEW h \in Handlers, Notified(h)
        PROVE  Typed'
    <2>1. h \in Busy
      BY <1>9 DEF Notified, Busy
    <2>2. notified' \subseteq Txns
      BY <1>0, <1>9, <2>1 DEF Notified, TypeOK, Serving
    <2> QED
      BY <1>6, <1>9, <2>1, <2>2 DEF Notified
  <1>10. ASSUME NEW h \in Handlers, NotNotified(h)
         PROVE  Typed'
    <2>1. h \in Busy
      BY <1>10 DEF NotNotified, Busy
    <2>2. notified' \subseteq Txns /\ faults' \in 0..MaxFaults
      BY <1>0, <1>10, <2>1, ScepAssumption DEF NotNotified, Fault, TypeOK, Serving
    <2> QED
      BY <1>4, <1>10, <2>2 DEF NotNotified
  <1>11. ASSUME NEW h \in Handlers, Approved(h)
         PROVE  Typed'
    <2>1. h \in Busy
      BY <1>11 DEF Approved, Busy
    <2> QED
      BY <1>0, <1>6, <1>11, <2>1 DEF Approved, TypeOK
  <1>12. ASSUME NEW t \in Txns, Reject(t)
         PROVE  Typed'
    <2>1. request[t] \in Request
      BY <1>0 DEF TypeOK
    <2>2. /\ request' \in [Txns -> Request]
          /\ request'[t].status = "rejected"
          /\ \A u \in Txns : request'[u].renews = request[u].renews /\ request'[u].cert = request[u].cert
          /\ \A u \in Txns \ {t} : request'[u] = request[u]
      BY <1>0, <1>12 DEF Reject, TypeOK, Request
    <2>3. UNCHANGED <<cert, mode, profile, handler, notified, faults>> /\ crossed' \subseteq Txns
      BY <1>0, <1>12 DEF Reject, TypeOK
    <2>4. Issued' = Issued /\ Busy' = Busy
      BY <2>3 DEF Issued, Busy
    <2>5. TypeOK'
      BY <1>0, <2>2, <2>3, <2>4 DEF TypeOK
    <2>6. Counted' /\ Serving'
      BY <1>0, <2>3, <2>4 DEF Counted, Serving
    <2>7. Linked'
      BY <1>0, <2>2, <2>3, <2>4 DEF Linked
    <2> QED
      BY <2>5, <2>6, <2>7
  <1>13. ASSUME UNCHANGED <<request, cert, handler>>
         PROVE  Counted' /\ Serving' /\ Linked' /\ Issued' = Issued
    <2>1. Issued' = Issued /\ Busy' = Busy
      BY <1>13 DEF Issued, Busy
    <2> QED
      BY <1>0, <1>13, <2>1 DEF Counted, Serving, Linked
  <1>14. ASSUME NEW m \in Modes, UpdateProfile(m)
         PROVE  Typed'
    BY <1>0, <1>13, <1>14 DEF UpdateProfile, TypeOK
  <1>15. CASE DeleteProfile
    BY <1>0, <1>13, <1>15 DEF DeleteProfile, TypeOK
  <1>16. ASSUME NEW c \in Issued, Revoke(c) \/ Delete(c)
         PROVE  Typed'
    <2>1. PICK st \in {"valid", "revoked", "gone"} : cert' = [cert EXCEPT ![c].status = st]
      BY <1>16 DEF Revoke, Delete
    <2>2. /\ Issued' = Issued
          /\ cert' \in [Issued -> Cert]
          /\ \A d \in Issued : cert'[d].renews = cert[d].renews
      BY <2>1, StatusEffect
    <2>3. UNCHANGED <<request, mode, profile, handler, notified, crossed, faults>>
      BY <1>16 DEF Revoke, Delete
    <2>4. Busy' = Busy
      BY <2>3 DEF Busy
    <2>5. Counted' /\ Serving' /\ Linked'
      BY <1>0, <2>2, <2>3, <2>4 DEF Counted, Serving, Linked
    <2> QED
      BY <1>0, <2>2, <2>3, <2>5 DEF TypeOK
  <1>17. CASE Crash
    <2>1. /\ handler' \in [Handlers -> Handler]
          /\ \A g \in Handlers : handler'[g] = handler[g] \/ handler'[g] = Idle
      BY <1>17, IdleTyped DEF Crash
    <2>2. Counted' /\ Serving' /\ Linked'
      BY <1>17, <2>1, FewerTyped DEF Crash
    <2>3. notified' \subseteq Txns
      <3>1. \A h \in Handlers : handler[h].pc = "notify" => handler[h].txn \in Txns
        BY <1>0 DEF Serving, Busy
      <3> QED
        BY <1>0, <1>17, <3>1 DEF Crash, TypeOK
    <2>4. faults' \in 0..MaxFaults
      BY <1>0, <1>17, ScepAssumption DEF Crash, Fault, TypeOK
    <2> QED
      BY <1>0, <1>17, <2>1, <2>2, <2>3, <2>4 DEF Crash, TypeOK, Issued
  <1>18. CASE UNCHANGED vars
    BY <1>0, <1>13, <1>18 DEF vars, TypeOK
  <1> QED
    BY <1>1, <1>2, <1>3, <1>5, <1>7, <1>8, <1>9, <1>10, <1>11, <1>12, <1>14, <1>15, <1>16, <1>17, <1>18
       DEF Next

\* The rows, the certificates and what the waiting requests hold keep their types, and the
\* numbers of the certificates leave no gap: what SCEPRequest, Certificate and the handlers of
\* process_pkcs_req and approve_request store, whoever is interrupted.
THEOREM RequestsTyped == Spec => []TypeOK
  <1>1. Typed => TypeOK
    BY DEF Typed
  <1> QED
    BY <1>1, InitTyped, StepTyped, PTL DEF Spec

-----------------------------------------------------------------------------
(* Renewals *)

LEMMA StepHandler ==
  ASSUME TypeOK, NEW h \in Handlers, NEW x, Step(h, x)
  PROVE  handler'[h] = x /\ \A g \in Handlers \ {h} : handler'[g] = handler[g]
  BY DEF TypeOK, Step

\* The certificates stay and nobody starts to wait for Intune.
LEMMA QuietClaimed ==
  ASSUME Claimed, RenewedOnce, UNCHANGED cert,
         \A g \in Handlers : handler'[g].pc = "notify" => handler'[g] = handler[g]
  PROVE  Claimed' /\ RenewedOnce'
  <1>1. Issued' = Issued
    BY DEF Issued
  <1>2. RenewedOnce'
    BY <1>1 DEF RenewedOnce
  <1>3. Claimed'
    BY DEF Claimed, Claims
  <1> QED
    BY <1>2, <1>3

\* A certificate is issued by a handler that may claim what it renews.
LEMMA IssueClaimed ==
  ASSUME Typed, Claimed, RenewedOnce, NEW h \in Busy, Issue(h), Step(h, Idle),
         Claims(handler[h].renews),
         \A g \in Handlers \ {h} : handler[g].pc = "notify" /\ handler[g].renews = handler[h].renews =>
            handler[h].renews = NoCert
  PROVE  Claimed' /\ RenewedOnce'
  <1> DEFINE n == Cardinality(Issued) + 1
             x == handler[h]
  <1>0. TypeOK /\ Serving /\ Linked /\ h \in Handlers
    BY DEF Typed, Busy
  <1>1. /\ n \notin Issued /\ n # NoCert
        /\ Issued' = Issued \cup {n}
        /\ cert'[n].renews = x.renews /\ cert'[n].status = "valid" /\ cert'[n].archived = FALSE
        /\ \A c \in Issued :
              /\ cert'[c].renews = cert[c].renews /\ cert'[c].status = cert[c].status
              /\ cert'[c].archived = IF c = x.renews THEN TRUE ELSE cert[c].archived
    <2>1. n \in Certs
      BY IssueEffect
    <2>2. n # NoCert
      BY <2>1 DEF Certs, NoCert
    <2> QED
      BY <2>2, IssueEffect
  <1>2. x.renews \in {NoCert} \cup Issued
    BY <1>0 DEF Serving
  <1>3. handler'[h].pc = "idle" /\ \A g \in Handlers \ {h} : handler'[g] = handler[g]
    BY <1>0, StepHandler, IdleTyped
  <1>4. \A g \in Handlers : handler[g].pc = "notify" => handler[g].renews \in {NoCert} \cup Issued
    BY <1>0 DEF Serving, Busy
  <1> HIDE DEF n, x
  <1>5. Claimed'
    <2> SUFFICES ASSUME NEW f \in Handlers, handler'[f].pc = "notify"
                 PROVE  /\ handler'[f].renews # NoCert => (cert'[handler'[f].renews].status # "gone" =>
                           ~cert'[handler'[f].renews].archived)
                        /\ \A g \in Handlers \ {f} :
                              handler'[g].pc = "notify" /\ handler'[g].renews = handler'[f].renews =>
                                handler'[f].renews = NoCert
      BY DEF Claimed, Claims
    <2>1. f # h /\ handler'[f] = handler[f]
      BY <1>3
    <2>2. handler[f].renews = x.renews => x.renews = NoCert
      BY <2>1 DEF x
    <2>3. Claims(handler[f].renews)
      BY <2>1 DEF Claimed
    <2>4. handler'[f].renews # NoCert => (cert'[handler'[f].renews].status # "gone" =>
          ~cert'[handler'[f].renews].archived)
      BY <1>1, <1>4, <2>1, <2>2, <2>3, ZenonT(60) DEF Claims
    <2>5. ASSUME NEW g \in Handlers \ {f}, handler'[g].pc = "notify", handler'[g].renews = handler'[f].renews
          PROVE  handler'[f].renews = NoCert
      <3>1. handler'[g] = handler[g]
        BY <1>3, <2>5
      <3> QED
        BY <2>1, <2>5, <3>1 DEF Claimed
    <2> QED
      BY <2>4, <2>5
  <1>6. ASSUME NEW c \in Issued, cert[c].renews # NoCert, cert[cert[c].renews].status # "gone"
        PROVE  cert[c].renews # x.renews
    <2>1. cert[cert[c].renews].archived
      BY <1>6 DEF RenewedOnce
    <2> QED
      BY <1>6, <2>1 DEF Claims, x
  <1>7. \A c \in Issued : cert[c].renews \in {NoCert} \cup Issued
    BY <1>0 DEF Linked
  <1>8. RenewedOnce'
    <2> SUFFICES ASSUME NEW c \in Issued', cert'[c].renews # NoCert, cert'[cert'[c].renews].status # "gone"
                 PROVE  /\ cert'[cert'[c].renews].archived
                        /\ \A d \in Issued' : cert'[d].renews = cert'[c].renews => d = c
      BY DEF RenewedOnce
    <2>1. CASE c = n
      <3>1. cert'[c].renews = x.renews /\ x.renews \in Issued
        BY <1>1, <1>2, <2>1
      <3>2. cert[x.renews].status # "gone"
        BY <1>1, <3>1
      <3>3. ASSUME NEW d \in Issued', cert'[d].renews = x.renews, d # n
            PROVE  FALSE
        <4>1. d \in Issued /\ cert[d].renews = x.renews
          BY <1>1, <3>3
        <4> QED
          BY <1>6, <2>1, <3>1, <3>2, <4>1
      <3> QED
        BY <1>1, <2>1, <3>1, <3>3
    <2>2. CASE c \in Issued
      <3>1. cert'[c].renews = cert[c].renews /\ cert[c].renews \in Issued
        BY <1>1, <1>7, <2>2
      <3>2. cert[cert[c].renews].status # "gone" /\ cert[c].renews # NoCert
        BY <1>1, <3>1
      <3>3. /\ cert[cert[c].renews].archived
            /\ \A d \in Issued : cert[d].renews = cert[c].renews => d = c
        BY <2>2, <3>2 DEF RenewedOnce
      <3>4. cert[c].renews # x.renews
        BY <1>6, <2>2, <3>2
      <3> QED
        BY <1>1, <3>1, <3>3, <3>4
    <2> QED
      BY <1>1, <2>1, <2>2
  <1> QED
    BY <1>5, <1>8

LEMMA StepClaimed == Typed /\ Claimed /\ RenewedOnce /\ [Next]_vars => Claimed' /\ RenewedOnce'
  <1> SUFFICES ASSUME Typed, Claimed, RenewedOnce, [Next]_vars PROVE Claimed' /\ RenewedOnce'
    OBVIOUS
  <1>0. TypeOK /\ Serving /\ Linked
    BY DEF Typed
  <1>1. ASSUME NEW h \in Handlers, NEW x, x.pc # "notify", Step(h, x), UNCHANGED cert
        PROVE  Claimed' /\ RenewedOnce'
    <2>1. handler'[h] = x /\ \A g \in Handlers \ {h} : handler'[g] = handler[g]
      BY <1>0, <1>1, StepHandler
    <2> QED
      BY <1>1, <2>1, QuietClaimed
  <1>2. ASSUME NEW h \in Handlers, NEW t \in Txns, NEW c \in {NoCert} \cup Issued,
               Enrol(h, t, c) \/ Validate(h, t, c)
        PROVE  Claimed' /\ RenewedOnce'
    <2>1. PICK x : Step(h, x) /\ x.pc # "notify"
      BY <1>2, IdleTyped DEF Enrol, Enrolling, Validate
    <2> QED
      BY <1>1, <1>2, <2>1 DEF Enrol, Validate
  <1>3. ASSUME NEW h \in Handlers, NEW t \in Txns, Approve(h, t)
        PROVE  Claimed' /\ RenewedOnce'
    BY <1>1, <1>3 DEF Approve
  <1>4. ASSUME NEW h \in Handlers, Validated(h)
        PROVE  Claimed' /\ RenewedOnce'
    <2>1. PICK x : Step(h, x) /\ x.pc # "notify"
      BY <1>4, IdleTyped DEF Validated, Enrolling
    <2> QED
      BY <1>1, <1>4, <2>1 DEF Validated
  <1>5. ASSUME NEW h \in Handlers, NotSigned(h) \/ NotNotified(h)
        PROVE  Claimed' /\ RenewedOnce'
    BY <1>1, <1>5, IdleTyped DEF NotSigned, NotNotified
  <1>6. ASSUME NEW h \in Handlers, Signed(h)
        PROVE  Claimed' /\ RenewedOnce'
    <2>1. h \in Busy /\ Claims(handler[h].renews) /\ ~Claiming(handler[h].renews)
      BY <1>6 DEF Signed, Busy
    <2>2. \A g \in Handlers \ {h} : handler[g].pc = "notify" /\ handler[g].renews = handler[h].renews =>
             handler[h].renews = NoCert
      BY <2>1 DEF Claiming
    <2>3. CASE ~handler[h].intune
      <3>1. Issue(h) /\ Step(h, Idle)
        BY <1>6, <2>3 DEF Signed
      <3> QED
        BY <2>1, <2>2, <3>1, IssueClaimed
    <2>4. CASE handler[h].intune
      <3>1. Step(h, [handler[h] EXCEPT !.pc = "notify"]) /\ UNCHANGED cert
        BY <1>6, <2>4 DEF Signed
      <3>2. handler[h] \in Handler
        BY <1>0 DEF TypeOK
      <3>3. /\ handler'[h].renews = handler[h].renews
            /\ \A g \in Handlers \ {h} : handler'[g] = handler[g]
        BY <1>0, <3>1, <3>2, StepHandler DEF Handler
      <3>4. Issued' = Issued
        BY <3>1 DEF Issued
      <3>5. RenewedOnce'
        BY <3>1, <3>4 DEF RenewedOnce
      <3>6. Claimed'
        BY <2>1, <2>2, <3>1, <3>3 DEF Claimed, Claims
      <3> QED
        BY <3>5, <3>6
    <2> QED
      BY <2>3, <2>4
  <1>7. ASSUME NEW h \in Handlers, Notified(h)
        PROVE  Claimed' /\ RenewedOnce'
    <2>1. h \in Busy /\ Issue(h) /\ Step(h, Idle)
      BY <1>7 DEF Notified, Busy
    <2>2. /\ Claims(handler[h].renews)
          /\ \A g \in Handlers \ {h} : handler[g].pc = "notify" /\ handler[g].renews = handler[h].renews =>
                handler[h].renews = NoCert
      BY <1>7 DEF Notified, Claimed
    <2> QED
      BY <2>1, <2>2, IssueClaimed
  <1>8. ASSUME NEW h \in Handlers, Approved(h)
        PROVE  Claimed' /\ RenewedOnce'
    <2>1. h \in Busy /\ Issue(h) /\ Step(h, Idle) /\ Claims(handler[h].renews)
      BY <1>8 DEF Approved, Busy
    <2>2. \A g \in Handlers \ {h} : handler[g].pc = "notify" /\ handler[g].renews = handler[h].renews =>
             handler[h].renews = NoCert
      BY <1>8 DEF Approved, Claiming
    <2> QED
      BY <2>1, <2>2, IssueClaimed
  <1>9. ASSUME UNCHANGED <<cert, handler>>
        PROVE  Claimed' /\ RenewedOnce'
    BY <1>9, QuietClaimed
  <1>10. ASSUME NEW c \in Issued, Revoke(c) \/ Delete(c)
         PROVE  Claimed' /\ RenewedOnce'
    <2>1. PICK st \in {"revoked", "gone"} : cert' = [cert EXCEPT ![c].status = st] /\ cert[c].status # "gone"
      BY <1>10 DEF Revoke, Delete
    <2>2. /\ Issued' = Issued
          /\ cert'[c].status = st
          /\ \A d \in Issued :
                /\ cert'[d].renews = cert[d].renews /\ cert'[d].archived = cert[d].archived
                /\ d # c => cert'[d].status = cert[d].status
      BY <2>1, StatusEffect
    <2>3. handler' = handler
      BY <1>10 DEF Revoke, Delete
    <2>4. \A d \in Issued : cert'[d].status # "gone" => cert[d].status # "gone"
      BY <2>1, <2>2
    <2>5. \A d \in Issued : cert[d].renews \in {NoCert} \cup Issued
      BY <1>0 DEF Linked
    <2>6. RenewedOnce'
      BY <2>2, <2>4, <2>5 DEF RenewedOnce
    <2>7. \A g \in Handlers : handler[g].pc = "notify" => handler[g].renews \in {NoCert} \cup Issued
      BY <1>0 DEF Serving, Busy
    <2>8. Claimed'
      BY <2>2, <2>3, <2>4, <2>7 DEF Claimed, Claims
    <2> QED
      BY <2>6, <2>8
  <1>11. CASE Crash
    <2>1. \A g \in Handlers : handler'[g].pc # "notify"
      BY <1>11, IdleTyped DEF Crash
    <2> QED
      BY <1>11, <2>1, QuietClaimed DEF Crash
  <1> QED
    BY <1>2, <1>3, <1>4, <1>5, <1>6, <1>7, <1>8, <1>9, <1>10, <1>11
       DEF Next, Reject, UpdateProfile, DeleteProfile, vars

-----------------------------------------------------------------------------
(* One certificate of a transaction *)

\* The requests and the transactions of the certificates stay.
LEMMA SameDecided ==
  ASSUME Decided, OneCertificate, UNCHANGED request, Issued' = Issued, crossed \subseteq crossed',
         \A c \in Issued : cert'[c].txn = cert[c].txn
  PROVE  Decided' /\ OneCertificate'
  BY DEF Decided, OneCertificate

\* Nobody starts to insert or to approve.
LEMMA QuietOrderly ==
  ASSUME Orderly, UNCHANGED request, Issued' = Issued, UNCHANGED crossed,
         \A c \in Issued : cert'[c].txn = cert[c].txn,
         \A g \in Handlers : handler'[g].pc \in {"sign", "notify", "approve"} => handler'[g] = handler[g]
  PROVE  Orderly'
  <1>1. Decided' /\ OneCertificate'
    BY SameDecided DEF Orderly
  <1>2. Inserted'
    BY DEF Orderly, Inserted
  <1>3. Approval'
    BY DEF Orderly, Approval
  <1> QED
    BY <1>1, <1>2, <1>3 DEF Orderly

\* A handler inserts a row that is not there and that nobody else inserts.
LEMMA InsertOrderly ==
  ASSUME TypeOK, Orderly, NEW h \in Handlers, NEW x, Step(h, x), x.pc \in {"sign", "notify"},
         request[x.txn].status = "none",
         \A g \in Handlers \ {h} : handler[g].pc \in {"sign", "notify"} => handler[g].txn # x.txn,
         UNCHANGED <<request, cert, crossed>>
  PROVE  Orderly'
  <1>1. handler'[h] = x /\ \A g \in Handlers \ {h} : handler'[g] = handler[g]
    BY StepHandler
  <1>2. Decided' /\ OneCertificate'
    BY SameDecided DEF Orderly, Issued
  <1>3. Inserted'
    BY <1>1 DEF Orderly, Inserted
  <1>4. Approval'
    BY <1>1 DEF Orderly, Approval
  <1> QED
    BY <1>2, <1>3, <1>4 DEF Orderly

\* A certificate is issued by a handler that inserts or approves.
LEMMA IssueOrderly ==
  ASSUME Typed, Orderly, NEW h \in Handlers, handler[h].pc \in {"sign", "notify", "approve"},
         Issue(h), Step(h, Idle), UNCHANGED crossed
  PROVE  Orderly'
  <1> DEFINE n == Cardinality(Issued) + 1
             t == handler[h].txn
  <1>0. TypeOK /\ Serving /\ h \in Busy /\ Inserted /\ Approval /\ Decided /\ OneCertificate
    BY DEF Typed, Busy, Orderly
  <1>1. /\ n \notin Issued
        /\ Issued' = Issued \cup {n}
        /\ cert'[n].txn = t
        /\ \A c \in Issued : cert'[c].txn = cert[c].txn
        /\ request'[t].status = "approved"
        /\ \A u \in Txns \ {t} : request'[u] = request[u]
    BY <1>0, IssueEffect
  <1>2. handler'[h].pc = "idle" /\ \A g \in Handlers \ {h} : handler'[g] = handler[g]
    BY <1>0, StepHandler, IdleTyped
  <1>3. \A g \in Handlers : handler[g].pc \in {"sign", "notify", "approve"} => handler[g].txn \in Txns
    BY <1>0 DEF Serving, Busy
  <1>4. t \in Txns /\ \A c \in Issued : cert[c].txn \in Txns
    BY <1>0, <1>3 DEF TypeOK, Cert
  \* whoever issues finds the transaction undecided, or crossed
  <1>5. t \in crossed \/ request[t].status \in {"none", "pending"}
    BY <1>0 DEF Inserted, Approval
  <1>6. Decided'
    BY <1>0, <1>1, <1>4 DEF Decided
  <1>7. OneCertificate'
    <2>1. \A c \in Issued : cert[c].txn = t => t \in crossed
      BY <1>0, <1>5 DEF Decided
    <2> HIDE DEF n, t
    <2> QED
      BY <1>0, <1>1, <2>1 DEF OneCertificate
  <1>8. Inserted'
    <2> SUFFICES ASSUME NEW f \in Handlers, handler'[f].pc \in {"sign", "notify"}
                 PROVE  /\ request'[handler'[f].txn].status = "none"
                        /\ \A g \in Handlers \ {f} :
                              handler'[g].pc \in {"sign", "notify"} => handler'[g].txn # handler'[f].txn
      BY DEF Inserted
    <2>1. f # h /\ handler'[f] = handler[f]
      BY <1>2
    <2>2. request[handler[f].txn].status = "none" /\ handler[f].txn \in Txns
      BY <1>0, <1>3, <2>1 DEF Inserted
    <2>3. handler[f].txn # t
      BY <1>0, <2>1, <2>2 DEF Inserted, Approval
    <2>4. request'[handler'[f].txn].status = "none"
      BY <1>1, <2>1, <2>2, <2>3
    <2>5. \A g \in Handlers \ {f} :
             handler'[g].pc \in {"sign", "notify"} => handler'[g].txn # handler'[f].txn
      BY <1>0, <1>2, <2>1 DEF Inserted
    <2> QED
      BY <2>4, <2>5
  <1>9. Approval'
    <2> SUFFICES ASSUME NEW f \in Handlers, handler'[f].pc = "approve"
                 PROVE  /\ request'[handler'[f].txn].status # "none"
                        /\ handler'[f].txn \notin crossed =>
                              /\ request'[handler'[f].txn].status = "pending"
                              /\ \A g \in Handlers \ {f} :
                                    handler'[g].pc = "approve" => handler'[g].txn # handler'[f].txn
      BY DEF Approval
    <2>1. f # h /\ handler'[f] = handler[f] /\ handler[f].txn \in Txns
      BY <1>2, <1>3
    <2>2. request'[handler'[f].txn].status # "none"
      BY <1>0, <1>1, <2>1 DEF Approval
    <2>3. ASSUME handler[f].txn \notin crossed
          PROVE  /\ request'[handler[f].txn].status = "pending"
                 /\ \A g \in Handlers \ {f} : handler'[g].pc = "approve" => handler'[g].txn # handler[f].txn
      <3>1. /\ request[handler[f].txn].status = "pending"
            /\ \A g \in Handlers \ {f} : handler[g].pc = "approve" => handler[g].txn # handler[f].txn
        BY <1>0, <2>1, <2>3 DEF Approval
      <3>2. handler[f].txn # t
        BY <1>0, <2>1, <3>1 DEF Inserted
      <3> QED
        BY <1>1, <1>2, <2>1, <3>1, <3>2
    <2> QED
      BY <2>1, <2>2, <2>3
  <1> QED
    BY <1>6, <1>7, <1>8, <1>9 DEF Orderly

\* The status of one request changes: it was not approved, and it is none that is inserted, or
\* approved alone.
LEMMA StatusOrderly ==
  ASSUME Orderly, NEW t \in Txns, UNCHANGED <<cert, handler>>, crossed \subseteq crossed',
         request[t].status # "approved", request'[t].status # "none",
         \A u \in Txns \ {t} : request'[u] = request[u],
         \A c \in Issued : cert[c].txn \in Txns,
         \A g \in Handlers : handler[g].pc \in {"sign", "notify", "approve"} => handler[g].txn \in Txns,
         ~Inserting(t), Approving(t) => t \in crossed'
  PROVE  Orderly'
  <1>0. Inserted /\ Approval /\ Decided /\ OneCertificate
    BY DEF Orderly
  <1>1. Issued' = Issued
    BY DEF Issued
  <1>2. Decided'
    BY <1>0, <1>1 DEF Decided
  <1>3. OneCertificate'
    BY <1>0, <1>1 DEF OneCertificate
  <1>4. Inserted'
    BY <1>0 DEF Inserted, Inserting
  <1>5. Approval'
    BY <1>0 DEF Approval, Approving
  <1> QED
    BY <1>2, <1>3, <1>4, <1>5 DEF Orderly

LEMMA StepOrderly == Typed /\ Orderly /\ [Next]_vars => Orderly'
  <1> SUFFICES ASSUME Typed, Orderly, [Next]_vars PROVE Orderly'
    OBVIOUS
  <1>0. TypeOK /\ Serving /\ Linked
    BY DEF Typed
  <1>a. \A g \in Handlers : handler[g].pc \in {"sign", "notify", "approve"} => handler[g].txn \in Txns
    BY <1>0 DEF Serving, Busy
  <1>b. \A c \in Issued : cert[c].txn \in Txns
    BY <1>0 DEF TypeOK, Cert
  <1>1. ASSUME NEW h \in Handlers, NEW x, x.pc \notin {"sign", "notify", "approve"}, Step(h, x),
               UNCHANGED <<request, cert, crossed>>
        PROVE  Orderly'
    <2>1. handler'[h] = x /\ \A g \in Handlers \ {h} : handler'[g] = handler[g]
      BY <1>0, <1>1, StepHandler
    <2> QED
      BY <1>1, <2>1, QuietOrderly DEF Issued
  <1>2. ASSUME NEW h \in Handlers, NEW t \in Txns, NEW c, NEW m, m # "manual",
               Enrolling(h, t, c, m), UNCHANGED <<cert, crossed>>
        PROVE  Orderly'
    <2> DEFINE x == [pc |-> "sign", txn |-> t, renews |-> c, intune |-> m = "intune"]
    <2>1. Step(h, x) /\ UNCHANGED request /\ request[t].status = "none" /\ ~Inserting(t)
      BY <1>2 DEF Enrolling
    <2>2. \A g \in Handlers \ {h} : handler[g].pc \in {"sign", "notify"} => handler[g].txn # t
      BY <2>1 DEF Inserting
    <2> QED
      BY <1>0, <1>2, <2>1, <2>2, InsertOrderly
  <1>3. ASSUME NEW h \in Handlers, NEW t \in Txns, NEW c \in {NoCert} \cup Issued, Enrol(h, t, c)
        PROVE  Orderly'
    <2>1. CASE mode # "manual"
      BY <1>2, <1>3, <2>1 DEF Enrol
    <2>2. CASE mode = "manual"
      <3>1. /\ Step(h, Idle) /\ handler[h] = Idle /\ UNCHANGED <<cert, crossed>>
            /\ request' = [request EXCEPT ![t] = [@ EXCEPT !.status = "pending", !.renews = c]]
            /\ request[t].status = "none" /\ ~Inserting(t)
        BY <1>3, <2>2 DEF Enrol, Enrolling
      <3>2. handler' = handler
        BY <1>0, <3>1 DEF Step, TypeOK
      <3>3. request[t] \in Request
        BY <1>0 DEF TypeOK
      <3>4. request'[t] = [request[t] EXCEPT !.status = "pending", !.renews = c]
            /\ \A u \in Txns \ {t} : request'[u] = request[u]
        BY <1>0, <3>1 DEF TypeOK
      <3>5. request'[t].status = "pending"
        BY <3>3, <3>4 DEF Request
      <3>6. ~Approving(t)
        BY <3>1 DEF Orderly, Approval, Approving
      <3> QED
        BY <1>a, <1>b, <3>1, <3>2, <3>4, <3>5, <3>6, StatusOrderly
    <2> QED
      BY <2>1, <2>2
  <1>4. ASSUME NEW h \in Handlers, NEW t \in Txns, NEW c \in {NoCert} \cup Issued, Validate(h, t, c)
        PROVE  Orderly'
    BY <1>1, <1>4 DEF Validate
  <1>5. ASSUME NEW h \in Handlers, NEW t \in Txns, Approve(h, t)
        PROVE  Orderly'
    <2>1. /\ request[t].status = "pending" /\ UNCHANGED <<request, cert>>
          /\ crossed' = IF Approving(t) THEN crossed \cup {t} ELSE crossed
      BY <1>5 DEF Approve, Approvable
    <2>2. /\ handler'[h].pc = "approve" /\ handler'[h].txn = t
          /\ \A g \in Handlers \ {h} : handler'[g] = handler[g]
      <3>1. Step(h, [pc |-> "approve", txn |-> t, renews |-> request[t].renews, intune |-> FALSE])
        BY <1>5 DEF Approve
      <3> QED
        BY <1>0, <3>1, StepHandler
    <2>3. Decided' /\ OneCertificate'
      BY <2>1, SameDecided DEF Orderly, Issued
    <2>4. Inserted'
      BY <2>1, <2>2 DEF Orderly, Inserted
    <2>5. Approval'
      BY <2>1, <2>2 DEF Orderly, Approval, Approving
    <2> QED
      BY <2>3, <2>4, <2>5 DEF Orderly
  <1>6. ASSUME NEW h \in Handlers, Validated(h)
        PROVE  Orderly'
    <2>1. CASE Step(h, Idle) /\ UNCHANGED request
      BY <1>1, <1>6, <2>1, IdleTyped DEF Validated
    <2>2. CASE Enrolling(h, handler[h].txn, handler[h].renews, "intune")
      <3>1. handler[h].txn \in Txns
        BY <1>0, <1>6 DEF Validated, Serving, Busy
      <3> QED
        BY <1>2, <1>6, <2>2, <3>1 DEF Validated
    <2> QED
      BY <1>6, <2>1, <2>2 DEF Validated
  <1>7. ASSUME NEW h \in Handlers, NotSigned(h) \/ NotNotified(h)
        PROVE  Orderly'
    BY <1>1, <1>7, IdleTyped DEF NotSigned, NotNotified
  <1>8. ASSUME NEW h \in Handlers, Signed(h)
        PROVE  Orderly'
    <2>1. CASE ~handler[h].intune
      BY <1>8, <2>1, IssueOrderly DEF Signed
    <2>2. CASE handler[h].intune
      <3> DEFINE x == [handler[h] EXCEPT !.pc = "notify"]
      <3>1. Step(h, x) /\ UNCHANGED <<request, cert, crossed>> /\ handler[h].pc = "sign"
        BY <1>8, <2>2 DEF Signed
      <3>2. handler[h] \in Handler
        BY <1>0 DEF TypeOK
      <3>3. x.pc = "notify" /\ x.txn = handler[h].txn
        BY <3>2 DEF Handler
      <3>4. /\ request[handler[h].txn].status = "none"
            /\ \A g \in Handlers \ {h} : handler[g].pc \in {"sign", "notify"} => handler[g].txn # handler[h].txn
        BY <3>1 DEF Orderly, Inserted
      <3> HIDE DEF x
      <3> QED
        BY <1>0, <3>1, <3>3, <3>4, InsertOrderly
    <2> QED
      BY <2>1, <2>2
  <1>9. ASSUME NEW h \in Handlers, Notified(h) \/ Approved(h)
        PROVE  Orderly'
    BY <1>9, IssueOrderly DEF Notified, Approved
  <1>10. ASSUME NEW t \in Txns, Reject(t)
         PROVE  Orderly'
    <2>1. /\ request[t].status = "pending" /\ UNCHANGED <<cert, handler>>
          /\ crossed' = IF Approving(t) THEN crossed \cup {t} ELSE crossed
      BY <1>10 DEF Reject
    <2>2. request'[t].status = "rejected" /\ \A u \in Txns \ {t} : request'[u] = request[u]
      BY <1>0, <1>10 DEF Reject, TypeOK, Request
    <2>3. ~Inserting(t)
      BY <2>1 DEF Orderly, Inserted, Inserting
    <2> QED
      BY <1>a, <1>b, <2>1, <2>2, <2>3, StatusOrderly
  <1>11. ASSUME UNCHANGED <<request, cert, handler, crossed>>
         PROVE  Orderly'
    BY <1>11, QuietOrderly DEF Issued
  <1>12. ASSUME NEW c \in Issued, Revoke(c) \/ Delete(c)
         PROVE  Orderly'
    <2>1. PICK st \in {"revoked", "gone"} : cert' = [cert EXCEPT ![c].status = st]
      BY <1>12 DEF Revoke, Delete
    <2>2. Issued' = Issued /\ \A d \in Issued : cert'[d].txn = cert[d].txn
      BY <2>1, StatusEffect
    <2>3. UNCHANGED <<request, handler, crossed>>
      BY <1>12 DEF Revoke, Delete
    <2> QED
      BY <2>2, <2>3, QuietOrderly
  <1>13. CASE Crash
    <2>1. \A g \in Handlers : handler'[g].pc \notin {"sign", "notify", "approve"}
      BY <1>13, IdleTyped DEF Crash
    <2> QED
      BY <1>13, <2>1, QuietOrderly DEF Crash, Issued
  <1> QED
    BY <1>3, <1>4, <1>5, <1>6, <1>7, <1>8, <1>9, <1>10, <1>11, <1>12, <1>13
       DEF Next, UpdateProfile, DeleteProfile, vars

-----------------------------------------------------------------------------
(* Intune *)

\* Requests that are approved stay so and certificates stay what they are.
LEMMA QuietIntune ==
  ASSUME IntuneAgrees, Issued' = Issued,
         \A c \in Issued : cert'[c].txn = cert[c].txn /\ cert'[c].intune = cert[c].intune,
         notified \subseteq notified',
         faults' = 0 => faults = 0 /\ notified' = notified,
         \A t \in Txns : request[t].status = "approved" => request'[t].status = "approved",
         notified \subseteq Txns
  PROVE  IntuneAgrees'
  BY DEF IntuneAgrees

LEMMA IssueIntune ==
  ASSUME Typed, IntuneAgrees, NEW h \in Busy, Issue(h), Step(h, Idle), UNCHANGED faults,
         \/ ~handler[h].intune /\ UNCHANGED notified
         \/ notified' = notified \cup {handler[h].txn}
  PROVE  IntuneAgrees'
  <1> DEFINE n == Cardinality(Issued) + 1
             x == handler[h]
  <1>0. TypeOK /\ Serving
    BY DEF Typed
  <1>1. /\ n \notin Issued
        /\ Issued' = Issued \cup {n}
        /\ cert'[n].txn = x.txn /\ cert'[n].intune = x.intune
        /\ \A c \in Issued : cert'[c].txn = cert[c].txn /\ cert'[c].intune = cert[c].intune
        /\ request'[x.txn].status = "approved"
        /\ \A t \in Txns \ {x.txn} : request'[t] = request[t]
    BY IssueEffect
  <1>2. notified \subseteq Txns
    BY <1>0 DEF TypeOK
  <1> HIDE DEF n
  <1>3. \A c \in Issued' : cert'[c].intune => cert'[c].txn \in notified'
    BY <1>1 DEF IntuneAgrees
  <1>4. faults' = 0 => \A t \in notified' : request'[t].status = "approved"
    BY <1>1, <1>2 DEF IntuneAgrees
  <1> QED
    BY <1>3, <1>4 DEF IntuneAgrees

LEMMA StepIntune == Typed /\ IntuneAgrees /\ [Next]_vars => IntuneAgrees'
  <1> SUFFICES ASSUME Typed, IntuneAgrees, [Next]_vars PROVE IntuneAgrees'
    OBVIOUS
  <1>0. TypeOK /\ Serving /\ notified \subseteq Txns
    BY DEF Typed, TypeOK
  <1>1. ASSUME UNCHANGED <<request, cert, notified, faults>>
        PROVE  IntuneAgrees'
    BY <1>0, <1>1, QuietIntune DEF Issued
  <1>2. ASSUME NEW h \in Handlers, NEW t \in Txns, NEW c, NEW m,
               Enrolling(h, t, c, m), UNCHANGED <<cert, notified, faults>>
        PROVE  IntuneAgrees'
    <2>1. CASE m = "manual"
      <3>1. /\ request' = [request EXCEPT ![t] = [@ EXCEPT !.status = "pending", !.renews = c]]
            /\ request[t].status = "none"
        BY <1>2, <2>1 DEF Enrolling
      <3>2. \A u \in Txns : request[u].status = "approved" => request'[u].status = "approved"
        BY <1>0, <3>1 DEF TypeOK
      <3> QED
        BY <1>0, <1>2, <3>2, QuietIntune DEF Issued
    <2>2. CASE m # "manual"
      BY <1>1, <1>2, <2>2 DEF Enrolling
    <2> QED
      BY <2>1, <2>2
  <1>3. ASSUME NEW h \in Handlers, NEW t \in Txns, NEW c \in {NoCert} \cup Issued,
               Enrol(h, t, c) \/ Validate(h, t, c)
        PROVE  IntuneAgrees'
    BY <1>1, <1>2, <1>3 DEF Enrol, Validate
  <1>4. ASSUME NEW h \in Handlers, NEW t \in Txns, Approve(h, t)
        PROVE  IntuneAgrees'
    BY <1>1, <1>4 DEF Approve
  <1>5. ASSUME NEW h \in Handlers, Validated(h)
        PROVE  IntuneAgrees'
    <2>1. handler[h].txn \in Txns
      BY <1>0, <1>5 DEF Validated, Serving, Busy
    <2> QED
      BY <1>1, <1>2, <1>5, <2>1 DEF Validated
  <1>6. ASSUME NEW h \in Handlers, NotSigned(h)
        PROVE  IntuneAgrees'
    BY <1>1, <1>6 DEF NotSigned
  <1>7. ASSUME NEW h \in Handlers, NotNotified(h)
        PROVE  IntuneAgrees'
    <2>1. notified \subseteq notified' /\ (faults' = 0 => faults = 0 /\ notified' = notified)
      BY <1>0, <1>7, ScepAssumption DEF NotNotified, Fault, TypeOK
    <2> QED
      BY <1>0, <1>7, <2>1, QuietIntune DEF NotNotified, Issued
  <1>8. ASSUME NEW h \in Handlers, Signed(h)
        PROVE  IntuneAgrees'
    <2>1. CASE ~handler[h].intune
      BY <1>8, <2>1, IssueIntune DEF Signed, Busy
    <2>2. CASE handler[h].intune
      BY <1>1, <1>8, <2>2 DEF Signed
    <2> QED
      BY <2>1, <2>2
  <1>9. ASSUME NEW h \in Handlers, Notified(h)
        PROVE  IntuneAgrees'
    BY <1>9, IssueIntune DEF Notified, Busy
  <1>10. ASSUME NEW h \in Handlers, Approved(h)
         PROVE  IntuneAgrees'
    <2>1. h \in Busy /\ ~handler[h].intune
      BY <1>0, <1>10 DEF Approved, Serving, Busy
    <2> QED
      BY <1>10, <2>1, IssueIntune DEF Approved
  <1>11. ASSUME NEW t \in Txns, Reject(t)
         PROVE  IntuneAgrees'
    <2>1. \A u \in Txns : request[u].status = "approved" => request'[u].status = "approved"
      BY <1>0, <1>11 DEF Reject, TypeOK
    <2> QED
      BY <1>0, <1>11, <2>1, QuietIntune DEF Reject, Issued
  <1>12. ASSUME NEW c \in Issued, Revoke(c) \/ Delete(c)
         PROVE  IntuneAgrees'
    <2>1. PICK st \in {"revoked", "gone"} : cert' = [cert EXCEPT ![c].status = st]
      BY <1>12 DEF Revoke, Delete
    <2>2. Issued' = Issued /\ \A d \in Issued : cert'[d].txn = cert[d].txn /\ cert'[d].intune = cert[d].intune
      BY <2>1, StatusEffect
    <2> QED
      BY <1>0, <1>12, <2>2, QuietIntune DEF Revoke, Delete
  <1>13. CASE Crash
    <2>1. notified \subseteq notified' /\ faults' # 0
      BY <1>0, <1>13, ScepAssumption DEF Crash, Fault, TypeOK
    <2> QED
      BY <1>0, <1>13, <2>1, QuietIntune DEF Crash, Issued
  <1> QED
    BY <1>1, <1>3, <1>4, <1>5, <1>6, <1>7, <1>8, <1>9, <1>10, <1>11, <1>12, <1>13
       DEF Next, UpdateProfile, DeleteProfile, vars

-----------------------------------------------------------------------------
(* The answer to the device *)

\* Nobody touches a row that is decided, unless it was crossed.
LEMMA RowKept ==
  ASSUME Typed, Orderly, [Next]_vars, NEW t \in Txns \ crossed,
         request[t].status \in {"approved", "rejected"}
  PROVE  request'[t] = request[t]
  <1>0. TypeOK /\ Serving /\ Inserted /\ Approval
    BY DEF Typed, Orderly
  <1>1. ASSUME NEW h \in Handlers, handler[h].pc \in {"sign", "notify", "approve"}, Issue(h), Step(h, Idle)
        PROVE  request'[t] = request[t]
    <2>1. h \in Busy
      BY <1>1 DEF Busy
    <2>2. handler[h].txn # t
      BY <1>0, <1>1 DEF Inserted, Approval
    <2> QED
      BY <1>1, <2>1, <2>2, IssueEffect
  <1>2. ASSUME NEW h \in Handlers, NEW u \in Txns, NEW c, NEW m, Enrolling(h, u, c, m)
        PROVE  request'[t] = request[t]
    <2>1. u # t
      BY <1>2 DEF Enrolling
    <2> QED
      BY <1>0, <1>2, <2>1 DEF Enrolling, TypeOK
  <1>3. ASSUME NEW h \in Handlers, NEW u \in Txns, NEW c \in {NoCert} \cup Issued,
               Enrol(h, u, c) \/ Validate(h, u, c) \/ Approve(h, u)
        PROVE  request'[t] = request[t]
    BY <1>2, <1>3 DEF Enrol, Validate, Approve
  <1>4. ASSUME NEW h \in Handlers, Validated(h)
        PROVE  request'[t] = request[t]
    <2>1. handler[h].txn \in Txns
      BY <1>0, <1>4 DEF Validated, Serving, Busy
    <2> QED
      BY <1>2, <1>4, <2>1 DEF Validated
  <1>5. ASSUME NEW h \in Handlers, Signed(h) \/ Notified(h) \/ Approved(h)
        PROVE  request'[t] = request[t]
    BY <1>1, <1>5 DEF Signed, Notified, Approved
  <1>6. ASSUME NEW u \in Txns, Reject(u)
        PROVE  request'[t] = request[t]
    <2>1. u # t
      BY <1>6 DEF Reject
    <2> QED
      BY <1>0, <1>6, <2>1 DEF Reject, TypeOK
  <1>7. ASSUME NEW h \in Handlers, NEW u \in Txns, Approve(h, u)
        PROVE  request'[t] = request[t]
    BY <1>7 DEF Approve
  <1> QED
    BY <1>3, <1>4, <1>5, <1>6, <1>7
       DEF Next, NotSigned, NotNotified, UpdateProfile, DeleteProfile, Revoke, Delete, Crash, vars

LEMMA StepAnswer ==
  ASSUME Typed, Orderly, [Next]_vars, NEW t \in Txns \ crossed, Answer(t).kind # "pending"
  PROVE  Answer(t)' = Answer(t) \/ (request[t].cert # NoCert /\ cert'[request[t].cert].status = "gone")
  <1>1. CASE request[t].status = "rejected"
    <2>1. request'[t] = request[t]
      BY <1>1, RowKept
    <2> QED
      BY <1>1, <2>1 DEF Answer
  <1>2. CASE request[t].status # "rejected"
    <2>1. request[t].status = "approved" /\ request[t].cert # NoCert /\ cert[request[t].cert].status # "gone"
      BY <1>2 DEF Answer
    <2>2. request'[t] = request[t]
      BY <2>1, RowKept
    <2> QED
      BY <2>1, <2>2 DEF Answer
  <1> QED
    BY <1>1, <1>2

-----------------------------------------------------------------------------
(* The theorems *)

LEMMA InitScep == Init => ScepInv
  <1> SUFFICES ASSUME Init PROVE ScepInv
    OBVIOUS
  <1>1. Issued = {} /\ \A h \in Handlers : handler[h].pc = "idle"
    BY DEF Init, Issued, Idle
  <1>2. Claimed /\ Inserted /\ Approval
    BY <1>1 DEF Claimed, Inserted, Approval
  <1>3. Decided /\ RenewedOnce /\ OneCertificate
    BY <1>1 DEF Decided, RenewedOnce, OneCertificate
  <1>4. IntuneAgrees
    BY <1>1 DEF IntuneAgrees, Init
  <1> QED
    BY <1>2, <1>3, <1>4, InitTyped DEF ScepInv, Orderly

LEMMA StepScep == ScepInv /\ [Next]_vars => ScepInv'
  BY StepTyped, StepClaimed, StepOrderly, StepIntune DEF ScepInv

\* The inductive invariant holds of every reachable state of enrolment: who inserts, approves or
\* claims what in scep_service.py.
THEOREM ScepInvariant == Spec => []ScepInv
  BY InitScep, StepScep, PTL DEF Spec

\* However many transactions and approvals ask to renew a certificate at a time, one of them
\* gets the new one and the old one is archived: the conditional update of _claim_superseded,
\* for every number of handlers.
THEOREM RenewalsAreExclusive == Spec => []RenewedOnce
  <1>1. ScepInv => RenewedOnce
    BY DEF ScepInv
  <1> QED
    BY <1>1, ScepInvariant, PTL

\* A transaction yields one certificate, whoever retries, polls, refuses or approves it, unless
\* it was decided while an approval of it was waiting for the logs: the unique transaction id of
\* SCEPRequest and the pending check of approve_scep_request.
THEOREM TransactionsIssueOnce == Spec => []OneCertificate
  <1>1. ScepInv => OneCertificate
    BY DEF ScepInv, Orderly
  <1> QED
    BY <1>1, ScepInvariant, PTL

\* What goes out through Intune was told to Intune first and, as long as nothing failed in
\* between, what Intune was told is issued: the order of _auto_approve_request.
THEOREM IntuneIsTold == Spec => []IntuneAgrees
  <1>1. ScepInv => IntuneAgrees
    BY DEF ScepInv
  <1> QED
    BY <1>1, ScepInvariant, PTL

\* A device that could be told success or failure is told the same from then on, unless its
\* request was decided while an approval of it waited or its certificate is deleted:
\* _status_for_existing and _handle_get_cert_initial read a row nobody rewrites.
THEOREM AnswersStay == Spec => AnswerIsFinal
  <1> DEFINE Kept == \A t \in Txns \ crossed : Answer(t).kind # "pending" =>
                        Answer(t)' = Answer(t) \/ (request[t].cert # NoCert /\ cert'[request[t].cert].status = "gone")
  <1>1. ScepInv /\ [Next]_vars => [Kept]_vars
    BY StepAnswer DEF ScepInv
  <1>2. []ScepInv /\ [][Next]_vars => [][Kept]_vars
    BY <1>1, PTL
  <1> QED
    BY <1>2, ScepInvariant, PTL DEF Spec, AnswerIsFinal
=============================================================================
