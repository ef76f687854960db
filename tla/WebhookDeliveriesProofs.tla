----------------------- MODULE WebhookDeliveriesProofs -----------------------
(***************************************************************************)
(* The types of the delivery queue, what a lease protects and exactly-once *)
(* delivery up to faults, redeliveries and takeovers, for every number of  *)
(* rows, senders and endpoints and for batches of any length.              *)
(***************************************************************************)
EXTENDS WebhookDeliveries, FiniteSetTheorems, TLAPS

LEMMA BackoffTyped == \A n \in Nat : Backoff(n) \in Int
  <1> SUFFICES ASSUME NEW n \in Nat PROVE Backoff(n) \in Int
    OBVIOUS
  <1> DEFINE e == IF n > 1 THEN n - 1 ELSE 0
  <1>1. e \in Nat
    OBVIOUS
  <1>2. 2^e \in Int
    BY <1>1, SMT
  <1>3. BackoffBase * 2^e \in Int /\ BackoffCap \in Int
    BY <1>2, DeliveryAssumption
  <1> QED
    BY <1>3 DEF Backoff

LEMMA SetTyped ==
  ASSUME TypeOK, NEW d \in Deliveries, NEW attempts \in Nat, NEW due \in Int,
         NEW status \in {"pending", "delivered", "failed", "unused", "deleted"},
         Set(d, status, attempts, due)
  PROVE  delivery' \in [Deliveries -> Delivery]
  BY DEF TypeOK, Set, Delivery, Settled

LEMMA WorkTyped ==
  ASSUME TypeOK, NEW s \in Senders, NEW d \in Deliveries, NEW attempts \in Nat,
         NEW ok \in BOOLEAN, NEW pc \in {"post", "record"}, Work(s, pc, d, attempts, ok)
  PROVE  sender' \in [Senders -> Sender]
  <1>1. [pc |-> pc, age |-> sender[s].age, batch |-> sender[s].batch \ {d}, row |-> d,
         attempts |-> attempts, ok |-> ok] \in Sender
    BY DEF TypeOK, Sender
  <1> QED
    BY <1>1 DEF TypeOK, Work

LEMMA IdleTyped == Idle \in Sender
  BY DeliveryAssumption DEF Idle, Sender

LEMMA AbortTyped ==
  ASSUME TypeOK, NEW s \in Senders, Abort(s)
  PROVE  sender' \in [Senders -> Sender]
  BY IdleTyped DEF TypeOK, Abort

LEMMA ResumeTyped ==
  ASSUME TypeOK, NEW s \in Senders, Resume(s)
  PROVE  sender' \in [Senders -> Sender]
  <1>1. [pc |-> "batch", age |-> sender[s].age, batch |-> sender[s].batch,
         row |-> NoDelivery, attempts |-> 0, ok |-> FALSE] \in Sender
    BY DEF TypeOK, Sender
  <1> QED
    BY <1>1 DEF TypeOK, Resume

LEMMA SkipTyped ==
  ASSUME TypeOK, NEW s \in Senders, NEW d \in Deliveries, Skip(s, d)
  PROVE  sender' \in [Senders -> Sender]
  BY DEF TypeOK, Skip, Sender

LEMMA OverlapTyped ==
  ASSUME TypeOK, NEW d \in Deliveries, Overlap(d)
  PROVE  takeovers' \in Nat /\ contested' \subseteq Deliveries
  BY DEF TypeOK, Overlap

LEMMA FaultTyped == TypeOK /\ Fault => faults' \in 0..MaxFaults
  BY DeliveryAssumption DEF TypeOK, Fault

LEMMA DeletedTyped == Deleted \in Delivery
  BY DEF Deleted, Delivery

LEMMA BeginTyped ==
  ASSUME TypeOK, NEW s \in Senders, NEW batch \in SUBSET Deliveries, Begin(s, batch)
  PROVE  sender' \in [Senders -> Sender]
  <1>1. [pc |-> "batch", age |-> 0, batch |-> batch,
         row |-> NoDelivery, attempts |-> 0, ok |-> FALSE] \in Sender
    BY DeliveryAssumption DEF Sender
  <1> QED
    BY <1>1 DEF TypeOK, Begin

\* TypeOK alone is not inductive: a sender that posts or records must hold a row.
RowHeld == \A s \in Senders : InFlight(s) => sender[s].row \in Deliveries

Typed == TypeOK /\ RowHeld

LEMMA OutcomeTyped ==
  ASSUME Typed, NEW s \in Senders, InFlight(s), Outcome(s)
  PROVE  delivery' \in [Deliveries -> Delivery]
  <1> DEFINE d == sender[s].row
  <1>1. /\ d \in Deliveries
        /\ sender[s].attempts \in Nat
        /\ sender[s].age \in Int
        /\ delivery[d].attempts \in Nat
        /\ delivery[d].status \in {"pending", "delivered", "failed", "unused", "deleted"}
    BY DeliveryAssumption DEF Typed, TypeOK, RowHeld, Sender, Delivery, Settled
  <1>2. Backoff(sender[s].attempts) - sender[s].age \in Int
    BY <1>1, BackoffTyped
  <1> QED
    BY <1>1, <1>2, SetTyped DEF Outcome, Typed

LEMMA ContinueTyped ==
  ASSUME Typed, NEW s \in Senders, Continue(s)
  PROVE  Typed'
  <1> USE DeliveryAssumption
  <1>0. TypeOK /\ RowHeld
    BY DEF Typed
  <1>1. ASSUME NEW d \in Deliveries, Claim(s, d) PROVE Typed'
    <2>1. delivery[d].attempts + 1 \in Nat /\ Lease - sender[s].age \in Int
      BY <1>0 DEF TypeOK, Delivery, Sender
    <2>2. delivery' \in [Deliveries -> Delivery]
      BY <1>0, <1>1, <2>1, SetTyped DEF Claim
    <2>3. sender' \in [Senders -> Sender]
      BY <1>0, <1>1, <2>1, WorkTyped DEF Claim
    <2>4. RowHeld'
      BY <1>0, <1>1 DEF Claim, Work, RowHeld, InFlight, TypeOK
    <2> QED
      BY <1>0, <1>1, <2>2, <2>3, <2>4, OverlapTyped DEF Claim, Typed, TypeOK
  <1>2. ASSUME NEW d \in Deliveries, NotClaimed(s, d) PROVE Typed'
    <2>1. sender' \in [Senders -> Sender]
      BY <1>0, <1>2, SkipTyped, AbortTyped DEF NotClaimed
    <2>2. RowHeld'
      BY <1>0, <1>2 DEF NotClaimed, Skip, Abort, Idle, RowHeld, InFlight, TypeOK, Sender
    <2> QED
      BY <1>0, <1>2, <2>1, <2>2 DEF NotClaimed, Typed, TypeOK
  <1>3. ASSUME Abort(s), UNCHANGED <<delivery, endpoint, purge, accepted, faults, requeues, takeovers, contested>>
        PROVE  Typed'
    <2>1. sender' \in [Senders -> Sender]
      BY <1>0, <1>3, AbortTyped
    <2>2. RowHeld'
      BY <1>0, <1>3 DEF Abort, Idle, RowHeld, InFlight, TypeOK
    <2> QED
      BY <1>0, <1>3, <2>1, <2>2 DEF Typed, TypeOK
  <1>4. CASE EndBatch(s)
    BY <1>3, <1>4 DEF EndBatch
  <1>5. CASE RowVanished(s)
    BY <1>3, <1>5 DEF RowVanished
  <1>6. ASSUME Resume(s), delivery' \in [Deliveries -> Delivery], UNCHANGED faults \/ Fault,
               UNCHANGED <<endpoint, purge, accepted, requeues, takeovers, contested>>
        PROVE  Typed'
    <2>1. sender' \in [Senders -> Sender]
      BY <1>0, <1>6, ResumeTyped
    <2>2. RowHeld'
      BY <1>0, <1>6 DEF Resume, RowHeld, InFlight, TypeOK
    <2>3. faults' \in 0..MaxFaults
      BY <1>0, <1>6, FaultTyped DEF TypeOK
    <2> QED
      BY <1>0, <1>6, <2>1, <2>2, <2>3 DEF Typed, TypeOK
  <1>7. CASE NoTarget(s)
    <2>1. sender[s].row \in Deliveries /\ delivery[sender[s].row].attempts \in Nat
      BY <1>0, <1>7 DEF NoTarget, RowHeld, InFlight, TypeOK, Delivery
    <2>2. delivery' \in [Deliveries -> Delivery]
      BY <1>0, <1>7, <2>1, SetTyped DEF NoTarget, TypeOK
    <2> QED
      BY <1>6, <1>7, <2>2 DEF NoTarget
  <1>8. CASE PerformDelivery(s)
    <2> DEFINE d == sender[s].row
    <2>1. d \in Deliveries /\ sender[s].attempts \in Nat
      BY <1>0, <1>8 DEF PerformDelivery, RowHeld, InFlight, TypeOK, Sender
    <2>2. PICK ok \in BOOLEAN : Work(s, "record", d, sender[s].attempts, ok)
      BY <1>8 DEF PerformDelivery
    <2>3. sender' \in [Senders -> Sender]
      BY <1>0, <2>1, <2>2, WorkTyped
    <2>4. RowHeld'
      BY <1>0, <2>1, <2>2 DEF Work, RowHeld, InFlight, TypeOK
    <2>a. accepted' = [accepted EXCEPT ![d] = accepted[d] + 1] \/ accepted' = accepted
      BY <1>8, Zenon DEF PerformDelivery
    <2>5. accepted' \in [Deliveries -> Nat]
      BY <1>0, <2>1, <2>a DEF TypeOK
    <2>6. faults' \in 0..MaxFaults
      BY <1>0, <1>8, FaultTyped DEF PerformDelivery, TypeOK
    <2> QED
      BY <1>0, <1>8, <2>3, <2>4, <2>5, <2>6 DEF PerformDelivery, Typed, TypeOK
  <1>9. CASE Record(s)
    <2>1. delivery' \in [Deliveries -> Delivery]
      BY <1>0, <1>9, OutcomeTyped DEF Record, InFlight, Typed, TypeOK
    <2> QED
      BY <1>6, <1>9, <2>1 DEF Record
  <1> QED
    BY <1>1, <1>2, <1>4, <1>5, <1>7, <1>8, <1>9 DEF Continue

LEMMA TickTyped ==
  ASSUME Typed, Tick
  PROVE  Typed'
  <1> USE DeliveryAssumption
  <1>1. sender' \in [Senders -> Sender]
    BY DEF Tick, Typed, TypeOK, Sender
  <1>2. delivery' \in [Deliveries -> Delivery]
    BY DEF Tick, Typed, TypeOK, Delivery, Pending
  <1>3. RowHeld'
    BY DEF Tick, Typed, TypeOK, RowHeld, InFlight, Sender
  <1> QED
    BY <1>1, <1>2, <1>3 DEF Tick, Typed, TypeOK

LEMMA StepTyped == Typed /\ [Next]_vars => Typed'
  <1> SUFFICES ASSUME Typed, [Next]_vars PROVE Typed'
    OBVIOUS
  <1> USE DeliveryAssumption
  <1>0. TypeOK /\ RowHeld
    BY DEF Typed
  <1>a. ASSUME UNCHANGED sender PROVE RowHeld'
    BY <1>0, <1>a DEF RowHeld, InFlight
  <1>1. ASSUME NEW d \in Deliveries, NEW e \in Endpoints, Enqueue(d, e) PROVE Typed'
    <2>1. delivery' \in [Deliveries -> Delivery]
      BY <1>0, <1>1 DEF Enqueue, TypeOK, Delivery
    <2> QED
      BY <1>0, <1>1, <1>a, <2>1 DEF Enqueue, Typed, TypeOK
  <1>2. ASSUME NEW e \in Endpoints, ToggleWebhook(e) PROVE Typed'
    BY <1>0, <1>2, <1>a DEF ToggleWebhook, Typed, TypeOK
  <1>3. ASSUME NEW e \in Endpoints, DeleteWebhook(e) PROVE Typed'
    BY <1>0, <1>3, <1>a, DeletedTyped DEF DeleteWebhook, Typed, TypeOK
  <1>4. ASSUME NEW d \in Deliveries, RetryDelivery(d) PROVE Typed'
    <2>1. delivery' \in [Deliveries -> Delivery]
      BY <1>0, <1>4, SetTyped DEF RetryDelivery
    <2> QED
      BY <1>0, <1>4, <1>a, <2>1 DEF RetryDelivery, Typed, TypeOK
  <1>5. ASSUME NEW ids \in SUBSET Deliveries, SelectHistory(ids) PROVE Typed'
    BY <1>0, <1>5, <1>a DEF SelectHistory, Typed, TypeOK
  <1>6. CASE DeleteHistory
    BY <1>0, <1>6, <1>a, DeletedTyped DEF DeleteHistory, Typed, TypeOK
  <1>7. ASSUME NEW s \in Senders, StartBatch(s) PROVE Typed'
    <2>1. PICK batch \in SUBSET Due : Begin(s, batch)
      BY <1>7 DEF StartBatch
    <2>2. sender' \in [Senders -> Sender]
      BY <1>0, <2>1, BeginTyped DEF Due
    <2>3. RowHeld'
      BY <1>0, <2>1 DEF Begin, RowHeld, InFlight, TypeOK
    <2> QED
      BY <1>0, <1>7, <2>2, <2>3 DEF StartBatch, Typed, TypeOK
  <1>8. ASSUME NEW s \in Senders, Continue(s) PROVE Typed'
    BY <1>8, ContinueTyped
  <1>9. CASE Tick
    BY <1>9, TickTyped
  <1>10. ASSUME NEW dead \in SUBSET Senders, Crash(dead) PROVE Typed'
    <2>1. sender' \in [Senders -> Sender]
      BY <1>0, <1>10, IdleTyped DEF Crash, TypeOK
    <2>2. RowHeld'
      BY <1>0, <1>10 DEF Crash, Idle, RowHeld, InFlight, TypeOK
    <2> QED
      BY <1>0, <1>10, <2>1, <2>2, FaultTyped DEF Crash, Typed, TypeOK
  <1>11. CASE UNCHANGED vars
    BY <1>0, <1>11, <1>a DEF vars, Typed, TypeOK
  <1> QED
    BY <1>1, <1>2, <1>3, <1>4, <1>5, <1>6, <1>7, <1>8, <1>9, <1>10, <1>11 DEF Next

LEMMA TypedAlways == Spec => []Typed
  <1>1. Init => Typed
    BY DeliveryAssumption, IdleTyped
    DEF Init, Typed, TypeOK, RowHeld, InFlight, Idle, Unused, Delivery
  <1> QED
    BY <1>1, StepTyped, PTL DEF Spec

\* The tables, the senders and the counters keep their types, whatever the
\* order of claims, posts, deletions and crashes.
THEOREM QueueTyped == Spec => []TypeOK
  <1>1. Typed => TypeOK
    BY DEF Typed
  <1> QED
    BY <1>1, TypedAlways, PTL

-----------------------------------------------------------------------------
(* What a lease protects *)

\* A step of anyone but the senders: what is in hand stays as it is or is deleted, or it is
\* put back by hand and contested from then on.
LEMMA BystanderKeepsLeases ==
  ASSUME TypeOK, LeaseInv, UNCHANGED <<sender, accepted>>, contested \subseteq contested',
         \A d \in Deliveries :
            \/ delivery'[d] = delivery[d]
            \/ delivery'[d].status = "deleted"
            \/ delivery'[d].status = "pending" /\ (Held(d) => d \in contested')
  PROVE  LeaseInv'
  <1>0. OneSender /\ Leased /\ DeliveredAccepted
    BY DEF LeaseInv
  <1>1. OneSender'
    BY <1>0 DEF OneSender, InFlight
  <1>2. Leased'
    BY <1>0 DEF Leased, InFlight, Pending, Held
  <1>3. DeliveredAccepted'
    BY <1>0 DEF DeliveredAccepted
  <1> QED
    BY <1>1, <1>2, <1>3 DEF LeaseInv

LEMMA ClaimKeepsLeases ==
  ASSUME Typed, LeaseInv, NEW s \in Senders, NEW d \in Deliveries, Claim(s, d)
  PROVE  LeaseInv'
  <1>0. TypeOK /\ OneSender /\ Leased /\ DeliveredAccepted /\ ~InFlight(s)
    BY DEF Typed, LeaseInv, Claim, InFlight
  <1>1. contested \subseteq contested' /\ (Held(d) => d \in contested')
    BY DEF Claim, Overlap
  <1>2. /\ delivery'[d].status = "pending" /\ delivery'[d].due = Lease - sender[s].age
        /\ \A r \in Deliveries \ {d} : delivery'[r] = delivery[r]
    BY <1>0 DEF Claim, Set, TypeOK
  <1>3. /\ sender'[s].pc = "post" /\ sender'[s].row = d /\ sender'[s].age = sender[s].age
        /\ \A t \in Senders \ {s} : sender'[t] = sender[t]
    BY <1>0 DEF Claim, Work, TypeOK
  <1>4. UNCHANGED accepted
    BY DEF Claim
  <1>5. OneSender'
    BY <1>0, <1>1, <1>3 DEF OneSender, InFlight, Held
  <1>6. Leased'
    BY <1>0, <1>1, <1>2, <1>3 DEF Leased, InFlight, Pending, Held
  <1>7. DeliveredAccepted'
    BY <1>0, <1>2, <1>3, <1>4 DEF DeliveredAccepted
  <1> QED
    BY <1>5, <1>6, <1>7 DEF LeaseInv

\* Senders may drop their rows, and nothing is written.
LEMMA DroppingKeepsLeases ==
  ASSUME TypeOK, LeaseInv, UNCHANGED <<delivery, accepted, contested>>,
         \A s \in Senders : sender'[s] = sender[s] \/ sender'[s].pc \notin {"post", "record"}
  PROVE  LeaseInv'
  <1>0. OneSender /\ Leased /\ DeliveredAccepted
    BY DEF LeaseInv
  <1>1. OneSender'
    BY <1>0 DEF OneSender, InFlight
  <1>2. Leased'
    BY <1>0 DEF Leased, InFlight, Pending
  <1>3. DeliveredAccepted'
    BY <1>0 DEF DeliveredAccepted
  <1> QED
    BY <1>1, <1>2, <1>3 DEF LeaseInv

\* A sender writes the outcome of its row and has no row in hand any more.
LEMMA SettlingKeepsLeases ==
  ASSUME Typed, LeaseInv, UNCHANGED <<accepted, contested>>,
         NEW s \in Senders, InFlight(s), NEW d \in Deliveries, d = sender[s].row, Resume(s),
         \A r \in Deliveries \ {d} : delivery'[r] = delivery[r],
         \/ delivery'[d].status = delivery[d].status
         \/ delivery'[d].status = "delivered" /\ sender[s].pc = "record" /\ sender[s].ok
         \/ delivery'[d].status = "failed"
  PROVE  LeaseInv'
  <1>0. TypeOK /\ OneSender /\ Leased /\ DeliveredAccepted
    BY DEF Typed, LeaseInv
  <1>1. \A t \in Senders \ {s} : InFlight(t) => sender[t].row # d \/ d \in contested
    BY <1>0 DEF OneSender
  <1>2. /\ sender'[s].pc = "batch"
        /\ \A t \in Senders \ {s} : sender'[t] = sender[t]
    BY <1>0 DEF Resume, TypeOK
  <1>3. OneSender'
    BY <1>0, <1>2 DEF OneSender, InFlight
  <1>4. Leased'
    BY <1>0, <1>1, <1>2 DEF Leased, InFlight, Pending
  <1>5. DeliveredAccepted'
    BY <1>0, <1>2 DEF DeliveredAccepted
  <1> QED
    BY <1>3, <1>4, <1>5 DEF LeaseInv

LEMMA PostKeepsLeases ==
  ASSUME Typed, LeaseInv, NEW s \in Senders, PerformDelivery(s)
  PROVE  LeaseInv'
  <1> DEFINE d == sender[s].row
  <1>0. /\ TypeOK /\ OneSender /\ Leased /\ DeliveredAccepted
        /\ InFlight(s) /\ sender[s].pc = "post" /\ d \in Deliveries
        /\ UNCHANGED <<delivery, contested>>
    BY DEF Typed, LeaseInv, PerformDelivery, InFlight, Leased
  <1>a. ASSUME NEW ok \in BOOLEAN, Work(s, "record", d, sender[s].attempts, ok)
        PROVE  /\ sender'[s].pc = "record" /\ sender'[s].row = d
               /\ sender'[s].age = sender[s].age /\ sender'[s].ok = ok
               /\ \A t \in Senders \ {s} : sender'[t] = sender[t]
    BY <1>0, <1>a DEF Work, TypeOK
  <1>b. \A r \in Deliveries \ {d} : accepted'[r] = accepted[r]
    BY <1>0 DEF PerformDelivery, TypeOK
  <1>4. /\ sender'[s].pc = "record" /\ sender'[s].row = d
        /\ sender'[s].age = sender[s].age
        /\ \A t \in Senders \ {s} : sender'[t] = sender[t]
    BY <1>a DEF PerformDelivery
  <1>5. accepted'[d] = accepted[d] + 1 \/ (accepted'[d] = accepted[d] /\ ~sender'[s].ok)
    BY <1>0, <1>a DEF PerformDelivery, TypeOK
  <1>6. OneSender'
    BY <1>0, <1>4 DEF OneSender, InFlight
  <1>7. Leased'
    BY <1>0, <1>4 DEF Leased, InFlight, Pending
  <1>8. DeliveredAccepted'
    <2>1. \A r \in Deliveries : accepted[r] \in Nat /\ (accepted[r] > 0 => accepted'[r] > 0)
      BY <1>0, <1>5, <1>b DEF TypeOK
    <2>2. sender'[s].ok => accepted'[d] > 0
      BY <1>0, <1>5, <2>1
    <2>3. \A t \in Senders : sender[t].pc = "record" => sender[t].row \in Deliveries
      BY <1>0 DEF Leased, InFlight
    <2> QED
      BY <1>0, <1>4, <2>1, <2>2, <2>3 DEF DeliveredAccepted
  <1> QED
    BY <1>6, <1>7, <1>8 DEF LeaseInv

\* What a sender writes about its row, or the commit that fails.
LEMMA OutcomeKeepsLeases ==
  ASSUME Typed, LeaseInv, NEW s \in Senders, NoTarget(s) \/ Record(s)
  PROVE  LeaseInv'
  <1>r. PICK d \in Deliveries : d = sender[s].row
    BY DEF Typed, RowHeld, NoTarget, Record, InFlight
  <1>0. /\ TypeOK /\ InFlight(s) /\ sender[s].row = d /\ Resume(s)
        /\ UNCHANGED <<accepted, contested>>
    BY <1>r DEF Typed, NoTarget, Record, InFlight
  <1>1. CASE UNCHANGED delivery
    <2>1. \A t \in Senders : sender'[t] = sender[t] \/ sender'[t].pc \notin {"post", "record"}
      BY <1>0 DEF Resume, TypeOK
    <2> QED
      BY <1>0, <1>1, <2>1, DroppingKeepsLeases
  <1>2. CASE NoTarget(s) /\ Set(d, "failed", delivery[d].attempts, 0)
    <2>1. delivery'[d].status = "failed" /\ \A r \in Deliveries \ {d} : delivery'[r] = delivery[r]
      BY <1>0, <1>2 DEF Set, TypeOK
    <2> QED
      BY <1>0, <2>1, SettlingKeepsLeases
  <1>3. CASE Record(s) /\ Outcome(s)
    <2>1. \A r \in Deliveries \ {d} : delivery'[r] = delivery[r]
      BY <1>0, <1>3 DEF Outcome, Set, TypeOK
    <2>2. \/ delivery'[d].status = delivery[d].status
          \/ delivery'[d].status = "delivered" /\ sender[s].ok
          \/ delivery'[d].status = "failed"
      BY <1>0, <1>3 DEF Outcome, Set, TypeOK
    <2> QED
      BY <1>0, <1>3, <2>1, <2>2, SettlingKeepsLeases DEF Record
  <1> QED
    BY <1>0, <1>1, <1>2, <1>3 DEF NoTarget, Record

\* Time runs alike for a lease and for the sender that holds it.
LEMMA TickKeepsLeases ==
  ASSUME Typed, LeaseInv, Tick
  PROVE  LeaseInv'
  <1>0. /\ TypeOK /\ OneSender /\ Leased /\ DeliveredAccepted
        /\ UNCHANGED <<accepted, contested>>
    BY DEF Typed, LeaseInv, Tick
  <1>1. \A s \in Senders :
          /\ sender'[s].pc = sender[s].pc /\ sender'[s].row = sender[s].row
          /\ sender'[s].ok = sender[s].ok
          /\ InFlight(s) => sender'[s].age = sender[s].age + 1
    BY <1>0 DEF Tick, TypeOK, Sender, InFlight
  <1>2. \A d \in Deliveries :
          /\ delivery'[d].status = delivery[d].status
          /\ Pending(d) /\ delivery[d].due > -MaxAge => delivery'[d].due = delivery[d].due - 1
    BY <1>0 DEF Tick, TypeOK, Delivery
  <1>3. OneSender'
    BY <1>0, <1>1 DEF OneSender, InFlight
  <1>4. Leased'
    <2> SUFFICES ASSUME NEW s \in Senders, InFlight(s)', sender[s].row \notin contested,
                        Pending(sender[s].row)
                 PROVE  delivery'[sender'[s].row].due = Lease - sender'[s].age
      BY <1>0, <1>1, <1>2 DEF Leased, InFlight, Pending
    <2>1. InFlight(s) /\ sender[s].row \in Deliveries
      BY <1>0, <1>1 DEF InFlight, Leased
    <2>2. delivery[sender[s].row].due = Lease - sender[s].age
      BY <1>0, <2>1 DEF Leased, Pending
    <2>3. sender[s].age \in 0..MaxAge /\ Lease \in Nat \ {0} /\ MaxAge \in Nat
      BY <1>0, DeliveryAssumption DEF TypeOK, Sender
    <2> QED
      BY <1>1, <1>2, <2>1, <2>2, <2>3
  <1>5. DeliveredAccepted'
    BY <1>0, <1>1, <1>2 DEF DeliveredAccepted
  <1> QED
    BY <1>3, <1>4, <1>5 DEF LeaseInv

LEMMA StepKeepsLeases == Typed /\ LeaseInv /\ [Next]_vars => LeaseInv'
  <1> SUFFICES ASSUME Typed, LeaseInv, [Next]_vars PROVE LeaseInv'
    OBVIOUS
  <1>0. TypeOK /\ Leased
    BY DEF Typed, LeaseInv
  <1>1. ASSUME NEW d \in Deliveries, NEW e \in Endpoints, Enqueue(d, e) PROVE LeaseInv'
    <2>1. /\ delivery[d].status = "unused" /\ delivery'[d].status = "pending"
          /\ \A r \in Deliveries \ {d} : delivery'[r] = delivery[r]
      BY <1>0, <1>1 DEF Enqueue, TypeOK
    <2>2. Held(d) => d \in contested
      BY <1>0, <2>1 DEF Held, Leased, Pending
    <2> QED
      BY <1>0, <1>1, <2>1, <2>2, BystanderKeepsLeases DEF Enqueue
  <1>2. ASSUME NEW e \in Endpoints, ToggleWebhook(e) PROVE LeaseInv'
    BY <1>0, <1>2, BystanderKeepsLeases DEF ToggleWebhook
  <1>3. ASSUME NEW e \in Endpoints, DeleteWebhook(e) PROVE LeaseInv'
    <2>1. \A r \in Deliveries : delivery'[r] = delivery[r] \/ delivery'[r].status = "deleted"
      BY <1>0, <1>3 DEF DeleteWebhook, Deleted, TypeOK
    <2> QED
      BY <1>0, <1>3, <2>1, BystanderKeepsLeases DEF DeleteWebhook
  <1>4. ASSUME NEW d \in Deliveries, RetryDelivery(d) PROVE LeaseInv'
    <2>1. delivery'[d].status = "pending" /\ \A r \in Deliveries \ {d} : delivery'[r] = delivery[r]
      BY <1>0, <1>4 DEF RetryDelivery, Set, TypeOK
    <2>2. contested \subseteq contested' /\ (Held(d) => d \in contested')
      BY <1>4 DEF RetryDelivery
    <2> QED
      BY <1>0, <1>4, <2>1, <2>2, BystanderKeepsLeases DEF RetryDelivery
  <1>5. ASSUME NEW ids \in SUBSET Deliveries, SelectHistory(ids) PROVE LeaseInv'
    BY <1>0, <1>5, BystanderKeepsLeases DEF SelectHistory
  <1>6. CASE DeleteHistory
    <2>1. \A r \in Deliveries : delivery'[r] = delivery[r] \/ delivery'[r].status = "deleted"
      BY <1>0, <1>6 DEF DeleteHistory, Deleted, TypeOK
    <2> QED
      BY <1>0, <1>6, <2>1, BystanderKeepsLeases DEF DeleteHistory
  <1>7. ASSUME NEW s \in Senders, StartBatch(s) PROVE LeaseInv'
    <2>1. \A t \in Senders : sender'[t] = sender[t] \/ sender'[t].pc \notin {"post", "record"}
      BY <1>0, <1>7 DEF StartBatch, Begin, TypeOK
    <2> QED
      BY <1>0, <1>7, <2>1, DroppingKeepsLeases DEF StartBatch
  <1>8. ASSUME NEW s \in Senders, Continue(s) PROVE LeaseInv'
    <2>1. ASSUME NEW d \in Deliveries, NotClaimed(s, d) PROVE LeaseInv'
      <3>1. \A t \in Senders : sender'[t] = sender[t] \/ sender'[t].pc \notin {"post", "record"}
        BY <1>0, <2>1 DEF NotClaimed, Skip, Abort, Idle, TypeOK, Sender
      <3> QED
        BY <1>0, <2>1, <3>1, DroppingKeepsLeases DEF NotClaimed
    <2>2. CASE EndBatch(s) \/ RowVanished(s)
      <3>1. \A t \in Senders : sender'[t] = sender[t] \/ sender'[t].pc \notin {"post", "record"}
        BY <1>0, <2>2 DEF EndBatch, RowVanished, Abort, Idle, TypeOK
      <3> QED
        BY <1>0, <2>2, <3>1, DroppingKeepsLeases DEF EndBatch, RowVanished
    <2> QED
      BY <1>8, <2>1, <2>2, ClaimKeepsLeases, PostKeepsLeases, OutcomeKeepsLeases DEF Continue
  <1>9. CASE Tick
    BY <1>9, TickKeepsLeases
  <1>10. ASSUME NEW dead \in SUBSET Senders, Crash(dead) PROVE LeaseInv'
    <2>1. \A s \in Senders : sender'[s] = sender[s] \/ sender'[s].pc \notin {"post", "record"}
      BY <1>0, <1>10 DEF Crash, Idle, TypeOK
    <2> QED
      BY <1>0, <1>10, <2>1, DroppingKeepsLeases DEF Crash
  <1>11. CASE UNCHANGED vars
    BY <1>0, <1>11, BystanderKeepsLeases DEF vars
  <1> QED
    BY <1>1, <1>2, <1>3, <1>4, <1>5, <1>6, <1>7, <1>8, <1>9, <1>10, <1>11 DEF Next

\* A row that is neither redelivered by hand while in flight nor taken over is in the hands of
\* one sender and leased to it, and what is recorded as delivered was taken by the receiver,
\* for any number of rows and senders and batches of any length.
THEOREM LeasesHold == Spec => []LeaseInv
  <1>1. Init => LeaseInv
    <2> SUFFICES ASSUME Init PROVE LeaseInv
      OBVIOUS
    <2>1. OneSender /\ Leased
      BY DEF Init, OneSender, Leased, InFlight, Idle
    <2>2. DeliveredAccepted
      BY DEF Init, DeliveredAccepted, Idle, Unused
    <2> QED
      BY <2>1, <2>2 DEF LeaseInv
  <1> QED
    BY <1>1, StepKeepsLeases, TypedAlways, PTL DEF Spec

-----------------------------------------------------------------------------
(* What a step may do to a row *)

\* A sender takes a row in hand by claiming it, and an uncontested row that is in the hands of
\* another is due only when the batch of the other is older than the lease.
THEOREM LeasesAreRespected == Spec => LeaseRespected
  <1>1. Typed /\ LeaseInv /\ [Next]_vars =>
          [\A s, t \in Senders :
              /\ InFlight(s) /\ sender[s].row \notin contested
              /\ ~InFlight(t) /\ InFlight(t)' /\ sender'[t].row = sender[s].row
              => sender[s].age >= Lease]_vars
    <2> SUFFICES ASSUME Typed, LeaseInv, [Next]_vars, NEW s \in Senders, NEW t \in Senders,
                        InFlight(s), sender[s].row \notin contested,
                        ~InFlight(t), InFlight(t)', sender'[t].row = sender[s].row
                 PROVE  sender[s].age >= Lease
      OBVIOUS
    <2>0. TypeOK /\ Leased
      BY DEF Typed, LeaseInv
    <2>1. \E d \in Deliveries : Claim(t, d)
      <3>1. ASSUME NEW u \in Senders, StartBatch(u) PROVE FALSE
        BY <2>0, <3>1 DEF StartBatch, Begin, TypeOK, InFlight
      <3>2. ASSUME NEW u \in Senders, NEW d \in Deliveries, NotClaimed(u, d) PROVE FALSE
        BY <2>0, <3>2 DEF NotClaimed, Skip, Abort, Idle, TypeOK, Sender, InFlight
      <3>3. ASSUME NEW u \in Senders,
                   EndBatch(u) \/ RowVanished(u) \/ NoTarget(u) \/ Record(u) PROVE FALSE
        BY <2>0, <3>3
        DEF EndBatch, RowVanished, NoTarget, Record, Abort, Resume, Idle, TypeOK, InFlight
      <3>4. ASSUME NEW u \in Senders, PerformDelivery(u) PROVE FALSE
        BY <2>0, <3>4 DEF PerformDelivery, Work, TypeOK, InFlight
      <3>5. ASSUME NEW u \in Senders, NEW d \in Deliveries, Claim(u, d) PROVE u = t
        BY <2>0, <3>5 DEF Claim, Work, TypeOK, InFlight
      <3>6. ~UNCHANGED sender
        BY DEF InFlight
      <3>7. CASE Tick
        BY <2>0, <3>7 DEF Tick, TypeOK, Sender, InFlight
      <3>8. ASSUME NEW dead \in SUBSET Senders, Crash(dead) PROVE FALSE
        BY <2>0, <3>8 DEF Crash, Idle, TypeOK, InFlight
      <3> QED
        BY <3>1, <3>2, <3>3, <3>4, <3>5, <3>6, <3>7, <3>8
        DEF Next, Continue, Enqueue, ToggleWebhook, DeleteWebhook, RetryDelivery, SelectHistory,
            DeleteHistory, vars
    <2>2. PICK d \in Deliveries : Claim(t, d)
      BY <2>1
    <2>3. sender[s].row = d /\ Pending(d) /\ delivery[d].due <= -sender[t].age
      BY <2>0, <2>2 DEF Claim, Work, DueAt, TypeOK
    <2>4. delivery[d].due = Lease - sender[s].age
      BY <2>0, <2>3 DEF Leased, Pending
    <2>5. sender[s].age \in Nat /\ sender[t].age \in Nat /\ Lease \in Nat
      BY <2>0, DeliveryAssumption DEF TypeOK, Sender
    <2> QED
      BY <2>3, <2>4, <2>5
  <1> QED
    BY <1>1, LeasesHold, TypedAlways, PTL DEF Spec, LeaseRespected

\* A sender that has an uncontested row in hand finds it pending or deleted.
LEMMA HeldIsOpen ==
  ASSUME LeaseInv, NEW s \in Senders, InFlight(s), sender[s].row \notin contested
  PROVE  delivery[sender[s].row].status \in {"pending", "deleted"}
  BY DEF LeaseInv, Leased, Pending

\* No late attempt of process_pending_deliveries turns a delivered row into a failure or sends
\* it again, unless the row was redelivered by hand or its lease had run out.
THEOREM DeliveredRowsStay == Spec => DeliveredIsFinal
  <1>1. Typed /\ LeaseInv /\ [Next]_vars =>
          [\A d \in Deliveries : delivery[d].status = "delivered" =>
              \/ delivery'[d].status \in {"delivered", "deleted"}
              \/ requeues' > requeues
              \/ d \in contested]_vars
    <2> SUFFICES ASSUME Typed, LeaseInv, [Next]_vars, NEW d \in Deliveries,
                        delivery[d].status = "delivered", d \notin contested
                 PROVE  delivery'[d].status \in {"delivered", "deleted"} \/ requeues' > requeues
      OBVIOUS
    <2> DEFINE Goal == delivery'[d].status \in {"delivered", "deleted"} \/ requeues' > requeues
    <2>0. TypeOK /\ RowHeld
      BY DEF Typed
    <2>1. ASSUME NEW r \in Deliveries, NEW e \in Endpoints, Enqueue(r, e) PROVE Goal
      BY <2>0, <2>1 DEF Enqueue, TypeOK
    <2>2. ASSUME NEW e \in Endpoints, DeleteWebhook(e) PROVE Goal
      BY <2>0, <2>2 DEF DeleteWebhook, Deleted, TypeOK
    <2>3. ASSUME NEW r \in Deliveries, RetryDelivery(r) PROVE Goal
      BY <2>0, <2>3, DeliveryAssumption DEF RetryDelivery, TypeOK
    <2>4. CASE DeleteHistory
      BY <2>0, <2>4 DEF DeleteHistory, Deleted, TypeOK
    <2>5. ASSUME NEW s \in Senders, NEW r \in Deliveries, Claim(s, r) PROVE Goal
      BY <2>0, <2>5 DEF Claim, DueAt, Pending, Set, TypeOK
    <2>6. ASSUME NEW s \in Senders, NoTarget(s) \/ Record(s) PROVE Goal
      <3>1. sender[s].row \in Deliveries /\ sender[s].row # d
        BY <2>0, <2>6, HeldIsOpen DEF NoTarget, Record, RowHeld, InFlight
      <3> QED
        BY <2>0, <2>6, <3>1 DEF NoTarget, Record, Outcome, Set, TypeOK
    <2>7. CASE Tick
      BY <2>0, <2>7 DEF Tick, TypeOK, Delivery
    <2>8. ASSUME UNCHANGED delivery PROVE Goal
      BY <2>8
    <2>9. ASSUME NEW s \in Senders, Continue(s) PROVE Goal
      BY <2>5, <2>6, <2>8, <2>9 DEF Continue, NotClaimed, EndBatch, RowVanished, PerformDelivery
    <2> QED
      BY <2>1, <2>2, <2>3, <2>4, <2>7, <2>8, <2>9
      DEF Next, ToggleWebhook, SelectHistory, StartBatch, Crash, vars
  <1> QED
    BY <1>1, LeasesHold, TypedAlways, PTL DEF Spec, DeliveredIsFinal

-----------------------------------------------------------------------------
(* Exactly-once delivery *)

\* A redelivery by hand, or a lease that ran out, may put one row in the hands of several
\* senders, and what one of them records moves the lease of another.  What stays is a budget:
\* the receiver has taken a row as often as accepted says, will take it at most once more from
\* each sender that has it in hand and was not told so, and once more from the next to claim
\* it when nobody has it.

\* Sender s may still be the one that the receiver takes its row from.
Owing(s) == sender[s].pc = "post" \/ (sender[s].pc = "record" /\ ~sender[s].ok)
Hands(d) == {s \in Senders : Owing(s) /\ sender[s].row = d}

\* Row d is to be claimed and in nobody's hand.
Open(d) == IF delivery[d].status = "unused" \/ (Pending(d) /\ ~Held(d)) THEN 1 ELSE 0

Budgeted(d) ==
    /\ IsFiniteSet(Hands(d))
    /\ accepted[d] + Cardinality(Hands(d)) + Open(d) <= 1 + faults + requeues + takeovers

Budget == \A d \in Deliveries : Budgeted(d)

LEMMA HandsShrink ==
  ASSUME NEW d, IsFiniteSet(Hands(d)), Hands(d)' \subseteq Hands(d)
  PROVE  /\ IsFiniteSet(Hands(d)') /\ Cardinality(Hands(d)) \in Nat /\ Cardinality(Hands(d)') \in Nat
         /\ Cardinality(Hands(d)') <= Cardinality(Hands(d))
         /\ \A s \in Hands(d) \ Hands(d)' : Cardinality(Hands(d)') + 1 <= Cardinality(Hands(d))
  <1> DEFINE A == Hands(d)
             B == Hands(d)'
  <1> HIDE DEF A, B
  <1>1. /\ IsFiniteSet(B) /\ Cardinality(A) \in Nat /\ Cardinality(B) \in Nat
        /\ Cardinality(B) <= Cardinality(A)
    BY FS_Subset, FS_CardinalityType DEF A, B
  <1>2. ASSUME NEW s \in A \ B PROVE Cardinality(B) + 1 <= Cardinality(A)
    <2>1. Cardinality(A \ {s}) = Cardinality(A) - 1 /\ IsFiniteSet(A \ {s})
      BY <1>2, FS_RemoveElement DEF A
    <2>2. B \subseteq A \ {s}
      BY <1>2 DEF A, B
    <2>3. Cardinality(B) <= Cardinality(A \ {s})
      BY <2>1, <2>2, FS_Subset
    <2> QED
      BY <1>1, <2>1, <2>3
  <1> QED
    BY <1>1, <1>2 DEF A, B

LEMMA BudgetNumbers ==
  ASSUME TypeOK, NEW d \in Deliveries, Budgeted(d)
  PROVE  /\ accepted[d] \in Nat /\ faults \in Nat /\ requeues \in Nat /\ takeovers \in Nat
         /\ Cardinality(Hands(d)) \in Nat /\ Open(d) \in 0..1
  BY FS_CardinalityType, DeliveryAssumption DEF TypeOK, Budgeted, Open

\* A step in which nobody takes row d in hand and the receiver does not take it: the next claim
\* of the row must be one that was expected before, or paid for by a fault, a redelivery or a
\* sender that lets the row go.
LEMMA BudgetKept ==
  ASSUME Typed, Typed', NEW d \in Deliveries, Budgeted(d), Hands(d)' \subseteq Hands(d),
         accepted'[d] = accepted[d], faults' >= faults, requeues' >= requeues,
         takeovers' >= takeovers,
         \/ Open(d)' <= Open(d)
         \/ faults' > faults \/ requeues' > requeues
         \/ \E s \in Hands(d) : s \notin Hands(d)'
  PROVE  Budgeted(d)'
  <1>1. /\ accepted[d] \in Nat /\ faults \in Nat /\ requeues \in Nat /\ takeovers \in Nat
        /\ Cardinality(Hands(d)) \in Nat /\ Open(d) \in 0..1
    BY BudgetNumbers DEF Typed
  <1>2. faults' \in Nat /\ requeues' \in Nat /\ takeovers' \in Nat /\ Open(d)' \in 0..1
    BY DeliveryAssumption DEF Typed, TypeOK, Open
  <1>3. /\ IsFiniteSet(Hands(d)') /\ Cardinality(Hands(d)') \in Nat
        /\ Cardinality(Hands(d)') <= Cardinality(Hands(d))
        /\ \A s \in Hands(d) \ Hands(d)' : Cardinality(Hands(d)') + 1 <= Cardinality(Hands(d))
    BY HandsShrink DEF Budgeted
  <1>4. accepted[d] + Cardinality(Hands(d)) + Open(d) <= 1 + faults + requeues + takeovers
    BY DEF Budgeted
  <1>5. accepted'[d] + Cardinality(Hands(d)') + Open(d)' <= 1 + faults' + requeues' + takeovers'
    <2> HIDE DEF Hands, Open
    <2>1. CASE \E s \in Hands(d) : s \notin Hands(d)'
      <3>1. Cardinality(Hands(d)') + 1 <= Cardinality(Hands(d))
        BY <1>3, <2>1
      <3> QED
        BY <1>1, <1>2, <1>3, <1>4, <3>1
    <2>2. CASE Open(d)' <= Open(d)
      BY <1>1, <1>2, <1>3, <1>4, <2>2
    <2>3. CASE faults' > faults \/ requeues' > requeues
      <3>1. accepted[d] + Cardinality(Hands(d)) <= 1 + faults + requeues + takeovers
        BY <1>1, <1>4
      <3>2. accepted[d] + Cardinality(Hands(d)') + Open(d)' <= 2 + faults + requeues + takeovers
        BY <1>1, <1>2, <1>3, <3>1
      <3> QED
        BY <1>1, <1>2, <1>3, <2>3, <3>2
    <2> QED
      BY <2>1, <2>2, <2>3
  <1> QED
    BY <1>3, <1>5 DEF Budgeted

\* What the others do to row d: nothing, or they take it away before it was ever claimed or for
\* good.
LEMMA BystanderKeepsBudget ==
  ASSUME Typed, Typed', NEW d \in Deliveries, Budgeted(d),
         UNCHANGED <<sender, accepted, faults, requeues, takeovers>>,
         \/ delivery'[d] = delivery[d]
         \/ delivery'[d].status = "deleted"
         \/ delivery[d].status = "unused"
  PROVE  Budgeted(d)'
  <1>1. Hands(d)' = Hands(d)
    BY DEF Hands, Owing
  <1>2. delivery'[d] = delivery[d] => Open(d)' = Open(d)
    BY DEF Open, Pending, Held, InFlight
  <1>3. delivery'[d].status = "deleted" => Open(d)' = 0
    BY DEF Open, Pending
  <1>4. delivery[d].status = "unused" => Open(d) = 1
    BY DEF Open
  <1>5. Open(d) \in 0..1 /\ Open(d)' \in 0..1 /\ faults \in Nat /\ requeues \in Nat /\ takeovers \in Nat
    BY DeliveryAssumption DEF Open, Typed, TypeOK
  <1>6. Open(d)' <= Open(d)
    BY <1>2, <1>3, <1>4, <1>5
  <1> QED
    BY <1>1, <1>5, <1>6, BudgetKept

\* A sender that works on another row, or on none, before the step and after it.
LEMMA ElsewhereKeepsBudget ==
  ASSUME Typed, Typed', NEW d \in Deliveries, Budgeted(d), NEW s \in Senders,
         \A t \in Senders \ {s} : sender'[t] = sender[t],
         InFlight(s) => sender[s].row # d,
         InFlight(s)' => sender'[s].row # d,
         delivery'[d] = delivery[d], accepted'[d] = accepted[d],
         requeues' = requeues, faults' >= faults, takeovers' >= takeovers
  PROVE  Budgeted(d)'
  <1>1. Hands(d)' = Hands(d)
    BY DEF Hands, Owing, InFlight
  <1>2. Held(d)' = Held(d)
    BY DEF Held, InFlight
  <1>3. Open(d)' = Open(d)
    BY <1>2 DEF Open, Pending
  <1>5. Open(d) \in 0..1 /\ requeues \in Nat /\ takeovers \in Nat
    BY DeliveryAssumption DEF Open, Typed, TypeOK
  <1> QED
    BY <1>1, <1>3, <1>5, BudgetKept

\* Senders drop what they have in hand, and the fault pays for the next claim.
LEMMA FaultKeepsBudget ==
  ASSUME Typed, Typed', NEW d \in Deliveries, Budgeted(d), Fault,
         UNCHANGED <<accepted, requeues, takeovers>>,
         \A t \in Senders : sender'[t] = sender[t] \/ sender'[t].pc \notin {"post", "record"}
  PROVE  Budgeted(d)'
  <1>1. Hands(d)' \subseteq Hands(d)
    BY DEF Hands, Owing
  <1>2. /\ faults' > faults /\ requeues' >= requeues /\ faults' >= faults
        /\ takeovers' >= takeovers
    BY DeliveryAssumption DEF Fault, Typed, TypeOK
  <1> QED
    BY <1>1, <1>2, BudgetKept

\* A sender lets its row go: for good, or after an attempt that the receiver did not take.
LEMMA LettingGoKeepsBudget ==
  ASSUME Typed, Typed', NEW s \in Senders, InFlight(s), NEW d \in Deliveries, d = sender[s].row,
         Budgeted(d), UNCHANGED <<accepted, faults, requeues, takeovers>>,
         sender'[s].pc \notin {"post", "record"},
         \A t \in Senders \ {s} : sender'[t] = sender[t],
         Owing(s) \/ delivery'[d].status \in Settled \/ (~Present(d) /\ delivery'[d] = delivery[d])
  PROVE  Budgeted(d)'
  <1>1. Hands(d)' \subseteq Hands(d) /\ s \notin Hands(d)'
    BY DEF Hands, Owing
  <1>2. faults \in Nat /\ requeues \in Nat /\ takeovers \in Nat
    BY DeliveryAssumption DEF Typed, TypeOK
  <1>3. CASE Owing(s)
    <2>1. s \in Hands(d)
      BY <1>3 DEF Hands
    <2> QED
      BY <1>1, <1>2, <2>1, BudgetKept
  <1>4. CASE delivery'[d].status \in Settled
    <2>1. Open(d)' = 0 /\ Open(d) \in 0..1
      BY <1>4 DEF Open, Pending, Settled
    <2> QED
      BY <1>1, <1>2, <2>1, BudgetKept
  <1>5. CASE ~Present(d) /\ delivery'[d] = delivery[d]
    <2>1. Open(d)' = Open(d) /\ Open(d) \in 0..1
      BY <1>5 DEF Open, Pending, Present
    <2> QED
      BY <1>1, <1>2, <2>1, BudgetKept
  <1> QED
    BY <1>3, <1>4, <1>5

\* A claim takes the row that may be claimed, or takes it over.
LEMMA ClaimKeepsBudget ==
  ASSUME Typed, Typed', Budget, NEW s \in Senders, NEW r \in Deliveries, Claim(s, r)
  PROVE  Budget'
  <1>0. /\ TypeOK /\ ~InFlight(s) /\ Pending(r)
        /\ UNCHANGED <<accepted, faults, requeues>>
    BY DEF Typed, Claim, DueAt, InFlight
  <1>1. takeovers' = IF Held(r) THEN takeovers + 1 ELSE takeovers
    BY DEF Claim, Overlap
  <1>2. /\ delivery'[r].status = "pending"
        /\ \A d \in Deliveries \ {r} : delivery'[d] = delivery[d]
    BY <1>0 DEF Claim, Set, TypeOK
  <1>3. /\ sender'[s].pc = "post" /\ sender'[s].row = r
        /\ \A t \in Senders \ {s} : sender'[t] = sender[t]
    BY <1>0 DEF Claim, Work, TypeOK
  <1>4. ASSUME NEW d \in Deliveries, d # r PROVE Budgeted(d)'
    <2>1. faults \in Nat /\ takeovers \in Nat /\ Budgeted(d)
      BY <1>0, DeliveryAssumption DEF TypeOK, Budget
    <2>2. takeovers' >= takeovers
      BY <1>1, <2>1
    <2> QED
      BY <1>0, <1>2, <1>3, <1>4, <2>1, <2>2, ElsewhereKeepsBudget
  <1>5. Budgeted(r)'
    <2>1. Open(r) = IF Held(r) THEN 0 ELSE 1
      BY <1>0 DEF Open, Pending
    <2>2. Held(r)'
      BY <1>3 DEF Held, InFlight
    <2>3. Open(r)' = 0
      BY <1>2, <2>2 DEF Open
    <2>4. Hands(r)' = Hands(r) \cup {s} /\ s \notin Hands(r)
      BY <1>0, <1>3 DEF Hands, Owing, InFlight
    <2>5. Budgeted(r)
      BY DEF Budget
    <2>6. IsFiniteSet(Hands(r)') /\ Cardinality(Hands(r)') = Cardinality(Hands(r)) + 1
      BY <2>4, <2>5, FS_AddElement DEF Budgeted
    <2>7. /\ accepted[r] \in Nat /\ faults \in Nat /\ requeues \in Nat /\ takeovers \in Nat
          /\ Cardinality(Hands(r)) \in Nat
      BY <1>0, <2>5, BudgetNumbers
    <2>8. accepted[r] + Cardinality(Hands(r)) + Open(r) <= 1 + faults + requeues + takeovers
      BY <2>5 DEF Budgeted
    <2>9. accepted'[r] + Cardinality(Hands(r)') + Open(r)' <= 1 + faults' + requeues' + takeovers'
      <3>1. CASE Held(r)
        BY <1>0, <1>1, <2>1, <2>3, <2>6, <2>7, <2>8, <3>1
      <3>2. CASE ~Held(r)
        BY <1>0, <1>1, <2>1, <2>3, <2>6, <2>7, <2>8, <3>2
      <3> QED
        BY <3>1, <3>2
    <2> QED
      BY <2>6, <2>9 DEF Budgeted
  <1> QED
    BY <1>4, <1>5 DEF Budget

\* The receiver takes the row from a sender that had it in hand, and the sender learns of it or
\* the answer is lost.
LEMMA PostKeepsBudget ==
  ASSUME Typed, Typed', Budget, NEW s \in Senders, PerformDelivery(s)
  PROVE  Budget'
  <1>r. PICK r \in Deliveries : r = sender[s].row
    BY DEF Typed, RowHeld, PerformDelivery, InFlight
  <1>0. /\ TypeOK /\ InFlight(s) /\ sender[s].pc = "post" /\ sender[s].row = r
        /\ UNCHANGED <<delivery, requeues, takeovers>>
    BY <1>r DEF Typed, PerformDelivery, InFlight
  <1>a. ASSUME NEW ok \in BOOLEAN, Work(s, "record", r, sender[s].attempts, ok)
        PROVE  /\ sender'[s].pc = "record" /\ sender'[s].row = r
               /\ sender'[s].age = sender[s].age /\ sender'[s].ok = ok
               /\ \A t \in Senders \ {s} : sender'[t] = sender[t]
    BY <1>0, <1>a DEF Work, TypeOK
  <1>1. /\ sender'[s].pc = "record" /\ sender'[s].row = r
        /\ sender'[s].age = sender[s].age
        /\ \A t \in Senders \ {s} : sender'[t] = sender[t]
    BY <1>0, <1>a DEF PerformDelivery
  <1>2. \/ accepted'[r] = accepted[r] + 1 /\ sender'[s].ok /\ faults' = faults
        \/ accepted'[r] = accepted[r] + 1 /\ faults' = faults + 1 /\ ~sender'[s].ok
        \/ accepted'[r] = accepted[r] /\ faults' = faults /\ ~sender'[s].ok
    BY <1>0, <1>a DEF PerformDelivery, TypeOK, Fault
  <1>3. \A d \in Deliveries \ {r} : accepted'[d] = accepted[d]
    BY <1>0 DEF PerformDelivery, TypeOK
  <1>4. faults \in Nat /\ faults' >= faults /\ takeovers' >= takeovers
    BY <1>0, <1>2, DeliveryAssumption DEF TypeOK
  <1>5. ASSUME NEW d \in Deliveries, d # r PROVE Budgeted(d)'
    BY <1>0, <1>1, <1>3, <1>4, <1>5, ElsewhereKeepsBudget DEF Budget
  <1>6. Budgeted(r)'
    <2>1. Held(r)' = Held(r)
      BY <1>0, <1>1 DEF Held, InFlight
    <2>2. Open(r)' = Open(r)
      BY <1>0, <2>1 DEF Open, Pending
    <2>3. s \in Hands(r) /\ Hands(r)' \subseteq Hands(r) /\ (sender'[s].ok => s \notin Hands(r)')
      BY <1>0, <1>1 DEF Hands, Owing
    <2>4. Budgeted(r)
      BY <1>0 DEF Budget
    <2>5. /\ IsFiniteSet(Hands(r)') /\ Cardinality(Hands(r)) \in Nat /\ Cardinality(Hands(r)') \in Nat
          /\ Cardinality(Hands(r)') <= Cardinality(Hands(r))
          /\ sender'[s].ok => Cardinality(Hands(r)') + 1 <= Cardinality(Hands(r))
      BY <2>3, <2>4, HandsShrink DEF Budgeted
    <2>6. accepted[r] \in Nat /\ faults \in Nat /\ requeues \in Nat /\ takeovers \in Nat /\ Open(r) \in 0..1
      BY <1>0, <2>4, BudgetNumbers
    <2>7. accepted[r] + Cardinality(Hands(r)) + Open(r) <= 1 + faults + requeues + takeovers
      BY <2>4 DEF Budgeted
    <2>8. accepted'[r] + Cardinality(Hands(r)') + Open(r)' <= 1 + faults' + requeues' + takeovers'
      BY <1>0, <1>2, <2>2, <2>5, <2>6, <2>7
    <2> QED
      BY <2>5, <2>8 DEF Budgeted
  <1> QED
    BY <1>5, <1>6 DEF Budget

\* What a sender writes about its row is about no other, and the sender has let the row go.
LEMMA OutcomeKeepsBudget ==
  ASSUME Typed, Typed', Budget, NEW s \in Senders, NoTarget(s) \/ Record(s)
  PROVE  Budget'
  <1>r. PICK r \in Deliveries : r = sender[s].row
    BY DEF Typed, RowHeld, NoTarget, Record, InFlight
  <1>0. TypeOK /\ InFlight(s) /\ sender[s].row = r /\ UNCHANGED <<accepted, requeues, takeovers>>
    BY <1>r DEF Typed, NoTarget, Record, InFlight
  <1>1. sender'[s].pc = "batch" /\ \A t \in Senders \ {s} : sender'[t] = sender[t]
    BY <1>0 DEF NoTarget, Record, Resume, TypeOK
  <1>2. \/ Fault
        \/ UNCHANGED faults /\ (Owing(s) \/ delivery'[r].status \in Settled)
        \/ UNCHANGED faults /\ ~Present(r) /\ delivery'[r] = delivery[r]
    <2>1. CASE NoTarget(s)
      <3>1. Owing(s)
        BY <2>1 DEF NoTarget, Owing
      <3> QED
        BY <2>1, <3>1 DEF NoTarget
    <2>2. CASE Record(s)
      <3>1. sender[s].ok /\ Outcome(s) => delivery'[r].status = "delivered"
        BY <1>0 DEF Outcome, Set, TypeOK
      <3>2. sender[s].pc = "record" /\ (~sender[s].ok => Owing(s))
        BY <2>2 DEF Record, Owing
      <3> QED
        BY <1>0, <2>2, <3>1, <3>2 DEF Record, Settled
    <2> QED
      BY <2>1, <2>2
  <1>3. \A d \in Deliveries \ {r} : delivery'[d] = delivery[d]
    BY <1>0 DEF NoTarget, Record, Outcome, Set, TypeOK
  <1>4. faults \in Nat /\ faults' >= faults /\ takeovers' >= takeovers
    BY <1>0, <1>2, DeliveryAssumption DEF TypeOK, Fault
  <1>5. ASSUME NEW d \in Deliveries, d # r PROVE Budgeted(d)'
    BY <1>0, <1>1, <1>3, <1>4, <1>5, ElsewhereKeepsBudget DEF Budget, InFlight
  <1>6. Budgeted(r)'
    <2>1. Budgeted(r)
      BY DEF Budget
    <2>2. CASE Fault
      BY <1>0, <1>1, <2>1, <2>2, FaultKeepsBudget
    <2> QED
      BY <1>0, <1>1, <1>2, <2>1, <2>2, LettingGoKeepsBudget
  <1> QED
    BY <1>5, <1>6 DEF Budget

\* Time moves nothing between hands.
LEMMA TickKeepsBudget ==
  ASSUME Typed, Typed', NEW d \in Deliveries, Budgeted(d), Tick
  PROVE  Budgeted(d)'
  <1>0. TypeOK /\ UNCHANGED <<accepted, faults, requeues, takeovers>>
    BY DEF Typed, Tick
  <1>1. \A s \in Senders :
          /\ sender'[s].pc = sender[s].pc /\ sender'[s].row = sender[s].row
          /\ sender'[s].ok = sender[s].ok
    BY <1>0 DEF Tick, TypeOK, Sender
  <1>2. delivery'[d].status = delivery[d].status
    BY <1>0 DEF Tick, TypeOK, Delivery
  <1>3. Hands(d)' = Hands(d) /\ Held(d)' = Held(d)
    BY <1>1 DEF Hands, Owing, Held, InFlight
  <1>4. Open(d) \in 0..1 /\ Open(d)' = Open(d)
    BY <1>2, <1>3 DEF Open, Pending
  <1>5. faults \in Nat /\ requeues \in Nat /\ takeovers \in Nat
    BY <1>0, DeliveryAssumption DEF TypeOK
  <1> QED
    BY <1>0, <1>3, <1>4, <1>5, BudgetKept

\* Every step keeps the budget of every row.
LEMMA StepKeepsBudget ==
  ASSUME Typed, Budget, [Next]_vars
  PROVE  Budget'
  <1>0. TypeOK /\ Typed' /\ faults \in Nat /\ requeues \in Nat /\ takeovers \in Nat
    BY StepTyped, DeliveryAssumption DEF Typed, TypeOK
  <1>a. ASSUME UNCHANGED <<sender, accepted, faults, requeues, takeovers>>,
               \A d \in Deliveries : \/ delivery'[d] = delivery[d]
                                     \/ delivery'[d].status = "deleted"
                                     \/ delivery[d].status = "unused"
        PROVE  Budget'
    BY <1>0, <1>a, BystanderKeepsBudget DEF Budget
  <1>1. ASSUME NEW r \in Deliveries, NEW e \in Endpoints, Enqueue(r, e) PROVE Budget'
    BY <1>0, <1>1, <1>a DEF Enqueue, TypeOK
  <1>2. ASSUME NEW e \in Endpoints, ToggleWebhook(e) PROVE Budget'
    BY <1>2, <1>a DEF ToggleWebhook
  <1>3. ASSUME NEW e \in Endpoints, DeleteWebhook(e) PROVE Budget'
    BY <1>0, <1>3, <1>a DEF DeleteWebhook, Deleted, TypeOK
  <1>4. ASSUME NEW r \in Deliveries, RetryDelivery(r) PROVE Budget'
    <2>1. /\ UNCHANGED <<sender, accepted, faults, takeovers>>
          /\ requeues' > requeues /\ requeues' >= requeues /\ faults' >= faults
          /\ takeovers' >= takeovers
      BY <1>0, <1>4 DEF RetryDelivery
    <2>2. ASSUME NEW d \in Deliveries PROVE Budgeted(d)'
      <3>1. Hands(d)' = Hands(d)
        BY <2>1 DEF Hands, Owing
      <3> QED
        BY <1>0, <2>1, <3>1, BudgetKept DEF Budget
    <2> QED
      BY <2>2 DEF Budget
  <1>5. ASSUME NEW ids \in SUBSET Deliveries, SelectHistory(ids) PROVE Budget'
    BY <1>5, <1>a DEF SelectHistory
  <1>6. CASE DeleteHistory
    BY <1>0, <1>6, <1>a DEF DeleteHistory, Deleted, TypeOK
  <1>b. ASSUME NEW s \in Senders, ~InFlight(s), sender'[s].pc \notin {"post", "record"},
               \A t \in Senders \ {s} : sender'[t] = sender[t],
               UNCHANGED <<delivery, accepted, faults, requeues, takeovers>>
        PROVE  Budget'
    BY <1>0, <1>b, ElsewhereKeepsBudget DEF Budget, InFlight
  <1>7. ASSUME NEW s \in Senders, StartBatch(s) PROVE Budget'
    <2>1. sender'[s].pc = "batch" /\ \A t \in Senders \ {s} : sender'[t] = sender[t]
      BY <1>0, <1>7 DEF StartBatch, Begin, TypeOK
    <2> QED
      BY <1>7, <1>b, <2>1 DEF StartBatch, InFlight
  <1>8. ASSUME NEW s \in Senders, Continue(s) PROVE Budget'
    <2>1. ASSUME NEW r \in Deliveries, Claim(s, r) PROVE Budget'
      BY <1>0, <2>1, ClaimKeepsBudget
    <2>2. ASSUME NEW r \in Deliveries, NotClaimed(s, r) PROVE Budget'
      <3>1. /\ sender[s].pc = "batch" /\ sender'[s].pc \notin {"post", "record"}
            /\ \A t \in Senders \ {s} : sender'[t] = sender[t]
        BY <1>0, <2>2 DEF NotClaimed, Skip, Abort, Idle, TypeOK, Sender
      <3> QED
        BY <1>b, <2>2, <3>1 DEF NotClaimed, InFlight
    <2>3. CASE EndBatch(s)
      <3>1. sender'[s].pc = "idle" /\ \A t \in Senders \ {s} : sender'[t] = sender[t]
        BY <1>0, <2>3 DEF EndBatch, Abort, Idle, TypeOK
      <3> QED
        BY <1>b, <2>3, <3>1 DEF EndBatch, InFlight
    <2>4. CASE RowVanished(s)
      <3>r. PICK r \in Deliveries : r = sender[s].row
        BY <2>4 DEF Typed, RowHeld, RowVanished, InFlight
      <3>1. /\ InFlight(s) /\ ~Present(r) /\ sender'[s].pc = "idle"
            /\ \A t \in Senders \ {s} : sender'[t] = sender[t]
            /\ UNCHANGED <<delivery, accepted, faults, requeues, takeovers>>
        BY <1>0, <2>4, <3>r DEF RowVanished, Abort, Idle, InFlight, TypeOK
      <3>2. Budgeted(r)'
        BY <1>0, <3>r, <3>1, LettingGoKeepsBudget DEF Budget
      <3>3. ASSUME NEW d \in Deliveries, d # r PROVE Budgeted(d)'
        BY <1>0, <3>r, <3>1, <3>3, ElsewhereKeepsBudget DEF Budget, InFlight
      <3> QED
        BY <3>2, <3>3 DEF Budget
    <2> QED
      BY <1>0, <1>8, <2>1, <2>2, <2>3, <2>4, OutcomeKeepsBudget, PostKeepsBudget DEF Continue
  <1>9. CASE Tick
    BY <1>0, <1>9, TickKeepsBudget DEF Budget
  <1>10. ASSUME NEW dead \in SUBSET Senders, Crash(dead) PROVE Budget'
    <2>1. \A s \in Senders : sender'[s] = sender[s] \/ sender'[s].pc \notin {"post", "record"}
      BY <1>0, <1>10 DEF Crash, Idle, TypeOK
    <2> QED
      BY <1>0, <1>10, <2>1, FaultKeepsBudget DEF Crash, Budget
  <1>11. CASE UNCHANGED vars
    BY <1>11, <1>a DEF vars
  <1> QED
    BY <1>1, <1>2, <1>3, <1>4, <1>5, <1>6, <1>7, <1>8, <1>9, <1>10, <1>11 DEF Next

\* The promise in the comment of the claim, up to what may go wrong: the receiver takes a
\* delivery once, and once more at most for every crash, failed commit or lost answer, for every
\* retry_delivery and for every claim of a row that another sender still has in hand.  Batches
\* may be longer than the lease.
THEOREM DeliversOnce == Spec => []ExactlyOnceButFaults
  <1>1. Init => Budget
    <2> SUFFICES ASSUME Init, NEW d \in Deliveries PROVE Budgeted(d)
      BY DEF Budget
    <2>1. Hands(d) = {}
      BY DEF Init, Hands, Owing, Idle
    <2>2. accepted[d] = 0 /\ faults = 0 /\ requeues = 0 /\ takeovers = 0 /\ Open(d) = 1
      BY DEF Init, Unused, Open
    <2> QED
      BY <2>1, <2>2, FS_EmptySet DEF Budgeted
  <1>2. Typed /\ Budget /\ [Next]_vars => Budget'
    BY StepKeepsBudget
  <1>3. Typed /\ Budget => ExactlyOnceButFaults
    <2> SUFFICES ASSUME Typed, Budget, NEW d \in Deliveries
                 PROVE  accepted[d] <= 1 + faults + requeues + takeovers
      BY DEF ExactlyOnceButFaults
    <2>1. Budgeted(d) /\ TypeOK
      BY DEF Budget, Typed
    <2> QED
      BY <2>1, BudgetNumbers DEF Budgeted
  <1> QED
    BY <1>1, <1>2, <1>3, TypedAlways, PTL DEF Spec
=============================================================================
