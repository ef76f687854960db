-------------------------- MODULE WebhookDeliveries --------------------------
(***************************************************************************)
(* The durable queue of webhook deliveries (webhook_service.py): rows are  *)
(* queued by the event bus, claimed by a conditional UPDATE that doubles   *)
(* as a lease, posted to their endpoint and settled or put back with a     *)
(* backoff.  Several senders may work on the table at once: the scheduler  *)
(* loop, the "run now" request and, when the scheduler lock was lost, the  *)
(* loop of another process.                                                *)
(*                                                                         *)
(* Time is relative.  due counts down to next_attempt_at, age is the time  *)
(* since a sender read its `now`, which the code reads once per batch and  *)
(* uses for every claim, lease and backoff of the batch.                   *)
(***************************************************************************)
EXTENDS Integers, FiniteSets

CONSTANTS
    Deliveries,     \* ids of delivery rows
    NoDelivery,     \* no row
    Endpoints,      \* ids of webhook endpoints
    NoEndpoint,     \* no endpoint
    Senders,        \* runs of process_pending_deliveries that may overlap
    Scheduler,      \* the one of them that the scheduler starts again and again
    Limit,          \* rows per batch
    Lease,          \* _CLAIM_LEASE_SECONDS
    BackoffBase,    \* _BACKOFF_BASE_SECONDS
    BackoffCap,     \* _BACKOFF_CAP_SECONDS
    MaxAttempts,    \* DEFAULT_MAX_ATTEMPTS
    MaxAge,         \* bound: how long a batch may take
    MaxFaults,      \* bound on crashes, failed commits and lost replies
    MaxRequeues     \* bound on manual redeliveries

ASSUME DeliveryAssumption ==
    /\ NoDelivery \notin Deliveries
    /\ NoEndpoint \notin Endpoints
    /\ Scheduler \in Senders
    /\ {Limit, Lease, BackoffBase, BackoffCap, MaxAttempts} \subseteq Nat \ {0}
    /\ {MaxAge, MaxFaults, MaxRequeues} \subseteq Nat

VARIABLES
    delivery,       \* webhook_deliveries
    endpoint,       \* webhook_endpoints
    sender,         \* the batch each sender is working on
    purge,          \* ids the retention task has read and not yet deleted
    accepted,       \* how often the receiver took each delivery
    faults,         \* faults so far
    requeues,       \* manual redeliveries so far
    takeovers,      \* claims so far of a row that another sender still had in hand
    contested       \* rows requeued or claimed while a sender had them in hand

vars == <<delivery, endpoint, sender, purge, accepted, faults, requeues, takeovers, contested>>

Settled == {"delivered", "failed"}

Delivery == [status : Settled \cup {"unused", "pending", "deleted"},
             endpoint : Endpoints \cup {NoEndpoint},
             attempts : Nat,
             due : Int]
Unused == [status |-> "unused", endpoint |-> NoEndpoint, attempts |-> 0, due |-> 0]
Deleted == [status |-> "deleted", endpoint |-> NoEndpoint, attempts |-> 0, due |-> 0]

Sender == [pc : {"idle", "batch", "post", "record"},
           age : 0..MaxAge,
           batch : SUBSET Deliveries,
           row : Deliveries \cup {NoDelivery},
           attempts : Nat,          \* attempts of the row as read after the claim
           ok : BOOLEAN]            \* the answer of the endpoint
Idle == [pc |-> "idle", age |-> 0, batch |-> {}, row |-> NoDelivery, attempts |-> 0, ok |-> FALSE]

TypeOK ==
    /\ delivery \in [Deliveries -> Delivery]
    /\ endpoint \in [Endpoints -> {"enabled", "disabled", "gone"}]
    /\ sender \in [Senders -> Sender]
    /\ purge \subseteq Deliveries
    /\ accepted \in [Deliveries -> Nat]
    /\ faults \in 0..MaxFaults
    /\ requeues \in 0..MaxRequeues
    /\ takeovers \in Nat
    /\ contested \subseteq Deliveries

Init ==
    /\ delivery = [d \in Deliveries |-> Unused]
    /\ endpoint = [e \in Endpoints |-> "enabled"]
    /\ sender = [s \in Senders |-> Idle]
    /\ purge = {}
    /\ accepted = [d \in Deliveries |-> 0]
    /\ faults = 0
    /\ requeues = 0
    /\ takeovers = 0
    /\ contested = {}

-----------------------------------------------------------------------------
Pending(d) == delivery[d].status = "pending"
Present(d) == delivery[d].status \in Settled \cup {"pending"}

\* next_attempt_at <= now, for a now read age ago.
DueAt(d, age) == Pending(d) /\ delivery[d].due <= -age

InFlight(s) == sender[s].pc \in {"post", "record"}
Held(d) == \E s \in Senders : InFlight(s) /\ sender[s].row = d

\* What is remembered of a claim of row d: whether another sender still had it in hand.
Overlap(d) ==
    /\ takeovers' = IF Held(d) THEN takeovers + 1 ELSE takeovers
    /\ contested' = IF Held(d) THEN contested \cup {d} ELSE contested

\* Row d gets these values; due is kept only for pending rows.
Set(d, status, attempts, due) ==
    delivery' = [delivery EXCEPT ![d] =
        [status |-> status, endpoint |-> delivery[d].endpoint,
         attempts |-> attempts, due |-> IF status = "pending" THEN due ELSE 0]]

Begin(s, batch) ==
    sender' = [sender EXCEPT ![s] = [pc |-> "batch", age |-> 0, batch |-> batch,
        row |-> NoDelivery, attempts |-> 0, ok |-> FALSE]]

\* Sender s is done with its row and goes on with the batch.
Resume(s) ==
    sender' = [sender EXCEPT ![s] = [pc |-> "batch", age |-> sender[s].age,
        batch |-> sender[s].batch, row |-> NoDelivery, attempts |-> 0, ok |-> FALSE]]

\* Sender s goes to step pc with row d of its batch.
Work(s, pc, d, attempts, ok) ==
    sender' = [sender EXCEPT ![s] = [pc |-> pc, age |-> sender[s].age,
        batch |-> sender[s].batch \ {d}, row |-> d, attempts |-> attempts, ok |-> ok]]

Skip(s, d) == sender' = [sender EXCEPT ![s].batch = @ \ {d}]
Abort(s) == sender' = [sender EXCEPT ![s] = Idle]

Fault == faults < MaxFaults /\ faults' = faults + 1

\* The delay before attempt n + 1: doubles up to a cap.
Backoff(n) ==
    LET delay == BackoffBase * 2^(IF n > 1 THEN n - 1 ELSE 0)
    IN  IF delay < BackoffCap THEN delay ELSE BackoffCap

-----------------------------------------------------------------------------
(* The event bus and the operators *)

\* Fault: the row is queued with a status no sender looks for.
Enqueue_Queued(d, e) ==
    /\ delivery[d].status = "unused"
    /\ endpoint[e] = "enabled"
    /\ delivery' = [delivery EXCEPT ![d] =
          [status |-> "queued", endpoint |-> e, attempts |-> 0, due |-> 0]]
    /\ UNCHANGED <<endpoint, sender, purge, accepted, faults, requeues, takeovers, contested>>

\* enqueue_deliveries: one row for an enabled endpoint that subscribed.
Enqueue(d, e) ==
    /\ delivery[d].status = "unused"
    /\ endpoint[e] = "enabled"
    /\ delivery' = [delivery EXCEPT ![d] =
          [status |-> "pending", endpoint |-> e, attempts |-> 0, due |-> 0]]
    /\ UNCHANGED <<endpoint, sender, purge, accepted, faults, requeues, takeovers, contested>>

ToggleWebhook(e) ==
    /\ endpoint[e] # "gone"
    /\ endpoint' = [endpoint EXCEPT ![e] = IF @ = "enabled" THEN "disabled" ELSE "enabled"]
    /\ UNCHANGED <<delivery, sender, purge, accepted, faults, requeues, takeovers, contested>>

\* The endpoint and its deliveries go together.
DeleteWebhook(e) ==
    /\ endpoint[e] # "gone"
    /\ endpoint' = [endpoint EXCEPT ![e] = "gone"]
    /\ delivery' = [d \in Deliveries |->
          IF delivery[d].endpoint = e THEN Deleted ELSE delivery[d]]
    /\ UNCHANGED <<sender, purge, accepted, faults, requeues, takeovers, contested>>

\* retry_delivery asks nothing of the row but that it exists.
RetryDelivery(d) ==
    /\ requeues < MaxRequeues
    /\ Present(d)
    /\ Set(d, "pending", 0, 0)
    /\ requeues' = requeues + 1
    /\ contested' = IF Held(d) THEN contested \cup {d} ELSE contested
    /\ UNCHANGED <<endpoint, sender, purge, accepted, faults, takeovers>>

\* purge_delivery_history reads the ids of settled rows past their window ...
SelectHistory(ids) ==
    /\ purge = {}
    /\ ids # {}
    /\ \A d \in ids : delivery[d].status \in Settled
    /\ purge' = ids
    /\ UNCHANGED <<delivery, endpoint, sender, accepted, faults, requeues, takeovers, contested>>

\* ... and deletes by id.
DeleteHistory ==
    /\ purge # {}
    /\ delivery' = [d \in Deliveries |-> IF d \in purge THEN Deleted ELSE delivery[d]]
    /\ purge' = {}
    /\ UNCHANGED <<endpoint, sender, accepted, faults, requeues, takeovers, contested>>

-----------------------------------------------------------------------------
(* process_pending_deliveries *)

Due == {d \in Deliveries : DueAt(d, 0)}

\* The batch: the rows due first, as many as the limit allows.
StartBatch(s) ==
    /\ sender[s].pc = "idle"
    /\ Due # {}
    /\ \E batch \in SUBSET Due :
          /\ Cardinality(batch) = IF Cardinality(Due) < Limit THEN Cardinality(Due) ELSE Limit
          /\ \A d \in batch, r \in Due \ batch : delivery[d].due <= delivery[r].due
          /\ Begin(s, batch)
    /\ UNCHANGED <<delivery, endpoint, purge, accepted, faults, requeues, takeovers, contested>>

\* Fault: the claim only counts the attempt.
Claim_NoLease(s, d) ==
    /\ sender[s].pc = "batch"
    /\ d \in sender[s].batch
    /\ DueAt(d, sender[s].age)
    /\ Set(d, "pending", delivery[d].attempts + 1, delivery[d].due)
    /\ Work(s, "post", d, delivery[d].attempts + 1, FALSE)
    /\ Overlap(d)
    /\ UNCHANGED <<endpoint, purge, accepted, faults, requeues>>

\* Fault: the row is claimed as it was when the batch was read.
Claim_Unconditional(s, d) ==
    /\ sender[s].pc = "batch"
    /\ d \in sender[s].batch
    /\ Present(d)
    /\ Set(d, "pending", delivery[d].attempts + 1, Lease - sender[s].age)
    /\ Work(s, "post", d, delivery[d].attempts + 1, FALSE)
    /\ Overlap(d)
    /\ UNCHANGED <<endpoint, purge, accepted, faults, requeues>>

\* Fault: the claim only leases the row.
Claim_Uncounted(s, d) ==
    /\ sender[s].pc = "batch"
    /\ d \in sender[s].batch
    /\ DueAt(d, sender[s].age)
    /\ Set(d, "pending", delivery[d].attempts, Lease - sender[s].age)
    /\ Work(s, "post", d, delivery[d].attempts, FALSE)
    /\ Overlap(d)
    /\ UNCHANGED <<endpoint, purge, accepted, faults, requeues>>

\* The conditional UPDATE that counts the attempt and leases the row.
Claim(s, d) ==
    /\ sender[s].pc = "batch"
    /\ d \in sender[s].batch
    /\ DueAt(d, sender[s].age)
    /\ Set(d, "pending", delivery[d].attempts + 1, Lease - sender[s].age)
    /\ Work(s, "post", d, delivery[d].attempts + 1, FALSE)
    /\ Overlap(d)
    /\ UNCHANGED <<endpoint, purge, accepted, faults, requeues>>

\* Nothing matches: another sender claimed or settled the row.  A row that was
\* deleted can also end the batch, when its expired object is read again.
NotClaimed(s, d) ==
    /\ sender[s].pc = "batch"
    /\ d \in sender[s].batch
    /\ ~DueAt(d, sender[s].age)
    /\ Skip(s, d) \/ (~Present(d) /\ Abort(s))
    /\ UNCHANGED <<delivery, endpoint, purge, accepted, faults, requeues, takeovers, contested>>

EndBatch(s) ==
    /\ sender[s].pc = "batch"
    /\ sender[s].batch = {}
    /\ Abort(s)
    /\ UNCHANGED <<delivery, endpoint, purge, accepted, faults, requeues, takeovers, contested>>

\* The claimed row is read again: it was deleted ...
RowVanished(s) ==
    /\ sender[s].pc = "post"
    /\ ~Present(sender[s].row)
    /\ Abort(s)
    /\ UNCHANGED <<delivery, endpoint, purge, accepted, faults, requeues, takeovers, contested>>

Reachable(e) == e \in Endpoints /\ endpoint[e] = "enabled"

\* ... or its endpoint is missing or disabled, and the delivery has failed ...
NoTarget(s) ==
    LET d == sender[s].row IN
    /\ sender[s].pc = "post"
    /\ Present(d)
    /\ ~Reachable(delivery[d].endpoint)
    /\ \/ Set(d, "failed", delivery[d].attempts, 0) /\ UNCHANGED faults
       \/ Fault /\ UNCHANGED delivery
    /\ Resume(s)
    /\ UNCHANGED <<endpoint, purge, accepted, requeues, takeovers, contested>>

\* ... or it is posted.  The receiver takes it and says so, takes it but the
\* answer is lost, or does not take it.
PerformDelivery(s) ==
    LET d == sender[s].row IN
    /\ sender[s].pc = "post"
    /\ Present(d)
    /\ Reachable(delivery[d].endpoint)
    /\ \/ /\ accepted' = [accepted EXCEPT ![d] = @ + 1]
          /\ Work(s, "record", d, sender[s].attempts, TRUE)
          /\ UNCHANGED faults
       \/ /\ accepted' = [accepted EXCEPT ![d] = @ + 1]
          /\ Work(s, "record", d, sender[s].attempts, FALSE)
          /\ Fault
       \/ /\ Work(s, "record", d, sender[s].attempts, FALSE)
          /\ UNCHANGED <<accepted, faults>>
    /\ UNCHANGED <<delivery, endpoint, purge, requeues, takeovers, contested>>

\* What the sender writes about its row, by the attempts it read after the
\* claim.  Columns it does not assign keep what others wrote meanwhile.
Outcome(s) ==
    LET d == sender[s].row  r == delivery[d] IN
    IF sender[s].ok THEN Set(d, "delivered", r.attempts, 0)
    ELSE IF sender[s].attempts >= MaxAttempts THEN Set(d, "failed", r.attempts, 0)
    ELSE Set(d, r.status, r.attempts, Backoff(sender[s].attempts) - sender[s].age)

\* The outcome is committed; a failed commit and a row that is gone are rolled
\* back and the batch goes on.
Record(s) ==
    /\ sender[s].pc = "record"
    /\ \/ Present(sender[s].row) /\ Outcome(s) /\ UNCHANGED faults
       \/ ~Present(sender[s].row) /\ UNCHANGED <<delivery, faults>>
       \/ Fault /\ UNCHANGED delivery
    /\ Resume(s)
    /\ UNCHANGED <<endpoint, purge, accepted, requeues, takeovers, contested>>

-----------------------------------------------------------------------------
\* Time passes for every sender and every pending row.  No batch takes longer
\* than MaxAge, so older due times need not be told apart.
Tick ==
    /\ \A s \in Senders : sender[s].pc # "idle" => sender[s].age < MaxAge
    /\ sender' = [s \in Senders |->
          IF sender[s].pc = "idle" THEN sender[s] ELSE [sender[s] EXCEPT !.age = @ + 1]]
    /\ delivery' = [d \in Deliveries |->
          IF Pending(d) /\ delivery[d].due > -MaxAge
          THEN [delivery[d] EXCEPT !.due = @ - 1] ELSE delivery[d]]
    /\ UNCHANGED <<endpoint, purge, accepted, faults, requeues, takeovers, contested>>

\* A process dies with the senders in it and, perhaps, the retention task.
Crash(dead) ==
    /\ \E s \in dead : sender[s].pc # "idle"
    /\ Fault
    /\ sender' = [s \in Senders |-> IF s \in dead THEN Idle ELSE sender[s]]
    /\ purge' \in {purge, {}}
    /\ UNCHANGED <<delivery, endpoint, accepted, requeues, takeovers, contested>>

\* The steps of a batch in progress.
Continue(s) ==
    \/ \E d \in Deliveries : Claim(s, d) \/ NotClaimed(s, d)
    \/ EndBatch(s) \/ RowVanished(s) \/ NoTarget(s) \/ PerformDelivery(s) \/ Record(s)

Next ==
    \/ \E d \in Deliveries, e \in Endpoints : Enqueue(d, e)
    \/ \E e \in Endpoints : ToggleWebhook(e) \/ DeleteWebhook(e)
    \/ \E d \in Deliveries : RetryDelivery(d)
    \/ \E ids \in SUBSET Deliveries : SelectHistory(ids)
    \/ DeleteHistory
    \/ \E s \in Senders : StartBatch(s) \/ Continue(s)
    \/ Tick
    \/ \E dead \in SUBSET Senders : Crash(dead)

Spec == Init /\ [][Next]_vars

\* Time passes, a batch goes on (a POST has a timeout) and the scheduler runs
\* the task at every interval; nobody need ever ask for a run.
Fairness ==
    /\ WF_vars(Tick)
    /\ \A s \in Senders : WF_vars(Continue(s))
    /\ WF_vars(StartBatch(Scheduler))

FairSpec == Spec /\ Fairness

-----------------------------------------------------------------------------
\* The comment of the claim: only one sender may send a row, which guarantees
\* exactly-once delivery.  The receiver takes a delivery once, and once more at
\* most for every fault, every manual redelivery and every claim of a row that
\* another sender still had in hand.
ExactlyOnceButFaults ==
    \A d \in Deliveries : accepted[d] <= 1 + faults + requeues + takeovers

\* The claim doubles as a lease: unless an operator asks for a redelivery of a row
\* in flight, the row is claimed from under its sender only when the batch of that
\* sender is as old as the lease.  (Fifty posts of up to ten seconds may be.)
LeaseRespected ==
    [][\A s, t \in Senders :
          /\ InFlight(s) /\ sender[s].row \notin contested
          /\ ~InFlight(t) /\ InFlight(t)' /\ sender'[t].row = sender[s].row
          => sender[s].age >= Lease]_vars

\* A delivery that was recorded as delivered stays so, whatever a batch read before,
\* whoever crashed and whatever was deleted meanwhile: only an operator sends it
\* again, and only the late outcome of a sender that lost its row writes over it.
DeliveredIsFinal ==
    [][\A d \in Deliveries : delivery[d].status = "delivered" =>
          \/ delivery'[d].status \in {"delivered", "deleted"}
          \/ requeues' > requeues
          \/ d \in contested]_vars

\* Every queued delivery is settled in the end, although its endpoint may refuse
\* it for ever, its senders may crash and a batch may outlive its leases.
EverySettles == \A d \in Deliveries : Pending(d) ~> ~Pending(d)

-----------------------------------------------------------------------------
(* Inductive invariant *)

\* No uncontested row is in the hands of two senders.
OneSender ==
    \A s, t \in Senders :
        InFlight(s) /\ InFlight(t) /\ sender[s].row = sender[t].row =>
            s = t \/ sender[s].row \in contested

\* An uncontested row in the hands of a sender is leased: it is pending and comes due
\* Lease after the sender read the time, if it was not deleted.
Leased ==
    \A s \in Senders : InFlight(s) =>
        /\ sender[s].row \in Deliveries
        /\ \/ sender[s].row \in contested
           \/ delivery[sender[s].row].status = "deleted"
           \/ Pending(sender[s].row) /\ delivery[sender[s].row].due = Lease - sender[s].age

\* What is or will be recorded as delivered was taken by the receiver.
DeliveredAccepted ==
    /\ \A d \in Deliveries : delivery[d].status = "delivered" => accepted[d] > 0
    /\ \A s \in Senders : sender[s].pc = "record" /\ sender[s].ok => accepted[sender[s].row] > 0

LeaseInv == OneSender /\ Leased /\ DeliveredAccepted
=============================================================================
