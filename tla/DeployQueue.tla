----------------------------- MODULE DeployQueue -----------------------------
(***************************************************************************)
(* Deploy hooks (services/deploy/service.py, api/v2/deploy.py): the files  *)
(* of a certificate or the CRL of a CA are pushed over SSH to a target,    *)
(* by rows of a durable queue that batches drain, and by requests that     *)
(* push at once.  A row names a binding, never a content: what is pushed   *)
(* is what the database holds when the row is executed.                    *)
(*                                                                         *)
(* Time is reduced to what the queue compares: a pending row is due or     *)
(* not, and whoever reschedules a row takes it out of the batches read     *)
(* before, because the claim compares with the time of the batch.  A lease *)
(* may run out at any moment: nothing here relies on its length.           *)
(***************************************************************************)
EXTENDS Integers, FiniteSets

CONSTANTS
    Rows,           \* ids of deploy_deliveries
    NoRow,          \* no row
    CertBindings,   \* ids of deploy_bindings
    CrlBindings,    \* ids of crl_deploy_bindings
    Batches,        \* runs of process_pending_deliveries that may overlap
    Requests,       \* requests that push synchronously
    Hosts,          \* addresses of the target; a host is also the name of its key
    NoKey,          \* no pinned host key
    MaxAttempts,    \* DEFAULT_MAX_ATTEMPTS
    MaxVersion,     \* bound on the contents stored for a binding
    MaxFaults,      \* bound on crashes and failed commits
    MaxEdits        \* bound on what operators do

Bindings == CertBindings \cup CrlBindings
Jobs == Batches \cup Requests

ASSUME DeployAssumption ==
    /\ NoRow \notin Rows
    /\ NoKey \notin Hosts
    /\ CertBindings \cap CrlBindings = {}
    /\ Batches \cap Requests = {}
    /\ MaxAttempts \in Nat \ {0, 1}
    /\ MaxVersion \in Nat \ {0}
    /\ {MaxFaults, MaxEdits} \subseteq Nat

VARIABLES
    row,            \* deploy_deliveries
    binding,        \* the bindings: absent, enabled, disabled or gone
    target,         \* the one deploy target
    version,        \* the content stored for each binding, counted from 1
    event,          \* bindings whose new content is committed but not yet queued
    job,            \* what each batch and request is doing
    remote,         \* the content on each host; 0 when none or only some files
    owed,           \* the newest content some row stands for that was queued for the
                    \* host of the target
    disturbed,      \* bindings pushed by two at once, queued in a row in flight, pushed
                    \* by a request that left no record, or to a host given up meanwhile
    faults,
    edits

queue == <<row, owed>>
world == <<binding, target, version, event, remote>>
vars == <<row, binding, target, version, event, job, remote, owed, disturbed, faults, edits>>

Versions == 0..MaxVersion
Row == [status : {"unused", "pending", "delivered", "failed", "deleted"},
        binding : Bindings \cup {NoRow},
        attempts : Nat,
        max : {1, MaxAttempts},
        due : BOOLEAN,
        asked : Versions]       \* the newest content the row was queued for or settled with
Target == [host : Hosts, key : Hosts \cup {NoKey}, enabled : BOOLEAN, present : BOOLEAN]
Job == [pc : {"idle", "batch", "execute", "push", "record"},
        batch : SUBSET Rows,    \* rows of the batch that the claim would still match
        row : Rows \cup {NoRow},
        binding : Bindings \cup {NoRow},
        attempts : Nat,         \* as read after the claim
        max : {1, MaxAttempts},
        content : Versions,     \* the files resolved
        host : Hosts \cup {NoKey},
        key : Hosts \cup {NoKey},       \* the pin that was read
        learned : Hosts \cup {NoKey},   \* the key of the first connection
        result : {"none", "ok", "retry", "permanent"}]

Blank == [status |-> "unused", binding |-> NoRow, attempts |-> 0, max |-> MaxAttempts,
          due |-> FALSE, asked |-> 0]
Deleted == [Blank EXCEPT !.status = "deleted"]
Idle == [pc |-> "idle", batch |-> {}, row |-> NoRow, binding |-> NoRow, attempts |-> 0,
         max |-> MaxAttempts, content |-> 0, host |-> NoKey, key |-> NoKey,
         learned |-> NoKey, result |-> "none"]

TypeOK ==
    /\ row \in [Rows -> Row]
    /\ binding \in [Bindings -> {"absent", "enabled", "disabled", "gone"}]
    /\ target \in Target
    /\ version \in [Bindings -> Versions]
    /\ event \subseteq Bindings
    /\ job \in [Jobs -> Job]
    /\ remote \in [Bindings -> [Hosts -> Versions]]
    /\ owed \in [Bindings -> Versions]
    /\ disturbed \subseteq Bindings
    /\ faults \in 0..MaxFaults
    /\ edits \in 0..MaxEdits

Init ==
    /\ row = [d \in Rows |-> Blank]
    /\ binding = [b \in Bindings |-> "absent"]
    /\ \E h \in Hosts : target = [host |-> h, key |-> NoKey, enabled |-> TRUE, present |-> TRUE]
    /\ version = [b \in Bindings |-> 1]
    /\ event = {}
    /\ job = [j \in Jobs |-> Idle]
    /\ remote = [b \in Bindings |-> [h \in Hosts |-> 0]]
    /\ owed = [b \in Bindings |-> 0]
    /\ disturbed = {}
    /\ faults = 0
    /\ edits = 0

-----------------------------------------------------------------------------
Pending(d) == row[d].status = "pending"
Present(d) == row[d].status \in {"pending", "delivered", "failed"}
Live(b) == binding[b] = "enabled" /\ target.present /\ target.enabled
Pushing(j, b) == job[j].pc \in {"push", "record"} /\ job[j].binding = b
\* Job j is about to work on row d of binding b while another works on either.
Crossing(j, d, b) ==
    \E o \in Jobs \ {j} : Pushing(o, b) \/ (d \in Rows /\ job[o].row = d)
Disturb(b, when) == disturbed' = IF when THEN disturbed \cup {b} ELSE disturbed
InFlight(d) == \E j \in Jobs : job[j].row = d /\ job[j].pc \in {"push", "record"}

Fault == faults < MaxFaults /\ faults' = faults + 1
Edit == edits < MaxEdits /\ edits' = edits + 1

\* A row of binding b that is due at once.
Fresh(b) == [status |-> "pending", binding |-> b, attempts |-> 0, max |-> MaxAttempts,
             due |-> TRUE, asked |-> version[b]]

\* The rows of D were rescheduled: no batch read before claims them.
Unclaimable(jobs, D) == [j \in Jobs |-> [jobs[j] EXCEPT !.batch = @ \ D]]

\* The model has a row left besides those that requests in progress will insert.
Spare ==
    Cardinality({d \in Rows : row[d].status = "unused"}) >
    Cardinality({j \in Requests : job[j].pc # "idle" /\ job[j].row = NoRow})

\* A new row for binding b.
Insert(b) ==
    /\ Spare
    /\ \E d \in Rows :
          /\ row[d].status = "unused"
          /\ row' = [row EXCEPT ![d] = Fresh(b)]
    /\ owed' = [owed EXCEPT ![b] = version[b]]

-----------------------------------------------------------------------------
(* Contents and events *)

\* A certificate is issued again or renewed, a complete CRL is stored: committed,
\* and the event is emitted next, in the same request.
Store(b) ==
    /\ version[b] < MaxVersion
    /\ b \notin event
    /\ version' = [version EXCEPT ![b] = @ + 1]
    /\ event' = event \cup {b}
    /\ UNCHANGED <<row, binding, target, job, remote, owed, disturbed, faults, edits>>

\* Fault: a pending row makes another one needless.
EnqueueForEvent_Skips(b) ==
    /\ b \in event \cap CertBindings
    /\ IF Live(b) /\ ~\E d \in Rows : Pending(d) /\ row[d].binding = b
       THEN Insert(b)
       ELSE owed' = [owed EXCEPT ![b] = IF Live(b) THEN version[b] ELSE @] /\ UNCHANGED row
    /\ event' = event \ {b}
    /\ UNCHANGED <<binding, target, version, job, remote, disturbed, faults, edits>>

\* enqueue_for_event: one row per event for an enabled binding.
EnqueueForEvent(b) ==
    /\ b \in event \cap CertBindings
    /\ IF Live(b) THEN Insert(b) ELSE UNCHANGED queue
    /\ event' = event \ {b}
    /\ UNCHANGED <<binding, target, version, job, remote, disturbed, faults, edits>>

\* Row d, pending, now also stands for the newest content of its binding.  Whoever
\* is pushing it resolved its files before, and marks the row delivered after.
Coalesce(d, attempts) ==
    LET b == row[d].binding IN
    /\ row' = [row EXCEPT ![d] = [Fresh(b) EXCEPT !.attempts = attempts, !.max = row[d].max]]
    /\ owed' = [owed EXCEPT ![b] = version[b]]
    /\ Disturb(b, InFlight(d))

\* enqueue_crl_for_event: a pending row is made due again instead.
EnqueueCrlForEvent(b) ==
    /\ b \in event \cap CrlBindings
    /\ \/ /\ Live(b)
          /\ \E d \in Rows :
                /\ Pending(d) /\ row[d].binding = b
                /\ Coalesce(d, 0)
                /\ job' = Unclaimable(job, {d})
       \/ /\ Live(b)
          /\ ~\E d \in Rows : Pending(d) /\ row[d].binding = b
          /\ Insert(b)
          /\ UNCHANGED <<job, disturbed>>
       \/ ~Live(b) /\ UNCHANGED <<queue, job, disturbed>>
    /\ event' = event \ {b}
    /\ UNCHANGED <<binding, target, version, remote, faults, edits>>

\* The row cannot be committed, or the process dies before: the event is lost.
LoseEvent(b) ==
    /\ b \in event
    /\ Fault
    /\ event' = event \ {b}
    /\ UNCHANGED <<row, binding, target, version, job, remote, owed, disturbed, edits>>

-----------------------------------------------------------------------------
(* Operators *)

\* create_binding and create_crl_binding: the binding and its first row together.
CreateBinding(b, status) ==
    /\ Edit
    /\ binding[b] = "absent"
    /\ target.present
    /\ binding' = [binding EXCEPT ![b] = status]
    /\ IF status = "enabled" /\ target.enabled THEN Insert(b) ELSE UNCHANGED queue
    /\ UNCHANGED <<target, version, event, job, remote, disturbed, faults>>

\* The rows of the bindings in B are deleted.
DeleteRows(B) ==
    row' = [d \in Rows |-> IF Present(d) /\ row[d].binding \in B THEN Deleted ELSE row[d]]

\* delete_binding, delete_crl_binding, and the deletion of the certificate.
DeleteBinding(b) ==
    /\ Edit
    /\ binding[b] \in {"enabled", "disabled"}
    /\ binding' = [binding EXCEPT ![b] = "gone"]
    /\ DeleteRows({b})
    /\ UNCHANGED <<target, version, event, job, remote, owed, disturbed, faults>>

\* A row of b will still be pushed, or is on record as failed with what is owed.
Accounted(b) ==
    \E d \in Rows :
        /\ row[d].binding = b
        /\ Pending(d) \/ (row[d].status = "failed" /\ row[d].asked >= owed[b])

\* update_target: another host unpins the key, as a reset does.  Nothing is queued
\* for the new host, so what was deployed is not owed to it; a push that goes on
\* goes to the old one.
UpdateTarget(host, reset, enabled) ==
    /\ Edit
    /\ target.present
    /\ target' = [host |-> host, enabled |-> enabled, present |-> TRUE,
                  key |-> IF host # target.host \/ reset THEN NoKey ELSE target.key]
    /\ target' # target
    /\ IF host = target.host
       THEN UNCHANGED <<owed, disturbed>>
       ELSE /\ owed' = [b \in Bindings |-> IF Accounted(b) THEN owed[b] ELSE 0]
            /\ disturbed' = disturbed \cup {b \in Bindings : \E j \in Jobs : Pushing(j, b)}
    /\ UNCHANGED <<row, binding, version, event, job, remote, faults>>

DeleteTarget ==
    /\ Edit
    /\ target.present
    /\ target' = [target EXCEPT !.present = FALSE]
    /\ binding' = [b \in Bindings |-> IF binding[b] = "absent" THEN "absent" ELSE "gone"]
    /\ DeleteRows(Bindings)
    /\ UNCHANGED <<version, event, job, remote, owed, disturbed, faults>>

RetryDelivery(d) ==
    /\ Edit
    /\ row[d].status = "failed"
    /\ row' = [row EXCEPT ![d] = [@ EXCEPT !.status = "pending", !.attempts = 0,
                                           !.max = MaxAttempts, !.due = TRUE]]
    /\ job' = Unclaimable(job, {d})
    /\ UNCHANGED <<binding, target, version, event, remote, owed, disturbed, faults>>

\* Backoff and lease run out.
Wait(d) ==
    /\ Pending(d)
    /\ ~row[d].due
    /\ row' = [row EXCEPT ![d].due = TRUE]
    /\ UNCHANGED <<binding, target, version, event, job, remote, owed, disturbed, faults, edits>>

-----------------------------------------------------------------------------
(* process_pending_deliveries *)

\* Job j goes to step pc with what it has read and learned.
Step(j, fields) == job' = [job EXCEPT ![j] = fields]
Rest(j) == [Idle EXCEPT !.pc = "batch", !.batch = job[j].batch]

StartBatch(j) ==
    LET due == {d \in Rows : Pending(d) /\ row[d].due} IN
    /\ job[j].pc = "idle"
    /\ due # {}
    /\ Step(j, [Idle EXCEPT !.pc = "batch", !.batch = due])
    /\ UNCHANGED <<world, queue, disturbed, faults, edits>>

\* Fault: the claim marks the row with a status the queries do not know.
Claim_Running(j, d) ==
    /\ job[j].pc = "batch"
    /\ d \in job[j].batch
    /\ Pending(d)
    /\ row' = [row EXCEPT ![d].attempts = @ + 1, ![d].status = "running"]
    /\ job' = Unclaimable([job EXCEPT ![j] = [Rest(j) EXCEPT !.pc = "execute", !.row = d]], {d})
    /\ UNCHANGED <<world, owed, disturbed, faults, edits>>

\* The claim: counts the attempt and leases the row from every other batch.
Claim(j, d) ==
    /\ job[j].pc = "batch"
    /\ d \in job[j].batch
    /\ Pending(d)
    /\ row' = [row EXCEPT ![d].attempts = @ + 1, ![d].due = FALSE]
    /\ job' = Unclaimable([job EXCEPT ![j] = [Rest(j) EXCEPT !.pc = "execute", !.row = d]], {d})
    /\ Disturb(row[d].binding, Crossing(j, d, row[d].binding))
    /\ UNCHANGED <<world, owed, faults, edits>>

EndBatch(j) ==
    /\ job[j].pc = "batch"
    /\ \A d \in job[j].batch : ~Pending(d)
    /\ Step(j, Idle)
    /\ UNCHANGED <<world, queue, disturbed, faults, edits>>

\* refresh: the claimed row is gone, and the exception ends the batch.
RowVanished(j) ==
    /\ job[j].pc = "execute"
    /\ ~Present(job[j].row)
    /\ Step(j, Idle)
    /\ UNCHANGED <<world, queue, disturbed, faults, edits>>

\* execute_delivery finds nothing to push to; the caller commits the failure.
NoDestination(j) ==
    LET d == job[j].row IN
    /\ job[j].pc = "execute"
    /\ Present(d)
    /\ ~Live(row[d].binding)
    /\ \/ /\ row' = [row EXCEPT ![d] = [@ EXCEPT !.status = "failed", !.due = FALSE,
                                                 !.asked = version[row[d].binding]]]
          /\ UNCHANGED faults
       \/ Fault /\ UNCHANGED row
    /\ Step(j, Rest(j))
    /\ UNCHANGED <<world, owed, disturbed, edits>>

\* Job j resolves the files of binding b for row d and is about to connect, or
\* resolve_files refuses (no key, no chain, no CRL) and the failure is permanent.
Resolving(j, d, b, attempts, max) ==
    LET start == [pc |-> "push", batch |-> job[j].batch, row |-> d, binding |-> b,
                  attempts |-> attempts, max |-> max, content |-> version[b],
                  host |-> target.host, key |-> target.key, learned |-> NoKey,
                  result |-> "none"]
    IN  /\ Step(j, start) \/ Step(j, [start EXCEPT !.pc = "record", !.result = "permanent"])
        /\ Disturb(b, Crossing(j, d, b))

Resolve(j) ==
    LET d == job[j].row IN
    /\ job[j].pc = "execute"
    /\ Present(d)
    /\ Live(row[d].binding)
    /\ Resolving(j, d, row[d].binding, row[d].attempts, row[d].max)
    /\ UNCHANGED <<world, queue, faults, edits>>

\* Connect, push, reload.  A pinned key that differs stops it, an unpinned one is
\* learned.  All files arrive and the reload succeeds or not; or some arrive; or none.
Push(j) ==
    LET b == job[j].binding
        known == job[j].key \in {NoKey, job[j].host}
        learned == IF job[j].key = NoKey THEN job[j].host ELSE NoKey
        End(l, result) == Step(j, [job[j] EXCEPT !.pc = "record", !.learned = l, !.result = result])
    IN
    /\ job[j].pc = "push"
    /\ \/ /\ known
          /\ remote' = [remote EXCEPT ![b][job[j].host] = job[j].content]
          /\ \E result \in {"ok", "retry"} : End(learned, result)
       \/ /\ known
          /\ remote' \in {remote, [remote EXCEPT ![b][job[j].host] = 0]}
          /\ End(learned, "retry")
       \/ /\ UNCHANGED remote
          /\ \E result \in {"retry", "permanent"} : End(NoKey, result)
    /\ UNCHANGED <<binding, target, version, event, queue, disturbed, faults, edits>>

\* The status that job j writes to a row whose status is old.
Outcome(j, old) ==
    IF job[j].result = "ok" THEN "delivered"
    ELSE IF job[j].result = "permanent" \/ job[j].attempts >= job[j].max THEN "failed"
    ELSE old

\* Row d after job j has tried it: with a backoff when there is to be another attempt.
Tried(j, d) ==
    [row[d] EXCEPT !.status = Outcome(j, @), !.due = FALSE,
                   !.asked = IF job[j].content > @ THEN job[j].content ELSE @]

\* A key learned is pinned in the transaction that records the push.
Pin(j) == target' = IF job[j].learned = NoKey THEN target ELSE [target EXCEPT !.key = job[j].learned]

\* The outcome is committed.  A failed commit is rolled back and the batch goes on;
\* a row that is gone is rolled back too, and the audit entry that names it ends
\* the batch.
Record(j) ==
    LET d == job[j].row IN
    /\ j \in Batches
    /\ job[j].pc = "record"
    /\ \/ /\ Present(d)
          /\ row' = [row EXCEPT ![d] = Tried(j, d)]
          /\ Pin(j)
          /\ job' = Unclaimable([job EXCEPT ![j] = Rest(j)], {d})
          /\ UNCHANGED faults
       \/ ~Present(d) /\ Step(j, Idle) /\ UNCHANGED <<row, target, faults>>
       \/ Fault /\ Step(j, Rest(j)) /\ UNCHANGED <<row, target>>
    /\ UNCHANGED <<binding, version, event, remote, owed, disturbed, edits>>

-----------------------------------------------------------------------------
(* Requests that push *)

\* deploy_now: a row of its own, which does not outlive a failure.
DeployNow(j, b) ==
    /\ Edit
    /\ Spare
    /\ job[j].pc = "idle"
    /\ binding[b] \in {"enabled", "disabled"}
    /\ \/ /\ Live(b)
          /\ Resolving(j, NoRow, b, 1, 1)
          /\ UNCHANGED row
       \/ /\ ~Live(b)
          /\ \E d \in Rows :
                /\ row[d].status = "unused"
                /\ row' = [row EXCEPT ![d] = [Fresh(b) EXCEPT !.status = "failed", !.attempts = 1,
                                                              !.max = 1, !.due = FALSE]]
          /\ UNCHANGED <<job, disturbed>>
    /\ UNCHANGED <<world, owed, faults>>

\* update_binding, update_crl_binding: saved disabled, the binding is only saved.
\* Enabled, its pending row if it has one, or a new one, is tried at once; row
\* and binding are written when the outcome is.
UpdateBinding(j, b, status) ==
    /\ Edit
    /\ job[j].pc = "idle"
    /\ binding[b] \in {"enabled", "disabled"}
    /\ \/ /\ status = "disabled" \/ ~target.enabled
          /\ binding' = [binding EXCEPT ![b] = status]
          /\ UNCHANGED <<job, disturbed>>
       \/ /\ status = "enabled" /\ target.enabled
          /\ LET mine == {d \in Rows : Pending(d) /\ row[d].binding = b} IN
             \E d \in IF mine = {} THEN {NoRow} ELSE mine :
                /\ mine = {} => Spare
                /\ Resolving(j, d, b, 1, MaxAttempts)
          /\ UNCHANGED binding
    /\ UNCHANGED <<row, target, version, event, remote, owed, faults>>

\* What a request writes in row d: the new row when it had none.
Saved(j, d) ==
    LET b == job[j].binding IN
    [status |-> Outcome(j, IF job[j].row = NoRow THEN "pending" ELSE row[d].status),
     binding |-> b, attempts |-> 1, max |-> job[j].max, due |-> FALSE,
     asked |-> IF job[j].content > row[d].asked THEN job[j].content ELSE row[d].asked]

\* The request commits row, pin and binding together, or nothing: when the commit
\* fails, or the row, the binding it edits or the target is gone.
SaveRequest(j) ==
    LET b == job[j].binding
        edited == job[j].max = MaxAttempts
    IN
    /\ j \in Requests
    /\ job[j].pc = "record"
    /\ \/ /\ target.present
          /\ edited => binding[b] # "gone"
          /\ \E d \in Rows :
                /\ IF job[j].row = NoRow THEN row[d].status = "unused"
                                         ELSE d = job[j].row /\ Present(d)
                /\ row' = [row EXCEPT ![d] = Saved(j, d)]
                /\ job' = Unclaimable([job EXCEPT ![j] = Idle], {d})
          /\ Pin(j)
          /\ binding' = IF edited THEN [binding EXCEPT ![b] = "enabled"] ELSE binding
          /\ UNCHANGED faults
       \/ /\ \/ ~target.present
             \/ edited /\ binding[b] = "gone"
             \/ job[j].row \in Rows /\ ~Present(job[j].row)
          /\ Step(j, Idle)
          /\ UNCHANGED <<row, target, binding, faults>>
       \/ Fault /\ Step(j, Idle) /\ UNCHANGED <<row, target, binding>>
    /\ Disturb(b, faults' # faults)
    /\ UNCHANGED <<version, event, remote, owed, edits>>

\* A process dies with the jobs in it, perhaps between two files of a push.
Crash(dead) ==
    /\ \E j \in dead : job[j].pc # "idle"
    /\ Fault
    /\ job' = [j \in Jobs |-> IF j \in dead THEN Idle ELSE job[j]]
    /\ \E cut \in SUBSET {j \in dead : job[j].pc = "push"} :
          remote' = [b \in Bindings |-> [h \in Hosts |->
                        IF \E j \in cut : job[j].binding = b /\ job[j].host = h THEN 0 ELSE remote[b][h]]]
    /\ disturbed' = disturbed \cup {b \in Bindings : \E j \in dead \cap Requests :
                        Pushing(j, b)}
    /\ UNCHANGED <<binding, target, version, event, queue, edits>>

-----------------------------------------------------------------------------
\* The steps of a batch or a request in progress.
Continue(j) ==
    \/ \E d \in Rows : Claim(j, d)
    \/ EndBatch(j) \/ RowVanished(j) \/ NoDestination(j) \/ Resolve(j) \/ Push(j)
    \/ Record(j) \/ SaveRequest(j)

Operator ==
    \/ \E b \in Bindings, s \in {"enabled", "disabled"} : CreateBinding(b, s)
    \/ \E b \in Bindings : DeleteBinding(b)
    \/ \E h \in Hosts, reset, enabled \in BOOLEAN : UpdateTarget(h, reset, enabled)
    \/ DeleteTarget
    \/ \E d \in Rows : RetryDelivery(d)
    \/ \E j \in Requests, b \in Bindings :
          DeployNow(j, b) \/ \E s \in {"enabled", "disabled"} : UpdateBinding(j, b, s)

Next ==
    \/ \E b \in Bindings : Store(b) \/ EnqueueForEvent(b) \/ EnqueueCrlForEvent(b) \/ LoseEvent(b)
    \/ Operator
    \/ \E d \in Rows : Wait(d)
    \/ \E j \in Batches : StartBatch(j)
    \/ \E j \in Jobs : Continue(j)
    \/ \E dead \in SUBSET Jobs : Crash(dead)

Spec == Init /\ [][Next]_vars

-----------------------------------------------------------------------------
\* The newest content queued for b is on the host of the target.
Deployed(b) == remote[b][target.host] >= owed[b]
Recording(b) == \E j \in Requests : job[j].pc = "record" /\ job[j].binding = b
Bound(b) == binding[b] \in {"enabled", "disabled"}

\* What was queued for a binding is never forgotten: it is on the host of the
\* target, or a row will still push it or records that it failed, or a request is
\* about to record it; through retries, partial pushes, failed reloads and commits,
\* crashes, expired leases and edits of the binding and of the target, as long as
\* two pushes of it do not cross, nothing is queued in a row in flight and the host
\* is not changed under a push (execute_delivery, _record_failure, the enqueue
\* functions).  What had been deployed when the host changed is not owed to the new
\* host: update_target queues nothing.
OwedUntilDeployed ==
    \A b \in Bindings \ disturbed : Bound(b) => Deployed(b) \/ Accounted(b) \/ Recording(b)
=============================================================================
