-------------------------- MODULE DeployQueueProofs --------------------------
(***************************************************************************)
(* What is queued for a binding is not forgotten, for any number of rows,  *)
(* bindings, batches and requests, whatever fails and whoever edits.       *)
(***************************************************************************)
EXTENDS DeployQueue, TLAPS

\* Row d answers for what is owed to binding b.
Stands(d, b) ==
    /\ row[d].binding = b
    /\ Pending(d) \/ (row[d].status = "failed" /\ row[d].asked >= owed[b])

\* A row is of a binding that was created.
Placed(d) == Present(d) => row[d].binding \in Bindings /\ binding[row[d].binding] # "absent"

\* Who pushes has a binding that was created, and the row it holds is of that binding or was
\* deleted with it.
Working(j) ==
    LET w == job[j] IN
    /\ w.pc \in {"idle", "batch"} => w.row = NoRow
    /\ w.pc = "execute" => w.row \in Rows
    /\ w.pc \in {"push", "record"} =>
          /\ w.binding \in Bindings /\ binding[w.binding] # "absent"
          /\ j \in Batches => w.row \in Rows
          /\ w.row \in Rows =>
                IF Present(w.row) THEN row[w.row].binding = w.binding ELSE binding[w.binding] = "gone"
    /\ w.row \in Rows => row[w.row].status # "unused"

\* Nothing is owed that was not stored, and nothing without a binding or without a target.
Ordered(b) ==
    /\ owed[b] <= version[b]
    /\ binding[b] = "absent" => owed[b] = 0
    /\ ~target.present => ~Bound(b)

\* A binding is pushed by one job at a time, and a row that is held is pending and in one hand.
Alone(b) ==
    /\ \A i, j \in Jobs : Pushing(i, b) /\ Pushing(j, b) => i = j
    /\ \A j \in Jobs, d \in Rows :
          job[j].row = d /\ Present(d) /\ row[d].binding = b =>
              Pending(d) /\ \A i \in Jobs : job[i].row = d => i = j

\* The content of b on the host of the target, and a step that leaves it alone.
Here(b) == remote[b][target.host]
SameHere(b) == remote'[b] = remote[b] /\ target'.host = target.host

\* What is being pushed goes to the host of the target; it is all that is owed, or another row answers for the rest; and what
\* arrived is still there.
Carried(b) ==
    \A j \in Jobs : Pushing(j, b) =>
        /\ owed[b] <= job[j].content \/ \E d \in Rows \ {job[j].row} : Stands(d, b)
        /\ job[j].pc = "record" /\ job[j].result = "ok" => Here(b) = job[j].content
        /\ job[j].host = target.host

Kept(b) == Deployed(b) \/ Accounted(b) \/ Recording(b)
Tended(b) == Alone(b) /\ Carried(b) /\ Kept(b)

Linked ==
    /\ \A d \in Rows : Placed(d)
    /\ \A j \in Jobs : Working(j)

DeployInv ==
    /\ Linked
    /\ \A b \in Bindings : Ordered(b)
    /\ \A b \in Bindings \ disturbed : Bound(b) => Tended(b)

-----------------------------------------------------------------------------
(* What steps do to jobs *)

LEMMA Blanks == Idle \in Job /\ Blank \in Row /\ Deleted \in Row /\ ~(Deleted.status \in {"unused", "pending", "delivered", "failed"})
  <1>1. 0 \in Versions
    BY DeployAssumption DEF Versions
  <1>2. Blank \in Row
    BY <1>1 DEF Blank, Row
  <1>3. Deleted \in Row /\ Deleted.status = "deleted"
    BY <1>2 DEF Deleted, Row
  <1>4. Idle \in Job
    BY <1>1 DEF Idle, Job
  <1> QED
    BY <1>2, <1>3, <1>4

\* A job is at the same step, with the same row and content.
AtSame(u, w) ==
    /\ u.pc = w.pc /\ u.row = w.row /\ u.binding = w.binding /\ u.content = w.content /\ u.result = w.result
    /\ u.host = w.host
SameJob(i) == AtSame(job'[i], job[i])

\* Rows taken from the batches change nothing else.
LEMMA UnclaimableIs ==
  ASSUME NEW f \in [Jobs -> Job], NEW D, NEW u, u = Unclaimable(f, D)
  PROVE  u \in [Jobs -> Job] /\ \A i \in Jobs : AtSame(u[i], f[i])
  <1>1. \A x \in Job : [x EXCEPT !.batch = @ \ D] \in Job /\ AtSame([x EXCEPT !.batch = @ \ D], x)
    BY DEF Job, AtSame
  <1>2. \A i \in Jobs : f[i] \in Job /\ u[i] = [f[i] EXCEPT !.batch = @ \ D]
    BY DEF Unclaimable
  <1>3. u \in [Jobs -> Job]
    BY <1>1, <1>2 DEF Unclaimable
  <1> QED
    BY <1>1, <1>2, <1>3

LEMMA UnclaimedJobs ==
  ASSUME TypeOK, NEW D, job' = Unclaimable(job, D)
  PROVE  job' \in [Jobs -> Job] /\ \A i \in Jobs : SameJob(i)
  BY UnclaimableIs DEF TypeOK, SameJob

LEMMA StepJobs ==
  ASSUME TypeOK, NEW j \in Jobs, NEW x \in Job, Step(j, x)
  PROVE  /\ job' \in [Jobs -> Job] /\ job'[j] = x
         /\ \A i \in Jobs \ {j} : SameJob(i)
  BY DEF TypeOK, Step, SameJob, AtSame

LEMMA ReleasedJobs ==
  ASSUME TypeOK, NEW j \in Jobs, NEW x \in Job, NEW D, NEW f, f = [job EXCEPT ![j] = x],
         job' = Unclaimable(f, D)
  PROVE  /\ job' \in [Jobs -> Job] /\ AtSame(job'[j], x)
         /\ \A i \in Jobs \ {j} : SameJob(i)
  <1>1. f \in [Jobs -> Job] /\ f[j] = x /\ \A i \in Jobs \ {j} : f[i] = job[i]
    BY DEF TypeOK
  <1>2. job' \in [Jobs -> Job] /\ \A i \in Jobs : AtSame(job'[i], f[i])
    BY <1>1, UnclaimableIs
  <1> QED
    BY <1>1, <1>2 DEF SameJob

\* The end of one delivery, with the rest of the batch ahead.
LEMMA RestIs ==
  ASSUME TypeOK, NEW j \in Jobs
  PROVE  /\ Rest(j) \in Job /\ Rest(j).pc = "batch" /\ Rest(j).row = NoRow
         /\ \A d \in Rows : LET x == [Rest(j) EXCEPT !.pc = "execute", !.row = d] IN
               x \in Job /\ x.pc = "execute" /\ x.row = d
  BY Blanks DEF TypeOK, Rest, Idle, Job

-----------------------------------------------------------------------------
(* Types, links and the order of contents *)

Sound == TypeOK /\ Linked /\ \A b \in Bindings : Ordered(b)

BindingMoves(b) ==
    /\ binding[b] # "absent" => binding'[b] # "absent"
    /\ binding[b] = "gone" => binding'[b] = "gone"

RowMoves(d) ==
    \/ row'[d] = row[d]
    \/ /\ Present(d)' /\ row[d].status # "deleted"
       /\ row'[d].binding \in Bindings /\ binding'[row'[d].binding] # "absent"
       /\ Present(d) => row'[d].binding = row[d].binding
    \/ Present(d) /\ row'[d] = Deleted /\ binding'[row[d].binding] = "gone"

LEMMA LinksKept ==
  ASSUME TypeOK, Linked,
         \A b \in Bindings : BindingMoves(b),
         \A d \in Rows : RowMoves(d),
         \A j \in Jobs : SameJob(j) \/ Working(j)'
  PROVE  Linked'
  <1>1. ASSUME NEW d \in Rows
        PROVE  Placed(d)'
    BY <1>1, Blanks DEF Linked, Placed, RowMoves, BindingMoves, Present
  <1>2. ASSUME NEW j \in Jobs, SameJob(j)
        PROVE  Working(j)'
    <2> PICK w : w = job[j]
      OBVIOUS
    <2> PICK v : v = job'[j]
      OBVIOUS
    <2>0. v.pc = w.pc /\ v.row = w.row /\ v.binding = w.binding
      BY <1>2 DEF SameJob, AtSame
    <2>1. /\ w.pc \in {"idle", "batch"} => w.row = NoRow
          /\ w.pc = "execute" => w.row \in Rows
          /\ w.pc \in {"push", "record"} => w.binding \in Bindings /\ (j \in Batches => w.row \in Rows)
      BY DEF Linked, Working
    <2>2. w.pc \in {"push", "record"} => binding'[w.binding] # "absent"
      BY DEF Linked, Working, BindingMoves
    <2>3. ASSUME w.row \in Rows
          PROVE  row'[w.row].status # "unused"
      <3>1. row[w.row].status # "unused" /\ RowMoves(w.row)
        BY <2>3 DEF Linked, Working
      <3> QED
        BY <3>1, Blanks DEF RowMoves, Present
    <2>4. ASSUME w.pc \in {"push", "record"}, w.row \in Rows
          PROVE  IF Present(w.row)' THEN row'[w.row].binding = w.binding ELSE binding'[w.binding] = "gone"
      <3>1. /\ IF Present(w.row) THEN row[w.row].binding = w.binding ELSE binding[w.binding] = "gone"
            /\ RowMoves(w.row) /\ w.binding \in Bindings /\ row[w.row].status # "unused"
        BY <2>4 DEF Linked, Working
      <3>2. BindingMoves(w.binding)
        BY <3>1
      <3>3. row[w.row] \in Row
        BY <2>4 DEF TypeOK
      <3> QED
        BY <3>1, <3>2, <3>3, Blanks DEF RowMoves, BindingMoves, Present, Row
    <2> QED
      BY <2>0, <2>1, <2>2, <2>3, <2>4 DEF Working
  <1> QED
    BY <1>1, <1>2 DEF Linked

LEMMA FreshIs ==
  ASSUME TypeOK, NEW b \in Bindings
  PROVE  Fresh(b) \in Row /\ Fresh(b).status = "pending" /\ Fresh(b).binding = b
  BY DeployAssumption DEF TypeOK, Fresh, Row

\* One row d is new for binding b, or stands for its newest content now.
Queues(d, b) ==
    /\ row' \in [Rows -> Row]
    /\ row'[d].status = "pending" /\ row'[d].binding = b
    /\ \A x \in Rows \ {d} : row'[x] = row[x]
    /\ owed' \in [Bindings -> Versions] /\ owed'[b] = version[b]
    /\ \A c \in Bindings \ {b} : owed'[c] = owed[c]

LEMMA InsertIs ==
  ASSUME TypeOK, NEW b \in Bindings, Insert(b)
  PROVE  \E d \in Rows : row[d].status = "unused" /\ Queues(d, b)
  <1> PICK d \in Rows : row[d].status = "unused" /\ row' = [row EXCEPT ![d] = Fresh(b)]
    BY DEF Insert
  <1> PICK r : r = Fresh(b)
    OBVIOUS
  <1>1. r \in Row /\ r.status = "pending" /\ r.binding = b
    BY FreshIs
  <1>2. row' \in [Rows -> Row] /\ row'[d] = r /\ \A x \in Rows \ {d} : row'[x] = row[x]
    BY <1>1 DEF TypeOK
  <1>3. owed' \in [Bindings -> Versions] /\ owed'[b] = version[b] /\ \A c \in Bindings \ {b} : owed'[c] = owed[c]
    BY DEF TypeOK, Insert
  <1> QED
    BY <1>1, <1>2, <1>3 DEF Queues

LEMMA CoalesceIs ==
  ASSUME TypeOK, NEW d \in Rows, row[d].binding \in Bindings, Coalesce(d, 0)
  PROVE  Queues(d, row[d].binding)
  <1> PICK b \in Bindings : b = row[d].binding
    OBVIOUS
  <1> PICK g : g = Fresh(b)
    OBVIOUS
  <1> PICK r : r = [g EXCEPT !.attempts = 0, !.max = row[d].max]
    OBVIOUS
  <1>1. r \in Row /\ r.status = "pending" /\ r.binding = b
    <2>1. g \in Row /\ g.status = "pending" /\ g.binding = b
      BY FreshIs
    <2>2. row[d].max \in {1, MaxAttempts}
      BY DEF TypeOK, Row
    <2> QED
      BY <2>1, <2>2 DEF Row
  <1>2. row' = [row EXCEPT ![d] = r]
    BY DEF Coalesce
  <1>3. row' \in [Rows -> Row] /\ row'[d] = r /\ \A x \in Rows \ {d} : row'[x] = row[x]
    BY <1>1, <1>2 DEF TypeOK
  <1>4. owed' \in [Bindings -> Versions] /\ owed'[b] = version[b] /\ \A c \in Bindings \ {b} : owed'[c] = owed[c]
    BY DEF TypeOK, Coalesce
  <1> QED
    BY <1>1, <1>3, <1>4 DEF Queues

\* A row is queued for a binding that is there.
LEMMA QueuesBasics ==
  ASSUME Sound, NEW d \in Rows, NEW b \in Bindings, Queues(d, b),
         row[d].status = "unused" \/ (Pending(d) /\ row[d].binding = b),
         binding' \in [Bindings -> {"absent", "enabled", "disabled", "gone"}],
         \A c \in Bindings : BindingMoves(c),
         \A c \in Bindings : binding'[c] = binding[c] \/ (c = b /\ target.present),
         binding'[b] # "absent",
         job' \in [Jobs -> Job], \A j \in Jobs : SameJob(j),
         UNCHANGED <<target, version, remote>>,
         event' \subseteq Bindings, disturbed' \subseteq Bindings,
         faults' \in 0..MaxFaults, edits' \in 0..MaxEdits
  PROVE  Sound'
  <1>1. TypeOK'
    BY DEF Sound, TypeOK, Queues
  <1>2. \A x \in Rows : RowMoves(x)
    BY DEF Queues, RowMoves, Present, Pending
  <1>3. Linked'
    BY <1>2, LinksKept DEF Sound
  <1>4. ASSUME NEW c \in Bindings
        PROVE  Ordered(c)'
    <2>1. owed[c] \in Nat /\ version[c] \in Nat /\ Ordered(c)
      BY DEF Sound, TypeOK, Versions
    <2>2. binding'[c] = "absent" => binding[c] = "absent"
      BY DEF BindingMoves
    <2>3. ~target.present => ~Bound(c)'
      BY <2>1 DEF Ordered, Bound
    <2> QED
      BY <2>1, <2>2, <2>3 DEF Queues, Ordered
  <1> QED
    BY <1>1, <1>3, <1>4 DEF Sound

\* Rows, jobs or settings move and the rest stays.
LEMMA RestBasics ==
  ASSUME Sound, TypeOK', \A d \in Rows : RowMoves(d), \A j \in Jobs : SameJob(j) \/ Working(j)',
         \A b \in Bindings : BindingMoves(b),
         \A b \in Bindings : owed'[b] \in {0, owed[b]} /\ version'[b] >= version[b],
         \A b \in Bindings : Bound(b)' => target'.present
  PROVE  Sound'
  <1>1. Linked'
    BY LinksKept DEF Sound
  <1>2. ASSUME NEW c \in Bindings
        PROVE  Ordered(c)'
    <2>1. owed[c] \in Nat /\ version[c] \in Nat /\ version'[c] \in Nat /\ Ordered(c)
      BY DEF Sound, TypeOK, Versions
    <2>2. binding'[c] = "absent" => binding[c] = "absent"
      BY DEF BindingMoves
    <2> QED
      BY <2>1, <2>2 DEF Ordered
  <1> QED
    BY <1>1, <1>2 DEF Sound

\* The bindings and the target stay.
LEMMA BoundToTarget ==
  ASSUME Sound, UNCHANGED <<binding, target>>
  PROVE  /\ \A b \in Bindings : BindingMoves(b)
         /\ \A b \in Bindings : Bound(b)' => target'.present
  BY DEF Sound, Ordered, BindingMoves, Bound

LEMMA StoreBasics ==
  ASSUME Sound, NEW b \in Bindings, Store(b)
  PROVE  Sound'
  <1>1. TypeOK'
    BY DeployAssumption DEF Sound, TypeOK, Store, Versions
  <1>2. \A c \in Bindings : owed'[c] = owed[c] /\ version'[c] >= version[c]
    BY DeployAssumption DEF Sound, TypeOK, Store, Versions
  <1>3. \A d \in Rows : RowMoves(d)
    BY DEF Store, RowMoves
  <1>4. \A j \in Jobs : SameJob(j)
    BY DEF Store, SameJob, AtSame
  <1> QED
    BY <1>1, <1>2, <1>3, <1>4, RestBasics, BoundToTarget DEF Store

LEMMA SameStep ==
  ASSUME Sound, TypeOK', UNCHANGED <<row, binding, version, job>>,
         \A c \in Bindings : owed'[c] \in {0, owed[c]}, target'.present = target.present
  PROVE  Sound'
  <1>3. \A d \in Rows : RowMoves(d)
    BY DEF RowMoves
  <1>4. \A j \in Jobs : SameJob(j)
    BY DEF SameJob, AtSame
  <1>5. \A c \in Bindings : /\ owed'[c] \in {0, owed[c]} /\ version'[c] >= version[c]
                            /\ BindingMoves(c) /\ (Bound(c)' => target'.present)
    BY DEF Sound, TypeOK, Versions, BindingMoves, Bound, Ordered
  <1> QED
    BY <1>3, <1>4, <1>5, RestBasics

LEMMA LoseEventBasics ==
  ASSUME Sound, NEW b \in Bindings, LoseEvent(b)
  PROVE  Sound'
  <1>1. TypeOK'
    BY DeployAssumption DEF Sound, TypeOK, LoseEvent, Fault
  <1> QED
    BY <1>1, SameStep DEF LoseEvent

LEMMA UpdateTargetBasics ==
  ASSUME Sound, NEW h \in Hosts, NEW reset \in BOOLEAN, NEW enabled \in BOOLEAN, UpdateTarget(h, reset, enabled)
  PROVE  Sound'
  <1>0. target' \in Target /\ target'.present
    BY DEF Sound, TypeOK, UpdateTarget, Target
  <1>1. /\ owed' \in [Bindings -> Versions] /\ disturbed' \subseteq Bindings
        /\ \A c \in Bindings : owed'[c] \in {0, owed[c]}
    BY DeployAssumption DEF Sound, TypeOK, UpdateTarget, Versions
  <1>2. TypeOK'
    BY <1>0, <1>1, DeployAssumption DEF Sound, TypeOK, UpdateTarget, Edit
  <1> QED
    BY <1>0, <1>1, <1>2, SameStep DEF UpdateTarget, Sound

LEMMA EnqueueBasics ==
  ASSUME Sound, NEW b \in Bindings, EnqueueForEvent(b) \/ EnqueueCrlForEvent(b)
  PROVE  Sound'
  <1>0. /\ event' \subseteq Bindings /\ disturbed' \subseteq Bindings
        /\ faults' \in 0..MaxFaults /\ edits' \in 0..MaxEdits
        /\ UNCHANGED <<binding, target, version, remote>>
        /\ binding' \in [Bindings -> {"absent", "enabled", "disabled", "gone"}]
        /\ \A c \in Bindings : BindingMoves(c)
    <2>1. /\ UNCHANGED <<binding, target, version, remote, faults, edits>>
          /\ event' \subseteq event
      BY DEF EnqueueForEvent, EnqueueCrlForEvent
    <2>2. disturbed' \subseteq disturbed \cup {b}
      <3>1. CASE EnqueueForEvent(b)
        BY <3>1 DEF EnqueueForEvent
      <3>2. CASE EnqueueCrlForEvent(b)
        <4>1. disturbed' = disturbed \/ \E d \in Rows : row[d].binding = b /\ Coalesce(d, 0)
          BY <3>2 DEF EnqueueCrlForEvent
        <4>2. ASSUME NEW d \in Rows, row[d].binding = b, Coalesce(d, 0)
              PROVE  Disturb(b, InFlight(d))
          BY <4>2 DEF Coalesce
        <4> QED
          BY <4>1, <4>2 DEF Disturb
      <3> QED
        BY <3>1, <3>2
    <2> QED
      BY <2>1, <2>2 DEF Sound, TypeOK, BindingMoves
  <1>1. CASE UNCHANGED <<queue, job, disturbed>>
    <2>1. TypeOK'
      BY <1>0, <1>1 DEF Sound, TypeOK, queue
    <2> QED
      BY <1>0, <1>1, <2>1, SameStep DEF queue
  <1>2. CASE Live(b) /\ Insert(b) /\ UNCHANGED <<job, disturbed>>
    <2>1. PICK d \in Rows : row[d].status = "unused" /\ Queues(d, b)
      BY <1>2, InsertIs DEF Sound
    <2>2. job' \in [Jobs -> Job] /\ \A j \in Jobs : SameJob(j)
      BY <1>2 DEF Sound, TypeOK, SameJob, AtSame
    <2>3. binding'[b] # "absent"
      BY <1>0, <1>2 DEF Live
    <2> QED
      BY <1>0, <2>1, <2>2, <2>3, QueuesBasics
  <1>3. CASE Live(b) /\ \E d \in Rows : Pending(d) /\ row[d].binding = b /\ Coalesce(d, 0) /\ job' = Unclaimable(job, {d})
    <2>1. PICK d \in Rows : Pending(d) /\ row[d].binding = b /\ Coalesce(d, 0) /\ job' = Unclaimable(job, {d})
      BY <1>3
    <2>2. Queues(d, b)
      BY <2>1, CoalesceIs DEF Sound
    <2>3. job' \in [Jobs -> Job] /\ \A j \in Jobs : SameJob(j)
      BY <2>1, UnclaimedJobs DEF Sound
    <2>4. binding'[b] # "absent"
      BY <1>0, <1>3 DEF Live
    <2> QED
      BY <1>0, <2>1, <2>2, <2>3, <2>4, QueuesBasics
  <1> QED
    BY <1>1, <1>2, <1>3 DEF EnqueueForEvent, EnqueueCrlForEvent

LEMMA CreateBindingBasics ==
  ASSUME Sound, NEW b \in Bindings, NEW s \in {"enabled", "disabled"}, CreateBinding(b, s)
  PROVE  Sound'
  <1>0. /\ event' \subseteq Bindings /\ disturbed' \subseteq Bindings
        /\ faults' \in 0..MaxFaults /\ edits' \in 0..MaxEdits
        /\ UNCHANGED <<target, version, remote>>
        /\ binding' \in [Bindings -> {"absent", "enabled", "disabled", "gone"}]
    BY DeployAssumption DEF Sound, TypeOK, CreateBinding, Edit
  <1>1. /\ \A c \in Bindings : BindingMoves(c)
        /\ \A c \in Bindings : binding'[c] = binding[c] \/ (c = b /\ target.present)
        /\ binding'[b] # "absent" /\ target.present
    BY DEF Sound, TypeOK, CreateBinding, BindingMoves
  <1>2. job' \in [Jobs -> Job] /\ \A j \in Jobs : SameJob(j)
    BY DEF Sound, TypeOK, CreateBinding, SameJob, AtSame
  <1>3. CASE Insert(b)
    <2>1. PICK d \in Rows : row[d].status = "unused" /\ Queues(d, b)
      BY <1>3, InsertIs DEF Sound
    <2> QED
      BY <1>0, <1>1, <1>2, <2>1, QueuesBasics
  <1>4. CASE UNCHANGED queue
    <2>1. TypeOK'
      BY <1>0, <1>2, <1>4 DEF Sound, TypeOK, queue
    <2>2. \A d \in Rows : RowMoves(d)
      BY <1>4 DEF queue, RowMoves
    <2>3. \A c \in Bindings : owed'[c] = owed[c] /\ version'[c] >= version[c]
      BY <1>0, <1>4 DEF Sound, TypeOK, queue, Versions
    <2> QED
      BY <1>0, <1>1, <1>2, <2>1, <2>2, <2>3, RestBasics
  <1> QED
    BY <1>3, <1>4 DEF CreateBinding

\* The rows of bindings that are gone are deleted.
LEMMA DeleteBasics ==
  ASSUME Sound, NEW B, DeleteRows(B), \A b \in Bindings : BindingMoves(b),
         \A b \in Bindings : b \in B /\ binding[b] # "absent" => binding'[b] = "gone",
         \A b \in Bindings : Bound(b)' => Bound(b) /\ target'.present,
         binding' \in [Bindings -> {"absent", "enabled", "disabled", "gone"}], target' \in Target,
         UNCHANGED <<version, event, job, remote, owed, disturbed, faults>>, Edit
  PROVE  Sound'
  <1>1. row' \in [Rows -> Row]
    BY Blanks DEF Sound, TypeOK, DeleteRows
  <1>2. TypeOK'
    BY <1>1, DeployAssumption DEF Sound, TypeOK, Edit
  <1>3. ASSUME NEW d \in Rows
        PROVE  RowMoves(d)
    <2>1. Present(d) => row[d].binding \in Bindings /\ binding[row[d].binding] # "absent"
      BY DEF Sound, Linked, Placed
    <2>2. row'[d] = IF Present(d) /\ row[d].binding \in B THEN Deleted ELSE row[d]
      BY DEF DeleteRows
    <2> QED
      BY <2>1, <2>2 DEF RowMoves
  <1>4. \A j \in Jobs : SameJob(j)
    BY DEF SameJob, AtSame
  <1>5. \A c \in Bindings : owed'[c] = owed[c] /\ version'[c] >= version[c]
    BY DEF Sound, TypeOK, Versions
  <1> QED
    BY <1>2, <1>3, <1>4, <1>5, RestBasics

LEMMA DeleteBindingBasics ==
  ASSUME Sound, NEW b \in Bindings, DeleteBinding(b)
  PROVE  Sound'
  <1>1. /\ binding' \in [Bindings -> {"absent", "enabled", "disabled", "gone"}]
        /\ binding'[b] = "gone" /\ \A c \in Bindings \ {b} : binding'[c] = binding[c]
        /\ target' \in Target /\ target' = target
    BY DEF Sound, TypeOK, DeleteBinding
  <1>2. /\ \A c \in Bindings : BindingMoves(c)
        /\ \A c \in Bindings : Bound(c)' => Bound(c) /\ target'.present
    BY <1>1 DEF Sound, Ordered, BindingMoves, Bound
  <1> QED
    BY <1>1, <1>2, DeleteBasics DEF DeleteBinding

LEMMA DeleteTargetBasics ==
  ASSUME Sound, DeleteTarget
  PROVE  Sound'
  <1>1. /\ binding' \in [Bindings -> {"absent", "enabled", "disabled", "gone"}]
        /\ \A c \in Bindings : binding'[c] = IF binding[c] = "absent" THEN "absent" ELSE "gone"
        /\ target' \in Target
    BY DEF Sound, TypeOK, DeleteTarget, Target
  <1>2. /\ \A c \in Bindings : BindingMoves(c)
        /\ \A c \in Bindings : ~Bound(c)'
    BY <1>1 DEF BindingMoves, Bound
  <1> QED
    BY <1>1, <1>2, DeleteBasics DEF DeleteTarget

\* A row that is there is written.
LEMMA RowBasics ==
  ASSUME Sound, NEW d \in Rows, NEW r \in Row, Present(d), r.binding = row[d].binding,
         r.status \in {"pending", "delivered", "failed"},
         row' = [row EXCEPT ![d] = r], TypeOK', UNCHANGED <<binding, version, owed>>,
         target'.present = target.present,
         \A j \in Jobs : SameJob(j) \/ Working(j)'
  PROVE  Sound'
  <1>1. row'[d] = r /\ \A x \in Rows \ {d} : row'[x] = row[x]
    BY DEF Sound, TypeOK
  <1>2. \A x \in Rows : RowMoves(x)
    BY <1>1 DEF Sound, Linked, Placed, RowMoves, Present
  <1>3. \A c \in Bindings : /\ owed'[c] = owed[c] /\ version'[c] >= version[c]
                            /\ BindingMoves(c) /\ (Bound(c)' => target'.present)
    BY DEF Sound, TypeOK, Versions, BindingMoves, Bound, Ordered
  <1> QED
    BY <1>2, <1>3, RestBasics

LEMMA RetryBasics ==
  ASSUME Sound, NEW d \in Rows, RetryDelivery(d)
  PROVE  Sound'
  <1> PICK r : r = [row[d] EXCEPT !.status = "pending", !.attempts = 0, !.max = MaxAttempts, !.due = TRUE]
    OBVIOUS
  <1>1. r \in Row /\ r.binding = row[d].binding /\ r.status = "pending"
    BY DEF Sound, TypeOK, Row
  <1>2. row' = [row EXCEPT ![d] = r] /\ Present(d)
    BY DEF RetryDelivery, Present
  <1>3. job' \in [Jobs -> Job] /\ \A j \in Jobs : SameJob(j)
    BY UnclaimedJobs DEF Sound, RetryDelivery
  <1>4. row' \in [Rows -> Row] /\ edits' \in 0..MaxEdits
    BY <1>1, <1>2, DeployAssumption DEF Sound, TypeOK, RetryDelivery, Edit
  <1>5. TypeOK'
    BY <1>3, <1>4 DEF Sound, TypeOK, RetryDelivery
  <1> QED
    BY <1>1, <1>2, <1>3, <1>5, RowBasics DEF RetryDelivery

LEMMA WaitBasics ==
  ASSUME Sound, NEW d \in Rows, Wait(d)
  PROVE  Sound'
  <1> PICK r : r = [row[d] EXCEPT !.due = TRUE]
    OBVIOUS
  <1>1. r \in Row /\ r.binding = row[d].binding /\ r.status = "pending"
    BY DEF Sound, TypeOK, Row, Wait, Pending
  <1>2. row' = [row EXCEPT ![d] = r] /\ Present(d)
    BY DEF Wait, Present, Pending
  <1>3. \A j \in Jobs : SameJob(j)
    BY DEF Wait, SameJob, AtSame
  <1>4. TypeOK'
    BY <1>1, <1>2, <1>3 DEF Sound, TypeOK, Wait
  <1> QED
    BY <1>1, <1>2, <1>3, <1>4, RowBasics DEF Wait

-----------------------------------------------------------------------------
(* What the steps of jobs do *)

\* Job j alone moves, to a step that holds row d.
Only(j, pc, d) ==
    /\ job' \in [Jobs -> Job]
    /\ job'[j].pc = pc /\ job'[j].row = d
    /\ \A i \in Jobs \ {j} : SameJob(i)

\* Row d alone is written, and stays with its binding.
Writes(d) ==
    /\ row' \in [Rows -> Row]
    /\ Present(d) /\ Present(d)' /\ row'[d].binding = row[d].binding
    /\ \A x \in Rows \ {d} : row'[x] = row[x]

LEMMA RestingJob ==
  ASSUME NEW j \in Jobs, NEW pc \in {"idle", "batch"}, Only(j, pc, NoRow)
  PROVE  Working(j)'
  BY DeployAssumption DEF Only, Working

LEMMA StartBatchIs ==
  ASSUME Sound, NEW j \in Jobs, StartBatch(j)
  PROVE  Only(j, "batch", NoRow) /\ job[j].row = NoRow
  <1>0. job[j].row = NoRow
    BY DEF Sound, Linked, Working, StartBatch
  <1> PICK D : D = {d \in Rows : Pending(d) /\ row[d].due}
    OBVIOUS
  <1> PICK x : x = [Idle EXCEPT !.pc = "batch", !.batch = D]
    OBVIOUS
  <1>1. x \in Job /\ x.pc = "batch" /\ x.row = NoRow
    BY Blanks DEF Idle, Job
  <1>2. Step(j, x)
    BY DEF StartBatch
  <1> QED
    BY <1>0, <1>1, <1>2, StepJobs DEF Only, Sound

\* The end of a batch, or of a delivery whose row is gone.
LEMMA EndsIdle ==
  ASSUME Sound, NEW j \in Jobs, Step(j, Idle)
  PROVE  Only(j, "idle", NoRow)
  <1>1. Idle \in Job /\ Idle.pc = "idle" /\ Idle.row = NoRow
    BY Blanks DEF Idle
  <1> QED
    BY <1>1, StepJobs DEF Only, Sound

LEMMA EndsResting ==
  ASSUME Sound, NEW j \in Jobs, Step(j, Rest(j))
  PROVE  Only(j, "batch", NoRow)
  BY RestIs, StepJobs DEF Only, Sound

LEMMA ClaimIs ==
  ASSUME Sound, NEW j \in Jobs, NEW d \in Rows, Claim(j, d)
  PROVE  /\ Only(j, "execute", d) /\ Writes(d) /\ Pending(d) /\ Pending(d)' /\ job[j].row = NoRow
         /\ row'[d].asked = row[d].asked
         /\ row[d].binding \in Bindings
         /\ disturbed' = IF Crossing(j, d, row[d].binding) THEN disturbed \cup {row[d].binding} ELSE disturbed
  <1>0. job[j].row = NoRow /\ row[d].binding \in Bindings
    BY DEF Sound, Linked, Working, Placed, Claim, Present, Pending
  <1> PICK x : x = [Rest(j) EXCEPT !.pc = "execute", !.row = d]
    OBVIOUS
  <1>1. x \in Job /\ x.pc = "execute" /\ x.row = d
    BY RestIs DEF Sound
  <1> PICK f : f = [job EXCEPT ![j] = x]
    OBVIOUS
  <1>2. job' = Unclaimable(f, {d})
    BY DEF Claim
  <1>3. job' \in [Jobs -> Job] /\ AtSame(job'[j], x) /\ \A i \in Jobs \ {j} : SameJob(i)
    BY <1>1, <1>2, ReleasedJobs DEF Sound
  <1>4. Only(j, "execute", d)
    BY <1>1, <1>3 DEF Only, AtSame
  <1> PICK r : r = [row[d] EXCEPT !.attempts = @ + 1, !.due = FALSE]
    OBVIOUS
  <1>5. r \in Row /\ r.status = row[d].status /\ r.binding = row[d].binding /\ r.asked = row[d].asked
    <2>1. row[d] \in Row
      BY DEF Sound, TypeOK
    <2>2. row[d].attempts + 1 \in Nat
      BY <2>1 DEF Row
    <2> QED
      BY <2>1, <2>2 DEF Row
  <1>6. row' \in [Rows -> Row] /\ row'[d] = r /\ \A y \in Rows \ {d} : row'[y] = row[y]
    <2>1. row' = [row EXCEPT ![d] = r]
      BY DEF Claim, Sound, TypeOK
    <2> QED
      BY <1>5, <2>1 DEF Sound, TypeOK
  <1>7. Pending(d) /\ disturbed' = IF Crossing(j, d, row[d].binding) THEN disturbed \cup {row[d].binding} ELSE disturbed
    BY DEF Claim, Disturb
  <1> QED
    BY <1>0, <1>4, <1>5, <1>6, <1>7 DEF Writes, Present, Pending

\* Job j begins to push the content of binding b for row d.
Begins(j, d, b) ==
    /\ job' \in [Jobs -> Job]
    /\ job'[j].pc \in {"push", "record"} /\ job'[j].row = d /\ job'[j].binding = b
    /\ job'[j].content = version[b] /\ job'[j].result # "ok" /\ job'[j].host = target.host
    /\ \A i \in Jobs \ {j} : SameJob(i)
    /\ disturbed' = IF Crossing(j, d, b) THEN disturbed \cup {b} ELSE disturbed

LEMMA ResolvingIs ==
  ASSUME TypeOK, NEW j \in Jobs, NEW d \in Rows \cup {NoRow}, NEW b \in Bindings,
         NEW n \in Nat, NEW m \in {1, MaxAttempts}, Resolving(j, d, b, n, m)
  PROVE  Begins(j, d, b)
  <1> PICK x : x = [pc |-> "push", batch |-> job[j].batch, row |-> d, binding |-> b,
                    attempts |-> n, max |-> m, content |-> version[b],
                    host |-> target.host, key |-> target.key, learned |-> NoKey,
                    result |-> "none"]
    OBVIOUS
  <1> PICK y : y = [x EXCEPT !.pc = "record", !.result = "permanent"]
    OBVIOUS
  <1>0. /\ job[j].batch \in SUBSET Rows /\ version[b] \in Versions
        /\ target.host \in Hosts /\ target.key \in Hosts \cup {NoKey}
    BY DEF TypeOK, Job, Target
  <1>1. /\ x \in Job /\ x.pc = "push" /\ x.row = d /\ x.binding = b /\ x.content = version[b] /\ x.result # "ok" /\ x.host = target.host
    BY <1>0 DEF Job
  <1>2. /\ y \in Job /\ y.pc = "record" /\ y.row = d /\ y.binding = b /\ y.content = version[b] /\ y.result # "ok" /\ y.host = target.host
    BY <1>1 DEF Job
  <1>3. Step(j, x) \/ Step(j, y)
    BY DEF Resolving
  <1>4. disturbed' = IF Crossing(j, d, b) THEN disturbed \cup {b} ELSE disturbed
    BY DEF Resolving, Disturb
  <1>5. CASE Step(j, x)
    BY <1>1, <1>4, <1>5, StepJobs DEF Begins
  <1>6. CASE Step(j, y)
    BY <1>2, <1>4, <1>6, StepJobs DEF Begins
  <1> QED
    BY <1>3, <1>5, <1>6

LEMMA BeginsWorking ==
  ASSUME NEW j \in Jobs, NEW d \in Rows \cup {NoRow}, NEW b \in Bindings, Begins(j, d, b), binding'[b] # "absent",
         j \in Batches => d \in Rows, d \in Rows => Present(d)' /\ row'[d].binding = b
  PROVE  Working(j)'
  BY DeployAssumption DEF Begins, Working, Present

Pushed(w, l, result) == [w EXCEPT !.pc = "record", !.learned = l, !.result = result]

LEMMA PushedJob ==
  ASSUME TypeOK, NEW j \in Jobs, NEW w \in Job, NEW l, l \in Hosts \/ l = NoKey,
         NEW result \in {"ok", "retry", "permanent"}, Step(j, Pushed(w, l, result))
  PROVE  /\ Only(j, "record", w.row) /\ job'[j].binding = w.binding /\ job'[j].content = w.content
         /\ job'[j].result = result /\ job'[j].host = w.host
  <1> PICK x : x = Pushed(w, l, result)
    OBVIOUS
  <1>1. /\ x \in Job /\ x.pc = "record" /\ x.row = w.row /\ x.binding = w.binding
        /\ x.content = w.content /\ x.result = result /\ x.host = w.host
    BY DEF Job, Pushed
  <1>2. Step(j, x)
    OBVIOUS
  <1>3. job' \in [Jobs -> Job] /\ job'[j] = x /\ \A i \in Jobs \ {j} : SameJob(i)
    BY <1>1, <1>2, StepJobs
  <1> QED
    BY <1>1, <1>3 DEF Only

LEMMA PushIs ==
  ASSUME Sound, NEW j \in Jobs, Push(j)
  PROVE  LET b == job[j].binding IN
         /\ Only(j, "record", job[j].row) /\ b \in Bindings /\ job[j].pc = "push"
         /\ job'[j].binding = b /\ job'[j].content = job[j].content /\ job'[j].host = job[j].host
         /\ remote' \in [Bindings -> [Hosts -> Versions]]
         /\ \A c \in Bindings \ {b} : remote'[c] = remote[c]
         /\ job'[j].result = "ok" /\ job[j].host \in Hosts => remote'[b][job[j].host] = job[j].content
  <1> PICK b : b = job[j].binding
    OBVIOUS
  <1> PICK w \in Job : w = job[j]
    BY DEF Sound, TypeOK
  <1>0. b \in Bindings /\ w.pc = "push" /\ w.binding = b
    BY DEF Sound, Linked, Working, Push
  <1>2. w.content \in Versions /\ 0 \in Versions /\ w.host \in Hosts \cup {NoKey}
    BY DeployAssumption DEF Job, Versions
  <1>3. PICK l \in Hosts \cup {NoKey}, result \in {"ok", "retry", "permanent"} :
           /\ Step(j, Pushed(w, l, result))
           /\ remote' \in {remote, [remote EXCEPT ![b][w.host] = w.content], [remote EXCEPT ![b][w.host] = 0]}
           /\ result = "ok" => remote' = [remote EXCEPT ![b][w.host] = w.content]
    BY <1>2 DEF Push, Pushed
  <1>4. /\ remote' \in [Bindings -> [Hosts -> Versions]]
        /\ \A c \in Bindings \ {b} : remote'[c] = remote[c]
        /\ result = "ok" /\ w.host \in Hosts => remote'[b][w.host] = w.content
    <2>0. remote \in [Bindings -> [Hosts -> Versions]] /\ remote[b] \in [Hosts -> Versions]
      BY <1>0 DEF Sound, TypeOK
    <2>1. ASSUME NEW v \in Versions
          PROVE  LET f == [remote[b] EXCEPT ![w.host] = v] IN
                 f \in [Hosts -> Versions] /\ (w.host \in Hosts => f[w.host] = v)
      BY <2>0, <2>1
    <2>2. ASSUME NEW v \in Versions, remote' = [remote EXCEPT ![b] = [remote[b] EXCEPT ![w.host] = v]]
          PROVE  /\ remote' \in [Bindings -> [Hosts -> Versions]]
                 /\ \A c \in Bindings \ {b} : remote'[c] = remote[c]
                 /\ w.host \in Hosts => remote'[b][w.host] = v
      <3> PICK f : f = [remote[b] EXCEPT ![w.host] = v]
        OBVIOUS
      <3>1. f \in [Hosts -> Versions] /\ (w.host \in Hosts => f[w.host] = v) /\ remote' = [remote EXCEPT ![b] = f]
        BY <2>1, <2>2
      <3> QED
        BY <1>0, <2>0, <3>1
    <2>3. \A v : [remote EXCEPT ![b][w.host] = v] = [remote EXCEPT ![b] = [remote[b] EXCEPT ![w.host] = v]]
      BY <1>0, <2>0
    <2>4. CASE remote' = [remote EXCEPT ![b][w.host] = w.content]
      BY <1>2, <2>2, <2>3, <2>4
    <2>5. CASE remote' = [remote EXCEPT ![b][w.host] = 0] /\ result # "ok"
      BY <1>2, <2>2, <2>3, <2>5
    <2>6. CASE remote' = remote /\ result # "ok"
      BY <2>0, <2>6
    <2> QED
      BY <1>3, <2>4, <2>5, <2>6
  <1>5. /\ Only(j, "record", w.row) /\ job'[j].binding = w.binding /\ job'[j].content = w.content
        /\ job'[j].result = result /\ job'[j].host = w.host
    BY <1>3, PushedJob DEF Sound
  <1> QED
    BY <1>0, <1>3, <1>4, <1>5

\* How a push ends in its row.
Settles(j, r, old) ==
    \/ r.status = "delivered" /\ job[j].result = "ok"
    \/ r.status = "failed" /\ r.asked >= job[j].content
    \/ r.status = old

LEMMA OutcomeIs ==
  ASSUME NEW j, NEW old
  PROVE  Outcome(j, old) \in {"delivered", "failed", old} /\ (Outcome(j, old) = "delivered" => job[j].result = "ok" \/ old = "delivered")
  BY DEF Outcome

LEMMA AskedIs ==
  ASSUME NEW c \in Versions, NEW a \in Versions
  PROVE  (IF c > a THEN c ELSE a) \in Versions /\ (IF c > a THEN c ELSE a) >= c
  BY DeployAssumption DEF Versions

LEMMA TriedIs ==
  ASSUME TypeOK, NEW j \in Jobs, NEW d \in Rows, Present(d)
  PROVE  /\ Tried(j, d) \in Row /\ Tried(j, d).binding = row[d].binding
         /\ Tried(j, d).status \in {"pending", "delivered", "failed"}
         /\ Settles(j, Tried(j, d), row[d].status)
  <1> PICK s : s = Outcome(j, row[d].status)
    OBVIOUS
  <1> PICK a : a = IF job[j].content > row[d].asked THEN job[j].content ELSE row[d].asked
    OBVIOUS
  <1>0. row[d] \in Row /\ job[j].content \in Versions /\ row[d].asked \in Versions
    BY DEF TypeOK, Row, Job
  <1>1. a \in Versions /\ a >= job[j].content
    BY <1>0, AskedIs
  <1>2. s \in {"delivered", "failed", row[d].status} /\ (s = "delivered" => job[j].result = "ok" \/ row[d].status = "delivered")
    BY OutcomeIs
  <1>3. row[d].status \in {"pending", "delivered", "failed"}
    BY DEF Present
  <1> PICK r : r = [row[d] EXCEPT !.status = s, !.due = FALSE, !.asked = a]
    OBVIOUS
  <1>4. r \in Row /\ r.binding = row[d].binding /\ r.status = s /\ r.asked = a
    BY <1>0, <1>1, <1>2, <1>3 DEF Row
  <1>5. r = Tried(j, d)
    BY DEF Tried
  <1> QED
    BY <1>1, <1>2, <1>3, <1>4, <1>5 DEF Settles

LEMMA SavedIs ==
  ASSUME Sound, NEW j \in Jobs, NEW d \in Rows, job[j].pc = "record",
         IF job[j].row = NoRow THEN row[d].status = "unused" ELSE d = job[j].row /\ Present(d)
  PROVE  LET old == IF job[j].row = NoRow THEN "pending" ELSE row[d].status IN
         /\ Saved(j, d) \in Row /\ Saved(j, d).binding = job[j].binding
         /\ Saved(j, d).status \in {"pending", "delivered", "failed"}
         /\ Settles(j, Saved(j, d), old)
  <1> PICK old : old = IF job[j].row = NoRow THEN "pending" ELSE row[d].status
    OBVIOUS
  <1> PICK s : s = Outcome(j, old)
    OBVIOUS
  <1> PICK a : a = IF job[j].content > row[d].asked THEN job[j].content ELSE row[d].asked
    OBVIOUS
  <1>0. /\ job[j].content \in Versions /\ row[d].asked \in Versions /\ job[j].max \in {1, MaxAttempts}
        /\ job[j].binding \in Bindings
    BY DEF Sound, TypeOK, Row, Job, Linked, Working
  <1>1. a \in Versions /\ a >= job[j].content
    BY <1>0, AskedIs
  <1>2. s \in {"delivered", "failed", old} /\ (s = "delivered" => job[j].result = "ok" \/ old = "delivered")
    BY OutcomeIs
  <1>3. old \in {"pending", "delivered", "failed"}
    BY DEF Present
  <1> PICK r : r = [status |-> s, binding |-> job[j].binding, attempts |-> 1, max |-> job[j].max, due |-> FALSE, asked |-> a]
    OBVIOUS
  <1>4. r \in Row /\ r.binding = job[j].binding /\ r.status = s /\ r.asked = a
    BY <1>0, <1>1, <1>2, <1>3 DEF Row
  <1>5. r = Saved(j, d)
    BY DEF Saved
  <1> QED
    BY <1>1, <1>2, <1>3, <1>4, <1>5 DEF Settles

\* The outcome of a push is in row d, and job j is done with it.
Stored(j, d) ==
    /\ job[j].pc = "record"
    /\ Only(j, job'[j].pc, NoRow) /\ job'[j].pc \in {"idle", "batch"}
    /\ row' \in [Rows -> Row] /\ Present(d)' /\ row'[d].binding = job[j].binding
    /\ \A x \in Rows \ {d} : row'[x] = row[x]
    /\ Settles(j, row'[d], IF job[j].row = NoRow THEN "pending" ELSE row[d].status)
    /\ IF job[j].row = NoRow THEN row[d].status = "unused" ELSE d = job[j].row /\ Present(d)

LEMMA PinIs ==
  ASSUME TypeOK, NEW j \in Jobs, Pin(j)
  PROVE  target' \in Target /\ target'.present = target.present
  BY DEF TypeOK, Pin, Job, Target

LEMMA RecordIs ==
  ASSUME Sound, NEW j \in Jobs, Record(j)
  PROVE  /\ job[j].pc = "record" /\ job[j].row \in Rows /\ target' \in Target /\ target'.present = target.present
         /\ faults' \in 0..MaxFaults
         /\ \/ Stored(j, job[j].row)
            \/ /\ Only(j, job'[j].pc, NoRow) /\ job'[j].pc \in {"idle", "batch"} /\ UNCHANGED row
               /\ job'[j].pc = "idle" => ~Present(job[j].row)
  <1> PICK d : d = job[j].row
    OBVIOUS
  <1>0. d \in Rows /\ job[j].pc = "record" /\ target \in Target /\ j \in Batches
    BY DEF Sound, Linked, Working, Record, TypeOK
  <1>1. CASE Present(d) /\ row' = [row EXCEPT ![d] = Tried(j, d)] /\ Pin(j) /\ UNCHANGED faults
             /\ job' = Unclaimable([job EXCEPT ![j] = Rest(j)], {d})
    <2> PICK f : f = [job EXCEPT ![j] = Rest(j)]
      OBVIOUS
    <2>1. job' = Unclaimable(f, {d})
      BY <1>1
    <2>2. Rest(j) \in Job /\ Rest(j).pc = "batch" /\ Rest(j).row = NoRow
      BY RestIs DEF Sound
    <2>3. job' \in [Jobs -> Job] /\ AtSame(job'[j], Rest(j)) /\ \A i \in Jobs \ {j} : SameJob(i)
      BY <2>1, <2>2, ReleasedJobs DEF Sound
    <2>4. Only(j, job'[j].pc, NoRow) /\ job'[j].pc = "batch"
      BY <2>2, <2>3 DEF Only, AtSame
    <2> PICK r : r = Tried(j, d)
      OBVIOUS
    <2>5. /\ r \in Row /\ r.binding = row[d].binding /\ r.status \in {"pending", "delivered", "failed"}
          /\ Settles(j, r, row[d].status)
      BY <1>0, <1>1, TriedIs DEF Sound
    <2>6. row' \in [Rows -> Row] /\ row'[d] = r /\ \A x \in Rows \ {d} : row'[x] = row[x]
      BY <1>0, <1>1, <2>5 DEF Sound, TypeOK
    <2>7. row[d].binding = job[j].binding /\ job[j].row # NoRow
      BY <1>0, <1>1, DeployAssumption DEF Sound, Linked, Working
    <2>8. Stored(j, d)
      BY <1>0, <1>1, <2>4, <2>5, <2>6, <2>7 DEF Stored, Present
    <2>9. target' \in Target /\ target'.present = target.present /\ faults' \in 0..MaxFaults
      BY <1>1, PinIs DEF Sound, TypeOK
    <2> QED
      BY <1>0, <2>8, <2>9
  <1>2. CASE ~Present(d) /\ Step(j, Idle) /\ UNCHANGED <<row, target, faults>>
    <2>1. Only(j, "idle", NoRow)
      BY <1>2, EndsIdle
    <2> QED
      BY <1>0, <1>2, <2>1 DEF Only, Sound, TypeOK
  <1>3. CASE Fault /\ Step(j, Rest(j)) /\ UNCHANGED <<row, target>>
    <2>1. Only(j, "batch", NoRow)
      BY <1>3, EndsResting
    <2>2. faults' \in 0..MaxFaults
      BY <1>3, DeployAssumption DEF Sound, TypeOK, Fault
    <2> QED
      BY <1>0, <1>3, <2>1, <2>2 DEF Only
  <1> QED
    BY <1>1, <1>2, <1>3 DEF Record

LEMMA SaveRequestIs ==
  ASSUME Sound, NEW j \in Jobs, SaveRequest(j)
  PROVE  LET b == job[j].binding IN
         /\ job[j].pc = "record" /\ b \in Bindings /\ target' \in Target /\ target'.present = target.present
         /\ faults' \in 0..MaxFaults
         /\ binding' \in [Bindings -> {"absent", "enabled", "disabled", "gone"}]
         /\ disturbed \subseteq disturbed' /\ disturbed' \subseteq Bindings
         /\ \/ /\ \E d \in Rows : Stored(j, d)
               /\ target.present
               /\ \A c \in Bindings : binding'[c] = binding[c] \/ (c = b /\ binding[c] # "gone" /\ binding'[c] = "enabled")
            \/ /\ Only(j, "idle", NoRow) /\ UNCHANGED <<row, binding>>
               /\ \/ b \in disturbed'
                  \/ ~target.present
                  \/ binding[b] = "gone"
                  \/ job[j].row \in Rows /\ ~Present(job[j].row)
  <1> PICK b : b = job[j].binding
    OBVIOUS
  <1>0. /\ job[j].pc = "record" /\ b \in Bindings /\ target \in Target
        /\ disturbed \subseteq disturbed' /\ disturbed' \subseteq Bindings
        /\ binding \in [Bindings -> {"absent", "enabled", "disabled", "gone"}]
    BY DEF Sound, Linked, Working, SaveRequest, TypeOK, Disturb
  <1>1. CASE /\ target.present
             /\ job[j].max = MaxAttempts => binding[b] # "gone"
             /\ \E d \in Rows :
                  /\ IF job[j].row = NoRow THEN row[d].status = "unused" ELSE d = job[j].row /\ Present(d)
                  /\ row' = [row EXCEPT ![d] = Saved(j, d)]
                  /\ job' = Unclaimable([job EXCEPT ![j] = Idle], {d})
             /\ Pin(j)
             /\ binding' = IF job[j].max = MaxAttempts THEN [binding EXCEPT ![b] = "enabled"] ELSE binding
             /\ UNCHANGED faults
    <2>1. PICK d \in Rows :
             /\ IF job[j].row = NoRow THEN row[d].status = "unused" ELSE d = job[j].row /\ Present(d)
             /\ row' = [row EXCEPT ![d] = Saved(j, d)]
             /\ job' = Unclaimable([job EXCEPT ![j] = Idle], {d})
      BY <1>1
    <2> PICK f : f = [job EXCEPT ![j] = Idle]
      OBVIOUS
    <2>2. job' = Unclaimable(f, {d})
      BY <2>1
    <2>3. Idle \in Job /\ Idle.pc = "idle" /\ Idle.row = NoRow
      BY Blanks DEF Idle
    <2>4. job' \in [Jobs -> Job] /\ AtSame(job'[j], Idle) /\ \A i \in Jobs \ {j} : SameJob(i)
      BY <2>2, <2>3, ReleasedJobs DEF Sound
    <2>5. Only(j, job'[j].pc, NoRow) /\ job'[j].pc = "idle"
      BY <2>3, <2>4 DEF Only, AtSame
    <2> PICK r : r = Saved(j, d)
      OBVIOUS
    <2>6. /\ r \in Row /\ r.binding = b /\ r.status \in {"pending", "delivered", "failed"}
          /\ Settles(j, r, IF job[j].row = NoRow THEN "pending" ELSE row[d].status)
      BY <1>0, <2>1, SavedIs
    <2>7. row' \in [Rows -> Row] /\ row'[d] = r /\ \A x \in Rows \ {d} : row'[x] = row[x]
      BY <2>1, <2>6 DEF Sound, TypeOK
    <2>8. Stored(j, d)
      BY <1>0, <2>1, <2>5, <2>6, <2>7 DEF Stored, Present
    <2>9. target' \in Target /\ target'.present = target.present /\ faults' \in 0..MaxFaults
      BY <1>1, PinIs DEF Sound, TypeOK
    <2>10. /\ binding' \in [Bindings -> {"absent", "enabled", "disabled", "gone"}]
           /\ \A c \in Bindings : binding'[c] = binding[c] \/ (c = b /\ binding[c] # "gone" /\ binding'[c] = "enabled")
      BY <1>0, <1>1
    <2> QED
      BY <1>0, <1>1, <2>8, <2>9, <2>10
  <1>2. CASE /\ \/ ~target.present
                \/ job[j].max = MaxAttempts /\ binding[b] = "gone"
                \/ job[j].row \in Rows /\ ~Present(job[j].row)
             /\ Step(j, Idle)
             /\ UNCHANGED <<row, target, binding, faults>>
    <2>1. Only(j, "idle", NoRow)
      BY <1>2, EndsIdle
    <2>2. faults' \in 0..MaxFaults
      BY <1>2 DEF Sound, TypeOK
    <2> QED
      BY <1>0, <1>2, <2>1, <2>2
  <1>3. CASE Fault /\ Step(j, Idle) /\ UNCHANGED <<row, target, binding>>
    <2>1. Only(j, "idle", NoRow)
      BY <1>3, EndsIdle
    <2>2. faults' \in 0..MaxFaults /\ faults' # faults
      BY <1>3, DeployAssumption DEF Sound, TypeOK, Fault
    <2>3. b \in disturbed'
      BY <2>2 DEF SaveRequest, Disturb
    <2> QED
      BY <1>0, <1>3, <2>1, <2>2, <2>3
  <1> QED
    BY <1>1, <1>2, <1>3 DEF SaveRequest

LEMMA NoDestinationIs ==
  ASSUME Sound, NEW j \in Jobs, NoDestination(j)
  PROVE  LET d == job[j].row IN
         /\ Only(j, "batch", NoRow) /\ d \in Rows /\ job[j].pc = "execute" /\ Present(d)
         /\ faults' \in 0..MaxFaults
         /\ \/ UNCHANGED row
            \/ Writes(d) /\ row'[d].status = "failed" /\ row'[d].asked = version[row[d].binding]
  <1> PICK d : d = job[j].row
    OBVIOUS
  <1>0. /\ Only(j, "batch", NoRow) /\ d \in Rows /\ job[j].pc = "execute" /\ Present(d)
        /\ row[d].binding \in Bindings /\ row[d] \in Row
    BY EndsResting DEF NoDestination, Sound, Linked, Working, Placed, TypeOK
  <1>1. version[row[d].binding] \in Versions
    BY <1>0 DEF Sound, TypeOK
  <1> PICK r : r = [row[d] EXCEPT !.status = "failed", !.due = FALSE, !.asked = version[row[d].binding]]
    OBVIOUS
  <1>2. r \in Row /\ r.binding = row[d].binding /\ r.status = "failed" /\ r.asked = version[row[d].binding]
    BY <1>0, <1>1 DEF Row
  <1>3. CASE row' = [row EXCEPT ![d] = r] /\ UNCHANGED faults
    <2>1. row' \in [Rows -> Row] /\ row'[d] = r /\ \A x \in Rows \ {d} : row'[x] = row[x]
      BY <1>0, <1>2, <1>3 DEF Sound, TypeOK
    <2>2. faults' \in 0..MaxFaults
      BY <1>3 DEF Sound, TypeOK
    <2>3. row'[d].status = "failed" /\ row'[d].asked = version[row[d].binding] /\ row'[d].binding = row[d].binding
      BY <1>2, <2>1
    <2>4. Writes(d)
      BY <1>0, <2>1, <2>3 DEF Writes, Present
    <2> QED
      BY <1>0, <2>2, <2>3, <2>4
  <1>4. CASE Fault /\ UNCHANGED row
    BY <1>0, <1>4, DeployAssumption DEF Sound, TypeOK, Fault
  <1> QED
    BY <1>3, <1>4 DEF NoDestination

LEMMA ResolveIs ==
  ASSUME Sound, NEW j \in Jobs, Resolve(j)
  PROVE  LET d == job[j].row  b == row[d].binding IN
         /\ Begins(j, d, b) /\ d \in Rows /\ Present(d) /\ b \in Bindings
         /\ job[j].pc = "execute" /\ binding[b] = "enabled"
  <1> PICK d : d = job[j].row
    OBVIOUS
  <1>1. /\ d \in Rows /\ Present(d) /\ row[d].binding \in Bindings /\ job[j].pc = "execute"
        /\ binding[row[d].binding] = "enabled"
    BY DEF Resolve, Live, Sound, Linked, Working, Placed
  <1>2. row[d].attempts \in Nat /\ row[d].max \in {1, MaxAttempts}
    BY <1>1 DEF Sound, TypeOK, Row
  <1>3. Resolving(j, d, row[d].binding, row[d].attempts, row[d].max)
    BY DEF Resolve
  <1>4. Begins(j, d, row[d].binding)
    BY <1>1, <1>2, <1>3, ResolvingIs DEF Sound
  <1> QED
    BY <1>1, <1>4

\* deploy_now for a binding that is disabled leaves a failure, or else it begins.
LEMMA DeployNowIs ==
  ASSUME Sound, NEW j \in Requests, NEW b \in Bindings, DeployNow(j, b)
  PROVE  /\ job[j].pc = "idle" /\ Bound(b) /\ edits' \in 0..MaxEdits
         /\ \/ Begins(j, NoRow, b) /\ UNCHANGED row
            \/ /\ UNCHANGED <<job, disturbed>> /\ row' \in [Rows -> Row]
               /\ \E d \in Rows : /\ row[d].status = "unused" /\ Present(d)' /\ row'[d].binding = b
                                  /\ \A x \in Rows \ {d} : row'[x] = row[x]
  <1>0. job[j].pc = "idle" /\ Bound(b) /\ edits' \in 0..MaxEdits /\ j \in Jobs
    BY DeployAssumption DEF DeployNow, Edit, Bound, Sound, TypeOK, Jobs
  <1>1. CASE Resolving(j, NoRow, b, 1, 1) /\ UNCHANGED row
    BY <1>0, <1>1, ResolvingIs DEF Sound
  <1>2. CASE /\ \E d \in Rows :
                  /\ row[d].status = "unused"
                  /\ row' = [row EXCEPT ![d] = [Fresh(b) EXCEPT !.status = "failed", !.attempts = 1,
                                                                !.max = 1, !.due = FALSE]]
             /\ UNCHANGED <<job, disturbed>>
    <2> PICK g : g = Fresh(b)
      OBVIOUS
    <2> PICK r : r = [g EXCEPT !.status = "failed", !.attempts = 1, !.max = 1, !.due = FALSE]
      OBVIOUS
    <2>1. g \in Row /\ g.binding = b
      BY FreshIs DEF Sound
    <2>2. r \in Row /\ r.status = "failed" /\ r.binding = b
      BY <2>1 DEF Row
    <2>3. PICK d \in Rows : row[d].status = "unused" /\ row' = [row EXCEPT ![d] = r]
      BY <1>2
    <2>4. row' \in [Rows -> Row] /\ row'[d] = r /\ \A x \in Rows \ {d} : row'[x] = row[x]
      BY <2>2, <2>3 DEF Sound, TypeOK
    <2> QED
      BY <1>0, <1>2, <2>2, <2>3, <2>4 DEF Present
  <1> QED
    BY <1>1, <1>2 DEF DeployNow

LEMMA UpdateBindingIs ==
  ASSUME Sound, NEW j \in Requests, NEW b \in Bindings, NEW s \in {"enabled", "disabled"}, UpdateBinding(j, b, s)
  PROVE  /\ job[j].pc = "idle" /\ Bound(b) /\ edits' \in 0..MaxEdits /\ UNCHANGED row
         /\ \/ UNCHANGED <<job, disturbed>> /\ binding' = [binding EXCEPT ![b] = s]
            \/ /\ UNCHANGED binding
               /\ \E d \in Rows \cup {NoRow} : Begins(j, d, b) /\ (d \in Rows => Pending(d) /\ row[d].binding = b)
  <1>0. job[j].pc = "idle" /\ Bound(b) /\ edits' \in 0..MaxEdits /\ j \in Jobs /\ UNCHANGED row
    BY DeployAssumption DEF UpdateBinding, Edit, Bound, Sound, TypeOK, Jobs
  <1>1. CASE UNCHANGED <<job, disturbed>> /\ binding' = [binding EXCEPT ![b] = s]
    BY <1>0, <1>1
  <1>2. CASE /\ LET mine == {d \in Rows : Pending(d) /\ row[d].binding = b} IN
                 \E d \in IF mine = {} THEN {NoRow} ELSE mine : Resolving(j, d, b, 1, MaxAttempts)
             /\ UNCHANGED binding
    <2>1. PICK d \in Rows \cup {NoRow} :
             Resolving(j, d, b, 1, MaxAttempts) /\ (d \in Rows => Pending(d) /\ row[d].binding = b)
      BY <1>2, DeployAssumption
    <2>2. Begins(j, d, b)
      BY <1>0, <2>1, ResolvingIs DEF Sound
    <2> QED
      BY <1>0, <1>2, <2>1, <2>2
  <1> QED
    BY <1>1, <1>2 DEF UpdateBinding

-----------------------------------------------------------------------------
(* The steps of jobs keep types, links and the order of contents *)

LEMMA IdlingBasics ==
  ASSUME Sound, NEW j \in Jobs, StartBatch(j) \/ EndBatch(j) \/ RowVanished(j)
  PROVE  Sound'
  <1>1. Only(j, "batch", NoRow) \/ Only(j, "idle", NoRow)
    BY StartBatchIs, EndsIdle DEF EndBatch, RowVanished
  <1>2. UNCHANGED <<world, queue, disturbed, faults, edits>>
    BY DEF StartBatch, EndBatch, RowVanished
  <1>3. job' \in [Jobs -> Job] /\ \A i \in Jobs : SameJob(i) \/ Working(i)'
    BY <1>1, RestingJob DEF Only
  <1>4. TypeOK'
    BY <1>2, <1>3 DEF Sound, TypeOK, world, queue
  <1>5. \A d \in Rows : RowMoves(d)
    BY <1>2 DEF queue, RowMoves
  <1>6. \A c \in Bindings : owed'[c] = owed[c] /\ version'[c] >= version[c]
    BY <1>2 DEF Sound, TypeOK, Versions, world, queue
  <1>7. UNCHANGED <<binding, target>>
    BY <1>2 DEF world
  <1> QED
    BY <1>3, <1>4, <1>5, <1>6, <1>7, RestBasics, BoundToTarget

LEMMA ClaimBasics ==
  ASSUME Sound, NEW j \in Jobs, NEW d \in Rows, Claim(j, d)
  PROVE  Sound'
  <1>1. /\ Only(j, "execute", d) /\ Writes(d) /\ Pending(d)' /\ row[d].binding \in Bindings
        /\ disturbed' = IF Crossing(j, d, row[d].binding) THEN disturbed \cup {row[d].binding} ELSE disturbed
    BY ClaimIs
  <1>2. UNCHANGED <<world, owed, faults, edits>>
    BY DEF Claim
  <1>3. Working(j)'
    BY <1>1 DEF Only, Working, Pending
  <1>4. TypeOK'
    BY <1>1, <1>2 DEF Sound, TypeOK, world, Only, Writes
  <1>5. \A x \in Rows : RowMoves(x)
    BY <1>1, <1>2 DEF Writes, RowMoves, Sound, Linked, Placed, Present, world
  <1>6. \A c \in Bindings : owed'[c] = owed[c] /\ version'[c] >= version[c]
    BY <1>2 DEF Sound, TypeOK, Versions, world
  <1>7. UNCHANGED <<binding, target>> /\ \A i \in Jobs : SameJob(i) \/ Working(i)'
    BY <1>1, <1>2, <1>3 DEF world, Only
  <1> QED
    BY <1>4, <1>5, <1>6, <1>7, RestBasics, BoundToTarget

LEMMA NoDestinationBasics ==
  ASSUME Sound, NEW j \in Jobs, NoDestination(j)
  PROVE  Sound'
  <1> PICK d : d = job[j].row
    OBVIOUS
  <1>1. /\ Only(j, "batch", NoRow) /\ d \in Rows /\ Present(d) /\ faults' \in 0..MaxFaults
        /\ UNCHANGED row \/ Writes(d)
    BY NoDestinationIs
  <1>2. UNCHANGED <<world, owed, disturbed, edits>>
    BY DEF NoDestination
  <1>3. job' \in [Jobs -> Job] /\ \A i \in Jobs : SameJob(i) \/ Working(i)'
    BY <1>1, RestingJob DEF Only
  <1>4. TypeOK'
    BY <1>1, <1>2, <1>3 DEF Sound, TypeOK, world, Writes
  <1>5. \A x \in Rows : RowMoves(x)
    BY <1>1, <1>2 DEF Writes, RowMoves, Sound, Linked, Placed, Present, world
  <1>6. \A c \in Bindings : owed'[c] = owed[c] /\ version'[c] >= version[c]
    BY <1>2 DEF Sound, TypeOK, Versions, world
  <1>7. UNCHANGED <<binding, target>>
    BY <1>2 DEF world
  <1> QED
    BY <1>3, <1>4, <1>5, <1>6, <1>7, RestBasics, BoundToTarget

LEMMA ResolveBasics ==
  ASSUME Sound, NEW j \in Jobs, Resolve(j)
  PROVE  Sound'
  <1> PICK d : d = job[j].row
    OBVIOUS
  <1> PICK b : b = row[d].binding
    OBVIOUS
  <1>1. Begins(j, d, b) /\ d \in Rows /\ Present(d) /\ b \in Bindings /\ binding[b] = "enabled"
    BY ResolveIs
  <1>2. UNCHANGED <<world, queue, faults, edits>>
    BY DEF Resolve
  <1>3. row' = row /\ binding' = binding /\ target' = target
    BY <1>2 DEF world, queue
  <1>4. Working(j)'
    BY <1>1, <1>3, BeginsWorking DEF Present
  <1>5. TypeOK'
    BY <1>1, <1>2 DEF Sound, TypeOK, world, queue, Begins
  <1>6. \A x \in Rows : RowMoves(x)
    BY <1>3 DEF RowMoves
  <1>7. \A c \in Bindings : owed'[c] = owed[c] /\ version'[c] >= version[c]
    BY <1>2 DEF Sound, TypeOK, Versions, world, queue
  <1>8. \A i \in Jobs : SameJob(i) \/ Working(i)'
    BY <1>1, <1>4 DEF Begins
  <1> QED
    BY <1>3, <1>5, <1>6, <1>7, <1>8, RestBasics, BoundToTarget

LEMMA PushBasics ==
  ASSUME Sound, NEW j \in Jobs, Push(j)
  PROVE  Sound'
  <1>1. /\ Only(j, "record", job[j].row) /\ job[j].pc = "push"
        /\ job'[j].binding = job[j].binding
        /\ remote' \in [Bindings -> [Hosts -> Versions]]
    BY PushIs
  <1>2. UNCHANGED <<binding, target, version, event, queue, disturbed, faults, edits>>
    BY DEF Push
  <1>3. row' = row /\ binding' = binding /\ owed' = owed
    BY <1>2 DEF queue
  <1>4. Working(j)'
    BY <1>1, <1>3 DEF Sound, Linked, Working, Only, Present
  <1>5. TypeOK'
    BY <1>1, <1>2 DEF Sound, TypeOK, queue, Only
  <1>6. \A x \in Rows : RowMoves(x)
    BY <1>3 DEF RowMoves
  <1>7. \A c \in Bindings : owed'[c] = owed[c] /\ version'[c] >= version[c]
    BY <1>2, <1>3 DEF Sound, TypeOK, Versions
  <1>8. \A i \in Jobs : SameJob(i) \/ Working(i)'
    BY <1>1, <1>4 DEF Only
  <1> QED
    BY <1>2, <1>5, <1>6, <1>7, <1>8, RestBasics, BoundToTarget

\* An outcome is stored in a row of a binding that was created.
LEMMA StoredMoves ==
  ASSUME Sound, NEW j \in Jobs, NEW d \in Rows, Stored(j, d), \A c \in Bindings : BindingMoves(c)
  PROVE  \A x \in Rows : RowMoves(x)
  <1>1. job[j].binding \in Bindings /\ binding[job[j].binding] # "absent"
    BY DEF Stored, Sound, Linked, Working
  <1>2. Present(d) => row[d].binding = job[j].binding
    BY DEF Stored, Sound, Linked, Working, Present
  <1>3. row[d].status # "deleted"
    BY DEF Stored, Present
  <1> QED
    BY <1>1, <1>2, <1>3 DEF Stored, RowMoves, BindingMoves

LEMMA RecordBasics ==
  ASSUME Sound, NEW j \in Jobs, Record(j)
  PROVE  Sound'
  <1> PICK d : d = job[j].row
    OBVIOUS
  <1>1. /\ d \in Rows /\ target' \in Target /\ target'.present = target.present /\ faults' \in 0..MaxFaults
        /\ Stored(j, d) \/ (Only(j, job'[j].pc, NoRow) /\ job'[j].pc \in {"idle", "batch"} /\ UNCHANGED row)
    BY RecordIs
  <1>2. UNCHANGED <<binding, version, event, remote, owed, disturbed, edits>>
    BY DEF Record
  <1>3. Only(j, job'[j].pc, NoRow) /\ job'[j].pc \in {"idle", "batch"} /\ row' \in [Rows -> Row]
    BY <1>1 DEF Stored, Sound, TypeOK
  <1>4. job' \in [Jobs -> Job] /\ \A i \in Jobs : SameJob(i) \/ Working(i)'
    BY <1>3, RestingJob DEF Only
  <1>5. TypeOK'
    BY <1>1, <1>2, <1>3, <1>4 DEF Sound, TypeOK
  <1>6. \A c \in Bindings : /\ owed'[c] = owed[c] /\ version'[c] >= version[c]
                            /\ BindingMoves(c) /\ (Bound(c)' => target'.present)
    BY <1>1, <1>2 DEF Sound, TypeOK, Versions, BindingMoves, Bound, Ordered
  <1>7. \A x \in Rows : RowMoves(x)
    BY <1>1, <1>6, StoredMoves DEF RowMoves
  <1> QED
    BY <1>4, <1>5, <1>6, <1>7, RestBasics

LEMMA SaveRequestBasics ==
  ASSUME Sound, NEW j \in Jobs, SaveRequest(j)
  PROVE  Sound'
  <1> PICK b : b = job[j].binding
    OBVIOUS
  <1>1. /\ job[j].pc = "record" /\ b \in Bindings /\ target' \in Target /\ target'.present = target.present
        /\ faults' \in 0..MaxFaults
        /\ binding' \in [Bindings -> {"absent", "enabled", "disabled", "gone"}]
        /\ disturbed' \subseteq Bindings
        /\ \/ /\ \E d \in Rows : Stored(j, d)
              /\ target.present
              /\ \A c \in Bindings : binding'[c] = binding[c] \/ (c = b /\ binding[c] # "gone" /\ binding'[c] = "enabled")
           \/ /\ Only(j, "idle", NoRow) /\ UNCHANGED <<row, binding>>
    BY SaveRequestIs
  <1>2. UNCHANGED <<version, event, remote, owed, edits>>
    BY DEF SaveRequest
  <1>3. Only(j, job'[j].pc, NoRow) /\ job'[j].pc \in {"idle", "batch"} /\ row' \in [Rows -> Row]
    BY <1>1 DEF Stored, Sound, TypeOK, Only
  <1>4. job' \in [Jobs -> Job] /\ \A i \in Jobs : SameJob(i) \/ Working(i)'
    BY <1>3, RestingJob DEF Only
  <1>5. TypeOK'
    BY <1>1, <1>2, <1>3, <1>4 DEF Sound, TypeOK
  <1>6. \A c \in Bindings : owed'[c] = owed[c] /\ version'[c] >= version[c]
    BY <1>2 DEF Sound, TypeOK, Versions
  <1>7. \A c \in Bindings : BindingMoves(c) /\ (Bound(c)' => target'.present)
    BY <1>1 DEF Sound, BindingMoves, Bound, Ordered
  <1>8. \A x \in Rows : RowMoves(x)
    BY <1>1, <1>7, StoredMoves DEF RowMoves
  <1> QED
    BY <1>4, <1>5, <1>6, <1>7, <1>8, RestBasics

LEMMA RequestBasics ==
  ASSUME Sound, NEW j \in Requests, NEW b \in Bindings,
         DeployNow(j, b) \/ \E s \in {"enabled", "disabled"} : UpdateBinding(j, b, s)
  PROVE  Sound'
  <1>0. j \in Jobs /\ j \notin Batches /\ UNCHANGED <<target, version, event, remote, owed, faults>>
    BY DeployAssumption DEF Jobs, DeployNow, UpdateBinding, world
  <1>1. /\ Bound(b) /\ edits' \in 0..MaxEdits /\ row' \in [Rows -> Row]
        /\ \/ /\ UNCHANGED <<row, binding>>
              /\ \E d \in Rows \cup {NoRow} : Begins(j, d, b) /\ (d \in Rows => Pending(d) /\ row[d].binding = b)
           \/ UNCHANGED <<job, disturbed, row>> /\ \E s \in {"enabled", "disabled"} : binding' = [binding EXCEPT ![b] = s]
           \/ /\ UNCHANGED <<job, disturbed, binding>>
              /\ \E d \in Rows : /\ row[d].status = "unused" /\ Present(d)' /\ row'[d].binding = b
                                 /\ \A x \in Rows \ {d} : row'[x] = row[x]
    <2>1. CASE DeployNow(j, b)
      <3>1. UNCHANGED binding
        BY <2>1 DEF DeployNow, world
      <3> QED
        BY <2>1, <3>1, DeployNowIs, DeployAssumption DEF Sound, TypeOK
    <2>2. CASE \E s \in {"enabled", "disabled"} : UpdateBinding(j, b, s)
      <3>1. row' = row /\ row \in [Rows -> Row]
        BY <2>2 DEF UpdateBinding, Sound, TypeOK
      <3> QED
        BY <2>2, <3>1, UpdateBindingIs
    <2> QED
      BY <2>1, <2>2
  <1>2. /\ job' \in [Jobs -> Job] /\ disturbed' \subseteq Bindings
    BY <1>1 DEF Sound, TypeOK, Begins
  <1>3. /\ binding' \in [Bindings -> {"absent", "enabled", "disabled", "gone"}]
        /\ \A c \in Bindings : BindingMoves(c) /\ (Bound(c)' => Bound(c))
    BY <1>1 DEF Sound, TypeOK, Bound, BindingMoves
  <1>4. TypeOK'
    BY <1>0, <1>1, <1>2, <1>3 DEF Sound, TypeOK
  <1>5. \A x \in Rows : RowMoves(x)
    BY <1>1 DEF RowMoves, Bound, Present
  <1>6. \A i \in Jobs : SameJob(i) \/ Working(i)'
    <2>1. CASE UNCHANGED job
      BY <2>1 DEF SameJob, AtSame
    <2>2. CASE UNCHANGED <<row, binding>> /\ \E d \in Rows \cup {NoRow} : Begins(j, d, b) /\ (d \in Rows => Pending(d) /\ row[d].binding = b)
      <3>1. PICK d \in Rows \cup {NoRow} : Begins(j, d, b) /\ (d \in Rows => Pending(d) /\ row[d].binding = b)
        BY <2>2
      <3>2. binding'[b] # "absent" /\ (d \in Rows => Present(d)' /\ row'[d].binding = b)
        BY <1>1, <2>2, <3>1 DEF Bound, Pending, Present
      <3>3. Working(j)'
        BY <1>0, <3>1, <3>2, BeginsWorking
      <3> QED
        BY <3>1, <3>3 DEF Begins
    <2> QED
      BY <1>1, <2>1, <2>2
  <1>7. \A c \in Bindings : /\ owed'[c] = owed[c] /\ version'[c] >= version[c]
                            /\ BindingMoves(c) /\ (Bound(c)' => target'.present)
    BY <1>0, <1>3 DEF Sound, TypeOK, Versions, Ordered
  <1> QED
    BY <1>4, <1>5, <1>6, <1>7, RestBasics

LEMMA CrashBasics ==
  ASSUME Sound, NEW dead \in SUBSET Jobs, Crash(dead)
  PROVE  Sound'
  <1>1. job' \in [Jobs -> Job] /\ \A i \in Jobs : job'[i] = IF i \in dead THEN Idle ELSE job[i]
    BY Blanks DEF Crash, Sound, TypeOK
  <1>2. ASSUME NEW i \in Jobs
        PROVE  SameJob(i) \/ Working(i)'
    <2>1. Idle.pc = "idle" /\ Idle.row = NoRow
      BY DEF Idle
    <2>2. CASE i \in dead
      BY <1>1, <2>1, <2>2, DeployAssumption DEF Working
    <2>3. CASE i \notin dead
      BY <1>1, <2>3 DEF SameJob, AtSame
    <2> QED
      BY <2>2, <2>3
  <1>3. /\ remote' \in [Bindings -> [Hosts -> Versions]] /\ faults' \in 0..MaxFaults /\ disturbed' \subseteq Bindings
        /\ UNCHANGED <<binding, target, version, event, queue, edits>>
    BY DeployAssumption DEF Crash, Fault, Sound, TypeOK, Versions
  <1>4. TypeOK'
    BY <1>1, <1>3 DEF Sound, TypeOK, queue
  <1>5. \A x \in Rows : RowMoves(x)
    BY <1>3 DEF RowMoves, queue
  <1>6. \A c \in Bindings : owed'[c] = owed[c] /\ version'[c] >= version[c]
    BY <1>3 DEF Sound, TypeOK, Versions, queue
  <1> QED
    BY <1>2, <1>3, <1>4, <1>5, <1>6, RestBasics, BoundToTarget

-----------------------------------------------------------------------------
(* A binding and those who push it *)

\* Those who push binding b stay where they are, and nobody takes up a row of b.
Quiet(b) ==
    /\ \A j \in Jobs : Pushing(j, b) \/ Pushing(j, b)' => SameJob(j)
    /\ \A j \in Jobs, d \in Rows : job'[j].row = d /\ Present(d)' /\ row'[d].binding = b =>
          job[j].row = d /\ Present(d) /\ row[d].binding = b /\ Pending(d)'

LEMMA QuietIsAlone ==
  ASSUME NEW b \in Bindings, Alone(b), Quiet(b)
  PROVE  Alone(b)'
  <1>1. \A j \in Jobs : Pushing(j, b)' => Pushing(j, b)
    BY DEF Quiet, Pushing, SameJob, AtSame
  <1>2. \A i, j \in Jobs : Pushing(i, b)' /\ Pushing(j, b)' => i = j
    BY <1>1 DEF Alone
  <1>3. ASSUME NEW j \in Jobs, NEW d \in Rows, job'[j].row = d, Present(d)', row'[d].binding = b
        PROVE  Pending(d)' /\ \A i \in Jobs : job'[i].row = d => i = j
    <2>1. job[j].row = d /\ Present(d) /\ row[d].binding = b /\ Pending(d)'
      BY <1>3 DEF Quiet
    <2>2. \A i \in Jobs : job'[i].row = d => job[i].row = d
      BY <1>3 DEF Quiet
    <2> QED
      BY <2>1, <2>2 DEF Alone
  <1> QED
    BY <1>2, <1>3 DEF Alone

\* Nothing changes for b, unless a row comes to stand for it.
LEMMA CalmBinding ==
  ASSUME NEW b \in Bindings, Tended(b), Quiet(b),
         SameHere(b), owed'[b] = owed[b],
         \A d \in Rows : Stands(d, b) => Stands(d, b)'
  PROVE  Tended(b)'
  <1>1. Alone(b)'
    BY QuietIsAlone DEF Tended
  <1>2. Carried(b)'
    <2> SUFFICES ASSUME NEW j \in Jobs, Pushing(j, b)'
                 PROVE  /\ owed'[b] <= job'[j].content \/ \E d \in Rows \ {job'[j].row} : Stands(d, b)'
                        /\ job'[j].pc = "record" /\ job'[j].result = "ok" => Here(b)' = job'[j].content
                        /\ job'[j].host = target'.host
      BY DEF Carried
    <2>1. SameJob(j)
      BY DEF Quiet
    <2>2. Pushing(j, b)
      BY <2>1 DEF SameJob, AtSame, Pushing
    <2>3. /\ owed[b] <= job[j].content \/ \E d \in Rows \ {job[j].row} : Stands(d, b)
          /\ job[j].pc = "record" /\ job[j].result = "ok" => Here(b) = job[j].content
          /\ job[j].host = target.host
      BY <2>2 DEF Tended, Carried
    <2> QED
      BY <2>1, <2>3 DEF SameJob, AtSame, Here, SameHere
  <1>3. Kept(b)'
    <2>1. CASE Deployed(b)
      BY <2>1 DEF Deployed, Kept, Here, SameHere
    <2>2. CASE Accounted(b)
      <3>1. PICK d \in Rows : Stands(d, b)
        BY <2>2 DEF Accounted, Stands
      <3> QED
        BY <3>1 DEF Accounted, Stands, Kept
    <2>3. CASE Recording(b)
      <3>1. PICK j \in Requests : job[j].pc = "record" /\ job[j].binding = b
        BY <2>3 DEF Recording
      <3>2. SameJob(j)
        BY <3>1 DEF Quiet, Pushing, Jobs
      <3> QED
        BY <3>1, <3>2 DEF SameJob, AtSame, Recording, Kept
    <2> QED
      BY <2>1, <2>2, <2>3 DEF Tended, Kept
  <1> QED
    BY <1>1, <1>2, <1>3 DEF Tended

\* A row that nobody pushes now stands for the newest content of b.
LEMMA QueuedBinding ==
  ASSUME NEW b \in Bindings, Tended(b) \/ \A j \in Jobs : ~Pushing(j, b), Alone(b), Quiet(b),
         SameHere(b),
         NEW q \in Rows, Pending(q)', row'[q].binding = b,
         \A j \in Jobs : Pushing(j, b) => job[j].row # q
  PROVE  Tended(b)'
  <1>0. Stands(q, b)'
    BY DEF Stands
  <1>1. Alone(b)'
    BY QuietIsAlone
  <1>2. Carried(b)'
    <2> SUFFICES ASSUME NEW j \in Jobs, Pushing(j, b)'
                 PROVE  /\ \E d \in Rows \ {job'[j].row} : Stands(d, b)'
                        /\ job'[j].pc = "record" /\ job'[j].result = "ok" => Here(b)' = job'[j].content
                        /\ job'[j].host = target'.host
      BY DEF Carried
    <2>1. SameJob(j)
      BY DEF Quiet
    <2>2. Pushing(j, b)
      BY <2>1 DEF SameJob, AtSame, Pushing
    <2>3. /\ job[j].pc = "record" /\ job[j].result = "ok" => Here(b) = job[j].content
          /\ job[j].host = target.host
      BY <2>2 DEF Tended, Carried
    <2> QED
      BY <1>0, <2>1, <2>2, <2>3 DEF SameJob, AtSame, Here, SameHere
  <1>3. Kept(b)'
    BY <1>0 DEF Kept, Accounted, Stands
  <1> QED
    BY <1>1, <1>2, <1>3 DEF Tended

\* A job begins to push b when no other does.
LEMMA BegunBinding ==
  ASSUME Sound, NEW b \in Bindings, Tended(b), NEW j \in Jobs, NEW d \in Rows \cup {NoRow}, Begins(j, d, b),
         b \notin disturbed', ~Pushing(j, b), d \in Rows => Pending(d),
         job[j].row \in {NoRow, d}, SameHere(b), UNCHANGED <<row, owed>>
  PROVE  Tended(b)'
  <1>0. /\ \A i \in Jobs \ {j} : ~Pushing(i, b) /\ (d \in Rows => job[i].row # d)
        /\ \A i \in Jobs : ~Pushing(i, b)
    BY DEF Begins, Crossing
  <1>1. \A i \in Jobs \ {j} : SameJob(i) /\ ~Pushing(i, b)'
    BY <1>0 DEF Begins, SameJob, AtSame, Pushing
  <1>2. /\ job'[j].row = d /\ job'[j].content = version[b] /\ job'[j].result # "ok" /\ Pushing(j, b)'
        /\ job'[j].host = target'.host
    BY DEF Begins, Pushing, SameHere
  <1>3. Alone(b)'
    <2>1. ASSUME NEW i \in Jobs, NEW x \in Rows, job'[i].row = x, Present(x)', row'[x].binding = b
          PROVE  Pending(x)' /\ \A k \in Jobs : job'[k].row = x => k = i
      <3>1. CASE x = d
        <4>1. \A k \in Jobs : job'[k].row = x => k = j
          BY <1>0, <1>1, <3>1 DEF SameJob, AtSame
        <4> QED
          BY <2>1, <3>1, <4>1 DEF Pending
      <3>2. CASE x # d
        <4>1. i # j /\ \A k \in Jobs : job'[k].row = x => k # j /\ job[k].row = x
          BY <1>1, <1>2, <2>1, <3>2 DEF SameJob, AtSame
        <4>2. Pending(x) /\ \A k \in Jobs : job[k].row = x => k = i
          BY <1>1, <2>1, <4>1 DEF Tended, Alone, Present, SameJob, AtSame
        <4> QED
          BY <4>1, <4>2 DEF Pending
      <3> QED
        BY <3>1, <3>2
    <2>2. \A i, k \in Jobs : Pushing(i, b)' /\ Pushing(k, b)' => i = k
      BY <1>1
    <2> QED
      BY <2>1, <2>2 DEF Alone
  <1>4. Carried(b)'
    <2>1. owed'[b] <= job'[j].content
      BY <1>2 DEF Sound, Ordered
    <2> QED
      BY <1>1, <1>2, <2>1 DEF Carried, Here, SameHere
  <1>5. Kept(b)'
    <2>1. Deployed(b) \/ Accounted(b)
      BY <1>0 DEF Tended, Kept, Recording, Pushing, Jobs
    <2> QED
      BY <2>1 DEF Kept, Deployed, Accounted, Pending, Here, SameHere
  <1> QED
    BY <1>3, <1>4, <1>5 DEF Tended

\* A batch claims a row of b that nobody holds.
LEMMA ClaimedBinding ==
  ASSUME NEW b \in Bindings, Tended(b), NEW j \in Jobs, NEW d \in Rows,
         Only(j, "execute", d), Writes(d), Pending(d), Pending(d)', row[d].binding = b,
         job[j].row = NoRow, ~Pushing(j, b), row'[d].asked = row[d].asked,
         ~Crossing(j, d, b), SameHere(b), UNCHANGED owed
  PROVE  Tended(b)'
  <1>0. \A i \in Jobs \ {j} : job[i].row # d
    BY DEF Crossing
  <1>1. /\ \A i \in Jobs \ {j} : SameJob(i)
        /\ ~Pushing(j, b)' /\ job'[j].row = d
    BY DEF Only, Pushing
  <1>2. \A i \in Jobs : (Pushing(i, b)' <=> Pushing(i, b)) /\ (Pushing(i, b) => SameJob(i))
    BY <1>1 DEF SameJob, AtSame, Pushing
  <1>3. \A x \in Rows : (Stands(x, b) => Stands(x, b)') /\ (Pending(x) => Pending(x)')
                        /\ (Present(x)' => Present(x)) /\ row'[x].binding = row[x].binding
    BY DEF Writes, Stands, Pending, Present
  <1>4. Alone(b)'
    <2>1. ASSUME NEW i \in Jobs, NEW x \in Rows, job'[i].row = x, Present(x)', row'[x].binding = b
          PROVE  Pending(x)' /\ \A k \in Jobs : job'[k].row = x => k = i
      <3>1. CASE x = d
        BY <1>0, <1>1, <2>1, <3>1 DEF SameJob, AtSame
      <3>2. CASE x # d
        <4>1. i # j /\ \A k \in Jobs : job'[k].row = x => k # j /\ job[k].row = x
          BY <1>1, <2>1, <3>2 DEF SameJob, AtSame
        <4>2. job[i].row = x /\ Present(x) /\ row[x].binding = b
          BY <1>3, <2>1, <4>1
        <4>3. Pending(x) /\ \A k \in Jobs : job[k].row = x => k = i
          BY <4>2 DEF Tended, Alone
        <4> QED
          BY <1>3, <4>1, <4>3
      <3> QED
        BY <3>1, <3>2
    <2>2. \A i, k \in Jobs : Pushing(i, b)' /\ Pushing(k, b)' => i = k
      BY <1>2 DEF Tended, Alone
    <2> QED
      BY <2>1, <2>2 DEF Alone
  <1>5. Carried(b)'
    <2> SUFFICES ASSUME NEW i \in Jobs, Pushing(i, b)'
                 PROVE  /\ owed'[b] <= job'[i].content \/ \E x \in Rows \ {job'[i].row} : Stands(x, b)'
                        /\ job'[i].pc = "record" /\ job'[i].result = "ok" => Here(b)' = job'[i].content
                        /\ job'[i].host = target'.host
      BY DEF Carried
    <2>1. /\ owed[b] <= job[i].content \/ \E x \in Rows \ {job[i].row} : Stands(x, b)
          /\ job[i].pc = "record" /\ job[i].result = "ok" => Here(b) = job[i].content
          /\ job[i].host = target.host
      BY <1>2 DEF Tended, Carried
    <2> QED
      BY <1>2, <1>3, <2>1 DEF SameJob, AtSame, Here, SameHere
  <1>6. Kept(b)'
    <2>1. Stands(d, b)'
      BY <1>3 DEF Stands
    <2> QED
      BY <2>1 DEF Kept, Accounted, Stands
  <1> QED
    BY <1>4, <1>5, <1>6 DEF Tended

\* Files arrive, or some do: the row of the batch is pending, the request will record it.
LEMMA PushedBinding ==
  ASSUME Sound, NEW b \in Bindings, Bound(b), Tended(b), NEW j \in Jobs, job[j].pc = "push", job[j].binding = b,
         Only(j, "record", job[j].row), job'[j].binding = b, job'[j].content = job[j].content,
         job'[j].host = job[j].host, target'.host = target.host, job'[j].result = "ok" => Here(b)' = job[j].content, UNCHANGED <<row, owed>>
  PROVE  Tended(b)'
  <1>1. \A i \in Jobs \ {j} : SameJob(i) /\ ~Pushing(i, b) /\ ~Pushing(i, b)'
    BY DEF Only, SameJob, AtSame, Pushing, Tended, Alone
  <1>2. job'[j].pc = "record" /\ job'[j].row = job[j].row /\ \A i \in Jobs : job'[i].row = job[i].row
    BY DEF Only, SameJob, AtSame
  <1>3. Alone(b)'
    BY <1>1, <1>2 DEF Tended, Alone, Present, Pending
  <1>4. /\ owed[b] <= job[j].content \/ \E d \in Rows \ {job[j].row} : Stands(d, b)
        /\ job[j].host = target.host
    BY DEF Tended, Carried, Pushing
  <1>5. Carried(b)'
    BY <1>1, <1>2, <1>4 DEF Carried, Stands, Pending
  <1>6. Kept(b)'
    <2>1. CASE j \in Requests
      BY <1>2, <2>1 DEF Kept, Recording
    <2>2. CASE j \in Batches
      <3>1. job[j].row \in Rows /\ Present(job[j].row) /\ row[job[j].row].binding = b
        BY <2>2 DEF Sound, Linked, Working, Bound
      <3>2. Pending(job[j].row)
        BY <3>1 DEF Tended, Alone
      <3> QED
        BY <3>1, <3>2 DEF Kept, Accounted, Pending
    <2> QED
      BY <2>1, <2>2 DEF Jobs
  <1> QED
    BY <1>3, <1>5, <1>6 DEF Tended

\* A push is over, and another row or its own outcome answers for what is owed.
LEMMA EndedBinding ==
  ASSUME Sound, NEW b \in Bindings, Bound(b), Tended(b), NEW j \in Jobs, Pushing(j, b), ~Pushing(j, b)',
         job'[j].row \notin Rows, \A i \in Jobs \ {j} : SameJob(i),
         \A d \in Rows : job[j].row = d \/ row[d].status = "unused" \/ row'[d] = row[d],
         owed'[b] = owed[b], Kept(b)'
  PROVE  Tended(b)'
  <1>1. \A i \in Jobs \ {j} : ~Pushing(i, b)
    BY DEF Tended, Alone
  <1>2. \A i \in Jobs : ~Pushing(i, b)'
    BY <1>1 DEF SameJob, AtSame, Pushing
  <1>3. ASSUME NEW i \in Jobs, NEW x \in Rows, job'[i].row = x, Present(x)', row'[x].binding = b
        PROVE  Pending(x)' /\ \A k \in Jobs : job'[k].row = x => k = i
    <2>1. i # j /\ job[i].row = x /\ row[x].status # "unused"
      BY <1>3 DEF SameJob, AtSame, Sound, Linked, Working
    <2>2. \A k \in Jobs : job'[k].row = x => job[k].row = x
      BY <1>3 DEF SameJob, AtSame
    <2>3. CASE job[j].row # x
      <3>1. row'[x] = row[x]
        BY <2>1, <2>3
      <3>2. Pending(x) /\ \A k \in Jobs : job[k].row = x => k = i
        BY <1>3, <2>1, <3>1 DEF Tended, Alone, Present
      <3> QED
        BY <2>2, <3>1, <3>2 DEF Pending
    <2>4. CASE job[j].row = x
      <3>1. Present(x) /\ row[x].binding = b
        BY <2>4 DEF Sound, Linked, Working, Bound, Pushing
      <3> QED
        BY <2>1, <2>4, <3>1 DEF Tended, Alone
    <2> QED
      BY <2>3, <2>4
  <1> QED
    BY <1>2, <1>3 DEF Tended, Alone, Carried

LEMMA StoredBinding ==
  ASSUME Sound, NEW b \in Bindings, Bound(b), Tended(b), NEW j \in Jobs, NEW d \in Rows, Stored(j, d),
         job[j].binding = b, SameHere(b), UNCHANGED owed
  PROVE  Tended(b)'
  <1>1. Pushing(j, b) /\ ~Pushing(j, b)' /\ job'[j].row \notin Rows
    BY DeployAssumption DEF Stored, Only, Pushing
  <1>2. \A i \in Jobs \ {j} : SameJob(i)
    BY DEF Stored, Only
  <1>3. \A x \in Rows : job[j].row = x \/ row[x].status = "unused" \/ row'[x] = row[x]
    BY DEF Stored
  <1>4. job[j].row = d => Pending(d)
    <2>1. job[j].row = d => Present(d) /\ row[d].binding = b
      BY <1>1 DEF Sound, Linked, Working, Bound, Pushing
    <2> QED
      BY <2>1 DEF Tended, Alone
  <1>5. Settles(j, row'[d], "pending")
    BY <1>4 DEF Stored, Pending
  <1>6. ASSUME NEW x \in Rows, x # job[j].row, Stands(x, b)
        PROVE  Accounted(b)'
    <2>1. x # d
      BY <1>6 DEF Stored, Stands, Pending
    <2>2. row'[x] = row[x]
      BY <2>1 DEF Stored
    <2> QED
      BY <1>6, <2>2 DEF Stands, Accounted, Pending
  <1>7. Kept(b)'
    <2>1. CASE row'[d].status = "pending"
      BY <2>1 DEF Kept, Accounted, Pending, Stored
    <2>2. CASE owed[b] > job[j].content
      <3>1. ~(owed[b] <= job[j].content)
        BY <2>2 DEF Sound, TypeOK, Versions, Job
      <3> QED
        BY <1>1, <1>6, <3>1 DEF Tended, Carried, Kept
    <2>3. CASE owed[b] <= job[j].content /\ row'[d].status = "failed" /\ row'[d].asked >= job[j].content
      <3>1. owed[b] \in Nat /\ job[j].content \in Nat /\ row'[d].asked \in Nat
        BY DEF Sound, TypeOK, Versions, Job, Stored, Row
      <3>2. row'[d].asked >= owed'[b]
        BY <2>3, <3>1
      <3> QED
        BY <2>3, <3>2 DEF Kept, Accounted, Stored
    <2>4. CASE owed[b] <= job[j].content /\ job[j].result = "ok"
      <3>1. Here(b)' = job[j].content
        BY <1>1, <2>4 DEF Tended, Carried, Stored, Here, SameHere
      <3>2. owed[b] \in Nat /\ job[j].content \in Nat
        BY DEF Sound, TypeOK, Versions, Job
      <3> QED
        BY <2>4, <3>1, <3>2 DEF Kept, Deployed, Here, SameHere
    <2>5. owed[b] <= job[j].content \/ owed[b] > job[j].content
      BY DEF Sound, TypeOK, Versions, Job
    <2> QED
      BY <1>5, <2>1, <2>2, <2>3, <2>4, <2>5 DEF Settles
  <1> QED
    BY <1>1, <1>2, <1>3, <1>7, EndedBinding

\* An outcome that could not be committed leaves the row pending.
LEMMA UnrecordedBinding ==
  ASSUME Sound, NEW b \in Bindings, Bound(b), Tended(b), NEW j \in Jobs, job[j].pc = "record", job[j].binding = b,
         Only(j, job'[j].pc, NoRow), job'[j].pc \in {"idle", "batch"}, job[j].row \in Rows, UNCHANGED <<row, owed>>
  PROVE  Tended(b)'
  <1>1. Pushing(j, b) /\ ~Pushing(j, b)' /\ job'[j].row \notin Rows /\ \A i \in Jobs \ {j} : SameJob(i)
    BY DeployAssumption DEF Only, Pushing
  <1>2. Present(job[j].row) /\ row[job[j].row].binding = b
    BY <1>1 DEF Sound, Linked, Working, Bound, Pushing
  <1>3. Pending(job[j].row)
    BY <1>2 DEF Tended, Alone
  <1>4. Kept(b)'
    BY <1>2, <1>3 DEF Kept, Accounted, Pending
  <1> QED
    BY <1>1, <1>4, EndedBinding

\* Jobs die: no request that was pushing b among them.
LEMMA CrashedBinding ==
  ASSUME Sound, NEW b \in Bindings, Bound(b), Tended(b), NEW dead \in SUBSET Jobs, Crash(dead), b \notin disturbed'
  PROVE  Tended(b)'
  <1>0. Idle.pc = "idle" /\ Idle.row = NoRow
    BY DEF Idle
  <1>1. \A i \in Jobs : job'[i] = IF i \in dead THEN Idle ELSE job[i]
    BY DEF Crash
  <1>2. row' = row /\ owed' = owed
    BY DEF Crash, queue
  <1>3. \A i \in Jobs : (Pushing(i, b)' => i \notin dead /\ Pushing(i, b)) /\ (job'[i].row \in Rows => job'[i] = job[i])
    BY <1>0, <1>1, DeployAssumption DEF Pushing
  <1>4. \A i \in dead \cap Requests : ~Pushing(i, b)
    BY DEF Crash
  <1>5. ASSUME NEW i \in Jobs, Pushing(i, b), i \in Batches
        PROVE  Accounted(b)'
    <2>1. job[i].row \in Rows /\ Present(job[i].row) /\ row[job[i].row].binding = b
      BY <1>5 DEF Sound, Linked, Working, Bound, Pushing
    <2>2. Pending(job[i].row)
      BY <2>1 DEF Tended, Alone
    <2> QED
      BY <1>2, <2>1, <2>2 DEF Accounted, Pending
  <1>6. SameHere(b) \/ \E i \in dead : job[i].pc = "push" /\ job[i].binding = b
    <2> SUFFICES ASSUME \A i \in dead : ~(job[i].pc = "push" /\ job[i].binding = b)
                 PROVE  SameHere(b)
      OBVIOUS
    <2>1. PICK cut \in SUBSET {j \in dead : job[j].pc = "push"} :
             remote' = [c \in Bindings |-> [h \in Hosts |->
                          IF \E j \in cut : job[j].binding = c /\ job[j].host = h THEN 0 ELSE remote[c][h]]]
      BY DEF Crash
    <2>2. ~\E j \in cut : job[j].binding = b
      OBVIOUS
    <2>3. remote'[b] = [h \in Hosts |-> remote[b][h]]
      BY <2>1, <2>2
    <2>4. remote[b] \in [Hosts -> Versions]
      BY DEF Sound, TypeOK
    <2> QED
      BY <2>3, <2>4 DEF Crash, SameHere
  <1>7. SameHere(b) \/ \E i \in dead \cap Batches : Pushing(i, b)
    BY <1>4, <1>6 DEF Pushing, Jobs
  <1>8. Alone(b)'
    BY <1>1, <1>2, <1>3 DEF Tended, Alone, Present, Pending
  <1>9. Carried(b)'
    <2> SUFFICES ASSUME NEW i \in Jobs, Pushing(i, b)'
                 PROVE  /\ owed'[b] <= job'[i].content \/ \E x \in Rows \ {job'[i].row} : Stands(x, b)'
                        /\ job'[i].pc = "record" /\ job'[i].result = "ok" => Here(b)' = job'[i].content
                        /\ job'[i].host = target'.host
      BY DEF Carried
    <2>1. i \notin dead /\ Pushing(i, b) /\ job'[i] = job[i]
      BY <1>1, <1>3
    <2>2. SameHere(b)
      BY <1>7, <2>1 DEF Tended, Alone
    <2>3. /\ owed[b] <= job[i].content \/ \E x \in Rows \ {job[i].row} : Stands(x, b)
          /\ job[i].pc = "record" /\ job[i].result = "ok" => Here(b) = job[i].content
          /\ job[i].host = target.host
      BY <2>1 DEF Tended, Carried
    <2> QED
      BY <1>2, <2>1, <2>2, <2>3 DEF Stands, Pending, Here, SameHere
  <1>10. Kept(b)'
    <2>1. CASE \E i \in Jobs \cap Batches : Pushing(i, b)
      BY <1>5, <2>1 DEF Kept
    <2>2. CASE ~\E i \in Jobs \cap Batches : Pushing(i, b)
      <3>1. SameHere(b)
        BY <1>7, <2>2
      <3>2. CASE Recording(b)
        <4>1. PICK i \in Requests : job[i].pc = "record" /\ job[i].binding = b
          BY <3>2 DEF Recording
        <4>2. job'[i] = job[i]
          BY <1>1, <1>4, <4>1 DEF Pushing, Jobs
        <4> QED
          BY <4>1, <4>2 DEF Recording, Kept
      <3>3. CASE Deployed(b) \/ Accounted(b)
        BY <1>2, <3>1, <3>3 DEF Kept, Deployed, Accounted, Pending, Here, SameHere
      <3> QED
        BY <3>2, <3>3 DEF Tended, Kept
    <2> QED
      BY <2>1, <2>2
  <1> QED
    BY <1>8, <1>9, <1>10 DEF Tended

-----------------------------------------------------------------------------
(* Every step keeps what is owed to every binding *)

Keeps(b) == b \notin disturbed /\ Bound(b) => Tended(b)

\* Job i has nothing to do with binding b before or after the step.
JobStill(i, b) ==
    \/ SameJob(i)
    \/ /\ ~Pushing(i, b) /\ ~Pushing(i, b)'
       /\ \A d \in Rows : job'[i].row = d => ~Present(d)' \/ row'[d].binding # b

\* Row d is as good for binding b after the step as it was before.
RowStill(d, b) ==
    \/ row'[d] = row[d]
    \/ row[d].binding # b /\ (Present(d)' => row'[d].binding # b)
    \/ row[d].status = "unused"
    \/ row[d].status \in {"pending", "failed"} /\ Pending(d)' /\ row'[d].binding = row[d].binding

LEMMA StillIsQuiet ==
  ASSUME Sound, NEW b \in Bindings, Alone(b), \A i \in Jobs : JobStill(i, b), \A d \in Rows : RowStill(d, b)
  PROVE  Quiet(b)
  <1>1. ASSUME NEW j \in Jobs, Pushing(j, b) \/ Pushing(j, b)'
        PROVE  SameJob(j)
    BY <1>1 DEF JobStill
  <1>2. ASSUME NEW j \in Jobs, NEW d \in Rows, job'[j].row = d, Present(d)', row'[d].binding = b
        PROVE  job[j].row = d /\ Present(d) /\ row[d].binding = b /\ Pending(d)'
    <2>1. job[j].row = d
      BY <1>2 DEF JobStill, SameJob, AtSame
    <2>2. row[d].status # "unused"
      BY <2>1 DEF Sound, Linked, Working
    <2>3. Present(d) /\ row[d].binding = b => Pending(d)
      BY <2>1 DEF Alone
    <2>4. CASE row'[d] = row[d]
      BY <1>2, <2>1, <2>3, <2>4 DEF Present, Pending
    <2>5. CASE row[d].status \in {"pending", "failed"} /\ Pending(d)' /\ row'[d].binding = row[d].binding
      BY <1>2, <2>1, <2>5 DEF Present
    <2> QED
      BY <1>2, <2>2, <2>4, <2>5 DEF RowStill
  <1> QED
    BY <1>1, <1>2 DEF Quiet

LEMMA StillBinding ==
  ASSUME Sound, NEW b \in Bindings, Tended(b), \A i \in Jobs : JobStill(i, b), \A d \in Rows : RowStill(d, b),
         SameHere(b), owed'[b] = owed[b]
  PROVE  Tended(b)'
  <1>1. Quiet(b)
    BY StillIsQuiet DEF Tended
  <1>2. ASSUME NEW d \in Rows, Stands(d, b)
        PROVE  Stands(d, b)'
    BY <1>2 DEF RowStill, Stands, Pending
  <1> QED
    BY <1>1, <1>2, CalmBinding

\* Job j ends what it was doing for another binding, or for none.
LEMMA OnlyStill ==
  ASSUME NEW b \in Bindings, NEW j \in Jobs, NEW pc, NEW d, Only(j, pc, d), ~Pushing(j, b), ~Pushing(j, b)',
         d \in Rows => ~Present(d)' \/ row'[d].binding # b
  PROVE  \A i \in Jobs : JobStill(i, b)
  BY DEF Only, JobStill

LEMMA SettingsKeep ==
  ASSUME Sound, NEW b \in Bindings, Keeps(b), SameHere(b), UNCHANGED <<row, binding, job, owed, disturbed>>
  PROVE  Keeps(b)'
  <1> SUFFICES ASSUME b \notin disturbed', Bound(b)'
               PROVE  Tended(b)'
    BY DEF Keeps
  <1>1. Tended(b)
    BY DEF Keeps, Bound
  <1>2. \A i \in Jobs : JobStill(i, b)
    BY DEF JobStill, SameJob, AtSame
  <1>3. \A d \in Rows : RowStill(d, b)
    BY DEF RowStill
  <1> QED
    BY <1>1, <1>2, <1>3, StillBinding

\* The target is edited: another host is owed what a row still answers for, and nobody
\* is pushing an undisturbed binding to the old one.
LEMMA UpdateTargetKeeps ==
  ASSUME Sound, NEW b \in Bindings, Keeps(b), NEW h \in Hosts, NEW reset \in BOOLEAN, NEW enabled \in BOOLEAN,
         UpdateTarget(h, reset, enabled)
  PROVE  Keeps(b)'
  <1>0. UNCHANGED <<row, binding, job, remote>> /\ target'.host = h
    BY DEF UpdateTarget
  <1>1. CASE h = target.host
    BY <1>0, <1>1, SettingsKeep DEF UpdateTarget, SameHere
  <1>2. CASE h # target.host
    <2> SUFFICES ASSUME b \notin disturbed', Bound(b)'
                 PROVE  Tended(b)'
      BY DEF Keeps
    <2>1. /\ owed'[b] = IF Accounted(b) THEN owed[b] ELSE 0
          /\ b \notin disturbed /\ \A j \in Jobs : ~Pushing(j, b)
      BY <1>2 DEF UpdateTarget
    <2>2. Tended(b)
      BY <1>0, <2>1 DEF Keeps, Bound
    <2>3. \A j \in Jobs : ~Pushing(j, b)'
      BY <1>0, <2>1 DEF Pushing
    <2>4. Alone(b)'
      BY <1>0, <2>2 DEF Tended, Alone, Pushing, Present, Pending
    <2>5. Kept(b)'
      <3>1. CASE Accounted(b)
        BY <1>0, <2>1, <3>1 DEF Accounted, Pending, Kept
      <3>2. CASE ~Accounted(b)
        <4>1. remote[b][h] \in Nat
          BY DEF Sound, TypeOK, Versions
        <4> QED
          BY <1>0, <2>1, <3>2, <4>1 DEF Deployed, Kept
      <3> QED
        BY <3>1, <3>2
    <2> QED
      BY <2>3, <2>4, <2>5 DEF Tended, Carried
  <1> QED
    BY <1>1, <1>2

\* A new row for a binding, or its pending row again.
LEMMA QueuesKeeps ==
  ASSUME Sound, NEW b \in Bindings, NEW c \in Bindings, NEW q \in Rows, Queues(q, c), \A j \in Jobs : SameJob(j),
         row[q].status = "unused" \/ (Pending(q) /\ row[q].binding = c),
         b = c => \A j \in Jobs : Pushing(j, b) => job[j].row # q,
         b = c => Alone(b) /\ (Tended(b) \/ \A j \in Jobs : ~Pushing(j, b)),
         b # c => Tended(b), SameHere(b)
  PROVE  Tended(b)'
  <1>1. \A i \in Jobs : JobStill(i, b)
    BY DEF JobStill
  <1>2. \A d \in Rows : RowStill(d, b)
    BY DEF RowStill, Queues, Pending
  <1>3. CASE b # c
    <2>1. owed'[b] = owed[b]
      BY <1>3 DEF Queues
    <2> QED
      BY <1>1, <1>2, <1>3, <2>1, StillBinding
  <1>4. CASE b = c
    <2>1. Quiet(b)
      BY <1>1, <1>2, <1>4, StillIsQuiet
    <2>2. Pending(q)' /\ row'[q].binding = b
      BY <1>4 DEF Queues, Pending
    <2> QED
      BY <1>4, <2>1, <2>2, QueuedBinding
  <1> QED
    BY <1>3, <1>4

LEMMA UnusedIsFree ==
  ASSUME Sound, NEW q \in Rows, row[q].status = "unused"
  PROVE  \A j \in Jobs : job[j].row # q
  BY DEF Sound, Linked, Working

LEMMA EnqueueKeeps ==
  ASSUME Sound, NEW b \in Bindings, Keeps(b), NEW c \in Bindings, EnqueueForEvent(c) \/ EnqueueCrlForEvent(c)
  PROVE  Keeps(b)'
  <1>0. UNCHANGED binding /\ SameHere(b)
    BY DEF EnqueueForEvent, EnqueueCrlForEvent, SameHere
  <1>1. CASE UNCHANGED <<queue, job, disturbed>>
    BY <1>0, <1>1, SettingsKeep DEF queue
  <1>2. CASE Insert(c) /\ UNCHANGED <<job, disturbed>>
    <2> SUFFICES ASSUME b \notin disturbed', Bound(b)'
                 PROVE  Tended(b)'
      BY DEF Keeps
    <2>1. Tended(b) /\ Alone(b)
      BY <1>0, <1>2 DEF Keeps, Bound, Tended
    <2>2. PICK q \in Rows : row[q].status = "unused" /\ Queues(q, c)
      BY <1>2, InsertIs DEF Sound
    <2>3. \A j \in Jobs : SameJob(j)
      BY <1>2 DEF SameJob, AtSame
    <2>4. \A j \in Jobs : job[j].row # q
      BY <2>2, UnusedIsFree
    <2> QED
      BY <1>0, <2>1, <2>2, <2>3, <2>4, QueuesKeeps
  <1>3. CASE \E d \in Rows : Pending(d) /\ row[d].binding = c /\ Coalesce(d, 0) /\ job' = Unclaimable(job, {d})
    <2> SUFFICES ASSUME b \notin disturbed', Bound(b)'
                 PROVE  Tended(b)'
      BY DEF Keeps
    <2>1. PICK d \in Rows : Pending(d) /\ row[d].binding = c /\ Coalesce(d, 0) /\ job' = Unclaimable(job, {d})
      BY <1>3
    <2>2. b \notin disturbed /\ (b = c => ~InFlight(d))
      BY <2>1 DEF Coalesce, Disturb
    <2>3. Tended(b) /\ Alone(b)
      BY <1>0, <2>2 DEF Keeps, Bound, Tended
    <2>4. Queues(d, c)
      BY <2>1, CoalesceIs DEF Sound
    <2>5. \A j \in Jobs : SameJob(j)
      BY <2>1, UnclaimedJobs DEF Sound
    <2>6. b = c => \A j \in Jobs : Pushing(j, b) => job[j].row # d
      BY <2>2 DEF InFlight, Pushing
    <2> QED
      BY <1>0, <2>1, <2>3, <2>4, <2>5, <2>6, QueuesKeeps
  <1> QED
    BY <1>1, <1>2, <1>3 DEF EnqueueForEvent, EnqueueCrlForEvent

LEMMA CreateBindingKeeps ==
  ASSUME Sound, NEW b \in Bindings, Keeps(b), NEW c \in Bindings, NEW s \in {"enabled", "disabled"}, CreateBinding(c, s)
  PROVE  Keeps(b)'
  <1> SUFFICES ASSUME b \notin disturbed', Bound(b)'
               PROVE  Tended(b)'
    BY DEF Keeps
  <1>1. /\ UNCHANGED <<remote, target, job, disturbed>> /\ SameHere(b) /\ binding[c] = "absent"
        /\ b # c => binding'[b] = binding[b]
    BY DEF CreateBinding, Sound, TypeOK, SameHere
  <1>2. b # c => Tended(b)
    BY <1>1 DEF Keeps, Bound
  <1>3. \A j \in Jobs : SameJob(j)
    BY <1>1 DEF SameJob, AtSame
  <1>4. b = c => /\ \A j \in Jobs : ~Pushing(j, b)
                 /\ \A d \in Rows : ~(Present(d) /\ row[d].binding = b)
    BY <1>1 DEF Sound, Linked, Working, Placed, Pushing
  <1>5. b = c => Alone(b)
    BY <1>4 DEF Alone
  <1>6. CASE Insert(c)
    <2>1. PICK q \in Rows : row[q].status = "unused" /\ Queues(q, c)
      BY <1>6, InsertIs DEF Sound
    <2> QED
      BY <1>1, <1>2, <1>3, <1>4, <1>5, <2>1, QueuesKeeps
  <1>7. CASE UNCHANGED queue
    <2>1. row' = row /\ owed' = owed
      BY <1>7 DEF queue
    <2>2. CASE b # c
      <3>1. \A i \in Jobs : JobStill(i, b)
        BY <1>3 DEF JobStill
      <3>2. \A d \in Rows : RowStill(d, b)
        BY <2>1 DEF RowStill
      <3> QED
        BY <1>1, <1>2, <2>1, <2>2, <3>1, <3>2, StillBinding
    <2>3. CASE b = c
      <3>1. \A j \in Jobs : ~Pushing(j, b)'
        BY <1>1, <1>4, <2>3 DEF Pushing
      <3>2. Alone(b)'
        BY <1>4, <2>1, <2>3, <3>1 DEF Alone, Present
      <3>3. owed'[b] = 0 /\ remote'[b][target'.host] \in Nat
        BY <1>1, <2>1, <2>3 DEF Sound, Ordered, TypeOK, Versions, Target
      <3> QED
        BY <3>1, <3>2, <3>3 DEF Tended, Carried, Kept, Deployed
    <2> QED
      BY <2>2, <2>3
  <1> QED
    BY <1>6, <1>7 DEF CreateBinding

\* The rows of another binding are deleted.
LEMMA DeleteKeeps ==
  ASSUME Sound, NEW b \in Bindings, Keeps(b), DeleteTarget \/ \E c \in Bindings : DeleteBinding(c)
  PROVE  Keeps(b)'
  <1> SUFFICES ASSUME b \notin disturbed', Bound(b)'
               PROVE  Tended(b)'
    BY DEF Keeps
  <1>0. Deleted.status = "deleted"
    BY DEF Deleted, Blank
  <1>1. CASE DeleteTarget
    BY <1>1 DEF DeleteTarget, Bound
  <1>2. ASSUME NEW c \in Bindings, DeleteBinding(c)
        PROVE  Tended(b)'
    <2>1. b # c /\ binding'[b] = binding[b] /\ SameHere(b) /\ UNCHANGED <<job, owed, disturbed>>
      BY <1>2 DEF DeleteBinding, Sound, TypeOK, Bound, SameHere
    <2>2. Tended(b)
      BY <2>1 DEF Keeps, Bound
    <2>3. \A i \in Jobs : JobStill(i, b)
      BY <2>1 DEF JobStill, SameJob, AtSame
    <2>4. ASSUME NEW d \in Rows
          PROVE  RowStill(d, b)
      <3>1. row'[d] = IF Present(d) /\ row[d].binding \in {c} THEN Deleted ELSE row[d]
        BY <1>2 DEF DeleteBinding, DeleteRows
      <3>2. CASE row[d].binding = c /\ row'[d] = Deleted
        BY <1>0, <2>1, <3>2 DEF RowStill, Present
      <3> QED
        BY <3>1, <3>2 DEF RowStill
    <2> QED
      BY <2>1, <2>2, <2>3, <2>4, StillBinding
  <1> QED
    BY <1>1, <1>2

LEMMA RetryKeeps ==
  ASSUME Sound, NEW b \in Bindings, Keeps(b), NEW d \in Rows, RetryDelivery(d) \/ Wait(d)
  PROVE  Keeps(b)'
  <1> SUFFICES ASSUME b \notin disturbed', Bound(b)'
               PROVE  Tended(b)'
    BY DEF Keeps
  <1>1. SameHere(b) /\ UNCHANGED <<binding, owed, disturbed>>
    BY DEF RetryDelivery, Wait, SameHere
  <1>2. Tended(b)
    BY <1>1 DEF Keeps, Bound
  <1>3. \A i \in Jobs : SameJob(i)
    BY UnclaimedJobs DEF Sound, RetryDelivery, Wait, SameJob, AtSame
  <1>4. /\ row[d].status \in {"pending", "failed"} /\ row'[d].status = "pending" /\ row'[d].binding = row[d].binding
        /\ \A x \in Rows \ {d} : row'[x] = row[x]
    <2>1. row[d] \in Row /\ row[d].status \in {"pending", "failed"}
      BY DEF RetryDelivery, Wait, Pending, Sound, TypeOK
    <2>2. PICK r : /\ row' = [row EXCEPT ![d] = r]
                   /\ \/ r = [row[d] EXCEPT !.status = "pending", !.attempts = 0, !.max = MaxAttempts, !.due = TRUE]
                      \/ row[d].status = "pending" /\ r = [row[d] EXCEPT !.due = TRUE]
      BY DEF RetryDelivery, Wait, Pending
    <2>3. r.status = "pending" /\ r.binding = row[d].binding
      BY <2>1, <2>2 DEF Row
    <2> QED
      BY <2>1, <2>2, <2>3 DEF Sound, TypeOK
  <1> QED
    BY <1>1, <1>2, <1>3, <1>4, StillBinding DEF JobStill, RowStill, Pending

LEMMA IdlingKeeps ==
  ASSUME Sound, NEW b \in Bindings, Keeps(b), NEW j \in Jobs, StartBatch(j) \/ EndBatch(j) \/ RowVanished(j)
  PROVE  Keeps(b)'
  <1> SUFFICES ASSUME b \notin disturbed', Bound(b)'
               PROVE  Tended(b)'
    BY DEF Keeps
  <1>1. SameHere(b) /\ UNCHANGED <<row, binding, owed, disturbed>>
    BY DEF StartBatch, EndBatch, RowVanished, world, queue, SameHere
  <1>2. Tended(b)
    BY <1>1 DEF Keeps, Bound
  <1>3. Only(j, "batch", NoRow) \/ Only(j, "idle", NoRow)
    BY StartBatchIs, EndsIdle DEF EndBatch, RowVanished
  <1>4. ~Pushing(j, b) /\ ~Pushing(j, b)'
    BY <1>3 DEF StartBatch, EndBatch, RowVanished, Pushing, Only
  <1>5. \A i \in Jobs : JobStill(i, b)
    BY <1>3, <1>4, OnlyStill, DeployAssumption
  <1>6. \A d \in Rows : RowStill(d, b)
    BY <1>1 DEF RowStill
  <1> QED
    BY <1>1, <1>2, <1>5, <1>6, StillBinding

LEMMA ClaimKeeps ==
  ASSUME Sound, NEW b \in Bindings, Keeps(b), NEW j \in Jobs, NEW d \in Rows, Claim(j, d)
  PROVE  Keeps(b)'
  <1> SUFFICES ASSUME b \notin disturbed', Bound(b)'
               PROVE  Tended(b)'
    BY DEF Keeps
  <1> PICK c : c = row[d].binding
    OBVIOUS
  <1>1. /\ Only(j, "execute", d) /\ Writes(d) /\ Pending(d) /\ Pending(d)' /\ job[j].row = NoRow
        /\ row'[d].asked = row[d].asked /\ c \in Bindings
        /\ disturbed' = IF Crossing(j, d, c) THEN disturbed \cup {c} ELSE disturbed
    BY ClaimIs
  <1>2. SameHere(b) /\ UNCHANGED <<binding, owed>>
    BY DEF Claim, world, SameHere
  <1>3. b \notin disturbed /\ (b = c => ~Crossing(j, d, b))
    BY <1>1
  <1>4. Tended(b) /\ ~Pushing(j, b) /\ ~Pushing(j, b)'
    BY <1>1, <1>2, <1>3 DEF Keeps, Bound, Claim, Pushing, Only
  <1>5. CASE b = c
    BY <1>1, <1>2, <1>3, <1>4, <1>5, ClaimedBinding
  <1>6. CASE b # c
    <2>1. \A i \in Jobs : JobStill(i, b)
      BY <1>1, <1>4, <1>6, OnlyStill DEF Writes
    <2>2. \A x \in Rows : RowStill(x, b)
      BY <1>1, <1>6 DEF Writes, RowStill
    <2> QED
      BY <1>2, <1>4, <2>1, <2>2, StillBinding
  <1> QED
    BY <1>5, <1>6

\* Who finds no destination says so in a row that stands for the newest content.
LEMMA NoDestinationKeeps ==
  ASSUME Sound, NEW b \in Bindings, Keeps(b), NEW j \in Jobs, NoDestination(j)
  PROVE  Keeps(b)'
  <1> SUFFICES ASSUME b \notin disturbed', Bound(b)'
               PROVE  Tended(b)'
    BY DEF Keeps
  <1> PICK d : d = job[j].row
    OBVIOUS
  <1>1. /\ Only(j, "batch", NoRow) /\ d \in Rows /\ job[j].pc = "execute" /\ Present(d)
        /\ \/ UNCHANGED row
           \/ Writes(d) /\ row'[d].status = "failed" /\ row'[d].asked = version[row[d].binding]
    BY NoDestinationIs
  <1>2. SameHere(b) /\ UNCHANGED <<binding, owed, disturbed>>
    BY DEF NoDestination, world, SameHere
  <1>3. Tended(b) /\ ~Pushing(j, b) /\ ~Pushing(j, b)'
    BY <1>1, <1>2 DEF Keeps, Bound, Pushing, Only
  <1>4. \A i \in Jobs : JobStill(i, b)
    BY <1>1, <1>3, OnlyStill, DeployAssumption
  <1>5. CASE UNCHANGED row \/ row[d].binding # b
    <2>1. \A x \in Rows : RowStill(x, b)
      BY <1>1, <1>5 DEF RowStill, Writes
    <2> QED
      BY <1>2, <1>3, <1>4, <2>1, StillBinding
  <1>6. CASE /\ row[d].binding = b /\ Writes(d) /\ row'[d].status = "failed" /\ row'[d].asked = version[b]
    <2>1. \A i \in Jobs : job[i].row = d => i = j
      BY <1>1, <1>3, <1>6 DEF Tended, Alone
    <2>2. \A i \in Jobs : job'[i].row # d
      BY <1>1, <2>1, DeployAssumption DEF Only, SameJob, AtSame
    <2>3. owed[b] \in Nat /\ version[b] \in Nat /\ owed[b] <= version[b]
      BY DEF Sound, TypeOK, Versions, Ordered
    <2>4. Stands(d, b)'
      BY <1>2, <1>6, <2>3 DEF Stands, Writes
    <2>5. ASSUME NEW x \in Rows, x # d
          PROVE  row'[x] = row[x]
      BY <1>6, <2>5 DEF Writes
    <2>6. \A x \in Rows : Stands(x, b) => Stands(x, b)'
      BY <1>2, <2>4, <2>5 DEF Stands, Pending
    <2>7. ASSUME NEW i \in Jobs, NEW x \in Rows, job'[i].row = x, Present(x)', row'[x].binding = b
          PROVE  job[i].row = x /\ Present(x) /\ row[x].binding = b /\ Pending(x)'
      <3>1. x # d /\ row'[x] = row[x]
        BY <2>2, <2>5, <2>7
      <3>2. job[i].row = x
        BY <1>1, <2>7, DeployAssumption DEF Only, SameJob, AtSame
      <3> QED
        BY <1>3, <2>7, <3>1, <3>2 DEF Tended, Alone, Present, Pending
    <2>8. \A i \in Jobs : Pushing(i, b) \/ Pushing(i, b)' => SameJob(i)
      BY <1>4 DEF JobStill
    <2>9. Quiet(b)
      BY <2>7, <2>8 DEF Quiet
    <2> QED
      BY <1>2, <1>3, <2>6, <2>9, CalmBinding
  <1> QED
    BY <1>1, <1>5, <1>6

\* Somebody begins to push a binding, this one or another.
LEMMA BeginsKeeps ==
  ASSUME Sound, NEW b \in Bindings, Keeps(b), NEW c \in Bindings, NEW j \in Jobs, NEW d \in Rows \cup {NoRow},
         Begins(j, d, c), job[j].pc \in {"idle", "execute"}, job[j].row \in {NoRow, d},
         d \in Rows => Present(d) /\ row[d].binding = c, d \in Rows => Pending(d) \/ job[j].row = d,
         SameHere(b), UNCHANGED <<row, binding, owed>>
  PROVE  Keeps(b)'
  <1> SUFFICES ASSUME b \notin disturbed', Bound(b)'
               PROVE  Tended(b)'
    BY DEF Keeps
  <1>1. b \notin disturbed
    BY DEF Begins
  <1>2. Tended(b) /\ ~Pushing(j, b)
    BY <1>1 DEF Keeps, Bound, Pushing
  <1>3. CASE b = c
    <2>1. d \in Rows => Pending(d)
      BY <1>2, <1>3 DEF Tended, Alone
    <2> QED
      BY <1>2, <1>3, <2>1, BegunBinding
  <1>4. CASE b # c
    <2>1. ~Pushing(j, b)' /\ job'[j].row = d /\ \A i \in Jobs \ {j} : SameJob(i)
      BY <1>4 DEF Begins, Pushing
    <2>2. \A x \in Rows : job'[j].row = x => row'[x].binding # b
      BY <1>4, <2>1
    <2>3. \A i \in Jobs : JobStill(i, b)
      BY <1>2, <2>1, <2>2 DEF JobStill
    <2>4. \A x \in Rows : RowStill(x, b)
      BY DEF RowStill
    <2> QED
      BY <1>2, <2>3, <2>4, StillBinding
  <1> QED
    BY <1>3, <1>4

LEMMA ResolveKeeps ==
  ASSUME Sound, NEW b \in Bindings, Keeps(b), NEW j \in Jobs, Resolve(j)
  PROVE  Keeps(b)'
  <1> PICK d : d = job[j].row
    OBVIOUS
  <1> PICK c : c = row[d].binding
    OBVIOUS
  <1>1. Begins(j, d, c) /\ d \in Rows /\ Present(d) /\ c \in Bindings /\ job[j].pc = "execute"
    BY ResolveIs
  <1>2. SameHere(b) /\ UNCHANGED <<row, binding, owed>>
    BY DEF Resolve, world, queue, SameHere
  <1> QED
    BY <1>1, <1>2, BeginsKeeps

LEMMA PushKeeps ==
  ASSUME Sound, NEW b \in Bindings, Keeps(b), NEW j \in Jobs, Push(j)
  PROVE  Keeps(b)'
  <1> SUFFICES ASSUME b \notin disturbed', Bound(b)'
               PROVE  Tended(b)'
    BY DEF Keeps
  <1> PICK c : c = job[j].binding
    OBVIOUS
  <1>1. /\ Only(j, "record", job[j].row) /\ c \in Bindings /\ job[j].pc = "push"
        /\ job'[j].binding = c /\ job'[j].content = job[j].content /\ job'[j].host = job[j].host
        /\ \A x \in Bindings \ {c} : remote'[x] = remote[x]
        /\ job'[j].result = "ok" /\ job[j].host \in Hosts => remote'[c][job[j].host] = job[j].content
    BY PushIs
  <1>2. UNCHANGED <<row, binding, owed, disturbed, target>> /\ target.host \in Hosts
    BY DEF Push, queue, Sound, TypeOK, Target
  <1>3. Tended(b) /\ Bound(b)
    BY <1>2 DEF Keeps, Bound
  <1>4. CASE b = c
    <2>1. job[j].host = target.host
      BY <1>1, <1>3, <1>4 DEF Tended, Carried, Pushing
    <2>2. job'[j].result = "ok" => Here(b)' = job[j].content
      BY <1>1, <1>2, <1>4, <2>1 DEF Here
    <2> QED
      BY <1>1, <1>2, <1>3, <1>4, <2>2, PushedBinding
  <1>5. CASE b # c
    <2>1. ~Pushing(j, b) /\ ~Pushing(j, b)'
      BY <1>1, <1>5 DEF Pushing
    <2> PICK d : d = job[j].row
      OBVIOUS
    <2>2. d \in Rows => ~Present(d)' \/ row'[d].binding # b
      BY <1>1, <1>2, <1>5 DEF Sound, Linked, Working, Present
    <2>3. \A i \in Jobs : JobStill(i, b)
      BY <1>1, <2>1, <2>2, OnlyStill
    <2>4. \A x \in Rows : RowStill(x, b)
      BY <1>2 DEF RowStill
    <2>5. SameHere(b)
      BY <1>1, <1>2, <1>5 DEF SameHere
    <2> QED
      BY <1>2, <1>3, <2>3, <2>4, <2>5, StillBinding
  <1> QED
    BY <1>4, <1>5

\* The outcome of a push of another binding is stored, or is not.
LEMMA OthersOutcome ==
  ASSUME Sound, NEW b \in Bindings, Tended(b), NEW j \in Jobs, job[j].pc = "record", job[j].binding # b,
         Only(j, job'[j].pc, NoRow), job'[j].pc \in {"idle", "batch"},
         UNCHANGED row \/ \E d \in Rows : Stored(j, d), SameHere(b), UNCHANGED owed
  PROVE  Tended(b)'
  <1>1. ~Pushing(j, b) /\ ~Pushing(j, b)'
    BY DEF Pushing
  <1>2. \A i \in Jobs : JobStill(i, b)
    BY <1>1, OnlyStill, DeployAssumption
  <1>3. ASSUME NEW d \in Rows, Stored(j, d)
        PROVE  \A x \in Rows : RowStill(x, b)
    <2>1. row[d].status = "unused" \/ row[d].binding = job[j].binding
      BY <1>3 DEF Stored, Sound, Linked, Working
    <2> QED
      BY <1>3, <2>1 DEF Stored, RowStill
  <1>4. \A x \in Rows : RowStill(x, b)
    BY <1>3 DEF RowStill
  <1> QED
    BY <1>2, <1>4, StillBinding

\* A key is pinned to the host that the target has.
LEMMA PinsHere == ASSUME TypeOK, NEW j, Pin(j) PROVE target'.host = target.host
  BY DEF Pin, TypeOK, Target

LEMMA RecordKeeps ==
  ASSUME Sound, NEW b \in Bindings, Keeps(b), NEW j \in Jobs, Record(j)
  PROVE  Keeps(b)'
  <1> SUFFICES ASSUME b \notin disturbed', Bound(b)'
               PROVE  Tended(b)'
    BY DEF Keeps
  <1>1. /\ job[j].pc = "record" /\ job[j].row \in Rows
        /\ \/ Stored(j, job[j].row)
           \/ Only(j, job'[j].pc, NoRow) /\ job'[j].pc \in {"idle", "batch"} /\ UNCHANGED row
    BY RecordIs
  <1>2. SameHere(b) /\ UNCHANGED <<binding, owed, disturbed>>
    BY PinsHere DEF Record, SameHere, Sound
  <1>3. Tended(b) /\ Bound(b)
    BY <1>2 DEF Keeps, Bound
  <1>4. Only(j, job'[j].pc, NoRow) /\ job'[j].pc \in {"idle", "batch"}
    BY <1>1 DEF Stored
  <1>5. CASE job[j].binding # b
    BY <1>1, <1>2, <1>3, <1>4, <1>5, OthersOutcome
  <1>6. CASE job[j].binding = b /\ Stored(j, job[j].row)
    BY <1>1, <1>2, <1>3, <1>6, StoredBinding
  <1>7. CASE job[j].binding = b /\ UNCHANGED row
    BY <1>1, <1>2, <1>3, <1>4, <1>7, UnrecordedBinding
  <1> QED
    BY <1>1, <1>5, <1>6, <1>7

LEMMA SaveRequestKeeps ==
  ASSUME Sound, NEW b \in Bindings, Keeps(b), NEW j \in Jobs, SaveRequest(j)
  PROVE  Keeps(b)'
  <1> SUFFICES ASSUME b \notin disturbed', Bound(b)'
               PROVE  Tended(b)'
    BY DEF Keeps
  <1> PICK c : c = job[j].binding
    OBVIOUS
  <1>1. /\ job[j].pc = "record" /\ c \in Bindings /\ disturbed \subseteq disturbed'
        /\ \/ /\ \E d \in Rows : Stored(j, d)
              /\ \A x \in Bindings : binding'[x] = binding[x] \/ (x = c /\ binding[x] # "gone" /\ binding'[x] = "enabled")
           \/ /\ Only(j, "idle", NoRow) /\ UNCHANGED <<row, binding>>
              /\ \/ c \in disturbed'
                 \/ ~target.present
                 \/ binding[c] = "gone"
                 \/ job[j].row \in Rows /\ ~Present(job[j].row)
    BY SaveRequestIs
  <1>2. SameHere(b) /\ UNCHANGED owed
    BY PinsHere DEF SaveRequest, SameHere, Sound
  <1>3. binding[c] # "absent" /\ (job[j].row \in Rows /\ ~Present(job[j].row) => binding[c] = "gone")
    BY <1>1 DEF Sound, Linked, Working
  <1>4. Bound(b)
    BY <1>1, <1>3 DEF Bound, Sound, TypeOK
  <1>5. Tended(b)
    BY <1>1, <1>4 DEF Keeps
  <1>6. CASE b # c
    <2>1. Only(j, job'[j].pc, NoRow) /\ job'[j].pc \in {"idle", "batch"}
      BY <1>1 DEF Stored, Only
    <2> QED
      BY <1>1, <1>2, <1>5, <1>6, <2>1, OthersOutcome
  <1>7. CASE b = c
    <2>1. target.present /\ binding[c] # "gone"
      BY <1>4, <1>7 DEF Sound, Ordered, Bound
    <2>2. \E d \in Rows : Stored(j, d)
      BY <1>1, <1>3, <1>7, <2>1
    <2> QED
      BY <1>2, <1>4, <1>5, <1>7, <2>2, StoredBinding
  <1> QED
    BY <1>6, <1>7

LEMMA RequestKeeps ==
  ASSUME Sound, NEW b \in Bindings, Keeps(b), NEW j \in Requests, NEW c \in Bindings,
         DeployNow(j, c) \/ \E s \in {"enabled", "disabled"} : UpdateBinding(j, c, s)
  PROVE  Keeps(b)'
  <1>0. j \in Jobs /\ UNCHANGED owed /\ SameHere(b)
    BY DEF Jobs, DeployNow, UpdateBinding, world, SameHere
  <1>1. /\ job[j].pc = "idle" /\ Bound(c)
        /\ \/ /\ UNCHANGED <<row, binding>>
              /\ \E d \in Rows \cup {NoRow} : Begins(j, d, c) /\ (d \in Rows => Pending(d) /\ row[d].binding = c)
           \/ UNCHANGED <<job, disturbed, row>> /\ \E s \in {"enabled", "disabled"} : binding' = [binding EXCEPT ![c] = s]
           \/ /\ UNCHANGED <<job, disturbed, binding>>
              /\ \E d \in Rows : row[d].status = "unused" /\ \A x \in Rows \ {d} : row'[x] = row[x]
    <2>1. CASE DeployNow(j, c)
      <3>1. UNCHANGED binding
        BY <2>1 DEF DeployNow, world
      <3> QED
        BY <2>1, <3>1, DeployNowIs, DeployAssumption
    <2>2. CASE \E s \in {"enabled", "disabled"} : UpdateBinding(j, c, s)
      BY <2>2, UpdateBindingIs
    <2> QED
      BY <2>1, <2>2
  <1>2. CASE /\ UNCHANGED <<row, binding>>
             /\ \E d \in Rows \cup {NoRow} : Begins(j, d, c) /\ (d \in Rows => Pending(d) /\ row[d].binding = c)
    <2>1. PICK d \in Rows \cup {NoRow} : Begins(j, d, c) /\ (d \in Rows => Pending(d) /\ row[d].binding = c)
      BY <1>2
    <2>2. job[j].row = NoRow
      BY <1>0, <1>1 DEF Sound, Linked, Working
    <2>3. d \in Rows => Present(d)
      BY <2>1 DEF Pending, Present
    <2> QED
      BY <1>0, <1>1, <1>2, <2>1, <2>2, <2>3, BeginsKeeps
  <1>3. CASE /\ UNCHANGED <<job, disturbed>>
             /\ UNCHANGED row \/ \E d \in Rows : row[d].status = "unused" /\ \A x \in Rows \ {d} : row'[x] = row[x]
             /\ UNCHANGED binding \/ \E s \in {"enabled", "disabled"} : binding' = [binding EXCEPT ![c] = s]
    <2> SUFFICES ASSUME b \notin disturbed', Bound(b)'
                 PROVE  Tended(b)'
      BY DEF Keeps
    <2>1. Bound(b)
      BY <1>1, <1>3 DEF Bound, Sound, TypeOK
    <2>2. Tended(b)
      BY <1>3, <2>1 DEF Keeps
    <2>3. \A i \in Jobs : JobStill(i, b)
      BY <1>3 DEF JobStill, SameJob, AtSame
    <2>4. \A x \in Rows : RowStill(x, b)
      BY <1>3 DEF RowStill
    <2> QED
      BY <1>0, <2>2, <2>3, <2>4, StillBinding
  <1> QED
    BY <1>1, <1>2, <1>3

LEMMA CrashKeeps ==
  ASSUME Sound, NEW b \in Bindings, Keeps(b), NEW dead \in SUBSET Jobs, Crash(dead)
  PROVE  Keeps(b)'
  <1> SUFFICES ASSUME b \notin disturbed', Bound(b)'
               PROVE  Tended(b)'
    BY DEF Keeps
  <1>1. b \notin disturbed /\ Bound(b)
    BY DEF Crash, Bound
  <1> QED
    BY <1>1, CrashedBinding DEF Keeps

-----------------------------------------------------------------------------
(* The invariant *)

LEMMA InvParts == TypeOK /\ DeployInv <=> Sound /\ \A b \in Bindings : Keeps(b)
  BY DEF DeployInv, Sound, Keeps

LEMMA InitSound == Init => Sound /\ \A b \in Bindings : Keeps(b)
  <1> SUFFICES ASSUME Init
               PROVE  Sound /\ \A b \in Bindings : Keeps(b)
    OBVIOUS
  <1>1. 0 \in Versions /\ 1 \in Versions
    BY DeployAssumption DEF Versions
  <1>2. target \in Target
    BY DEF Init, Target
  <1>3. row \in [Rows -> Row] /\ job \in [Jobs -> Job]
    BY Blanks DEF Init
  <1>4. 0 \in 0..MaxFaults /\ 0 \in 0..MaxEdits
    BY DeployAssumption
  <1>5. TypeOK
    BY <1>1, <1>2, <1>3, <1>4 DEF Init, TypeOK
  <1>6. \A d \in Rows : row[d].status = "unused"
    BY DEF Init, Blank
  <1>7. \A j \in Jobs : job[j].pc = "idle" /\ job[j].row = NoRow
    BY DEF Init, Idle
  <1>8. Linked
    BY <1>6, <1>7, DeployAssumption DEF Linked, Placed, Working, Present
  <1>9. \A b \in Bindings : binding[b] = "absent" /\ owed[b] = 0 /\ version[b] = 1
    BY DEF Init
  <1> QED
    BY <1>5, <1>8, <1>9 DEF Sound, Ordered, Keeps, Bound

LEMMA StepSound == Sound /\ [Next]_vars => Sound'
  <1> SUFFICES ASSUME Sound, [Next]_vars
               PROVE  Sound'
    OBVIOUS
  <1>1. CASE UNCHANGED vars
    BY <1>1, SameStep DEF vars, Sound, TypeOK
  <1>2. CASE \E b \in Bindings : Store(b) \/ EnqueueForEvent(b) \/ EnqueueCrlForEvent(b) \/ LoseEvent(b)
    BY <1>2, StoreBasics, EnqueueBasics, LoseEventBasics
  <1>3. CASE Operator
    BY <1>3, CreateBindingBasics, DeleteBindingBasics, UpdateTargetBasics, DeleteTargetBasics, RetryBasics,
       RequestBasics DEF Operator
  <1>4. CASE \E d \in Rows : Wait(d)
    BY <1>4, WaitBasics
  <1>5. CASE \E j \in Batches : StartBatch(j)
    BY <1>5, IdlingBasics DEF Jobs
  <1>6. CASE \E j \in Jobs : Continue(j)
    BY <1>6, ClaimBasics, IdlingBasics, NoDestinationBasics, ResolveBasics, PushBasics, RecordBasics,
       SaveRequestBasics DEF Continue
  <1>7. CASE \E dead \in SUBSET Jobs : Crash(dead)
    BY <1>7, CrashBasics
  <1> QED
    BY <1>1, <1>2, <1>3, <1>4, <1>5, <1>6, <1>7 DEF Next

LEMMA StepKeeps ==
  ASSUME Sound, NEW b \in Bindings, Keeps(b), [Next]_vars
  PROVE  Keeps(b)'
  <1>1. CASE UNCHANGED vars
    BY <1>1, SettingsKeep DEF vars, SameHere
  <1>2. CASE \E c \in Bindings : Store(c) \/ EnqueueForEvent(c) \/ EnqueueCrlForEvent(c) \/ LoseEvent(c)
    <2>1. ASSUME NEW c \in Bindings, Store(c) \/ LoseEvent(c)
          PROVE  Keeps(b)'
      BY <2>1, SettingsKeep DEF Store, LoseEvent, SameHere
    <2> QED
      BY <1>2, <2>1, EnqueueKeeps
  <1>3. CASE Operator
    <2>1. ASSUME NEW h \in Hosts, NEW reset \in BOOLEAN, NEW enabled \in BOOLEAN, UpdateTarget(h, reset, enabled)
          PROVE  Keeps(b)'
      BY <2>1, UpdateTargetKeeps
    <2> QED
      BY <1>3, <2>1, CreateBindingKeeps, DeleteKeeps, RetryKeeps, RequestKeeps DEF Operator
  <1>4. CASE \E d \in Rows : Wait(d)
    BY <1>4, RetryKeeps
  <1>5. CASE \E j \in Batches : StartBatch(j)
    BY <1>5, IdlingKeeps DEF Jobs
  <1>6. CASE \E j \in Jobs : Continue(j)
    BY <1>6, ClaimKeeps, IdlingKeeps, NoDestinationKeeps, ResolveKeeps, PushKeeps, RecordKeeps,
       SaveRequestKeeps DEF Continue
  <1>7. CASE \E dead \in SUBSET Jobs : Crash(dead)
    BY <1>7, CrashKeeps
  <1> QED
    BY <1>1, <1>2, <1>3, <1>4, <1>5, <1>6, <1>7 DEF Next

LEMMA Invariance == Spec => [](TypeOK /\ DeployInv)
  <1>1. Init => TypeOK /\ DeployInv
    BY InitSound, InvParts
  <1>2. TypeOK /\ DeployInv /\ [Next]_vars => (TypeOK /\ DeployInv)'
    <2> SUFFICES ASSUME TypeOK, DeployInv, [Next]_vars
                 PROVE  (TypeOK /\ DeployInv)'
      OBVIOUS
    <2>1. Sound /\ \A b \in Bindings : Keeps(b)
      BY InvParts
    <2>2. Sound' /\ \A b \in Bindings : Keeps(b)'
      BY <2>1, StepSound, StepKeeps
    <2> QED
      BY <2>2 DEF DeployInv, Sound, Keeps
  <1> QED
    BY <1>1, <1>2, PTL DEF Spec

\* The rows, the jobs, the bindings and the contents stay within their types, whatever the
\* batches, the requests, the operators and the crashes do.
THEOREM DeploymentsTyped == Spec => []TypeOK
  BY Invariance, PTL

\* What was queued for a binding is on the host of the target, or a row will still push it or records that
\* it failed, or a request is about to record it: through retries, partial pushes, failed
\* commits, crashes, expired leases and edits, for any number of rows, bindings, hosts, batches
\* and requests, as long as no two pushes of the binding cross and the host of the target is
\* not changed under one; a new host is owed what a row still answers for (execute_delivery, _record_failure,
\* enqueue_for_event, enqueue_crl_for_event, deploy_now and update_binding).
THEOREM QueuedIsDeployed == Spec => []OwedUntilDeployed
  <1>1. DeployInv => OwedUntilDeployed
    BY DEF DeployInv, Tended, Kept, OwedUntilDeployed
  <1> QED
    BY <1>1, Invariance, PTL
=============================================================================
