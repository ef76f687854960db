------------------------------ MODULE AuditChain ------------------------------
(***************************************************************************)
(* The audit ledger (services/audit, services/retention_service.py): rows  *)
(* sealed by a hash over their predecessor, under a key derived from the   *)
(* master key; a history of those keys in a file beside it; purges that    *)
(* remove a prefix and say so in a sealed row; and the verification that   *)
(* tells this from rows that somebody removed.                             *)
(*                                                                         *)
(* A seal is taken for unforgeable and rows are not edited, so a row is    *)
(* its links: the hash of row i is i itself, and what is hashed is what    *)
(* the row says of the chain.                                              *)
(*                                                                         *)
(* Each process has its own copy of the master key: the worker, which      *)
(* serves the requests and verifies the ledger, and the master, which runs *)
(* the scheduled tasks and seals their rows under the key it has.          *)
(***************************************************************************)
EXTENDS Integers, FiniteSets, FiniteSetsExt

CONSTANTS
    Writers,        \* transactions that add a row, purges among them
    Scheduled,      \* those of the scheduled tasks, in the master's process
    MaxId,          \* bound on the rows ever added
    MaxKey,         \* bound on the master keys ever used
    BatchSize,      \* CLEANUP_BATCH_SIZE
    MaxFaults,      \* bound on crashes and files not written
    MaxRemoved      \* bound on rows removed by hand

ASSUME ChainAssumption ==
    /\ {MaxId, MaxKey, MaxFaults, MaxRemoved} \subseteq Nat
    /\ BatchSize \in Nat \ {0}
    /\ Scheduled \subseteq Writers

VARIABLES
    ledger,         \* audit_logs: the rows present, by id
    nextId,         \* the sequence of ids
    key,            \* number of the master key each process has, NoKey without one
    ring,           \* the key history file; current is NoKey when there is none
    writer,         \* what each transaction is doing
    removed,        \* how many rows were removed by hand
    missing,        \* those that a later row shows to have been there
    crossed,        \* a purge was going on when the first row under a key was sealed
    lost,           \* keys whose entry in the history was not written
    faults

vars == <<ledger, nextId, key, ring, writer, removed, missing, crossed, lost, faults>>

Processes == {"master", "worker"}
NoKey == 0
Genesis == 0
Ids == 1..MaxId
Keys == 1..MaxKey
Entry == [prev : {Genesis} \cup Ids,            \* prev_hash
          key : {NoKey} \cup Keys,              \* hash_key_id, hash_version
          start : {0} \cup Ids,                 \* chain_start, 0 when null
          attested : BOOLEAN,                   \* retired_keys: whether attested ...
          retired : [Keys -> {0} \cup Ids],     \* ... and the last row of each key listed
          purge : BOOLEAN]                      \* a purge record
Ring == [current : {NoKey} \cup Keys, history : SUBSET Keys]
Writer == [pc : {"idle", "staged", "purge", "record", "batch"},
           id : {0} \cup Ids,
           entry : Entry,
           ring : Ring,                 \* to be written after the commit
           boundary : 0..(MaxId + 1)]   \* of a purge: the first id to keep

Unlisted == [k \in Keys |-> 0]
Blank == [prev |-> Genesis, key |-> NoKey, start |-> 0, attested |-> FALSE,
          retired |-> Unlisted, purge |-> FALSE]
NoRing == [current |-> NoKey, history |-> {}]
\* A transaction without a row, and one that does nothing.
At(pc, boundary) ==
    [pc |-> pc, id |-> 0, entry |-> Blank, ring |-> NoRing, boundary |-> boundary]
Idle == At("idle", 0)

Rows == DOMAIN ledger

TypeOK ==
    /\ Rows \subseteq Ids
    /\ \A i \in Rows : ledger[i] \in Entry
    /\ nextId \in 1..(MaxId + 1)
    /\ key \in [Processes -> {NoKey} \cup Keys]
    /\ ring \in Ring
    /\ writer \in [Writers -> Writer]
    /\ removed \in 0..MaxRemoved
    /\ missing \subseteq Ids
    /\ crossed \in BOOLEAN
    /\ lost \subseteq Keys
    /\ faults \in 0..MaxFaults

Init ==
    /\ ledger = [i \in {} |-> Blank]
    /\ nextId = 1
    /\ key = [p \in Processes |-> NoKey]
    /\ ring = NoRing
    /\ writer = [w \in Writers |-> Idle]
    /\ removed = 0
    /\ missing = {}
    /\ crossed = FALSE
    /\ lost = {}
    /\ faults = 0

-----------------------------------------------------------------------------
\* The least of a set of ids, 0 for none; the greatest likewise.
First(S) == IF S = {} THEN 0 ELSE Min(S)
Last(S) == IF S = {} THEN 0 ELSE Max(S)

Fault == faults < MaxFaults /\ faults' = faults + 1

\* The rows of R are deleted.
Without(R) == [i \in Rows \ R |-> ledger[i]]

\* Fault: nothing keeps two writers from reading the same predecessor.
Free_Always == TRUE

\* The advisory lock of PostgreSQL, and SQLite's one writer: held from the insert to
\* the end of the transaction.
Free == \A w \in Writers : writer[w].pc \notin {"staged", "record"}

\* chain_key, in the process of a transaction.
KeyOf(w) == key[IF w \in Scheduled THEN "master" ELSE "worker"]

\* _rotation: what the first row under key k says of the other keys in the ledger.
Listed(k, old) ==
    /\ old # k
    /\ ring.current = NoKey \/ (ring.current # k /\ old \in ring.history)
Rotation(k) ==
    [old \in Keys |-> IF Listed(k, old) THEN Last({i \in Rows : ledger[i].key = old}) ELSE 0]

\* Fault: a history that was not there counts as a key.
Reconciled_FromNothing(k) ==
    IF k = NoKey \/ ring.current = k THEN NoRing
    ELSE [current |-> k, history |-> ring.history \cup {ring.current, k}]

\* _reconcile_keyring: the history with key k as the current one.
Reconciled(k) ==
    IF k = NoKey \/ ring.current = k THEN NoRing
    ELSE [current |-> k, history |-> ring.history \cup ({ring.current} \ {NoKey}) \cup {k}]

\* A row sealed now under key k is the first under it, or the first after others.
OpensKey(k) == k # NoKey /\ (Rows = {} \/ ledger[Last(Rows)].key # k)

\* chain_start of the next row: a purge record names the first id kept, the first row
\* under a key the first there is.
Start(k, boundary) ==
    IF boundary > 0 THEN First({i \in Rows \cup {nextId} : i >= boundary})
    ELSE IF OpensKey(k) THEN First(Rows \cup {nextId}) ELSE 0

\* append_entry: the row that is inserted now, by a process that has key k.
Sealed(k, boundary) ==
    [prev |-> Last(Rows),
     key |-> k,
     start |-> Start(k, boundary),
     attested |-> OpensKey(k) /\ ring.current # NoKey /\ Rotation(k) # Unlisted,
     retired |-> IF OpensKey(k) THEN Rotation(k) ELSE Unlisted,
     purge |-> boundary > 0]

\* The row is added to the transaction of writer w, which goes on to step pc.
Append(w, pc, boundary) ==
    LET k == KeyOf(w) IN
    /\ Free
    /\ nextId <= MaxId
    /\ nextId' = nextId + 1
    /\ writer' = [writer EXCEPT ![w] =
          [pc |-> pc, id |-> nextId, entry |-> Sealed(k, boundary), ring |-> Reconciled(k),
           boundary |-> boundary]]
    /\ crossed' = (crossed \/ (OpensKey(k) /\ \E p \in Writers : writer[p].pc = "batch"))

\* The history is written after the commit; or the process dies, or the file is not
\* written, in between.
WriteKeyring(w) ==
    LET new == writer[w].ring IN
    \/ /\ ring' = IF new = NoRing THEN ring ELSE new
       /\ lost' = lost \ {writer[w].entry.key}
       /\ UNCHANGED faults
    \/ /\ new # NoRing
       /\ Fault
       /\ lost' = lost \cup {new.current}
       /\ UNCHANGED ring

\* Rows removed by hand that the ledger is still expected to hold once e is in it: a
\* purge record, and the first row under a key, say anew where it begins.
StillMissing(e) == {i \in missing : e.start = 0 \/ i >= e.start}

-----------------------------------------------------------------------------
(* Writers *)

\* log_action, stage_audit_entry.
Stage(w) ==
    /\ writer[w].pc = "idle"
    /\ Append(w, "staged", 0)
    /\ UNCHANGED <<ledger, key, ring, removed, missing, lost, faults>>

Commit(w) ==
    /\ writer[w].pc = "staged"
    /\ ledger' = [i \in Rows \cup {writer[w].id} |->
                    IF i = writer[w].id THEN writer[w].entry ELSE ledger[i]]
    /\ WriteKeyring(w)
    /\ missing' = StillMissing(writer[w].entry)
    /\ writer' = [writer EXCEPT ![w] = Idle]
    /\ UNCHANGED <<nextId, key, removed, crossed>>

\* The transaction is rolled back, or the process dies: the id stays unused.
Rollback(w) ==
    /\ writer[w].pc # "idle"
    /\ writer' = [writer EXCEPT ![w] = Idle]
    /\ UNCHANGED <<ledger, nextId, key, ring, removed, missing, crossed, lost, faults>>

\* _purge: rows before the boundary are older than the retention.
StartPurge(w, boundary) ==
    /\ writer[w].pc = "idle"
    /\ boundary \in Rows \cup {Last(Rows) + 1}
    /\ \E i \in Rows : i < boundary
    /\ writer' = [writer EXCEPT ![w] = At("purge", boundary)]
    /\ UNCHANGED <<ledger, nextId, key, ring, removed, missing, crossed, lost, faults>>

RecordPurge(w) ==
    /\ writer[w].pc = "purge"
    /\ Append(w, "record", writer[w].boundary)
    /\ UNCHANGED <<ledger, key, ring, removed, missing, lost, faults>>

\* The oldest rows to delete, as many as a batch has.
Batch(w) ==
    LET old == {i \in Rows : i < writer[w].boundary} IN
    {i \in old : Cardinality({j \in old : j < i}) < BatchSize}
\* A batch that is not full is the last.
AfterBatch(w) ==
    IF Cardinality(Batch(w)) < BatchSize THEN Idle
    ELSE At("batch", writer[w].boundary)

\* The first batch is committed with the record; when another purge left nothing to
\* delete, the record is in the session and its transaction ends either way.
FirstBatch(w) ==
    LET gone == Batch(w)  kept == Rows \ gone IN
    /\ writer[w].pc = "record"
    /\ ledger' = [i \in kept \cup {writer[w].id} |->
                    IF i = writer[w].id THEN writer[w].entry ELSE ledger[i]]
    /\ WriteKeyring(w)
    /\ missing' = StillMissing(writer[w].entry)
    /\ writer' = [writer EXCEPT ![w] = AfterBatch(w)]
    /\ UNCHANGED <<nextId, key, removed, crossed>>

NextBatch(w) ==
    /\ writer[w].pc = "batch"
    /\ ledger' = Without(Batch(w))
    /\ writer' = [writer EXCEPT ![w] = AfterBatch(w)]
    /\ UNCHANGED <<nextId, key, ring, removed, missing, crossed, lost, faults>>

-----------------------------------------------------------------------------
(* Keys and hands *)

\* A process has another key: encryption is enabled or disabled, another key is installed
\* or an earlier one restored, or the process starts again and reads the file.  The other
\* process keeps the key it has.
ChangeKey(p, k) ==
    /\ key[p] # k
    /\ key' = [key EXCEPT ![p] = k]
    /\ UNCHANGED <<ledger, nextId, ring, writer, removed, missing, crossed, lost, faults>>

\* Somebody deletes a row of the table.  What follows the last row left is as if it
\* had never been, and what precedes the start of the ledger is being purged.
RemoveRow(i) ==
    /\ removed < MaxRemoved
    /\ removed' = removed + 1
    /\ i \in Rows
    /\ ledger' = Without({i})
    /\ missing' = {j \in missing \cup {i} : /\ j < Last(Rows \ {i})
                                           /\ j >= Last({ledger[x].start : x \in Rows})}
    /\ UNCHANGED <<nextId, key, ring, writer, crossed, lost, faults>>

Next ==
    \/ \E w \in Writers :
          \/ Stage(w) \/ Commit(w) \/ Rollback(w)
          \/ \E b \in 1..(MaxId + 1) : StartPurge(w, b)
          \/ RecordPurge(w) \/ FirstBatch(w) \/ NextBatch(w)
    \/ \E p \in Processes, k \in {NoKey} \cup Keys : ChangeKey(p, k)
    \/ \E i \in Ids : RemoveRow(i)

Spec == Init /\ [][Next]_vars

-----------------------------------------------------------------------------
(* verify_chain over the whole table, by a request, with the worker's key *)

VerifyingKey == key["worker"]
Keyed == {i \in Rows : VerifyingKey # NoKey /\ ledger[i].key = VerifyingKey}
FirstKeyed == First(Keyed)

\* A row that does not name the row before it.
LinkErrors == {i \in Rows \ {First(Rows)} : ledger[i].prev # Last({j \in Rows : j < i})}

\* Past the first row under the key, every row is under it.
NotSealedByKey == {i \in Rows : FirstKeyed > 0 /\ i > FirstKeyed /\ i \notin Keyed}

\* _check_retired: the first row under the key lists those under others before it.
UnattestedKeys ==
    IF FirstKeyed = 0 \/ \E i \in LinkErrors : i <= FirstKeyed THEN {}
    ELSE {k \in Keys \ {VerifyingKey} :
            LET theirs == {i \in Rows : i < FirstKeyed /\ ledger[i].key = k} IN
            Last(theirs) > ledger[FirstKeyed].retired[k]}

\* Fault: only rows added before the start are looked for, not rows removed.
StartError_AddedOnly ==
    /\ FirstKeyed > 0
    /\ \A i \in Keyed : First(Rows) < ledger[i].start
    /\ First(Rows) # FirstKeyed

\* _check_chain_start: the ledger begins where rows that pass say that it does.
Starts(S) == {ledger[i].start : i \in S \ (LinkErrors \cup NotSealedByKey)} \ {0}
StartError ==
    LET first == First(Rows)
        others == LinkErrors # {} \/ NotSealedByKey # {} \/ UnattestedKeys # {}
    IN
    IF Rows = {} THEN FALSE
    ELSE IF FirstKeyed > 0
    THEN \/ Starts(Keyed) = {} /\ ~others
         \/ Starts(Keyed) # {} /\ first > Max(Starts(Keyed))
         \/ Starts(Keyed) # {} /\ first < Min(Starts(Keyed)) /\ first # FirstKeyed
    ELSE \/ Starts(Rows) # {} /\ first > Max(Starts(Rows))
         \/ Starts(Rows) = {} /\ ledger[first].key # NoKey /\ ledger[first].prev # Genesis

Valid == LinkErrors = {} /\ NotSealedByKey = {} /\ UnattestedKeys = {} /\ ~StartError

\* status 'intact': under the key, and other keys only such as a rotation attests.
Intact ==
    /\ Valid
    /\ FirstKeyed > 0
    /\ (\E i \in Rows : i < FirstKeyed /\ ledger[i].key # NoKey) => ledger[FirstKeyed].attested

-----------------------------------------------------------------------------
\* A purge whose record is the first row under its key was cut short or goes on.
CutAtNewKey ==
    \E i \in Rows : /\ ledger[i].purge /\ i = FirstKeyed
                    /\ First(Rows) < ledger[i].start

\* No row under another key, or under none, follows one under the worker's key.  One does
\* when the scheduled tasks still seal under the key that the worker no longer has, or when
\* a process returns to an earlier key; the verification then reports the rows in between
\* although nobody touched them.
Settled == \A i, j \in Rows : i < j /\ i \in Keyed => j \in Keyed

\* What nobody touched has no broken link, whatever writers, purges, rollbacks, crashes and
\* keys of the processes did.  Where no key was mixed with the worker's it verifies, and is
\* intact once a row is under that key; unless the history of a key was lost, or a purge
\* was going on when a key took over.
UntouchedVerifies ==
    removed = 0 =>
       /\ LinkErrors = {}
       /\ Settled /\ lost = {} /\ ~crossed /\ ~CutAtNewKey =>
             Valid /\ (FirstKeyed > 0 => Intact)

\* Under a key, a row removed by hand is noticed as long as a later one is there:
\* in the middle by its successor, at the start by what the sealed rows say of it.
RemovalIsSeen == FirstKeyed > 0 /\ missing # {} => ~Valid
=============================================================================
