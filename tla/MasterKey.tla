------------------------------- MODULE MasterKey -------------------------------
(***************************************************************************)
(* The master key (security/encryption.py, api/v2/system/security.py): the *)
(* key is in a file, its copy in the memory of each process, and private   *)
(* keys and passwords are stored sealed under it.  Enabling and disabling  *)
(* encryption change the file, the memory and the database, one after the  *)
(* other, and no transaction spans the three.                              *)
(*                                                                         *)
(* gunicorn loads the application once, in its master, which also runs the *)
(* scheduled tasks; the one worker is forked from it, and forked again     *)
(* when it dies.  Only the worker, which serves the requests, reloads the  *)
(* key; the master keeps the one it started with.                          *)
(*                                                                         *)
(* The worker serves requests with greenlets, and none of these steps      *)
(* waits on the network, so between the steps of a request there may be a  *)
(* crash, a failure or a step of the scheduler, but no other request.      *)
(***************************************************************************)
EXTENDS Integers

CONSTANTS
    Values,         \* MASTER_KEY_COLUMNS and the SystemConfig keys: what is sealed
    MaxKey,         \* bound on the keys ever generated
    MaxFaults       \* bound on crashes and failures

ASSUME MasterKeyAssumption == {MaxKey, MaxFaults} \subseteq Nat

VARIABLES
    file,           \* /etc/ucm/master.key
    memory,         \* KeyEncryption._fernet, of the singleton of each process
    stored,         \* the values in the database
    request,        \* how far the administrator's request is
    safeMode,       \* app.config['SAFE_MODE'], decided when the master starts
    lastKey,        \* the keys generated so far
    lost,           \* keys taken from the file while they were in use, see Recoverable
    faults

vars == <<file, memory, stored, request, safeMode, lastKey, lost, faults>>

Processes == {"master", "worker"}
NoKey == 0
Keys == 1..MaxKey
Stored == [kind : {"none", "plain"}, key : {NoKey}] \cup [kind : {"sealed"}, key : Keys]
None == [kind |-> "none", key |-> NoKey]
Plain == [kind |-> "plain", key |-> NoKey]

\* The key in the file and the key in memory are keys that were generated, and what is
\* sealed is sealed under one.
TypeOK ==
    /\ file \in 0..lastKey
    /\ memory \in [Processes -> 0..lastKey]
    /\ stored \in [Values -> Stored]
    /\ request \in {"idle", "enable", "encrypted", "disable"}
    /\ safeMode \in BOOLEAN
    /\ lastKey \in 0..MaxKey
    /\ lost \subseteq 1..lastKey
    /\ faults \in 0..MaxFaults

Init ==
    /\ file = NoKey
    /\ memory = [p \in Processes |-> NoKey]
    /\ stored \in [Values -> {None, Plain}]
    /\ request = "idle"
    /\ safeMode = FALSE
    /\ lastKey = 0
    /\ lost = {}
    /\ faults = 0

-----------------------------------------------------------------------------
IsEncrypted(x) == x.kind = "sealed"

\* Fault: a form that does not ask whether there is a key.
Encrypt_Unkeyed(k) == [kind |-> "sealed", key |-> k]

\* encrypt: without a key a value is stored as it is
Encrypt(k) == IF k = NoKey THEN Plain ELSE [kind |-> "sealed", key |-> k]

\* decrypt: what is not sealed passes through, a seal needs its own key
Decrypts(x) == IsEncrypted(x) => x.key = memory["worker"]

\* encrypt_all_keys, what it commits: a value already sealed, under whichever key, is left
EncryptAll ==
    [v \in Values |-> IF stored[v] = Plain THEN Encrypt(memory["worker"]) ELSE stored[v]]
DecryptAll == [v \in Values |-> IF IsEncrypted(stored[v]) THEN Plain ELSE stored[v]]

HasEncryptedKeys == \E v \in Values : IsEncrypted(stored[v])

\* a request of the API that is not one of the protocols
Serves == request = "idle" /\ ~safeMode

-----------------------------------------------------------------------------
\* A private key or a password is written, by a request (the protocols go on doing so in
\* safe mode) or by a scheduled task (a renewal), under the key of its process.
Store(p, v) ==
    /\ p = "worker" => request = "idle"
    /\ stored' = [stored EXCEPT ![v] = Encrypt(memory[p])]
    /\ UNCHANGED <<file, memory, request, safeMode, lastKey, lost, faults>>

Delete(v) ==
    /\ stored[v] # None
    /\ stored' = [stored EXCEPT ![v] = None]
    /\ UNCHANGED <<file, memory, request, safeMode, lastKey, lost, faults>>

\* A new key is written over the file and loaded by the worker.  A key in the file that the
\* worker did not know of, because it was forked again since, is lost.
NewKey ==
    /\ lastKey < MaxKey
    /\ lastKey' = lastKey + 1
    /\ file' = lastKey + 1
    /\ memory' = [memory EXCEPT !["worker"] = lastKey + 1]
    /\ lost' = IF memory["worker"] # file THEN lost \cup ({file} \ {NoKey}) ELSE lost
    /\ request' = "enable"
    /\ UNCHANGED <<stored, safeMode, faults>>

\* Fault: a form that does not refuse when encryption is enabled already.
Enable_Again == Serves /\ NewKey

\* enable_encryption up to the reload
Enable == Serves /\ memory["worker"] = NoKey /\ NewKey

EnableEncrypts ==
    /\ request = "enable"
    /\ stored' = EncryptAll
    /\ request' = "encrypted"
    /\ UNCHANGED <<file, memory, safeMode, lastKey, lost, faults>>

\* The plaintext files beside the database are purged, the key is answered, the audit log
\* written (which never raises).
EnableEnds ==
    /\ request = "encrypted"
    /\ request' = "idle"
    /\ UNCHANGED <<file, memory, stored, safeMode, lastKey, lost, faults>>

\* A commit or a query of the two steps above raises.  The handler removes the file; the
\* singleton is not reloaded.
EnableFails ==
    /\ request \in {"enable", "encrypted"}
    /\ faults < MaxFaults
    /\ faults' = faults + 1
    /\ file' = NoKey
    /\ lost' = lost \cup {file}
    /\ request' = "idle"
    /\ UNCHANGED <<memory, stored, safeMode, lastKey>>

\* encrypt_all_keys, the request: completes an enabling that a crash interrupted
EncryptAllKeys ==
    /\ Serves
    /\ memory["worker"] # NoKey
    /\ stored' = EncryptAll
    /\ UNCHANGED <<file, memory, request, safeMode, lastKey, lost, faults>>

\* disable_encryption: everything is decrypted in one commit, or nothing is
DisableDecrypts ==
    /\ Serves
    /\ memory["worker"] # NoKey
    /\ \A v \in Values : Decrypts(stored[v])
    /\ stored' = DecryptAll
    /\ request' = "disable"
    /\ UNCHANGED <<file, memory, safeMode, lastKey, lost, faults>>

\* The scheduled tasks go on sealing under the key if their process started with it.
DisableRemoves ==
    /\ request = "disable"
    /\ file' = NoKey
    /\ memory' = [memory EXCEPT !["worker"] = NoKey]
    /\ lost' = IF memory["master"] = file THEN lost \cup ({file} \ {NoKey}) ELSE lost
    /\ request' = "idle"
    /\ UNCHANGED <<stored, safeMode, lastKey, faults>>

\* The service stops at any point and starts again: the master loads the application, and
\* with it the key, and forks the worker.
Restart ==
    /\ faults < MaxFaults
    /\ faults' = faults + 1
    /\ memory' = [p \in Processes |-> file]
    /\ request' = "idle"
    /\ safeMode' = (file = NoKey /\ HasEncryptedKeys)
    /\ UNCHANGED <<file, stored, lastKey, lost>>

\* The worker dies at any point and is forked again, with what the master has in memory.
Refork ==
    /\ faults < MaxFaults
    /\ faults' = faults + 1
    /\ memory' = [memory EXCEPT !["worker"] = memory["master"]]
    /\ request' = "idle"
    /\ UNCHANGED <<file, stored, safeMode, lastKey, lost>>

Next ==
    \/ \E p \in Processes, v \in Values : Store(p, v)
    \/ \E v \in Values : Delete(v)
    \/ Enable \/ EnableEncrypts \/ EnableEnds \/ EnableFails
    \/ EncryptAllKeys
    \/ DisableDecrypts \/ DisableRemoves
    \/ Restart \/ Refork

Spec == Init /\ [][Next]_vars

-----------------------------------------------------------------------------
\* What is sealed is sealed under the key in the file, whatever crashes, failures and
\* scheduled tasks come between the steps of enable_encryption and disable_encryption, so
\* that a restart reads it.  There are three ways to lose a key: the error path of
\* enable_encryption removes its file, a worker that was forked again since it was enabled
\* enables again, and disable_encryption removes it while the scheduler's process has it.
Recoverable ==
    \A v \in Values : IsEncrypted(stored[v]) => stored[v].key = file \/ stored[v].key \in lost
=============================================================================
