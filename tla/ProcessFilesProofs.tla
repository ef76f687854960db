-------------------------- MODULE ProcessFilesProofs --------------------------
(***************************************************************************)
(* The two files that UCM processes decide by: the pidfile of the          *)
(* scheduler (SchedulerLock) and the master key (MasterKey).               *)
(*                                                                         *)
(* Processes that acquire the scheduler lock one after the other never run *)
(* the background loop twice, however many processes there are, whoever is *)
(* killed, and however pids are reused.                                    *)
(*                                                                         *)
(* For every set of values and every bound on keys and faults, what is     *)
(* sealed stays readable by a restart, but for the three ways to lose a    *)
(* key that Recoverable names.                                             *)
(***************************************************************************)
EXTENDS SchedulerLock, MasterKey, TLAPS

-----------------------------------------------------------------------------
(* The scheduler lock *)

LEMMA FreshTyped == \A pc \in {"down", "create", "standby"} : Fresh(pc) \in Proc
  BY LockAssumption DEF Fresh, Proc, Acquiring, Pids, Tries

LEMMA GotoTyped ==
  ASSUME NEW p \in Procs, proc \in [Procs -> Proc],
         NEW pc \in Acquiring \cup {"down", "loop", "standby"}, Goto(p, pc)
  PROVE  proc' \in [Procs -> Proc]
  BY DEF Goto, Proc

LEMMA ReleaseTyped ==
  ASSUME LockTypeOK, NEW p \in Procs, ReleaseLock(p)
  PROVE  pidfile' \in File
  BY DEF LockTypeOK, ReleaseLock, NoFile, File, Pids

TriesLeft == \A p \in Procs : proc[p].pc \in {"read", "check", "unlink"} => proc[p].tries < Tries

LEMMA LockStepTyped == LockTypeOK /\ [LockNext]_lockVars => LockTypeOK'
  <1> SUFFICES ASSUME LockTypeOK, [LockNext]_lockVars PROVE LockTypeOK'
    OBVIOUS
  <1> USE LockAssumption
  <1>0. NoFile \in File /\ \A p \in Procs : [by |-> p, pid |-> NoProc] \in File
    BY DEF NoFile, File, Pids
  <1>00. pidfile \in File /\ proc \in [Procs -> Proc] /\ TriesLeft
    BY DEF LockTypeOK, TriesLeft
  <1>a. ASSUME pidfile' \in File, proc' \in [Procs -> Proc], TriesLeft' PROVE LockTypeOK'
    BY <1>a DEF LockTypeOK, TriesLeft
  <1>1. ASSUME NEW p \in Procs, Start(p) PROVE LockTypeOK'
    <2>1. pidfile' \in File /\ proc' \in [Procs -> Proc]
      BY <1>00, <1>1, FreshTyped DEF Start
    <2>2. TriesLeft'
      BY <1>00, <1>1 DEF Start, Fresh, TriesLeft
    <2> QED
      BY <2>1, <2>2, <1>a
  <1>2. ASSUME NEW p \in Procs, Create(p) PROVE LockTypeOK'
    <2>1. pidfile' \in File
      BY <1>0, <1>00, <1>2 DEF Create
    <2>2. proc' \in [Procs -> Proc]
      BY <1>00, <1>2, GotoTyped DEF Create, Acquiring
    <2>3. TriesLeft'
      BY <1>00, <1>2 DEF Create, Goto, TriesLeft, Proc, Tries
    <2> QED
      BY <2>1, <2>2, <2>3, <1>a
  <1>3. ASSUME NEW p \in Procs, Write(p) PROVE LockTypeOK'
    <2>1. pidfile' \in File /\ proc' \in [Procs -> Proc]
      BY <1>00, <1>3 DEF Write, File, Proc, Pids
    <2>2. TriesLeft'
      BY <1>00, <1>3 DEF Write, TriesLeft
    <2> QED
      BY <2>1, <2>2, <1>a
  <1>4. ASSUME NEW p \in Procs, Read(p) PROVE LockTypeOK'
    <2>1. pidfile' \in File /\ proc' \in [Procs -> Proc]
      BY <1>00, <1>4 DEF Read, File, Proc, Pids, Acquiring
    <2>2. TriesLeft'
      BY <1>00, <1>4 DEF Read, TriesLeft
    <2> QED
      BY <2>1, <2>2, <1>a
  <1>5. ASSUME NEW p \in Procs, Check(p) PROVE LockTypeOK'
    <2>1. pidfile' \in File /\ proc' \in [Procs -> Proc]
      BY <1>00, <1>5, GotoTyped DEF Check, Acquiring
    <2>2. TriesLeft'
      BY <1>00, <1>5 DEF Check, Goto, TriesLeft, Proc
    <2> QED
      BY <2>1, <2>2, <1>a
  <1>6. ASSUME NEW p \in Procs, Unlink(p) PROVE LockTypeOK'
    <2>1. proc[p].tries + 1 \in 0..Tries
      BY <1>00, <1>6 DEF Unlink, TriesLeft, Proc, Tries
    <2>2. pidfile' \in File /\ proc' \in [Procs -> Proc]
      BY <1>0, <1>00, <1>6, <2>1 DEF Unlink, Proc, Pids, Acquiring
    <2>3. TriesLeft'
      BY <1>00, <1>6 DEF Unlink, TriesLeft
    <2> QED
      BY <2>2, <2>3, <1>a
  <1>7. ASSUME NEW p \in Procs, LoopExits(p) PROVE LockTypeOK'
    <2>1. pidfile' \in File /\ proc' \in [Procs -> Proc]
      BY <1>00, <1>7, GotoTyped DEF LoopExits
    <2>2. TriesLeft'
      BY <1>00, <1>7 DEF LoopExits, Goto, TriesLeft, Proc
    <2> QED
      BY <2>1, <2>2, <1>a
  <1>8. ASSUME NEW p \in Procs, Stop(p) PROVE LockTypeOK'
    <2>1. pidfile' \in File /\ proc' \in [Procs -> Proc]
      BY <1>00, <1>8, GotoTyped, ReleaseTyped, FreshTyped DEF Stop
    <2>2. TriesLeft'
      BY <1>00, <1>8 DEF Stop, Goto, Fresh, TriesLeft, Proc
    <2> QED
      BY <2>1, <2>2, <1>a
  <1>9. ASSUME NEW p \in Procs, Exit(p) \/ Kill(p) PROVE LockTypeOK'
    <2>1. pidfile' \in File /\ proc' \in [Procs -> Proc]
      BY <1>00, <1>9, ReleaseTyped, FreshTyped DEF Exit, Kill
    <2>2. TriesLeft'
      BY <1>00, <1>9 DEF Exit, Kill, Fresh, TriesLeft
    <2> QED
      BY <2>1, <2>2, <1>a
  <1>10. ASSUME NEW p \in Procs, NEW q \in Procs, Fork(p, q) PROVE LockTypeOK'
    <2>1. pidfile' \in File /\ proc' \in [Procs -> Proc]
      BY <1>00, <1>10 DEF Fork
    <2>2. TriesLeft'
      BY <1>00, <1>10 DEF Fork, TriesLeft
    <2> QED
      BY <2>1, <2>2, <1>a
  <1>11. ASSUME UNCHANGED lockVars PROVE LockTypeOK'
    BY <1>11 DEF lockVars, LockTypeOK
  <1> QED
    BY <1>1, <1>2, <1>3, <1>4, <1>5, <1>6, <1>7, <1>8, <1>9, <1>10, <1>11 DEF LockNext, Acquire

\* The lock invariant holds at first and every step keeps it.
LEMMA LockInitHolds == LockInit => LockTypeOK /\ LockInv
  BY LockAssumption, FreshTyped
     DEF LockInit, LockTypeOK, LockInv, Fresh, NoFile, File, Pids, Acquiring

LEMMA LockStepHolds ==
  ASSUME ~Overlap, LockTypeOK, LockInv, [LockNext]_lockVars
  PROVE  LockInv'
  <1> USE LockAssumption
  <1>0. pidfile \in File /\ proc \in [Procs -> Proc]
    BY DEF LockTypeOK
  <1>1. ASSUME NEW p \in Procs, Start(p) PROVE LockInv'
    BY <1>0, <1>1 DEF Start, Fresh, LockInv, Acquiring
  <1>2. ASSUME NEW p \in Procs, Create(p) PROVE LockInv'
    BY <1>0, <1>2 DEF Create, Goto, NoFile, LockInv, Acquiring, Proc
  <1>3. ASSUME NEW p \in Procs, Write(p) PROVE LockInv'
    BY <1>0, <1>3 DEF Write, LockInv, Acquiring
  <1>4. ASSUME NEW p \in Procs, Read(p) PROVE LockInv'
    BY <1>0, <1>4 DEF Read, LockInv, Acquiring
  <1>5. ASSUME NEW p \in Procs, Check(p) PROVE LockInv'
    BY <1>0, <1>5 DEF Check, Goto, PidAlive, LockInv, Acquiring, Proc
  <1>6. ASSUME NEW p \in Procs, Unlink(p) PROVE LockInv'
    BY <1>0, <1>6 DEF Unlink, LockInv, Acquiring
  <1>7. ASSUME NEW p \in Procs, LoopExits(p) PROVE LockInv'
    BY <1>0, <1>7 DEF LoopExits, Goto, LockInv, Acquiring, Proc
  <1>8. ASSUME NEW p \in Procs, Stop(p) PROVE LockInv'
    BY <1>0, <1>8 DEF Stop, Goto, ReleaseLock, Fresh, NoFile, LockInv, Acquiring, Proc
  <1>9. ASSUME NEW p \in Procs, Exit(p) PROVE LockInv'
    BY <1>0, <1>9 DEF Exit, ReleaseLock, Fresh, NoFile, LockInv, Acquiring
  <1>10. ASSUME NEW p \in Procs, Kill(p) PROVE LockInv'
    BY <1>0, <1>10 DEF Kill, Fresh, LockInv, Acquiring
  <1>11. ASSUME NEW p \in Procs, NEW q \in Procs, Fork(p, q) PROVE LockInv'
    BY <1>0, <1>11 DEF Fork, LockInv, Acquiring
  <1>12. ASSUME UNCHANGED lockVars PROVE LockInv'
    BY <1>12 DEF lockVars, LockInv
  <1> QED
    BY <1>1, <1>2, <1>3, <1>4, <1>5, <1>6, <1>7, <1>8, <1>9, <1>10, <1>11, <1>12 DEF LockNext, Acquire

\* Whatever the processes do, and also when they overlap, the file names a process or none and
\* a process that looks at another's file has an attempt of _acquire_singleton_lock left.
THEOREM LockTyped == LockSpec => []LockTypeOK
  BY LockInitHolds, LockStepTyped, PTL DEF LockSpec

\* When processes start one after the other, the file names whoever holds the lock and nobody
\* who is about to remove or create the file meets a holder: no takeover of _acquire_singleton_lock
\* and no exit takes the lock from a live process.
THEOREM LockIsHeld ==
  ASSUME ~Overlap
  PROVE  LockSpec => []LockInv
  <1>1. LockTypeOK /\ LockInv /\ [LockNext]_lockVars => LockInv'
    BY LockStepHolds
  <1> QED
    BY <1>1, LockInitHolds, LockTyped, PTL DEF LockSpec

\* _acquire_singleton_lock keeps its word when processes start one after the
\* other: at most one of them runs the background loop.
THEOREM OneSchedulerRuns ==
  ASSUME ~Overlap
  PROVE  LockSpec => []OneScheduler
  <1>1. LockInv => OneScheduler
    BY DEF LockInv, OneScheduler, Running
  <1>2. LockSpec => []LockInv
    BY LockIsHeld
  <1> QED
    BY <1>1, <1>2, PTL

-----------------------------------------------------------------------------
(* The master key *)

\* The key in the memory of a process is the one in the file, or a lost one.
MemoryKept == \A p \in Processes : memory[p] \in {NoKey, file} \cup lost

\* While enable_encryption is under way the file holds a key, the one of the worker.
EnableHolds == request \in {"enable", "encrypted"} => file # NoKey /\ memory["worker"] = file

\* When the file is about to be removed only a scheduled task can have sealed anything.
DisableHolds ==
    request = "disable" =>
        \A v \in Values : IsEncrypted(stored[v]) => stored[v].key = memory["master"]

KeyInv == TypeOK /\ MemoryKept /\ EnableHolds /\ DisableHolds /\ Recoverable

\* Nothing is sealed and there is no key before the first request.
LEMMA KeyInit == Init => KeyInv
<1> SUFFICES ASSUME Init PROVE KeyInv
  OBVIOUS
<1>1. \A v \in Values : stored[v] \in Stored /\ ~IsEncrypted(stored[v])
  BY DEF Init, IsEncrypted, None, Plain, Stored, NoKey
<1>2. stored \in [Values -> Stored]
  BY <1>1 DEF Init
<1>3. TypeOK
  <2>1. stored \in [Values -> Stored] /\ safeMode \in BOOLEAN /\ request = "idle"
    BY <1>2 DEF Init
  <2>2. /\ file = 0 /\ memory \in [Processes -> {0}] /\ lastKey = 0 /\ faults = 0
        /\ lost = {}
    BY DEF Init, NoKey
  <2> QED
    BY <2>1, <2>2, MasterKeyAssumption DEF TypeOK
<1> QED
  BY <1>1, <1>3 DEF Init, KeyInv, MemoryKept, EnableHolds, DisableHolds, Recoverable

\* encrypt answers a value of the database, sealed under the key given if at all.
LEMMA EncryptSeals ==
    ASSUME NEW k \in 0..MaxKey
    PROVE  /\ Encrypt(k) \in Stored
           /\ IsEncrypted(Encrypt(k)) => Encrypt(k).key = k /\ k # NoKey
BY DEF Encrypt, IsEncrypted, Stored, Plain, Keys, NoKey

\* encrypt_all_keys keeps what is sealed and seals the rest under the key of the worker.
LEMMA EncryptAllSeals ==
    ASSUME KeyInv
    PROVE  /\ EncryptAll \in [Values -> Stored]
           /\ \A v \in Values : IsEncrypted(EncryptAll[v]) =>
                 \/ EncryptAll[v].key = memory["worker"] /\ memory["worker"] # NoKey
                 \/ EncryptAll[v] = stored[v]
<1>1. memory["worker"] \in 0..MaxKey
  BY MasterKeyAssumption DEF KeyInv, TypeOK, Processes
<1>2. stored \in [Values -> Stored]
  BY DEF KeyInv, TypeOK
<1> QED
  BY <1>1, <1>2, EncryptSeals DEF EncryptAll

\* decrypt_all_keys leaves nothing sealed.
LEMMA DecryptAllUnseals ==
    ASSUME KeyInv
    PROVE  /\ DecryptAll \in [Values -> Stored]
           /\ \A v \in Values : ~IsEncrypted(DecryptAll[v])
BY DEF DecryptAll, KeyInv, TypeOK, IsEncrypted, Stored, Plain, NoKey

\* Every step of the module keeps the invariant.
LEMMA KeyStep == KeyInv /\ [Next]_vars => KeyInv'
<1> SUFFICES ASSUME KeyInv, [Next]_vars PROVE KeyInv'
  OBVIOUS
<1> USE MasterKeyAssumption DEF NoKey
<1>0. /\ \A p \in Processes : memory[p] \in 0..MaxKey /\ memory[p] \in 0..lastKey
      /\ memory \in [Processes -> 0..lastKey]
      /\ lastKey \in Nat /\ lastKey <= MaxKey /\ "worker" \in Processes /\ "master" \in Processes
  BY DEF KeyInv, TypeOK, Processes
<1>a. \A v \in Values : stored[v] \in Stored /\ (IsEncrypted(stored[v]) => stored[v].key # NoKey)
  BY DEF KeyInv, TypeOK, Stored, Keys, IsEncrypted
<1>1. ASSUME NEW p \in Processes, NEW v \in Values, Store(p, v) PROVE KeyInv'
  <2>1. TypeOK'
    BY <1>1, <1>0, EncryptSeals DEF Store, KeyInv, TypeOK
  <2>2. ASSUME NEW w \in Values, IsEncrypted(stored'[w])
        PROVE  /\ stored'[w].key = file \/ stored'[w].key \in lost
               /\ request = "disable" => stored'[w].key = memory["master"]
    <3>1. CASE w = v
      <4>1. stored'[w].key = memory[p] /\ memory[p] # NoKey
        BY <1>1, <1>0, <2>2, <3>1, EncryptSeals DEF Store, KeyInv, TypeOK
      <4>2. memory[p] = file \/ memory[p] \in lost
        BY <4>1 DEF KeyInv, MemoryKept
      <4>3. request = "disable" => p = "master"
        BY <1>1 DEF Store, Processes
      <4> QED
        BY <4>1, <4>2, <4>3
    <3>2. CASE w # v
      BY <1>1, <2>2, <3>2 DEF Store, KeyInv, TypeOK, Recoverable, DisableHolds
    <3> QED
      BY <3>1, <3>2
  <2> QED
    BY <1>1, <2>1, <2>2
    DEF Store, KeyInv, MemoryKept, EnableHolds, DisableHolds, Recoverable, IsEncrypted
<1>2. ASSUME NEW v \in Values, Delete(v) PROVE KeyInv'
  <2>1. TypeOK'
    BY <1>2 DEF Delete, KeyInv, TypeOK, Stored, None
  <2>2. \A w \in Values : IsEncrypted(stored'[w]) => stored'[w] = stored[w]
    BY <1>2 DEF Delete, KeyInv, TypeOK, IsEncrypted, None
  <2>3. Recoverable'
    BY <1>2, <2>2 DEF Delete, KeyInv, Recoverable, IsEncrypted
  <2>4. DisableHolds'
    BY <1>2, <2>2 DEF Delete, KeyInv, DisableHolds, IsEncrypted
  <2> QED
    BY <1>2, <2>1, <2>3, <2>4 DEF Delete, KeyInv, MemoryKept, EnableHolds
<1>3. CASE Enable
  <2>0. /\ memory' = [memory EXCEPT !["worker"] = lastKey + 1]
        /\ lost' = lost \cup ({file} \ {0})
        /\ file' = lastKey + 1 /\ lastKey' = lastKey + 1 /\ lastKey + 1 \in 1..MaxKey
        /\ file \in 0..lastKey /\ lost \subseteq 1..lastKey
        /\ request' = "enable" /\ UNCHANGED <<stored, safeMode, faults>>
    BY <1>0, <1>3 DEF Enable, NewKey, KeyInv, TypeOK
  <2>1. TypeOK'
    <3>1. memory' \in [Processes -> 0..lastKey'] /\ file' \in 0..lastKey' /\ lastKey' \in 0..MaxKey
      BY <1>0, <2>0
    <3>2. lost' \subseteq 1..lastKey'
      BY <1>0, <2>0
    <3> QED
      BY <2>0, <3>1, <3>2 DEF KeyInv, TypeOK
  <2>2. Recoverable'
    BY <2>0, <1>a DEF KeyInv, Recoverable, IsEncrypted
  <2>3. MemoryKept'
    <3> SUFFICES ASSUME NEW p \in Processes PROVE memory'[p] \in {0, file'} \cup lost'
      BY DEF MemoryKept
    <3>1. CASE p = "worker"
      BY <1>0, <2>0, <3>1
    <3>2. CASE p # "worker"
      BY <1>0, <2>0, <3>2 DEF KeyInv, MemoryKept
    <3> QED
      BY <3>1, <3>2
  <2>4. EnableHolds' /\ DisableHolds'
    BY <1>0, <2>0 DEF EnableHolds, DisableHolds
  <2> QED
    BY <2>1, <2>2, <2>3, <2>4 DEF KeyInv
<1>4. CASE EnableEncrypts
  <2>1. TypeOK'
    BY <1>4, EncryptAllSeals DEF EnableEncrypts, KeyInv, TypeOK
  <2>2. Recoverable'
    BY <1>4, EncryptAllSeals
    DEF EnableEncrypts, KeyInv, EnableHolds, Recoverable, IsEncrypted
  <2> QED
    BY <1>4, <2>1, <2>2 DEF EnableEncrypts, KeyInv, MemoryKept, EnableHolds, DisableHolds
<1>5. CASE EnableEnds
  BY <1>5 DEF EnableEnds, KeyInv, TypeOK, MemoryKept, EnableHolds, DisableHolds, Recoverable
<1>6. CASE EnableFails
  <2>1. TypeOK'
    BY <1>6 DEF EnableFails, KeyInv, TypeOK, EnableHolds
  <2>2. Recoverable'
    BY <1>6 DEF EnableFails, KeyInv, Recoverable, IsEncrypted
  <2> QED
    BY <1>6, <2>1, <2>2 DEF EnableFails, KeyInv, MemoryKept, EnableHolds, DisableHolds
<1>7. CASE EncryptAllKeys
  <2>1. TypeOK'
    BY <1>7, EncryptAllSeals DEF EncryptAllKeys, KeyInv, TypeOK
  <2>2. Recoverable'
    BY <1>7, <1>0, EncryptAllSeals
    DEF EncryptAllKeys, KeyInv, MemoryKept, Recoverable, IsEncrypted
  <2> QED
    BY <1>7, <2>1, <2>2
    DEF EncryptAllKeys, Serves, KeyInv, MemoryKept, EnableHolds, DisableHolds
<1>8. CASE DisableDecrypts
  <2>1. TypeOK'
    BY <1>8, DecryptAllUnseals DEF DisableDecrypts, KeyInv, TypeOK
  <2>2. \A v \in Values : ~IsEncrypted(stored'[v])
    BY <1>8, DecryptAllUnseals DEF DisableDecrypts
  <2> QED
    BY <1>8, <2>1, <2>2
    DEF DisableDecrypts, KeyInv, MemoryKept, EnableHolds, DisableHolds, Recoverable, IsEncrypted
<1>9. CASE DisableRemoves
  <2>0. /\ memory' = [memory EXCEPT !["worker"] = 0]
        /\ lost' = IF memory["master"] = file THEN lost \cup ({file} \ {0}) ELSE lost
        /\ file' = 0 /\ request = "disable" /\ request' = "idle"
        /\ file \in 0..lastKey /\ lost \subseteq 1..lastKey
        /\ UNCHANGED <<stored, safeMode, lastKey, faults>>
    BY <1>9 DEF DisableRemoves, KeyInv, TypeOK
  <2>1. TypeOK'
    <3>1. memory' \in [Processes -> 0..lastKey'] /\ file' \in 0..lastKey'
      BY <1>0, <2>0
    <3>2. lost' \subseteq 1..lastKey'
      BY <1>0, <2>0
    <3> QED
      BY <2>0, <3>1, <3>2 DEF KeyInv, TypeOK
  <2>2. memory["master"] \in {0} \cup lost'
    BY <1>0, <2>0 DEF KeyInv, MemoryKept
  <2>3. MemoryKept'
    BY <1>0, <2>0, <2>2 DEF MemoryKept, Processes
  <2>4. Recoverable'
    BY <1>a, <2>0, <2>2 DEF KeyInv, DisableHolds, Recoverable, IsEncrypted
  <2> QED
    BY <2>0, <2>1, <2>3, <2>4 DEF KeyInv, EnableHolds, DisableHolds
<1>10. CASE Restart
  <2>1. TypeOK'
    BY <1>10 DEF Restart, KeyInv, TypeOK
  <2> QED
    BY <1>10, <2>1
    DEF Restart, KeyInv, MemoryKept, EnableHolds, DisableHolds, Recoverable, IsEncrypted
<1>11. CASE Refork
  <2>1. TypeOK'
    BY <1>0, <1>11 DEF Refork, KeyInv, TypeOK
  <2>2. MemoryKept'
    BY <1>0, <1>11 DEF Refork, KeyInv, MemoryKept
  <2> QED
    BY <1>11, <2>1, <2>2
    DEF Refork, KeyInv, EnableHolds, DisableHolds, Recoverable, IsEncrypted
<1>12. CASE UNCHANGED vars
  BY <1>12 DEF vars, KeyInv, TypeOK, MemoryKept, EnableHolds, DisableHolds, Recoverable,
    IsEncrypted
<1> QED
  BY <1>1, <1>2, <1>3, <1>4, <1>5, <1>6, <1>7, <1>8, <1>9, <1>10, <1>11, <1>12 DEF Next

\* Enabling and disabling encryption, in whichever order, with crashes, re-forks, failures and
\* scheduled tasks between their steps, leave a sealed value without its key in the file in
\* three cases only: enable_encryption failed after writing that key and removed the file, a
\* worker that had been forked again enabled over it, or it was disabled under the scheduler.
THEOREM KeysStayRecoverable == Spec => []Recoverable
<1>1. KeyInv => Recoverable
  BY DEF KeyInv
<1> QED
  BY KeyInit, KeyStep, <1>1, PTL DEF Spec

\* The variables keep their types: no key is in the file or in memory that was not generated.
THEOREM KeyTypes == Spec => []TypeOK
<1>1. KeyInv => TypeOK
  BY DEF KeyInv
<1> QED
  BY KeyInit, KeyStep, <1>1, PTL DEF Spec
=============================================================================
