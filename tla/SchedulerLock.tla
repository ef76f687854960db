---------------------------- MODULE SchedulerLock ----------------------------
(***************************************************************************)
(* The pidfile that decides which UCM process runs the background loop     *)
(* (scheduler_service.py).  The operations on the file are the system      *)
(* calls of _acquire_singleton_lock, one per step: processes interleave    *)
(* between them.  A process may be killed at any point; its pid may be     *)
(* given to a process started later, as happens in a container.            *)
(*                                                                         *)
(* Its formulas are named for the lock: the module is extended together    *)
(* with MasterKey, the other file of a process, by ProcessFilesProofs.     *)
(***************************************************************************)
EXTENDS Naturals, FiniteSets

CONSTANTS
    Procs,      \* process ids
    NoProc,     \* no process id: int(... or '0')
    Overlap     \* several processes may be acquiring the lock at once

ASSUME LockAssumption == NoProc \notin Procs /\ Overlap \in BOOLEAN

VARIABLES
    pidfile,    \* the pidfile: who created it (its inode) and the pid in it
    proc        \* what each process remembers

lockVars == <<pidfile, proc>>

Pids == Procs \cup {NoProc}
NoFile == [by |-> NoProc, pid |-> NoProc]
File == [by : Pids, pid : Pids]

Acquiring == {"create", "write", "read", "check", "unlink"}
Tries == 2      \* range(2)

Proc == [pc : Acquiring \cup {"down", "loop", "standby"},
         tries : 0..Tries,
         seen : Pids,       \* the pid read from the file
         owner : Pids]      \* _owner_pid, while _owns_lock
Fresh(pc) == [pc |-> pc, tries |-> 0, seen |-> NoProc, owner |-> NoProc]

LockTypeOK ==
    /\ pidfile \in File
    /\ proc \in [Procs -> Proc]
    /\ \A p \in Procs : proc[p].pc \in {"read", "check", "unlink"} => proc[p].tries < Tries

LockInit ==
    /\ pidfile = NoFile
    /\ proc = [p \in Procs |-> Fresh("down")]

-----------------------------------------------------------------------------
PidAlive(p) == proc[p].pc # "down"

Goto(p, pc) == proc' = [proc EXCEPT ![p].pc = pc]

\* The scheduler of a process that was just launched.
Start(p) ==
    /\ proc[p].pc = "down"
    /\ Overlap \/ \A q \in Procs : proc[q].pc \notin Acquiring
    /\ proc' = [proc EXCEPT ![p] = Fresh("create")]
    /\ UNCHANGED pidfile

\* Fault: the attempts are not counted.
Create_Endless(p) ==
    /\ proc[p].pc = "create"
    /\ IF pidfile = NoFile
       THEN pidfile' = [by |-> p, pid |-> NoProc] /\ Goto(p, "write")
       ELSE Goto(p, "read") /\ UNCHANGED pidfile

\* os.open with O_CREAT | O_EXCL.
Create(p) ==
    /\ proc[p].pc = "create"
    /\ IF proc[p].tries = Tries
       THEN Goto(p, "standby") /\ UNCHANGED pidfile
       ELSE IF pidfile = NoFile
            THEN pidfile' = [by |-> p, pid |-> NoProc] /\ Goto(p, "write")
            ELSE Goto(p, "read") /\ UNCHANGED pidfile

\* The pid goes to the inode that p created, in the directory or not, and p
\* believes it owns the lock.
Write(p) ==
    /\ proc[p].pc = "write"
    /\ pidfile' = IF pidfile.by = p THEN [by |-> p, pid |-> p] ELSE pidfile
    /\ proc' = [proc EXCEPT ![p] = [pc |-> "loop", tries |-> proc[p].tries,
                                    seen |-> proc[p].seen, owner |-> p]]

\* The other owner's pid, 0 when the file is gone or still empty.
Read(p) ==
    /\ proc[p].pc = "read"
    /\ proc' = [proc EXCEPT ![p] = [pc |-> "check", tries |-> proc[p].tries,
                                    seen |-> pidfile.pid, owner |-> NoProc]]
    /\ UNCHANGED pidfile

\* Fault: the owner is not probed.
Check_NoProbe(p) ==
    /\ proc[p].pc = "check"
    /\ IF proc[p].seen = p THEN Goto(p, "standby") ELSE Goto(p, "unlink")
    /\ UNCHANGED pidfile

Check(p) ==
    LET other == proc[p].seen IN
    /\ proc[p].pc = "check"
    /\ IF other # NoProc /\ other # p /\ PidAlive(other)
       THEN Goto(p, "standby")
       ELSE Goto(p, "unlink")
    /\ UNCHANGED pidfile

\* The stale file goes, unless the system refuses (OSError is ignored).
Unlink(p) ==
    /\ proc[p].pc = "unlink"
    /\ pidfile' \in {NoFile, pidfile}
    /\ proc' = [proc EXCEPT ![p] = [pc |-> "create", tries |-> proc[p].tries + 1,
                                    seen |-> NoProc, owner |-> NoProc]]

-----------------------------------------------------------------------------
\* A worker forked by the process running the loop (the gunicorn master)
\* inherits its memory, the loop included (gevent), ...
Fork(p, q) ==
    /\ proc[p].pc = "loop"
    /\ proc[p].owner = p
    /\ proc[q].pc = "down"
    /\ proc' = [proc EXCEPT ![q] = proc[p]]
    /\ UNCHANGED pidfile

\* ... which ends as soon as it finds itself in another process.
LoopExits(p) ==
    /\ proc[p].pc = "loop"
    /\ proc[p].owner # p
    /\ Goto(p, "standby")
    /\ UNCHANGED pidfile

\* Fault: whoever inherited _owns_lock removes the file.
ReleaseLock_Anyone(p) == pidfile' = IF proc[p].owner # NoProc THEN NoFile ELSE pidfile

ReleaseLock(p) == pidfile' \in IF proc[p].owner = p THEN {NoFile, pidfile} ELSE {pidfile}

\* stop(): a loop that ends in time gives the lock back, else the process
\* keeps it until it exits.
Stop(p) ==
    /\ proc[p].pc = "loop"
    /\ proc[p].owner = p
    /\ \/ ReleaseLock(p) /\ proc' = [proc EXCEPT ![p] = Fresh("standby")]
       \/ Goto(p, "standby") /\ UNCHANGED pidfile

\* A process that ends runs its atexit handler ...
Exit(p) ==
    /\ PidAlive(p)
    /\ ReleaseLock(p)
    /\ proc' = [proc EXCEPT ![p] = Fresh("down")]

\* ... unless it is killed.
Kill(p) ==
    /\ PidAlive(p)
    /\ proc' = [proc EXCEPT ![p] = Fresh("down")]
    /\ UNCHANGED pidfile

Acquire(p) == Create(p) \/ Write(p) \/ Read(p) \/ Check(p) \/ Unlink(p)

LockNext ==
    \E p \in Procs :
        \/ Start(p) \/ Acquire(p)
        \/ LoopExits(p) \/ Stop(p) \/ Exit(p) \/ Kill(p)
        \/ \E q \in Procs : Fork(p, q)

LockSpec == LockInit /\ [][LockNext]_lockVars

-----------------------------------------------------------------------------
Running(p) == proc[p].pc = "loop" /\ proc[p].owner = p

\* _acquire_singleton_lock: only one process runs the background loop.
OneScheduler == \A p, q \in Procs : Running(p) /\ Running(q) => p = q

\* When processes acquire the lock one at a time, the file names whoever holds
\* it, a process about to create or remove the file found no holder, and there is
\* none now: neither an exit nor a takeover takes the file from a live holder.
LockInv ==
    /\ \A p, q \in Procs : proc[p].pc \in Acquiring /\ proc[q].pc \in Acquiring => p = q
    /\ \A p \in Procs : proc[p].owner = p =>
          pidfile.pid = p /\ proc[p].pc \in {"loop", "standby"}
    /\ \A p \in Procs : proc[p].pc = "check" =>
          \A q \in Procs : proc[q].owner = q => proc[p].seen = q
    /\ \A p \in Procs : proc[p].pc \in {"unlink", "write"} =>
          \A q \in Procs : proc[q].owner # q
    /\ \A p \in Procs : proc[p].pc = "write" => pidfile.by = p
=============================================================================
