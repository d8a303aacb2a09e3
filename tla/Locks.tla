------------------------------- MODULE Locks -------------------------------
(***************************************************************************)
(* The promise locks of cgn-agent (libpromises/locks.c).                   *)
(*                                                                         *)
(* Every promise p has two records in a database shared by all agents:     *)
(* lock[p], written while some process works on p, and last[p], written    *)
(* when the work is done.  A third record, section, is meant to give one   *)
(* process at a time the right to edit the other two.  A record holds the  *)
(* pid and the start time of its writer and the time of the write; of the  *)
(* section only the time is ever read, of last[p] the time, and the model  *)
(* keeps its pid for the sake of one property.                             *)
(*                                                                         *)
(* Each step below is one access to the database: accesses of one process  *)
(* are atomic (the database's own transactions), a sequence of them is     *)
(* not.  Processes crash at any point and are interrupted at any point by  *)
(* a signal whose handler calls exit().                                    *)
(***************************************************************************)
EXTENDS Integers

CONSTANTS
    Pids,           \* process ids an agent may be given
    Promises,       \* the promises, by the hash that names their locks
    Ignoring,       \* promises locked with ignoreProcesses (edit_line, edit_xml)
    Minute,         \* clock ticks in 60 seconds
    IfElapsed,      \* tc.ifelapsed, in minutes
    ExpireAfter,    \* tc.expireafter, in minutes
    Horizon,        \* CF_LOCKHORIZON, in ticks
    Epoch,          \* the clock when the model starts
    MaxClock,       \* bound: the last clock value that is explored
    None            \* an absent record

ASSUME LocksAssumption ==
    /\ Ignoring \subseteq Promises
    /\ Minute \in Nat \ {0}
    /\ IfElapsed \in Nat /\ ExpireAfter \in Nat /\ Horizon \in Nat
    /\ Epoch \in Nat \ {0} /\ MaxClock \in Nat
    /\ None \notin Promises /\ None \notin Nat
    /\ None \notin [pid : Pids, start : Nat, time : Nat]
    /\ None \notin [pid : Pids, time : Nat]

VARIABLES
    clock,      \* time(NULL)
    section,    \* the time in the record CF_CRITICAL_SECTION, or None
    lock, last, \* the records lock.<p> and last.<p>
    horizon,    \* the time in the record lock_horizon, or None
    pc,         \* what each process does next; "off": no such process
    born,       \* start time of the process; also its CFSTARTTIME
    cur,        \* the promise it is acquiring or yielding
    cache,      \* promises it has asked a lock for (promise_lock_cache)
    stack,      \* LOCK_STACK: locks it would yield at exit
    hooked,     \* processes that registered LocksCleanup with atexit
    victim,     \* the record whose writer it is terminating
    breach      \* history: the gaps of the protocol used so far

dbVars   == <<section, lock, last, horizon>>
procVars == <<pc, born, cur, cache, stack, hooked, victim>>
vars     == <<clock, dbVars, procVars, breach>>

-----------------------------------------------------------------------------
(* Records.                                                                *)

Record  == [pid : Pids, start : Nat, time : Nat]
Stamp   == [pid : Pids, time : Nat]

\* What WriteLockDataCurrent stores for process a.
WriteLockDataCurrent(a) == [pid |-> a, start |-> born[a], time |-> clock]
WriteLast(a) == [pid |-> a, time |-> clock]

\* The process that wrote r still runs: same pid, same start time.
Live(r) == r # None /\ pc[r.pid] # "off" /\ born[r.pid] = r.start

\* Division of time_t values truncates towards zero.
CDiv(x, n) == IF x >= 0 THEN x \div n ELSE -((-x) \div n)

\* Minutes from t to the start of agent a, which AcquireLock takes as now.
Elapsed(a, t) == CDiv(born[a] - t, Minute)

\* A record beyond the purge horizon.
Purgeable(r) == r # None /\ clock - r.time > Horizon

-----------------------------------------------------------------------------
(* What a process is doing.                                                *)

PC == {"off", "idle", "wait", "enter",
       "last", "putlast", "lock", "putlock", "kill", "signal", "killwait",
       "stopped", "write", "leave", "refuse", "copy", "yieldlast", "exit",
       "exitlast"}

\* Between the write and the removal of the section's record.
Inside == {"last", "putlast", "lock", "putlock", "kill", "signal", "killwait",
           "stopped", "write", "leave", "refuse", "copy"}

\* Running atexit functions.
Exiting == {"exit", "exitlast"}

\* p is locked by a: pushed by AcquireLock, not yet removed by YieldCurrentLock.
Holds(a, p) == p \in stack[a] /\ ~(pc[a] = "yieldlast" /\ cur[a] = p)

\* The gaps through which exclusion can be lost, each recorded when used:
\*   overlap   a process enters the critical section while another is inside,
\*   survivor  an expired lock is taken over while its holder is still alive,
\*   reyield   exit() interrupts YieldCurrentLock after the lock was removed,
\*   purge     the lock of a live process is purged;
\* one through which ifelapsed is:
\*   raced     YieldCurrentLock writes last after another process judged it;
\* and one through which a process is terminated for a lock it has given back:
\*   late      YieldCurrentLock removes a lock after KillLockHolder read it.
Gaps == {"overlap", "survivor", "reyield", "purge", "raced", "late"}

\* No gap that exclusion depends on was used.
Intact == breach \subseteq {"raced", "late"}

\* Past the ifelapsed test of AcquireLock.
Judged == {"lock", "putlock", "kill", "signal", "killwait", "stopped", "write",
           "leave"}

\* a is at work on p, or on its way out.
BusyWith(a, p) ==
    \/ p \in stack[a]
    \/ cur[a] = p /\ pc[a] \in {"write", "leave"}
    \/ pc[a] \in Exiting

\* b has read, in KillLockHolder, that a has the lock of p, and not yet signalled.
Targets(b, a, p) ==
    /\ pc[b] = "signal" /\ cur[b] = p
    /\ Live(victim[b]) /\ victim[b].pid = a

-----------------------------------------------------------------------------
Init ==
    /\ clock = Epoch
    /\ section = None /\ horizon = None
    /\ lock = [p \in Promises |-> None]
    /\ last = [p \in Promises |-> None]
    /\ pc = [a \in Pids |-> "off"]
    /\ born = [a \in Pids |-> 0]
    /\ cur = [a \in Pids |-> None]
    /\ cache = [a \in Pids |-> {}]
    /\ stack = [a \in Pids |-> {}]
    /\ hooked = {}
    /\ victim = [a \in Pids |-> None]
    /\ breach = {}

Goto(a, l) == pc' = [pc EXCEPT ![a] = l]

Tick ==
    /\ clock < MaxClock
    /\ clock' = clock + 1
    /\ UNCHANGED <<dbVars, procVars, breach>>

\* An agent starts.  The kernel does not give a pid out twice in one second.
Start(a) ==
    /\ pc[a] = "off" /\ clock > born[a]
    /\ Goto(a, "idle")
    /\ born' = [born EXCEPT ![a] = clock]
    /\ cache' = [cache EXCEPT ![a] = {}]
    /\ UNCHANGED <<clock, dbVars, cur, stack, hooked, victim, breach>>

-----------------------------------------------------------------------------
(* AcquireLock.                                                            *)

\* Mutant of AcquireLock: no look into promise_lock_cache.
AcquireLockUncached(a, p) ==
    /\ pc[a] = "idle"
    /\ cache' = [cache EXCEPT ![a] = @ \cup {p}]
    /\ Goto(a, "wait") /\ cur' = [cur EXCEPT ![a] = p]
    /\ UNCHANGED <<clock, dbVars, born, stack, hooked, victim, breach>>

\* A promise already asked for in this run is refused without a step here.
AcquireLock(a, p) ==
    /\ pc[a] = "idle" /\ p \notin cache[a]
    /\ cache' = [cache EXCEPT ![a] = @ \cup {p}]
    /\ \/ UNCHANGED <<pc, cur>>         \* --no-lock: the dummy lock
       \/ Goto(a, "wait") /\ cur' = [cur EXCEPT ![a] = p]
    /\ UNCHANGED <<clock, dbVars, born, stack, hooked, victim, breach>>

\* The loop of WaitForCriticalSection ends: nobody is inside, or the record
\* is a minute old.
WaitForCriticalSection(a) ==
    /\ pc[a] = "wait"
    /\ section # None => clock - section >= Minute
    /\ Goto(a, "enter")
    /\ UNCHANGED <<clock, dbVars, born, cur, cache, stack, hooked, victim, breach>>

\* Its last statement, the write of the record.
EnterSection(a) ==
    /\ pc[a] = "enter"
    /\ section' = clock
    /\ Goto(a, IF cur[a] = None THEN "copy" ELSE "last")
    /\ breach' = IF \E b \in Pids \ {a} : pc[b] \in Inside
                 THEN breach \cup {"overlap"} ELSE breach
    /\ UNCHANGED <<clock, lock, last, horizon, born, cur, cache, stack, hooked, victim>>

\* Mutant of FindLast: ifelapsed is compared with one minute more.
FindLastOffByOne(a) ==
    /\ pc[a] = "last"
    /\ LET r == last[cur[a]] IN
       Goto(a, IF r = None THEN "putlast"
               ELSE IF Elapsed(a, r.time) + 1 < IfElapsed THEN "refuse" ELSE "lock")
    /\ UNCHANGED <<clock, dbVars, born, cur, cache, stack, hooked, victim, breach>>

\* FindLock(cflast): an absent record is about to be written, and reads as 0.
FindLast(a) ==
    /\ pc[a] = "last"
    /\ LET r == last[cur[a]] IN
       Goto(a, IF r = None THEN "putlast"
               ELSE IF Elapsed(a, r.time) < IfElapsed THEN "refuse" ELSE "lock")
    /\ UNCHANGED <<clock, dbVars, born, cur, cache, stack, hooked, victim, breach>>

PutLast(a) ==
    /\ pc[a] = "putlast"
    /\ last' = [last EXCEPT ![cur[a]] = WriteLast(a)]
    /\ Goto(a, IF Elapsed(a, 0) < IfElapsed THEN "refuse" ELSE "lock")
    /\ UNCHANGED <<clock, section, lock, horizon, born, cur, cache, stack, hooked, victim, breach>>

\* Mutant of FindLock: expiry is compared with one minute less.
FindLockOffByOne(a) ==
    /\ pc[a] = "lock"
    /\ LET r == lock[cur[a]] IN
       Goto(a, IF r = None THEN "putlock"
               ELSE IF cur[a] \in Ignoring THEN "leave"
               ELSE IF Elapsed(a, r.time) + 1 >= ExpireAfter THEN "kill" ELSE "refuse")
    /\ UNCHANGED <<clock, dbVars, born, cur, cache, stack, hooked, victim, breach>>

\* FindLock(cflock).
FindLock(a) ==
    /\ pc[a] = "lock"
    /\ LET r == lock[cur[a]] IN
       Goto(a, IF r = None THEN "putlock"
               ELSE IF cur[a] \in Ignoring THEN "leave"
               ELSE IF Elapsed(a, r.time) >= ExpireAfter THEN "kill" ELSE "refuse")
    /\ UNCHANGED <<clock, dbVars, born, cur, cache, stack, hooked, victim, breach>>

PutLock(a) ==
    /\ pc[a] = "putlock"
    /\ lock' = [lock EXCEPT ![cur[a]] = WriteLockDataCurrent(a)]
    /\ Goto(a, IF cur[a] \in Ignoring THEN "leave" ELSE "write")
    /\ UNCHANGED <<clock, section, last, horizon, born, cur, cache, stack, hooked, victim, breach>>

\* Mutant of WriteLock: the record of the expired holder stays.
WriteLockForgotten(a) ==
    /\ pc[a] = "write"
    /\ hooked' = hooked \cup {a}
    /\ Goto(a, "leave")
    /\ victim' = [victim EXCEPT ![a] = None]
    /\ UNCHANGED <<clock, dbVars, born, cur, cache, stack, breach>>

\* WriteLock(cflock), then RegisterLockCleanup.
WriteLock(a) ==
    /\ pc[a] = "write"
    /\ lock' = [lock EXCEPT ![cur[a]] = WriteLockDataCurrent(a)]
    /\ hooked' = hooked \cup {a}
    /\ Goto(a, "leave")
    /\ victim' = [victim EXCEPT ![a] = None]
    /\ UNCHANGED <<clock, section, last, horizon, born, cur, cache, stack, breach>>

\* ReleaseCriticalSection, whoever wrote the record, and PushLock.
LeaveSection(a) ==
    /\ pc[a] = "leave"
    /\ section' = None
    /\ stack' = [stack EXCEPT ![a] = @ \cup {cur[a]}]
    /\ cur' = [cur EXCEPT ![a] = None]
    /\ Goto(a, "idle")
    /\ UNCHANGED <<clock, lock, last, horizon, born, cache, hooked, victim, breach>>

\* ReleaseCriticalSection and CfLockNull().
Refuse(a) ==
    /\ pc[a] = "refuse"
    /\ section' = None
    /\ cur' = [cur EXCEPT ![a] = None]
    /\ Goto(a, "idle")
    /\ UNCHANGED <<clock, lock, last, horizon, born, cache, stack, hooked, victim, breach>>

-----------------------------------------------------------------------------
(* Termination of processes.  A process that dies leaves the database as   *)
(* it is.                                                                  *)

\* v disappears while the pc of the others becomes q.
Vanish(v, q) ==
    /\ pc' = [q EXCEPT ![v] = "off"]
    /\ cur' = [cur EXCEPT ![v] = None]
    /\ cache' = [cache EXCEPT ![v] = {}]
    /\ stack' = [stack EXCEPT ![v] = {}]
    /\ hooked' = hooked \ {v}
    /\ victim' = [victim EXCEPT ![v] = None]

\* YieldCurrentLock's WriteLock(lock.last), while b may be past the test of it.
CompleteLast(a) ==
    /\ last' = [last EXCEPT ![cur[a]] = WriteLast(a)]
    /\ breach' = IF \E b \in Pids \ {a} : pc[b] \in Judged /\ cur[b] = cur[a]
                 THEN breach \cup {"raced"} ELSE breach

\* exit() in v, from its own code or from HandleSignalsForAgent: nothing that
\* v was doing is resumed, the atexit functions run.
Interrupt(v, q) ==
    /\ pc' = [q EXCEPT ![v] = IF pc[v] \in Exiting THEN pc[v] ELSE "exit"]
    /\ cur' = IF pc[v] \in Exiting THEN cur ELSE [cur EXCEPT ![v] = None]
    /\ breach' = IF pc[v] = "yieldlast" THEN breach \cup {"reyield"} ELSE breach

\* KillLockHolder reads the record again: there is none, or the process it
\* names is the one to terminate.
KillLockHolder(a) ==
    /\ pc[a] = "kill"
    /\ victim' = [victim EXCEPT ![a] = lock[cur[a]]]
    /\ Goto(a, IF lock[cur[a]] = None THEN "write" ELSE "signal")
    /\ UNCHANGED <<clock, dbVars, born, cur, cache, stack, hooked, breach>>

\* GracefulTerminate up to its first signal.  A process that would terminate
\* itself stops at SafeKill's SIGSTOP.
GracefulTerminate(a) ==
    /\ pc[a] = "signal"
    /\ LET r == victim[a] IN
       \/ /\ ~Live(r)                       \* ESRCH
          /\ Goto(a, "write")
          /\ UNCHANGED <<cur, breach>>
       \/ /\ Live(r) /\ r.pid = a
          /\ Goto(a, "stopped")
          /\ UNCHANGED <<cur, breach>>
       \/ /\ Live(r) /\ r.pid # a           \* SIGINT is delivered
          /\ Interrupt(r.pid, [pc EXCEPT ![a] = "killwait"])
       \/ /\ Live(r) /\ r.pid # a           \* EPERM, or it does not stop
          /\ Goto(a, "write")
          /\ breach' = breach \cup {"survivor"}
          /\ UNCHANGED cur
    /\ UNCHANGED <<clock, dbVars, born, cache, stack, hooked, victim>>

\* Mutant of HolderExited: the wait for the holder's exit is skipped.
HolderNotAwaited(a) ==
    /\ pc[a] = "killwait"
    /\ Goto(a, "write")
    /\ UNCHANGED <<clock, dbVars, born, cur, cache, stack, hooked, victim, breach>>

\* ProcessWaitUntilExited sees the holder gone.
HolderExited(a) ==
    /\ pc[a] = "killwait" /\ ~Live(victim[a])
    /\ Goto(a, "write")
    /\ UNCHANGED <<clock, dbVars, born, cur, cache, stack, hooked, victim, breach>>

\* The last resort of GracefulTerminate, SIGKILL.
ForceKill(a) ==
    /\ pc[a] = "killwait" /\ Live(victim[a])
    /\ Vanish(victim[a].pid, [pc EXCEPT ![a] = "write"])
    /\ UNCHANGED <<clock, dbVars, born, breach>>

\* GracefulTerminate returns, with whatever result, and the holder lives.
KillFails(a) ==
    /\ pc[a] = "killwait" /\ Live(victim[a])
    /\ Goto(a, "write")
    /\ breach' = breach \cup {"survivor"}
    /\ UNCHANGED <<clock, dbVars, born, cur, cache, stack, hooked, victim>>

Exit(a) ==
    /\ pc[a] \notin {"off", "stopped"} \cup Exiting
    /\ Interrupt(a, pc)
    /\ UNCHANGED <<clock, dbVars, born, cache, stack, hooked, victim>>

\* LocksCleanup: PopLock, then the RemoveLock of YieldCurrentLock ...
ExitRemove(a, p) ==
    /\ pc[a] = "exit" /\ a \in hooked /\ p \in stack[a]
    /\ stack' = [stack EXCEPT ![a] = @ \ {p}]
    /\ cur' = [cur EXCEPT ![a] = p]
    /\ lock' = [lock EXCEPT ![p] = None]
    /\ Goto(a, "exitlast")
    /\ UNCHANGED <<clock, section, last, horizon, born, cache, hooked, victim, breach>>

\* ... and its WriteLock(lock.last).
ExitLast(a) ==
    /\ pc[a] = "exitlast"
    /\ CompleteLast(a)
    /\ cur' = [cur EXCEPT ![a] = None]
    /\ Goto(a, "exit")
    /\ UNCHANGED <<clock, section, lock, horizon, born, cache, stack, hooked, victim>>

ExitDone(a) ==
    /\ pc[a] = "exit" /\ (stack[a] = {} \/ a \notin hooked)
    /\ Vanish(a, pc)
    /\ UNCHANGED <<clock, dbVars, born, breach>>

Crash(a) ==
    /\ pc[a] # "off"
    /\ Vanish(a, pc)
    /\ UNCHANGED <<clock, dbVars, born, breach>>

-----------------------------------------------------------------------------
(* YieldCurrentLock, outside the critical section.                         *)

\* Mutant of YieldRemove: the record is not removed.
YieldRemoveForgotten(a, p) ==
    /\ pc[a] = "idle" /\ p \in stack[a]
    /\ cur' = [cur EXCEPT ![a] = p]
    /\ Goto(a, "yieldlast")
    /\ UNCHANGED <<clock, dbVars, born, cache, stack, hooked, victim, breach>>

YieldRemove(a, p) ==
    /\ pc[a] = "idle" /\ p \in stack[a]
    /\ lock' = [lock EXCEPT ![p] = None]
    /\ cur' = [cur EXCEPT ![a] = p]
    /\ Goto(a, "yieldlast")
    /\ breach' = IF \E b \in Pids : Targets(b, a, p) THEN breach \cup {"late"} ELSE breach
    /\ UNCHANGED <<clock, section, last, horizon, born, cache, stack, hooked, victim>>

\* WriteLock(lock.last), and only then the entry leaves LOCK_STACK.
YieldLast(a) ==
    /\ pc[a] = "yieldlast"
    /\ CompleteLast(a)
    /\ stack' = [stack EXCEPT ![a] = @ \ {cur[a]}]
    /\ cur' = [cur EXCEPT ![a] = None]
    /\ Goto(a, "idle")
    /\ UNCHANGED <<clock, section, lock, horizon, born, cache, hooked, victim>>

-----------------------------------------------------------------------------
(* The end of an agent's run: PurgeLocks, BackupLockDatabase, return.      *)

PurgeLocks(a) ==
    /\ pc[a] = "idle"
    /\ IF horizon # None /\ clock - horizon < Horizon
       THEN UNCHANGED <<dbVars, breach>>
       ELSE /\ lock' = [p \in Promises |-> IF Purgeable(lock[p]) THEN None ELSE lock[p]]
            /\ last' = [p \in Promises |-> IF Purgeable(last[p]) THEN None ELSE last[p]]
            /\ section' = IF section # None /\ clock - section > Horizon THEN None ELSE section
            /\ horizon' = clock
            /\ breach' = IF \E p \in Promises : Purgeable(lock[p]) /\ Live(lock[p])
                         THEN breach \cup {"purge"} ELSE breach
    /\ Goto(a, "wait")          \* of BackupLockDatabase: cur[a] is None
    /\ UNCHANGED <<clock, born, cur, cache, stack, hooked, victim>>

\* CopyLockDatabaseAtomically and ReleaseCriticalSection.  The copy itself is
\* the subject of module LockBackup.
BackupLockDatabase(a) ==
    /\ pc[a] = "copy"
    /\ section' = None
    /\ Goto(a, "exit")
    /\ UNCHANGED <<clock, lock, last, horizon, born, cur, cache, stack, hooked, victim, breach>>

-----------------------------------------------------------------------------
Acquire(a) ==
    \/ \E p \in Promises : AcquireLock(a, p)
    \/ WaitForCriticalSection(a) \/ EnterSection(a)
    \/ FindLast(a) \/ PutLast(a) \/ FindLock(a) \/ PutLock(a)
    \/ WriteLock(a) \/ LeaveSection(a) \/ Refuse(a)

Terminate(a) ==
    \/ KillLockHolder(a) \/ GracefulTerminate(a) \/ HolderExited(a) \/ ForceKill(a) \/ KillFails(a)
    \/ Exit(a) \/ (\E p \in Promises : ExitRemove(a, p))
    \/ ExitLast(a) \/ ExitDone(a) \/ Crash(a)

Yield(a) ==
    \/ \E p \in Promises : YieldRemove(a, p)
    \/ YieldLast(a)

EndRun(a) == PurgeLocks(a) \/ BackupLockDatabase(a)

Next ==
    \/ Tick
    \/ \E a \in Pids : Start(a) \/ Acquire(a) \/ Terminate(a) \/ Yield(a) \/ EndRun(a)

Spec == Init /\ [][Next]_vars

-----------------------------------------------------------------------------
(* Properties.                                                             *)

TypeOK ==
    /\ clock \in Nat
    /\ section \in Nat \cup {None}
    /\ lock \in [Promises -> Record \cup {None}]
    /\ last \in [Promises -> Stamp \cup {None}]
    /\ horizon \in Nat \cup {None}
    /\ pc \in [Pids -> PC]
    /\ born \in [Pids -> Nat]
    /\ cur \in [Pids -> Promises \cup {None}]
    /\ cache \in [Pids -> SUBSET Promises]
    /\ stack \in [Pids -> SUBSET Promises]
    /\ hooked \in SUBSET Pids
    /\ victim \in [Pids -> Record \cup {None}]
    /\ breach \in SUBSET Gaps

\* Two processes never hold the lock of one promise, unless one of four gaps
\* was used: AcquireLock's exclusion (locks.c) has no other hole, however
\* crashes, signals, expiry, kills and yields interleave.
LockExclusive ==
    Intact =>
        \A p \in Promises \ Ignoring : \A a, b \in Pids :
            Holds(a, p) /\ Holds(b, p) => a = b

\* A lock record that names a live process names one that is still at work on
\* that promise, whatever gaps were used.  So is the process that KillLockHolder
\* signals (locks.c 480), until it has exited, with one exception: nothing keeps a
\* process from yielding the lock between the read of the record (468) and the
\* signal, and then it is terminated for a lock it has given back (late).
LockNamesItsHolder ==
    /\ \A p \in Promises : Live(lock[p]) => BusyWith(lock[p].pid, p)
    /\ \A a \in Pids :
          pc[a] \in {"signal", "killwait"} /\ Live(victim[a]) /\ "late" \notin breach
          => BusyWith(victim[a].pid, cur[a])

\* No agent sends SIGSTOP to itself in KillLockHolder: promise_lock_cache keeps
\* it from meeting its own record.
NeverStopsItself == \A a \in Pids : pc[a] # "stopped"

\* As long as no two processes were in the critical section together, the
\* record KillLockHolder read before it signals is still as old as the one
\* AcquireLock judged expired: a process that took the lock in between is not its
\* target.
KillsOnlyExpired ==
    [][\A a \in Pids :
          /\ "overlap" \notin breach
          /\ pc[a] = "signal" /\ pc'[a] = "killwait"
          => Elapsed(a, victim[a].time) >= ExpireAfter]_vars

\* a removes the lock of p in YieldCurrentLock.
Yields(a, p) ==
    /\ p \in stack[a] /\ pc[a] \in {"idle", "exit"}
    /\ pc'[a] \in {"yieldlast", "exitlast"} /\ cur'[a] = p

\* Until then, the record YieldCurrentLock deletes is the process' own.
YieldsOwnLock ==
    [][\A a \in Pids, p \in Promises \ Ignoring :
          Intact /\ Yields(a, p) => lock[p] # None /\ lock[p].pid = a]_vars

\* While AcquireLock goes on with a promise, nobody else has finished it less
\* than ifelapsed minutes ago, unless two processes were in the critical section
\* or a YieldCurrentLock that had removed its lock wrote last after the test.
IfElapsedKept ==
    breach \cap {"overlap", "raced"} = {} =>
        \A a \in Pids : pc[a] \in Judged =>
            LET r == last[cur[a]] IN
            r = None \/ r.pid = a \/ Elapsed(a, r.time) >= IfElapsed

\* The locks as PromiseLock sees them.
PL == INSTANCE PromiseLock WITH
          Agents   <- Pids,
          Promises <- Promises \ Ignoring,
          holders  <- [p \in Promises \ Ignoring |-> {a \in Pids : Holds(a, p)}],
          broken   <- ~Intact

\* The database accesses of AcquireLock and YieldCurrentLock, with every crash,
\* kill and signal between them, implement an atomic lock per promise until one
\* of the four gaps is used.
ImplementsPromiseLock == PL!Spec
=============================================================================
