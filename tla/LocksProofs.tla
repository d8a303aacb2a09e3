---------------------------- MODULE LocksProofs ----------------------------
(***************************************************************************)
(* Proofs about Locks: its type invariant, the invariant LockNamesItsHolder *)
(* that holds whatever gap is used, the exclusion that holds until one is,  *)
(* ifelapsed, and that the locks implement PromiseLock; for every number of *)
(* agents and promises.                                                    *)
(***************************************************************************)
EXTENDS Locks, TLAPS

\* The record r was written by the process that now runs as a.
Own(r, a) == r # None /\ r.pid = a /\ r.start = born[a]

-----------------------------------------------------------------------------
(* The inductive invariant, a conjunction of named parts.                  *)

\* What a process at each pc knows of its own promise, stack and cache.
Bookkeeping ==
    \A a \in Pids :
        /\ pc[a] = "off" => stack[a] = {} /\ cur[a] = None
        /\ stack[a] \subseteq cache[a]
        /\ pc[a] \in {"wait", "enter"} => cur[a] \in {None} \cup (cache[a] \ stack[a])
        /\ pc[a] \in Inside \ {"copy"} => cur[a] \in cache[a] \ stack[a]
        /\ pc[a] \in {"kill", "signal", "killwait", "write"} => cur[a] \notin Ignoring
        /\ pc[a] \in {"yieldlast", "exitlast"} => cur[a] \in Promises
        /\ pc[a] = "idle" => cur[a] = None

\* No record is younger than the process that now has the pid of its writer.
StartsInPast ==
    /\ \A p \in Promises : lock[p] # None => lock[p].start <= born[lock[p].pid]
    /\ \A a \in Pids : victim[a] # None => victim[a].start <= born[victim[a].pid]

\* Once YieldCurrentLock has removed a's record, a does not write it again.
Yielded ==
    \A a \in Pids : pc[a] = "yieldlast" => ~Own(lock[cur[a]], a)

\* The first part of LockNamesItsHolder.
RecordInv == \A p \in Promises : Live(lock[p]) => BusyWith(lock[p].pid, p)

\* The record that KillLockHolder has read never names its own process.  A process
\* that was signalled is on its way out; one that is about to be was not yielding
\* the lock when the record was read.
VictimInv ==
    /\ \A a \in Pids : pc[a] \in {"signal", "killwait"} /\ Live(victim[a]) =>
          victim[a].pid # a
    /\ \A a \in Pids : pc[a] = "killwait" /\ Live(victim[a]) =>
          pc[victim[a].pid] \in Exiting
    /\ \A a \in Pids : pc[a] = "signal" /\ Live(victim[a]) /\ "late" \notin breach =>
          /\ BusyWith(victim[a].pid, cur[a])
          /\ ~(pc[victim[a].pid] = "yieldlast" /\ cur[victim[a].pid] = cur[a])

\* What holds as long as the critical section was exclusive.
SectionInv ==
    "overlap" \notin breach =>
        /\ \A a, b \in Pids : pc[a] \in Inside /\ pc[b] \in Inside => a = b
        /\ \A a \in Pids : pc[a] = "putlock" => lock[cur[a]] = None
        /\ \A a \in Pids : pc[a] = "kill" /\ lock[cur[a]] # None =>
              Elapsed(a, lock[cur[a]].time) >= ExpireAfter
        /\ \A a \in Pids : pc[a] = "signal" => Elapsed(a, victim[a].time) >= ExpireAfter

\* What holds as long as no gap was used.
Plain == Promises \ Ignoring

HolderInv ==
    Intact =>
        /\ \A a \in Pids, p \in Plain : Holds(a, p) => Own(lock[p], a)
        /\ \A a \in Pids : pc[a] \in {"write", "leave"} /\ cur[a] \in Plain =>
              \A b \in Pids : ~Holds(b, cur[a])
        /\ \A a \in Pids : pc[a] = "leave" /\ cur[a] \in Plain => Own(lock[cur[a]], a)
        /\ \A a \in Pids : pc[a] \in {"signal", "killwait"} =>
              /\ victim[a] # None
              /\ \A b \in Pids : Holds(b, cur[a]) => Own(victim[a], b)

Inv == TypeOK /\ Bookkeeping /\ StartsInPast /\ Yielded /\ RecordInv /\ VictimInv
       /\ NeverStopsItself /\ SectionInv /\ HolderInv

-----------------------------------------------------------------------------
\* Every variable keeps its type.
LEMMA TypeInit == Init => TypeOK
    BY LocksAssumption DEF Init, TypeOK, PC

\* Every action keeps TypeOK; LeaveSection pushes a promise because of Bookkeeping.
LEMMA TypeStep ==
    ASSUME TypeOK, Bookkeeping, [Next]_vars PROVE TypeOK'
<1>1. CASE Tick
    BY <1>1, LocksAssumption DEF Tick, TypeOK, PC, Record, Stamp, Gaps, dbVars, procVars
<1>2. ASSUME NEW a \in Pids, Start(a) PROVE TypeOK'
    BY <1>2, LocksAssumption DEF Start, Goto, TypeOK, PC, Record, Stamp, Gaps, dbVars, procVars
<1>3. ASSUME NEW a \in Pids, NEW p \in Promises, AcquireLock(a, p) PROVE TypeOK'
    BY <1>3, LocksAssumption DEF AcquireLock, Goto, TypeOK, PC, Record, Stamp, Gaps, dbVars,
        procVars
<1>4. ASSUME NEW a \in Pids, WaitForCriticalSection(a) PROVE TypeOK'
    BY <1>4, LocksAssumption DEF WaitForCriticalSection, Goto, TypeOK, PC, Record, Stamp,
        Gaps, dbVars, procVars
<1>5. ASSUME NEW a \in Pids, EnterSection(a) PROVE TypeOK'
    BY <1>5, LocksAssumption DEF EnterSection, Goto, TypeOK, PC, Record, Stamp, Gaps,
        dbVars, procVars
<1>6. ASSUME NEW a \in Pids, FindLast(a) PROVE TypeOK'
    BY <1>6, LocksAssumption DEF FindLast, Goto, TypeOK, PC, Record, Stamp, Gaps, dbVars,
        procVars
<1>7. ASSUME NEW a \in Pids, PutLast(a) PROVE TypeOK'
    BY <1>7, LocksAssumption DEF PutLast, Goto, WriteLast, TypeOK, PC, Record, Stamp, Gaps,
        dbVars, procVars
<1>8. ASSUME NEW a \in Pids, FindLock(a) PROVE TypeOK'
    BY <1>8, LocksAssumption DEF FindLock, Goto, TypeOK, PC, Record, Stamp, Gaps, dbVars,
        procVars
<1>9. ASSUME NEW a \in Pids, PutLock(a) PROVE TypeOK'
    BY <1>9, LocksAssumption DEF PutLock, Goto, WriteLockDataCurrent, TypeOK, PC, Record,
        Stamp, Gaps, dbVars, procVars
<1>10. ASSUME NEW a \in Pids, WriteLock(a) PROVE TypeOK'
    BY <1>10, LocksAssumption DEF WriteLock, Goto, WriteLockDataCurrent, TypeOK, PC, Record,
        Stamp, Gaps, dbVars, procVars
<1>11. ASSUME NEW a \in Pids, LeaveSection(a) PROVE TypeOK'
    BY <1>11, LocksAssumption DEF LeaveSection, Goto, TypeOK, PC, Record, Stamp, Gaps,
        Bookkeeping, Inside, dbVars, procVars
<1>12. ASSUME NEW a \in Pids, Refuse(a) PROVE TypeOK'
    BY <1>12, LocksAssumption DEF Refuse, Goto, TypeOK, PC, Record, Stamp, Gaps, dbVars,
        procVars
<1>13. ASSUME NEW a \in Pids, KillLockHolder(a) PROVE TypeOK'
    <2>1. lock[cur[a]] \in Record \cup {None}
        BY <1>13 DEF KillLockHolder, Bookkeeping, Inside, TypeOK
    <2>. QED  BY <1>13, <2>1 DEF KillLockHolder, Goto, TypeOK, PC, dbVars
<1>14. ASSUME NEW a \in Pids, HolderExited(a) PROVE TypeOK'
    BY <1>14, LocksAssumption DEF HolderExited, Goto, Live, TypeOK, PC, Record, Stamp, Gaps,
        dbVars, procVars
<1>15. ASSUME NEW a \in Pids, ForceKill(a) PROVE TypeOK'
    BY <1>15, LocksAssumption DEF ForceKill, Goto, Live, Vanish, TypeOK, PC, Record, Stamp,
        Gaps, dbVars, procVars
<1>16. ASSUME NEW a \in Pids, KillFails(a) PROVE TypeOK'
    BY <1>16, LocksAssumption DEF KillFails, Goto, Live, TypeOK, PC, Record, Stamp, Gaps,
        dbVars, procVars
<1>17. ASSUME NEW a \in Pids, Exit(a) PROVE TypeOK'
    BY <1>17, LocksAssumption DEF Exit, Goto, Interrupt, TypeOK, PC, Record, Stamp, Gaps,
        Exiting, dbVars, procVars
<1>18. ASSUME NEW a \in Pids, NEW p \in Promises, ExitRemove(a, p) PROVE TypeOK'
    BY <1>18, LocksAssumption DEF ExitRemove, Goto, TypeOK, PC, Record, Stamp, Gaps, dbVars,
        procVars
<1>19. ASSUME NEW a \in Pids, ExitLast(a) PROVE TypeOK'
    BY <1>19, LocksAssumption DEF ExitLast, Goto, CompleteLast, WriteLast, TypeOK, PC,
        Record, Stamp, Gaps, dbVars, procVars
<1>20. ASSUME NEW a \in Pids, ExitDone(a) PROVE TypeOK'
    BY <1>20, LocksAssumption DEF ExitDone, Goto, Vanish, TypeOK, PC, Record, Stamp, Gaps,
        dbVars, procVars
<1>21. ASSUME NEW a \in Pids, Crash(a) PROVE TypeOK'
    BY <1>21, LocksAssumption DEF Crash, Goto, Vanish, TypeOK, PC, Record, Stamp, Gaps,
        dbVars, procVars
<1>22. ASSUME NEW a \in Pids, NEW p \in Promises, YieldRemove(a, p) PROVE TypeOK'
    BY <1>22, LocksAssumption DEF YieldRemove, Goto, TypeOK, PC, Record, Stamp, Gaps,
        dbVars, procVars
<1>23. ASSUME NEW a \in Pids, YieldLast(a) PROVE TypeOK'
    BY <1>23, LocksAssumption DEF YieldLast, Goto, CompleteLast, WriteLast, TypeOK, PC,
        Record, Stamp, Gaps, dbVars, procVars
<1>24. ASSUME NEW a \in Pids, PurgeLocks(a) PROVE TypeOK'
    <2>1. UNCHANGED <<clock, born, cur, cache, stack, hooked, victim>>
        BY <1>24 DEF PurgeLocks
    <2>2. pc' \in [Pids -> PC]
        BY <1>24 DEF PurgeLocks, Goto, TypeOK, PC
    <2>3. CASE UNCHANGED <<dbVars, breach>>
        BY <2>1, <2>2, <2>3 DEF TypeOK, dbVars
    <2>4. CASE ~UNCHANGED <<dbVars, breach>>
        <3>1. /\ lock' = [p \in Promises |-> IF Purgeable(lock[p]) THEN None ELSE lock[p]]
              /\ last' = [p \in Promises |-> IF Purgeable(last[p]) THEN None ELSE last[p]]
              /\ section' \in {section, None} /\ horizon' = clock
              /\ breach' \in {breach, breach \cup {"purge"}}
            BY <1>24, <2>4 DEF PurgeLocks
        <3>2. lock' \in [Promises -> Record \cup {None}] /\ last' \in [Promises -> Stamp
            \cup {None}]
            BY <3>1 DEF TypeOK
        <3>3. /\ section' \in Nat \cup {None} /\ horizon' \in Nat \cup {None}
              /\ breach' \in SUBSET Gaps
            BY <3>1 DEF TypeOK, Gaps
        <3>. QED  BY <2>1, <2>2, <3>2, <3>3 DEF TypeOK
    <2>. QED  BY <2>3, <2>4
<1>25. ASSUME NEW a \in Pids, BackupLockDatabase(a) PROVE TypeOK'
    BY <1>25, LocksAssumption DEF BackupLockDatabase, Goto, TypeOK, PC, Record, Stamp, Gaps,
        dbVars, procVars
<1>26. CASE UNCHANGED vars
    BY <1>26, LocksAssumption DEF vars, dbVars, procVars, TypeOK, PC, Record, Stamp, Gaps
<1>27. ASSUME NEW a \in Pids, GracefulTerminate(a) PROVE TypeOK'
    <2>. DEFINE r == victim[a]
    <2>1. UNCHANGED <<clock, dbVars, born, cache, stack, hooked, victim>>
        BY <1>27 DEF GracefulTerminate
    <2>2. /\ pc' \in [Pids -> PC]
          /\ cur' \in [Pids -> Promises \cup {None}]
          /\ breach' \in SUBSET Gaps
        <3>1. CASE Goto(a, "write") /\ UNCHANGED cur /\ breach' \in {breach, breach \cup {"survivor"}}
            BY <3>1 DEF Goto, TypeOK, PC, Gaps
        <3>2. CASE Goto(a, "stopped") /\ UNCHANGED <<cur, breach>>
            BY <3>2 DEF Goto, TypeOK, PC
        <3>3. CASE Interrupt(r.pid, [pc EXCEPT ![a] = "killwait"])
            BY <3>3 DEF Interrupt, Exiting, TypeOK, PC, Gaps
        <3>. QED  BY <1>27, <3>1, <3>2, <3>3 DEF GracefulTerminate
    <2>. QED  BY <2>1, <2>2 DEF TypeOK, dbVars
<1>. QED
    BY <1>1, <1>2, <1>3, <1>4, <1>5, <1>6, <1>7, <1>8, <1>9, <1>10, <1>11, <1>12, <1>13,
        <1>14, <1>15, <1>16, <1>17, <1>18, <1>19, <1>20, <1>21, <1>22, <1>23, <1>24, <1>25,
        <1>26, <1>27
    DEF Next, Acquire, Terminate, Yield, EndRun

\* Every action keeps Bookkeeping.
LEMMA BookkeepingStep ==
    ASSUME TypeOK, Bookkeeping, [Next]_vars PROVE Bookkeeping'
<1>1. CASE Tick
    BY <1>1, LocksAssumption DEF Tick, TypeOK, Bookkeeping, Inside, dbVars, procVars
<1>2. ASSUME NEW a \in Pids, Start(a) PROVE Bookkeeping'
    BY <1>2, LocksAssumption DEF Start, Goto, TypeOK, Bookkeeping, Inside, dbVars, procVars
<1>3. ASSUME NEW a \in Pids, NEW p \in Promises, AcquireLock(a, p) PROVE Bookkeeping'
    BY <1>3, LocksAssumption DEF AcquireLock, Goto, TypeOK, Bookkeeping, Inside, dbVars,
        procVars
<1>4. ASSUME NEW a \in Pids, WaitForCriticalSection(a) PROVE Bookkeeping'
    BY <1>4, LocksAssumption DEF WaitForCriticalSection, Goto, TypeOK, Bookkeeping, Inside,
        dbVars, procVars
<1>5. ASSUME NEW a \in Pids, EnterSection(a) PROVE Bookkeeping'
    BY <1>5, LocksAssumption DEF EnterSection, Goto, TypeOK, Bookkeeping, Inside, dbVars,
        procVars
<1>6. ASSUME NEW a \in Pids, FindLast(a) PROVE Bookkeeping'
    BY <1>6, LocksAssumption DEF FindLast, Goto, TypeOK, Bookkeeping, Inside, dbVars, procVars
<1>7. ASSUME NEW a \in Pids, PutLast(a) PROVE Bookkeeping'
    BY <1>7, LocksAssumption DEF PutLast, Goto, WriteLast, TypeOK, Bookkeeping, Inside,
        dbVars, procVars
<1>8. ASSUME NEW a \in Pids, FindLock(a) PROVE Bookkeeping'
    BY <1>8, LocksAssumption DEF FindLock, Goto, TypeOK, Bookkeeping, Inside, dbVars, procVars
<1>9. ASSUME NEW a \in Pids, PutLock(a) PROVE Bookkeeping'
    BY <1>9, LocksAssumption DEF PutLock, Goto, WriteLockDataCurrent, TypeOK, Bookkeeping,
        Inside, dbVars, procVars
<1>10. ASSUME NEW a \in Pids, WriteLock(a) PROVE Bookkeeping'
    BY <1>10, LocksAssumption DEF WriteLock, Goto, WriteLockDataCurrent, TypeOK,
        Bookkeeping, Inside, dbVars, procVars
<1>11. ASSUME NEW a \in Pids, LeaveSection(a) PROVE Bookkeeping'
    BY <1>11, LocksAssumption DEF LeaveSection, Goto, TypeOK, Bookkeeping, Inside, dbVars,
        procVars
<1>12. ASSUME NEW a \in Pids, Refuse(a) PROVE Bookkeeping'
    BY <1>12, LocksAssumption DEF Refuse, Goto, TypeOK, Bookkeeping, Inside, dbVars, procVars
<1>13. ASSUME NEW a \in Pids, KillLockHolder(a) PROVE Bookkeeping'
    BY <1>13, LocksAssumption DEF KillLockHolder, Goto, Live, Interrupt, TypeOK,
        Bookkeeping, Inside, Exiting, Record, dbVars, procVars
<1>14. ASSUME NEW a \in Pids, HolderExited(a) PROVE Bookkeeping'
    BY <1>14, LocksAssumption DEF HolderExited, Goto, Live, TypeOK, Bookkeeping, Inside,
        Record, dbVars, procVars
<1>15. ASSUME NEW a \in Pids, ForceKill(a) PROVE Bookkeeping'
    BY <1>15, LocksAssumption DEF ForceKill, Goto, Live, Vanish, TypeOK, Bookkeeping,
        Inside, Record, dbVars, procVars
<1>16. ASSUME NEW a \in Pids, KillFails(a) PROVE Bookkeeping'
    BY <1>16, LocksAssumption DEF KillFails, Goto, Live, TypeOK, Bookkeeping, Inside,
        Record, dbVars, procVars
<1>17. ASSUME NEW a \in Pids, Exit(a) PROVE Bookkeeping'
    BY <1>17, LocksAssumption DEF Exit, Goto, Interrupt, TypeOK, Bookkeeping, Inside,
        Exiting, dbVars, procVars
<1>18. ASSUME NEW a \in Pids, NEW p \in Promises, ExitRemove(a, p) PROVE Bookkeeping'
    BY <1>18, LocksAssumption DEF ExitRemove, Goto, TypeOK, Bookkeeping, Inside, dbVars,
        procVars
<1>19. ASSUME NEW a \in Pids, ExitLast(a) PROVE Bookkeeping'
    BY <1>19, LocksAssumption DEF ExitLast, Goto, CompleteLast, WriteLast, TypeOK,
        Bookkeeping, Inside, dbVars, procVars
<1>20. ASSUME NEW a \in Pids, ExitDone(a) PROVE Bookkeeping'
    BY <1>20, LocksAssumption DEF ExitDone, Goto, Vanish, TypeOK, Bookkeeping, Inside,
        dbVars, procVars
<1>21. ASSUME NEW a \in Pids, Crash(a) PROVE Bookkeeping'
    BY <1>21, LocksAssumption DEF Crash, Goto, Vanish, TypeOK, Bookkeeping, Inside, dbVars,
        procVars
<1>22. ASSUME NEW a \in Pids, NEW p \in Promises, YieldRemove(a, p) PROVE Bookkeeping'
    BY <1>22, LocksAssumption DEF YieldRemove, Goto, TypeOK, Bookkeeping, Inside, dbVars,
        procVars
<1>23. ASSUME NEW a \in Pids, YieldLast(a) PROVE Bookkeeping'
    BY <1>23, LocksAssumption DEF YieldLast, Goto, CompleteLast, WriteLast, TypeOK,
        Bookkeeping, Inside, dbVars, procVars
<1>24. ASSUME NEW a \in Pids, PurgeLocks(a) PROVE Bookkeeping'
    BY <1>24, LocksAssumption DEF PurgeLocks, Goto, Purgeable, Live, TypeOK, Bookkeeping,
        Inside, dbVars, procVars
<1>25. ASSUME NEW a \in Pids, BackupLockDatabase(a) PROVE Bookkeeping'
    BY <1>25, LocksAssumption DEF BackupLockDatabase, Goto, TypeOK, Bookkeeping, Inside,
        dbVars, procVars
<1>26. CASE UNCHANGED vars
    BY <1>26, LocksAssumption DEF vars, dbVars, procVars, TypeOK, Bookkeeping, Inside
<1>27. ASSUME NEW a \in Pids, GracefulTerminate(a) PROVE Bookkeeping'
    BY <1>27, LocksAssumption DEF GracefulTerminate, Goto, Live, Interrupt, TypeOK,
        Bookkeeping, Inside, Exiting, Record, dbVars, procVars
<1>. QED
    BY <1>1, <1>2, <1>3, <1>4, <1>5, <1>6, <1>7, <1>8, <1>9, <1>10, <1>11, <1>12, <1>13,
        <1>14, <1>15, <1>16, <1>17, <1>18, <1>19, <1>20, <1>21, <1>22, <1>23, <1>24, <1>25,
        <1>26, <1>27
    DEF Next, Acquire, Terminate, Yield, EndRun

\* The variables of Locks keep their types in every behaviour.
THEOREM TypeCorrect == Spec => []TypeOK
<1>1. Init => Bookkeeping
    BY DEF Init, Bookkeeping, Inside
<1>2. TypeOK /\ Bookkeeping /\ [Next]_vars => TypeOK' /\ Bookkeeping'
    BY TypeStep, BookkeepingStep
<1>. QED  BY TypeInit, <1>1, <1>2, PTL DEF Spec

\* Every action keeps StartsInPast.
LEMMA StartsInPastStep ==
    ASSUME TypeOK, Bookkeeping, StartsInPast, [Next]_vars PROVE StartsInPast'
<1>1. CASE Tick
    BY <1>1, LocksAssumption DEF Tick, TypeOK, StartsInPast, Record, dbVars, procVars
<1>2. ASSUME NEW a \in Pids, Start(a) PROVE StartsInPast'
    BY <1>2, LocksAssumption DEF Start, Goto, TypeOK, StartsInPast, Record, dbVars, procVars
<1>3. ASSUME NEW a \in Pids, NEW p \in Promises, AcquireLock(a, p) PROVE StartsInPast'
    BY <1>3, LocksAssumption DEF AcquireLock, Goto, TypeOK, StartsInPast, Record, dbVars,
        procVars
<1>4. ASSUME NEW a \in Pids, WaitForCriticalSection(a) PROVE StartsInPast'
    BY <1>4, LocksAssumption DEF WaitForCriticalSection, Goto, TypeOK, StartsInPast, Record,
        dbVars, procVars
<1>5. ASSUME NEW a \in Pids, EnterSection(a) PROVE StartsInPast'
    BY <1>5, LocksAssumption DEF EnterSection, Goto, TypeOK, StartsInPast, Record, dbVars,
        procVars
<1>6. ASSUME NEW a \in Pids, FindLast(a) PROVE StartsInPast'
    BY <1>6, LocksAssumption DEF FindLast, Goto, TypeOK, StartsInPast, Record, dbVars, procVars
<1>7. ASSUME NEW a \in Pids, PutLast(a) PROVE StartsInPast'
    BY <1>7, LocksAssumption DEF PutLast, Goto, WriteLast, TypeOK, StartsInPast, Record,
        dbVars, procVars
<1>8. ASSUME NEW a \in Pids, FindLock(a) PROVE StartsInPast'
    BY <1>8, LocksAssumption DEF FindLock, Goto, TypeOK, StartsInPast, Record, dbVars, procVars
<1>9. ASSUME NEW a \in Pids, PutLock(a) PROVE StartsInPast'
    BY <1>9, LocksAssumption DEF PutLock, Goto, WriteLockDataCurrent, TypeOK, StartsInPast,
        Record, Bookkeeping, Inside, dbVars, procVars
<1>10. ASSUME NEW a \in Pids, WriteLock(a) PROVE StartsInPast'
    BY <1>10, LocksAssumption DEF WriteLock, Goto, WriteLockDataCurrent, TypeOK,
        StartsInPast, Record, Bookkeeping, Inside, dbVars, procVars
<1>11. ASSUME NEW a \in Pids, LeaveSection(a) PROVE StartsInPast'
    BY <1>11, LocksAssumption DEF LeaveSection, Goto, TypeOK, StartsInPast, Record, dbVars,
        procVars
<1>12. ASSUME NEW a \in Pids, Refuse(a) PROVE StartsInPast'
    BY <1>12, LocksAssumption DEF Refuse, Goto, TypeOK, StartsInPast, Record, dbVars, procVars
<1>13. ASSUME NEW a \in Pids, KillLockHolder(a) PROVE StartsInPast'
    BY <1>13, LocksAssumption DEF KillLockHolder, Goto, Live, Interrupt, TypeOK,
        StartsInPast, Record, Bookkeeping, Inside, dbVars, procVars
<1>14. ASSUME NEW a \in Pids, HolderExited(a) PROVE StartsInPast'
    BY <1>14, LocksAssumption DEF HolderExited, Goto, Live, TypeOK, StartsInPast, Record,
        dbVars, procVars
<1>15. ASSUME NEW a \in Pids, ForceKill(a) PROVE StartsInPast'
    BY <1>15, LocksAssumption DEF ForceKill, Goto, Live, Vanish, TypeOK, StartsInPast,
        Record, dbVars, procVars
<1>16. ASSUME NEW a \in Pids, KillFails(a) PROVE StartsInPast'
    BY <1>16, LocksAssumption DEF KillFails, Goto, Live, TypeOK, StartsInPast, Record,
        dbVars, procVars
<1>17. ASSUME NEW a \in Pids, Exit(a) PROVE StartsInPast'
    BY <1>17, LocksAssumption DEF Exit, Goto, Interrupt, TypeOK, StartsInPast, Record,
        dbVars, procVars
<1>18. ASSUME NEW a \in Pids, NEW p \in Promises, ExitRemove(a, p) PROVE StartsInPast'
    BY <1>18, LocksAssumption DEF ExitRemove, Goto, TypeOK, StartsInPast, Record, dbVars,
        procVars
<1>19. ASSUME NEW a \in Pids, ExitLast(a) PROVE StartsInPast'
    BY <1>19, LocksAssumption DEF ExitLast, Goto, CompleteLast, WriteLast, TypeOK,
        StartsInPast, Record, dbVars, procVars
<1>20. ASSUME NEW a \in Pids, ExitDone(a) PROVE StartsInPast'
    BY <1>20, LocksAssumption DEF ExitDone, Goto, Vanish, TypeOK, StartsInPast, Record,
        dbVars, procVars
<1>21. ASSUME NEW a \in Pids, Crash(a) PROVE StartsInPast'
    BY <1>21, LocksAssumption DEF Crash, Goto, Vanish, TypeOK, StartsInPast, Record, dbVars,
        procVars
<1>22. ASSUME NEW a \in Pids, NEW p \in Promises, YieldRemove(a, p) PROVE StartsInPast'
    BY <1>22, LocksAssumption DEF YieldRemove, Goto, TypeOK, StartsInPast, Record, dbVars,
        procVars
<1>23. ASSUME NEW a \in Pids, YieldLast(a) PROVE StartsInPast'
    BY <1>23, LocksAssumption DEF YieldLast, Goto, CompleteLast, WriteLast, TypeOK,
        StartsInPast, Record, dbVars, procVars
<1>24. ASSUME NEW a \in Pids, PurgeLocks(a) PROVE StartsInPast'
    BY <1>24, LocksAssumption DEF PurgeLocks, Goto, Purgeable, Live, TypeOK, StartsInPast,
        Record, dbVars, procVars
<1>25. ASSUME NEW a \in Pids, BackupLockDatabase(a) PROVE StartsInPast'
    BY <1>25, LocksAssumption DEF BackupLockDatabase, Goto, TypeOK, StartsInPast, Record,
        dbVars, procVars
<1>26. CASE UNCHANGED vars
    BY <1>26, LocksAssumption DEF vars, dbVars, procVars, TypeOK, StartsInPast, Record
<1>27. ASSUME NEW a \in Pids, GracefulTerminate(a) PROVE StartsInPast'
    BY <1>27, LocksAssumption DEF GracefulTerminate, Goto, Interrupt, TypeOK, StartsInPast,
        Record, dbVars, procVars
<1>. QED
    BY <1>1, <1>2, <1>3, <1>4, <1>5, <1>6, <1>7, <1>8, <1>9, <1>10, <1>11, <1>12, <1>13,
        <1>14, <1>15, <1>16, <1>17, <1>18, <1>19, <1>20, <1>21, <1>22, <1>23, <1>24, <1>25,
        <1>26, <1>27
    DEF Next, Acquire, Terminate, Yield, EndRun

\* Every action keeps Yielded.
LEMMA YieldedStep ==
    ASSUME TypeOK, Bookkeeping, StartsInPast, Yielded, [Next]_vars PROVE Yielded'
<1>1. CASE Tick
    BY <1>1, LocksAssumption DEF Tick, TypeOK, Bookkeeping, StartsInPast, Yielded, Own,
        Record, Inside, dbVars, procVars
<1>2. ASSUME NEW a \in Pids, Start(a) PROVE Yielded'
    BY <1>2, LocksAssumption DEF Start, Goto, TypeOK, Bookkeeping, StartsInPast, Yielded,
        Own, Record, Inside, dbVars, procVars
<1>3. ASSUME NEW a \in Pids, NEW p \in Promises, AcquireLock(a, p) PROVE Yielded'
    BY <1>3, LocksAssumption DEF AcquireLock, Goto, TypeOK, Bookkeeping, StartsInPast,
        Yielded, Own, Record, Inside, dbVars, procVars
<1>4. ASSUME NEW a \in Pids, WaitForCriticalSection(a) PROVE Yielded'
    BY <1>4, LocksAssumption DEF WaitForCriticalSection, Goto, TypeOK, Bookkeeping,
        StartsInPast, Yielded, Own, Record, Inside, dbVars, procVars
<1>5. ASSUME NEW a \in Pids, EnterSection(a) PROVE Yielded'
    BY <1>5, LocksAssumption DEF EnterSection, Goto, TypeOK, Bookkeeping, StartsInPast,
        Yielded, Own, Record, Inside, dbVars, procVars
<1>6. ASSUME NEW a \in Pids, FindLast(a) PROVE Yielded'
    BY <1>6, LocksAssumption DEF FindLast, Goto, TypeOK, Bookkeeping, StartsInPast, Yielded,
        Own, Record, Inside, dbVars, procVars
<1>7. ASSUME NEW a \in Pids, PutLast(a) PROVE Yielded'
    BY <1>7, LocksAssumption DEF PutLast, Goto, WriteLast, TypeOK, Bookkeeping,
        StartsInPast, Yielded, Own, Record, Inside, dbVars, procVars
<1>8. ASSUME NEW a \in Pids, FindLock(a) PROVE Yielded'
    BY <1>8, LocksAssumption DEF FindLock, Goto, TypeOK, Bookkeeping, StartsInPast, Yielded,
        Own, Record, Inside, dbVars, procVars
<1>9. ASSUME NEW a \in Pids, PutLock(a) PROVE Yielded'
    BY <1>9, LocksAssumption DEF PutLock, Goto, WriteLockDataCurrent, TypeOK, Bookkeeping,
        StartsInPast, Yielded, Own, Record, Inside, dbVars, procVars
<1>10. ASSUME NEW a \in Pids, WriteLock(a) PROVE Yielded'
    BY <1>10, LocksAssumption DEF WriteLock, Goto, WriteLockDataCurrent, TypeOK,
        Bookkeeping, StartsInPast, Yielded, Own, Record, Inside, dbVars, procVars
<1>11. ASSUME NEW a \in Pids, LeaveSection(a) PROVE Yielded'
    BY <1>11, LocksAssumption DEF LeaveSection, Goto, TypeOK, Bookkeeping, StartsInPast,
        Yielded, Own, Record, Inside, dbVars, procVars
<1>12. ASSUME NEW a \in Pids, Refuse(a) PROVE Yielded'
    BY <1>12, LocksAssumption DEF Refuse, Goto, TypeOK, Bookkeeping, StartsInPast, Yielded,
        Own, Record, Inside, dbVars, procVars
<1>13. ASSUME NEW a \in Pids, KillLockHolder(a) PROVE Yielded'
    BY <1>13, LocksAssumption DEF KillLockHolder, Goto, Live, Interrupt, TypeOK,
        Bookkeeping, StartsInPast, Yielded, Own, Record, Inside, Exiting, dbVars, procVars
<1>14. ASSUME NEW a \in Pids, HolderExited(a) PROVE Yielded'
    BY <1>14, LocksAssumption DEF HolderExited, Goto, Live, TypeOK, Bookkeeping,
        StartsInPast, Yielded, Own, Record, Inside, dbVars, procVars
<1>15. ASSUME NEW a \in Pids, ForceKill(a) PROVE Yielded'
    BY <1>15, LocksAssumption DEF ForceKill, Goto, Live, Vanish, TypeOK, Bookkeeping,
        StartsInPast, Yielded, Own, Record, Inside, dbVars, procVars
<1>16. ASSUME NEW a \in Pids, KillFails(a) PROVE Yielded'
    BY <1>16, LocksAssumption DEF KillFails, Goto, Live, TypeOK, Bookkeeping, StartsInPast,
        Yielded, Own, Record, Inside, dbVars, procVars
<1>17. ASSUME NEW a \in Pids, Exit(a) PROVE Yielded'
    BY <1>17, LocksAssumption DEF Exit, Goto, Interrupt, TypeOK, Bookkeeping, StartsInPast,
        Yielded, Own, Record, Inside, Exiting, dbVars, procVars
<1>18. ASSUME NEW a \in Pids, NEW p \in Promises, ExitRemove(a, p) PROVE Yielded'
    BY <1>18, LocksAssumption DEF ExitRemove, Goto, TypeOK, Bookkeeping, StartsInPast,
        Yielded, Own, Record, Inside, dbVars, procVars
<1>19. ASSUME NEW a \in Pids, ExitLast(a) PROVE Yielded'
    BY <1>19, LocksAssumption DEF ExitLast, Goto, CompleteLast, WriteLast, TypeOK,
        Bookkeeping, StartsInPast, Yielded, Own, Record, Inside, dbVars, procVars
<1>20. ASSUME NEW a \in Pids, ExitDone(a) PROVE Yielded'
    BY <1>20, LocksAssumption DEF ExitDone, Goto, Vanish, TypeOK, Bookkeeping, StartsInPast,
        Yielded, Own, Record, Inside, dbVars, procVars
<1>21. ASSUME NEW a \in Pids, Crash(a) PROVE Yielded'
    BY <1>21, LocksAssumption DEF Crash, Goto, Vanish, TypeOK, Bookkeeping, StartsInPast,
        Yielded, Own, Record, Inside, dbVars, procVars
<1>22. ASSUME NEW a \in Pids, NEW p \in Promises, YieldRemove(a, p) PROVE Yielded'
    BY <1>22, LocksAssumption DEF YieldRemove, Goto, TypeOK, Bookkeeping, StartsInPast,
        Yielded, Own, Record, Inside, dbVars, procVars
<1>23. ASSUME NEW a \in Pids, YieldLast(a) PROVE Yielded'
    BY <1>23, LocksAssumption DEF YieldLast, Goto, CompleteLast, WriteLast, TypeOK,
        Bookkeeping, StartsInPast, Yielded, Own, Record, Inside, dbVars, procVars
<1>24. ASSUME NEW a \in Pids, PurgeLocks(a) PROVE Yielded'
    BY <1>24, LocksAssumption DEF PurgeLocks, Goto, Purgeable, Live, TypeOK, Bookkeeping,
        StartsInPast, Yielded, Own, Record, Inside, dbVars, procVars
<1>25. ASSUME NEW a \in Pids, BackupLockDatabase(a) PROVE Yielded'
    BY <1>25, LocksAssumption DEF BackupLockDatabase, Goto, TypeOK, Bookkeeping,
        StartsInPast, Yielded, Own, Record, Inside, dbVars, procVars
<1>26. CASE UNCHANGED vars
    BY <1>26, LocksAssumption DEF vars, dbVars, procVars, TypeOK, Bookkeeping, StartsInPast,
        Yielded, Own, Record, Inside
<1>27. ASSUME NEW a \in Pids, GracefulTerminate(a) PROVE Yielded'
    BY <1>27, LocksAssumption DEF GracefulTerminate, Goto, Live, Interrupt, TypeOK,
        Bookkeeping, StartsInPast, Yielded, Own, Record, Inside, Exiting, dbVars, procVars
<1>. QED
    BY <1>1, <1>2, <1>3, <1>4, <1>5, <1>6, <1>7, <1>8, <1>9, <1>10, <1>11, <1>12, <1>13,
        <1>14, <1>15, <1>16, <1>17, <1>18, <1>19, <1>20, <1>21, <1>22, <1>23, <1>24, <1>25,
        <1>26, <1>27
    DEF Next, Acquire, Terminate, Yield, EndRun

\* Every action keeps RecordInv.
LEMMA RecordStep ==
    ASSUME TypeOK, Bookkeeping, StartsInPast, Yielded, RecordInv, [Next]_vars PROVE RecordInv'
<1>1. CASE Tick
    BY <1>1, LocksAssumption DEF Tick, TypeOK, Bookkeeping, StartsInPast, Yielded,
        RecordInv, BusyWith, Own, Live, Record, Inside, Exiting, dbVars, procVars
<1>2. ASSUME NEW a \in Pids, Start(a) PROVE RecordInv'
    BY <1>2, LocksAssumption DEF Start, Goto, TypeOK, Bookkeeping, StartsInPast, Yielded,
        RecordInv, BusyWith, Own, Live, Record, Inside, Exiting, dbVars, procVars
<1>3. ASSUME NEW a \in Pids, NEW p \in Promises, AcquireLock(a, p) PROVE RecordInv'
    BY <1>3, LocksAssumption DEF AcquireLock, Goto, TypeOK, Bookkeeping, StartsInPast,
        Yielded, RecordInv, BusyWith, Own, Live, Record, Inside, Exiting, dbVars, procVars
<1>4. ASSUME NEW a \in Pids, WaitForCriticalSection(a) PROVE RecordInv'
    BY <1>4, LocksAssumption DEF WaitForCriticalSection, Goto, TypeOK, Bookkeeping,
        StartsInPast, Yielded, RecordInv, BusyWith, Own, Live, Record, Inside, Exiting,
        dbVars, procVars
<1>5. ASSUME NEW a \in Pids, EnterSection(a) PROVE RecordInv'
    BY <1>5, LocksAssumption DEF EnterSection, Goto, TypeOK, Bookkeeping, StartsInPast,
        Yielded, RecordInv, BusyWith, Own, Live, Record, Inside, Exiting, dbVars, procVars
<1>6. ASSUME NEW a \in Pids, FindLast(a) PROVE RecordInv'
    BY <1>6, LocksAssumption DEF FindLast, Goto, TypeOK, Bookkeeping, StartsInPast, Yielded,
        RecordInv, BusyWith, Own, Live, Record, Inside, Exiting, dbVars, procVars
<1>7. ASSUME NEW a \in Pids, PutLast(a) PROVE RecordInv'
    BY <1>7, LocksAssumption DEF PutLast, Goto, WriteLast, TypeOK, Bookkeeping,
        StartsInPast, Yielded, RecordInv, BusyWith, Own, Live, Record, Inside, Exiting,
        dbVars, procVars
<1>8. ASSUME NEW a \in Pids, FindLock(a) PROVE RecordInv'
    BY <1>8, LocksAssumption DEF FindLock, Goto, TypeOK, Bookkeeping, StartsInPast, Yielded,
        RecordInv, BusyWith, Own, Live, Record, Inside, Exiting, dbVars, procVars
<1>9. ASSUME NEW a \in Pids, PutLock(a) PROVE RecordInv'
    BY <1>9, LocksAssumption DEF PutLock, Goto, WriteLockDataCurrent, TypeOK, Bookkeeping,
        StartsInPast, Yielded, RecordInv, BusyWith, Own, Live, Record, Inside, Exiting,
        dbVars, procVars
<1>10. ASSUME NEW a \in Pids, WriteLock(a) PROVE RecordInv'
    BY <1>10, LocksAssumption DEF WriteLock, Goto, WriteLockDataCurrent, TypeOK,
        Bookkeeping, StartsInPast, Yielded, RecordInv, BusyWith, Own, Live, Record, Inside,
        Exiting, dbVars, procVars
<1>11. ASSUME NEW a \in Pids, LeaveSection(a) PROVE RecordInv'
    BY <1>11, LocksAssumption DEF LeaveSection, Goto, TypeOK, Bookkeeping, StartsInPast,
        Yielded, RecordInv, BusyWith, Own, Live, Record, Inside, Exiting, dbVars, procVars
<1>12. ASSUME NEW a \in Pids, Refuse(a) PROVE RecordInv'
    BY <1>12, LocksAssumption DEF Refuse, Goto, TypeOK, Bookkeeping, StartsInPast, Yielded,
        RecordInv, BusyWith, Own, Live, Record, Inside, Exiting, dbVars, procVars
<1>13. ASSUME NEW a \in Pids, KillLockHolder(a) PROVE RecordInv'
    BY <1>13, LocksAssumption DEF KillLockHolder, Goto, Live, Interrupt, TypeOK,
        Bookkeeping, StartsInPast, Yielded, RecordInv, BusyWith, Own, Record, Inside,
        Exiting, dbVars, procVars
<1>14. ASSUME NEW a \in Pids, HolderExited(a) PROVE RecordInv'
    BY <1>14, LocksAssumption DEF HolderExited, Goto, Live, TypeOK, Bookkeeping,
        StartsInPast, Yielded, RecordInv, BusyWith, Own, Record, Inside, Exiting, dbVars,
        procVars
<1>15. ASSUME NEW a \in Pids, ForceKill(a) PROVE RecordInv'
    BY <1>15, LocksAssumption DEF ForceKill, Goto, Live, Vanish, TypeOK, Bookkeeping,
        StartsInPast, Yielded, RecordInv, BusyWith, Own, Record, Inside, Exiting, dbVars,
        procVars
<1>16. ASSUME NEW a \in Pids, KillFails(a) PROVE RecordInv'
    BY <1>16, LocksAssumption DEF KillFails, Goto, Live, TypeOK, Bookkeeping, StartsInPast,
        Yielded, RecordInv, BusyWith, Own, Record, Inside, Exiting, dbVars, procVars
<1>17. ASSUME NEW a \in Pids, Exit(a) PROVE RecordInv'
    BY <1>17, LocksAssumption DEF Exit, Goto, Interrupt, TypeOK, Bookkeeping, StartsInPast,
        Yielded, RecordInv, BusyWith, Own, Live, Record, Inside, Exiting, dbVars, procVars
<1>18. ASSUME NEW a \in Pids, NEW p \in Promises, ExitRemove(a, p) PROVE RecordInv'
    BY <1>18, LocksAssumption DEF ExitRemove, Goto, TypeOK, Bookkeeping, StartsInPast,
        Yielded, RecordInv, BusyWith, Own, Live, Record, Inside, Exiting, dbVars, procVars
<1>19. ASSUME NEW a \in Pids, ExitLast(a) PROVE RecordInv'
    BY <1>19, LocksAssumption DEF ExitLast, Goto, CompleteLast, WriteLast, TypeOK,
        Bookkeeping, StartsInPast, Yielded, RecordInv, BusyWith, Own, Live, Record, Inside,
        Exiting, dbVars, procVars
<1>20. ASSUME NEW a \in Pids, ExitDone(a) PROVE RecordInv'
    BY <1>20, LocksAssumption DEF ExitDone, Goto, Vanish, TypeOK, Bookkeeping, StartsInPast,
        Yielded, RecordInv, BusyWith, Own, Live, Record, Inside, Exiting, dbVars, procVars
<1>21. ASSUME NEW a \in Pids, Crash(a) PROVE RecordInv'
    BY <1>21, LocksAssumption DEF Crash, Goto, Vanish, TypeOK, Bookkeeping, StartsInPast,
        Yielded, RecordInv, BusyWith, Own, Live, Record, Inside, Exiting, dbVars, procVars
<1>22. ASSUME NEW a \in Pids, NEW p \in Promises, YieldRemove(a, p) PROVE RecordInv'
    BY <1>22, LocksAssumption DEF YieldRemove, Goto, TypeOK, Bookkeeping, StartsInPast,
        Yielded, RecordInv, BusyWith, Own, Live, Record, Inside, Exiting, dbVars, procVars
<1>23. ASSUME NEW a \in Pids, YieldLast(a) PROVE RecordInv'
    BY <1>23, LocksAssumption DEF YieldLast, Goto, CompleteLast, WriteLast, TypeOK,
        Bookkeeping, StartsInPast, Yielded, RecordInv, BusyWith, Own, Live, Record, Inside,
        Exiting, dbVars, procVars
<1>24. ASSUME NEW a \in Pids, PurgeLocks(a) PROVE RecordInv'
    BY <1>24, LocksAssumption DEF PurgeLocks, Goto, Purgeable, Live, TypeOK, Bookkeeping,
        StartsInPast, Yielded, RecordInv, BusyWith, Own, Record, Inside, Exiting, dbVars,
        procVars
<1>25. ASSUME NEW a \in Pids, BackupLockDatabase(a) PROVE RecordInv'
    BY <1>25, LocksAssumption DEF BackupLockDatabase, Goto, TypeOK, Bookkeeping,
        StartsInPast, Yielded, RecordInv, BusyWith, Own, Live, Record, Inside, Exiting,
        dbVars, procVars
<1>26. CASE UNCHANGED vars
    BY <1>26, LocksAssumption DEF vars, dbVars, procVars, TypeOK, Bookkeeping, StartsInPast,
        Yielded, RecordInv, BusyWith, Own, Live, Record, Inside, Exiting
<1>27. ASSUME NEW a \in Pids, GracefulTerminate(a) PROVE RecordInv'
    BY <1>27, LocksAssumption DEF GracefulTerminate, Goto, Live, Interrupt, TypeOK,
        Bookkeeping, StartsInPast, Yielded, RecordInv, BusyWith, Own, Record, Inside,
        Exiting, dbVars, procVars
<1>. QED
    BY <1>1, <1>2, <1>3, <1>4, <1>5, <1>6, <1>7, <1>8, <1>9, <1>10, <1>11, <1>12, <1>13,
        <1>14, <1>15, <1>16, <1>17, <1>18, <1>19, <1>20, <1>21, <1>22, <1>23, <1>24, <1>25,
        <1>26, <1>27
    DEF Next, Acquire, Terminate, Yield, EndRun

\* Every action keeps VictimInv: a process cannot yield between the read of its record
\* and the signal without leaving the mark "late".
LEMMA VictimStep ==
    ASSUME TypeOK, Bookkeeping, StartsInPast, Yielded, RecordInv, VictimInv, [Next]_vars
    PROVE  VictimInv'
<1>1. CASE Tick
    BY <1>1, LocksAssumption DEF Tick, procVars, TypeOK, VictimInv, BusyWith, Live,
        Bookkeeping, StartsInPast, Record, Inside, Exiting, dbVars
<1>2. ASSUME NEW a \in Pids, Start(a) PROVE VictimInv'
    BY <1>2, LocksAssumption DEF Start, Goto, TypeOK, VictimInv, BusyWith, Live,
        Bookkeeping, StartsInPast, Record, Inside, Exiting, dbVars
<1>3. ASSUME NEW a \in Pids, NEW p \in Promises, AcquireLock(a, p) PROVE VictimInv'
    BY <1>3, LocksAssumption DEF AcquireLock, Goto, TypeOK, VictimInv, BusyWith, Live,
        Bookkeeping, StartsInPast, Record, Inside, Exiting, dbVars
<1>4. ASSUME NEW a \in Pids, WaitForCriticalSection(a) PROVE VictimInv'
    BY <1>4, LocksAssumption DEF WaitForCriticalSection, Goto, TypeOK, VictimInv,
        BusyWith, Live, Bookkeeping, StartsInPast, Record, Inside, Exiting, dbVars
<1>5. ASSUME NEW a \in Pids, EnterSection(a) PROVE VictimInv'
    BY <1>5, LocksAssumption DEF EnterSection, Goto, TypeOK, VictimInv, BusyWith, Live,
        Bookkeeping, StartsInPast, Record, Inside, Exiting, dbVars
<1>6. ASSUME NEW a \in Pids, FindLast(a) PROVE VictimInv'
    BY <1>6, LocksAssumption DEF FindLast, Goto, TypeOK, VictimInv, BusyWith, Live,
        Bookkeeping, StartsInPast, Record, Inside, Exiting, dbVars
<1>7. ASSUME NEW a \in Pids, PutLast(a) PROVE VictimInv'
    BY <1>7, LocksAssumption DEF PutLast, Goto, TypeOK, VictimInv, BusyWith, Live,
        Bookkeeping, StartsInPast, Record, Inside, Exiting, dbVars
<1>8. ASSUME NEW a \in Pids, FindLock(a) PROVE VictimInv'
    BY <1>8, LocksAssumption DEF FindLock, Goto, TypeOK, VictimInv, BusyWith, Live,
        Bookkeeping, StartsInPast, Record, Inside, Exiting, dbVars
<1>9. ASSUME NEW a \in Pids, PutLock(a) PROVE VictimInv'
    BY <1>9, LocksAssumption DEF PutLock, Goto, TypeOK, VictimInv, BusyWith, Live,
        Bookkeeping, StartsInPast, Record, Inside, Exiting, dbVars
<1>10. ASSUME NEW a \in Pids, WriteLock(a) PROVE VictimInv'
    BY <1>10, LocksAssumption DEF WriteLock, Goto, TypeOK, VictimInv, BusyWith, Live,
        Bookkeeping, StartsInPast, Record, Inside, Exiting, dbVars
<1>11. ASSUME NEW a \in Pids, LeaveSection(a) PROVE VictimInv'
    BY <1>11, LocksAssumption DEF LeaveSection, Goto, TypeOK, VictimInv, BusyWith,
        Live, Bookkeeping, StartsInPast, Record, Inside, Exiting, dbVars
<1>12. ASSUME NEW a \in Pids, Refuse(a) PROVE VictimInv'
    BY <1>12, LocksAssumption DEF Refuse, Goto, TypeOK, VictimInv, BusyWith, Live,
        Bookkeeping, StartsInPast, Record, Inside, Exiting, dbVars
<1>13. ASSUME NEW a \in Pids, KillLockHolder(a) PROVE VictimInv'
    BY <1>13, LocksAssumption DEF KillLockHolder, Goto, RecordInv, Yielded, Own,
        TypeOK, VictimInv, BusyWith, Live, Bookkeeping, StartsInPast, Record, Inside,
        Exiting, dbVars
<1>14. ASSUME NEW a \in Pids, HolderExited(a) PROVE VictimInv'
    BY <1>14, LocksAssumption DEF HolderExited, Goto, TypeOK, VictimInv, BusyWith,
        Live, Bookkeeping, StartsInPast, Record, Inside, Exiting, dbVars
<1>15. ASSUME NEW a \in Pids, ForceKill(a) PROVE VictimInv'
    BY <1>15, LocksAssumption DEF ForceKill, Goto, Vanish, TypeOK, VictimInv, BusyWith,
        Live, Bookkeeping, StartsInPast, Record, Inside, Exiting, dbVars
<1>16. ASSUME NEW a \in Pids, KillFails(a) PROVE VictimInv'
    BY <1>16, LocksAssumption DEF KillFails, Goto, TypeOK, VictimInv, BusyWith, Live,
        Bookkeeping, StartsInPast, Record, Inside, Exiting, dbVars
<1>17. ASSUME NEW a \in Pids, Exit(a) PROVE VictimInv'
    BY <1>17, LocksAssumption DEF Exit, Goto, Interrupt, TypeOK, VictimInv, BusyWith,
        Live, Bookkeeping, StartsInPast, Record, Inside, Exiting, dbVars
<1>18. ASSUME NEW a \in Pids, NEW p \in Promises, ExitRemove(a, p) PROVE VictimInv'
    BY <1>18, LocksAssumption DEF ExitRemove, Goto, TypeOK, VictimInv, BusyWith, Live,
        Bookkeeping, StartsInPast, Record, Inside, Exiting, dbVars
<1>19. ASSUME NEW a \in Pids, ExitLast(a) PROVE VictimInv'
    BY <1>19, LocksAssumption DEF ExitLast, Goto, CompleteLast, TypeOK, VictimInv,
        BusyWith, Live, Bookkeeping, StartsInPast, Record, Inside, Exiting, dbVars
<1>20. ASSUME NEW a \in Pids, ExitDone(a) PROVE VictimInv'
    BY <1>20, LocksAssumption DEF ExitDone, Goto, Vanish, TypeOK, VictimInv, BusyWith,
        Live, Bookkeeping, StartsInPast, Record, Inside, Exiting, dbVars
<1>21. ASSUME NEW a \in Pids, Crash(a) PROVE VictimInv'
    BY <1>21, LocksAssumption DEF Crash, Goto, Vanish, TypeOK, VictimInv, BusyWith,
        Live, Bookkeeping, StartsInPast, Record, Inside, Exiting, dbVars
<1>22. ASSUME NEW a \in Pids, NEW p \in Promises, YieldRemove(a, p) PROVE VictimInv'
    BY <1>22, LocksAssumption DEF YieldRemove, Goto, Targets, TypeOK, VictimInv,
        BusyWith, Live, Bookkeeping, StartsInPast, Record, Inside, Exiting, dbVars
<1>23. ASSUME NEW a \in Pids, YieldLast(a) PROVE VictimInv'
    BY <1>23, LocksAssumption DEF YieldLast, Goto, CompleteLast, TypeOK, VictimInv,
        BusyWith, Live, Bookkeeping, StartsInPast, Record, Inside, Exiting, dbVars
<1>24. ASSUME NEW a \in Pids, PurgeLocks(a) PROVE VictimInv'
    BY <1>24, LocksAssumption DEF PurgeLocks, Goto, TypeOK, VictimInv, BusyWith, Live,
        Bookkeeping, StartsInPast, Record, Inside, Exiting, dbVars
<1>25. ASSUME NEW a \in Pids, BackupLockDatabase(a) PROVE VictimInv'
    BY <1>25, LocksAssumption DEF BackupLockDatabase, Goto, TypeOK, VictimInv,
        BusyWith, Live, Bookkeeping, StartsInPast, Record, Inside, Exiting, dbVars
<1>26. CASE UNCHANGED vars
    BY <1>26 DEF vars, procVars, TypeOK, VictimInv, BusyWith, Live, Bookkeeping,
        StartsInPast, Record, Inside, Exiting, dbVars
<1>27. ASSUME NEW a \in Pids, GracefulTerminate(a) PROVE VictimInv'
    BY <1>27, LocksAssumption DEF GracefulTerminate, Goto, Interrupt, TypeOK,
        VictimInv, BusyWith, Live, Bookkeeping, StartsInPast, Record, Inside, Exiting,
        dbVars
<1>. QED
    BY <1>1, <1>2, <1>3, <1>4, <1>5, <1>6, <1>7, <1>8, <1>9, <1>10, <1>11, <1>12, <1>13,
        <1>14, <1>15, <1>16, <1>17, <1>18, <1>19, <1>20, <1>21, <1>22, <1>23, <1>24, <1>25,
        <1>26, <1>27
    DEF Next, Acquire, Terminate, Yield, EndRun

\* Every action keeps NeverStopsItself.
LEMMA NeverStopsStep ==
    ASSUME TypeOK, VictimInv, NeverStopsItself, [Next]_vars PROVE NeverStopsItself'
<1>1. CASE Tick
    BY <1>1, LocksAssumption DEF Tick, TypeOK, NeverStopsItself, dbVars, procVars
<1>2. ASSUME NEW a \in Pids, Start(a) PROVE NeverStopsItself'
    BY <1>2, LocksAssumption DEF Start, Goto, TypeOK, NeverStopsItself, dbVars, procVars
<1>3. ASSUME NEW a \in Pids, NEW p \in Promises, AcquireLock(a, p) PROVE NeverStopsItself'
    BY <1>3, LocksAssumption DEF AcquireLock, Goto, TypeOK, NeverStopsItself, dbVars, procVars
<1>4. ASSUME NEW a \in Pids, WaitForCriticalSection(a) PROVE NeverStopsItself'
    BY <1>4, LocksAssumption DEF WaitForCriticalSection, Goto, TypeOK, NeverStopsItself,
        dbVars, procVars
<1>5. ASSUME NEW a \in Pids, EnterSection(a) PROVE NeverStopsItself'
    BY <1>5, LocksAssumption DEF EnterSection, Goto, TypeOK, NeverStopsItself, dbVars, procVars
<1>6. ASSUME NEW a \in Pids, FindLast(a) PROVE NeverStopsItself'
    BY <1>6, LocksAssumption DEF FindLast, Goto, TypeOK, NeverStopsItself, dbVars, procVars
<1>7. ASSUME NEW a \in Pids, PutLast(a) PROVE NeverStopsItself'
    BY <1>7, LocksAssumption DEF PutLast, Goto, WriteLast, TypeOK, NeverStopsItself, dbVars,
        procVars
<1>8. ASSUME NEW a \in Pids, FindLock(a) PROVE NeverStopsItself'
    BY <1>8, LocksAssumption DEF FindLock, Goto, TypeOK, NeverStopsItself, dbVars, procVars
<1>9. ASSUME NEW a \in Pids, PutLock(a) PROVE NeverStopsItself'
    BY <1>9, LocksAssumption DEF PutLock, Goto, WriteLockDataCurrent, TypeOK,
        NeverStopsItself, dbVars, procVars
<1>10. ASSUME NEW a \in Pids, WriteLock(a) PROVE NeverStopsItself'
    BY <1>10, LocksAssumption DEF WriteLock, Goto, WriteLockDataCurrent, TypeOK,
        NeverStopsItself, dbVars, procVars
<1>11. ASSUME NEW a \in Pids, LeaveSection(a) PROVE NeverStopsItself'
    BY <1>11, LocksAssumption DEF LeaveSection, Goto, TypeOK, NeverStopsItself, dbVars,
        procVars
<1>12. ASSUME NEW a \in Pids, Refuse(a) PROVE NeverStopsItself'
    BY <1>12, LocksAssumption DEF Refuse, Goto, TypeOK, NeverStopsItself, dbVars, procVars
<1>13. ASSUME NEW a \in Pids, KillLockHolder(a) PROVE NeverStopsItself'
    BY <1>13 DEF KillLockHolder, Goto, TypeOK, NeverStopsItself
<1>14. ASSUME NEW a \in Pids, HolderExited(a) PROVE NeverStopsItself'
    BY <1>14, LocksAssumption DEF HolderExited, Goto, Live, TypeOK, NeverStopsItself,
        dbVars, procVars
<1>15. ASSUME NEW a \in Pids, ForceKill(a) PROVE NeverStopsItself'
    BY <1>15, LocksAssumption DEF ForceKill, Goto, Live, Vanish, TypeOK, NeverStopsItself,
        dbVars, procVars
<1>16. ASSUME NEW a \in Pids, KillFails(a) PROVE NeverStopsItself'
    BY <1>16, LocksAssumption DEF KillFails, Goto, Live, TypeOK, NeverStopsItself, dbVars,
        procVars
<1>17. ASSUME NEW a \in Pids, Exit(a) PROVE NeverStopsItself'
    BY <1>17, LocksAssumption DEF Exit, Goto, Interrupt, TypeOK, NeverStopsItself, Exiting,
        dbVars, procVars
<1>18. ASSUME NEW a \in Pids, NEW p \in Promises, ExitRemove(a, p) PROVE NeverStopsItself'
    BY <1>18, LocksAssumption DEF ExitRemove, Goto, TypeOK, NeverStopsItself, dbVars, procVars
<1>19. ASSUME NEW a \in Pids, ExitLast(a) PROVE NeverStopsItself'
    BY <1>19, LocksAssumption DEF ExitLast, Goto, CompleteLast, WriteLast, TypeOK,
        NeverStopsItself, dbVars, procVars
<1>20. ASSUME NEW a \in Pids, ExitDone(a) PROVE NeverStopsItself'
    BY <1>20, LocksAssumption DEF ExitDone, Goto, Vanish, TypeOK, NeverStopsItself, dbVars,
        procVars
<1>21. ASSUME NEW a \in Pids, Crash(a) PROVE NeverStopsItself'
    BY <1>21, LocksAssumption DEF Crash, Goto, Vanish, TypeOK, NeverStopsItself, dbVars,
        procVars
<1>22. ASSUME NEW a \in Pids, NEW p \in Promises, YieldRemove(a, p) PROVE NeverStopsItself'
    BY <1>22, LocksAssumption DEF YieldRemove, Goto, TypeOK, NeverStopsItself, dbVars, procVars
<1>23. ASSUME NEW a \in Pids, YieldLast(a) PROVE NeverStopsItself'
    BY <1>23, LocksAssumption DEF YieldLast, Goto, CompleteLast, WriteLast, TypeOK,
        NeverStopsItself, dbVars, procVars
<1>24. ASSUME NEW a \in Pids, PurgeLocks(a) PROVE NeverStopsItself'
    BY <1>24, LocksAssumption DEF PurgeLocks, Goto, Purgeable, Live, TypeOK,
        NeverStopsItself, dbVars, procVars
<1>25. ASSUME NEW a \in Pids, BackupLockDatabase(a) PROVE NeverStopsItself'
    BY <1>25, LocksAssumption DEF BackupLockDatabase, Goto, TypeOK, NeverStopsItself,
        dbVars, procVars
<1>26. CASE UNCHANGED vars
    BY <1>26, LocksAssumption DEF vars, dbVars, procVars, TypeOK, NeverStopsItself
<1>27. ASSUME NEW a \in Pids, GracefulTerminate(a) PROVE NeverStopsItself'
    BY <1>27 DEF GracefulTerminate, Goto, Interrupt, Exiting, VictimInv, TypeOK,
        NeverStopsItself
<1>. QED
    BY <1>1, <1>2, <1>3, <1>4, <1>5, <1>6, <1>7, <1>8, <1>9, <1>10, <1>11, <1>12, <1>13,
        <1>14, <1>15, <1>16, <1>17, <1>18, <1>19, <1>20, <1>21, <1>22, <1>23, <1>24, <1>25,
        <1>26, <1>27
    DEF Next, Acquire, Terminate, Yield, EndRun

\* Every action keeps SectionInv.
LEMMA SectionStep ==
    ASSUME TypeOK, Bookkeeping, SectionInv, [Next]_vars PROVE SectionInv'
<1>1. CASE Tick
    BY <1>1, LocksAssumption DEF Tick, TypeOK, Bookkeeping, SectionInv, Elapsed, Record,
        Inside, Exiting, dbVars, procVars
<1>2. ASSUME NEW a \in Pids, Start(a) PROVE SectionInv'
    BY <1>2, LocksAssumption DEF Start, Goto, TypeOK, Bookkeeping, SectionInv, Elapsed,
        Record, Inside, Exiting, dbVars, procVars
<1>3. ASSUME NEW a \in Pids, NEW p \in Promises, AcquireLock(a, p) PROVE SectionInv'
    BY <1>3, LocksAssumption DEF AcquireLock, Goto, TypeOK, Bookkeeping, SectionInv,
        Elapsed, Record, Inside, Exiting, dbVars, procVars
<1>4. ASSUME NEW a \in Pids, WaitForCriticalSection(a) PROVE SectionInv'
    BY <1>4, LocksAssumption DEF WaitForCriticalSection, Goto, TypeOK, Bookkeeping,
        SectionInv, Elapsed, Record, Inside, Exiting, dbVars, procVars
<1>5. ASSUME NEW a \in Pids, EnterSection(a) PROVE SectionInv'
    BY <1>5, LocksAssumption DEF EnterSection, Goto, TypeOK, Bookkeeping, SectionInv,
        Elapsed, Record, Inside, Exiting, dbVars, procVars
<1>6. ASSUME NEW a \in Pids, FindLast(a) PROVE SectionInv'
    BY <1>6, LocksAssumption DEF FindLast, Goto, TypeOK, Bookkeeping, SectionInv, Elapsed,
        Record, Inside, Exiting, dbVars, procVars
<1>7. ASSUME NEW a \in Pids, PutLast(a) PROVE SectionInv'
    BY <1>7, LocksAssumption DEF PutLast, Goto, WriteLast, TypeOK, Bookkeeping, SectionInv,
        Elapsed, Record, Inside, Exiting, dbVars, procVars
<1>8. ASSUME NEW a \in Pids, FindLock(a) PROVE SectionInv'
    BY <1>8, LocksAssumption DEF FindLock, Goto, TypeOK, Bookkeeping, SectionInv, Elapsed,
        Record, Inside, Exiting, dbVars, procVars
<1>9. ASSUME NEW a \in Pids, PutLock(a) PROVE SectionInv'
    BY <1>9, LocksAssumption DEF PutLock, Goto, WriteLockDataCurrent, TypeOK, Bookkeeping,
        SectionInv, Elapsed, Record, Inside, Exiting, dbVars, procVars
<1>10. ASSUME NEW a \in Pids, WriteLock(a) PROVE SectionInv'
    BY <1>10, LocksAssumption DEF WriteLock, Goto, WriteLockDataCurrent, TypeOK,
        Bookkeeping, SectionInv, Elapsed, Record, Inside, Exiting, dbVars, procVars
<1>11. ASSUME NEW a \in Pids, LeaveSection(a) PROVE SectionInv'
    BY <1>11, LocksAssumption DEF LeaveSection, Goto, TypeOK, Bookkeeping, SectionInv,
        Elapsed, Record, Inside, Exiting, dbVars, procVars
<1>12. ASSUME NEW a \in Pids, Refuse(a) PROVE SectionInv'
    BY <1>12, LocksAssumption DEF Refuse, Goto, TypeOK, Bookkeeping, SectionInv, Elapsed,
        Record, Inside, Exiting, dbVars, procVars
<1>13. ASSUME NEW a \in Pids, KillLockHolder(a) PROVE SectionInv'
    BY <1>13, LocksAssumption DEF KillLockHolder, Goto, Live, Interrupt, TypeOK,
        Bookkeeping, SectionInv, Elapsed, Record, Inside, Exiting, dbVars, procVars
<1>14. ASSUME NEW a \in Pids, HolderExited(a) PROVE SectionInv'
    BY <1>14, LocksAssumption DEF HolderExited, Goto, Live, TypeOK, Bookkeeping, SectionInv,
        Elapsed, Record, Inside, Exiting, dbVars, procVars
<1>15. ASSUME NEW a \in Pids, ForceKill(a) PROVE SectionInv'
    BY <1>15, LocksAssumption DEF ForceKill, Goto, Live, Vanish, TypeOK, Bookkeeping,
        SectionInv, Elapsed, Record, Inside, Exiting, dbVars, procVars
<1>16. ASSUME NEW a \in Pids, KillFails(a) PROVE SectionInv'
    BY <1>16, LocksAssumption DEF KillFails, Goto, Live, TypeOK, Bookkeeping, SectionInv,
        Elapsed, Record, Inside, Exiting, dbVars, procVars
<1>17. ASSUME NEW a \in Pids, Exit(a) PROVE SectionInv'
    BY <1>17, LocksAssumption DEF Exit, Goto, Interrupt, TypeOK, Bookkeeping, SectionInv,
        Elapsed, Record, Inside, Exiting, dbVars, procVars
<1>18. ASSUME NEW a \in Pids, NEW p \in Promises, ExitRemove(a, p) PROVE SectionInv'
    BY <1>18, LocksAssumption DEF ExitRemove, Goto, TypeOK, Bookkeeping, SectionInv,
        Elapsed, Record, Inside, Exiting, dbVars, procVars
<1>19. ASSUME NEW a \in Pids, ExitLast(a) PROVE SectionInv'
    BY <1>19, LocksAssumption DEF ExitLast, Goto, CompleteLast, WriteLast, TypeOK,
        Bookkeeping, SectionInv, Elapsed, Record, Inside, Exiting, dbVars, procVars
<1>20. ASSUME NEW a \in Pids, ExitDone(a) PROVE SectionInv'
    BY <1>20, LocksAssumption DEF ExitDone, Goto, Vanish, TypeOK, Bookkeeping, SectionInv,
        Elapsed, Record, Inside, Exiting, dbVars, procVars
<1>21. ASSUME NEW a \in Pids, Crash(a) PROVE SectionInv'
    BY <1>21, LocksAssumption DEF Crash, Goto, Vanish, TypeOK, Bookkeeping, SectionInv,
        Elapsed, Record, Inside, Exiting, dbVars, procVars
<1>22. ASSUME NEW a \in Pids, NEW p \in Promises, YieldRemove(a, p) PROVE SectionInv'
    BY <1>22, LocksAssumption DEF YieldRemove, Goto, TypeOK, Bookkeeping, SectionInv,
        Elapsed, Record, Inside, Exiting, dbVars, procVars
<1>23. ASSUME NEW a \in Pids, YieldLast(a) PROVE SectionInv'
    BY <1>23, LocksAssumption DEF YieldLast, Goto, CompleteLast, WriteLast, TypeOK,
        Bookkeeping, SectionInv, Elapsed, Record, Inside, Exiting, dbVars, procVars
<1>24. ASSUME NEW a \in Pids, PurgeLocks(a) PROVE SectionInv'
    BY <1>24, LocksAssumption DEF PurgeLocks, Goto, Purgeable, Live, TypeOK, Bookkeeping,
        SectionInv, Elapsed, Record, Inside, Exiting, dbVars, procVars
<1>25. ASSUME NEW a \in Pids, BackupLockDatabase(a) PROVE SectionInv'
    BY <1>25, LocksAssumption DEF BackupLockDatabase, Goto, TypeOK, Bookkeeping, SectionInv,
        Elapsed, Record, Inside, Exiting, dbVars, procVars
<1>26. CASE UNCHANGED vars
    BY <1>26, LocksAssumption DEF vars, dbVars, procVars, TypeOK, Bookkeeping, SectionInv,
        Elapsed, Record, Inside, Exiting
<1>27. ASSUME NEW a \in Pids, GracefulTerminate(a) PROVE SectionInv'
    <2>1. UNCHANGED <<lock, born, victim>> /\ breach \subseteq breach' /\ pc[a] = "signal"
        BY <1>27 DEF GracefulTerminate, Interrupt, dbVars
    <2>2. pc'[a] \in {"write", "stopped", "killwait", "exit"}
        BY <1>27 DEF GracefulTerminate, Goto, Interrupt, Exiting, TypeOK
    <2>3. \A b \in Pids \ {a} : \/ pc'[b] = pc[b] /\ cur'[b] = cur[b]
                                \/ pc'[b] = "exit"
        BY <1>27 DEF GracefulTerminate, Goto, Interrupt, Exiting, TypeOK
    <2>. QED  BY <2>1, <2>2, <2>3 DEF SectionInv, Elapsed, Inside
<1>. QED
    BY <1>1, <1>2, <1>3, <1>4, <1>5, <1>6, <1>7, <1>8, <1>9, <1>10, <1>11, <1>12, <1>13,
        <1>14, <1>15, <1>16, <1>17, <1>18, <1>19, <1>20, <1>21, <1>22, <1>23, <1>24, <1>25,
        <1>26, <1>27
    DEF Next, Acquire, Terminate, Yield, EndRun

\* Every action keeps HolderInv.
LEMMA HolderStep ==
    ASSUME TypeOK, Bookkeeping, SectionInv, HolderInv, [Next]_vars PROVE HolderInv'
<1>1. CASE Tick
    BY <1>1, LocksAssumption DEF Tick, TypeOK, Bookkeeping, SectionInv, HolderInv, Intact,
        Plain, Holds, Own, Live, Record, Inside, Exiting, dbVars, procVars
<1>2. ASSUME NEW a \in Pids, Start(a) PROVE HolderInv'
    BY <1>2, LocksAssumption DEF Start, Goto, TypeOK, Bookkeeping, SectionInv, HolderInv,
        Intact, Plain, Holds, Own, Live, Record, Inside, Exiting, dbVars, procVars
<1>3. ASSUME NEW a \in Pids, NEW p \in Promises, AcquireLock(a, p) PROVE HolderInv'
    BY <1>3, LocksAssumption DEF AcquireLock, Goto, TypeOK, Bookkeeping, SectionInv,
        HolderInv, Intact, Plain, Holds, Own, Live, Record, Inside, Exiting, dbVars,
        procVars
<1>4. ASSUME NEW a \in Pids, WaitForCriticalSection(a) PROVE HolderInv'
    BY <1>4, LocksAssumption DEF WaitForCriticalSection, Goto, TypeOK, Bookkeeping,
        SectionInv, HolderInv, Intact, Plain, Holds, Own, Live, Record, Inside, Exiting,
        dbVars, procVars
<1>5. ASSUME NEW a \in Pids, EnterSection(a) PROVE HolderInv'
    BY <1>5, LocksAssumption DEF EnterSection, Goto, TypeOK, Bookkeeping, SectionInv,
        HolderInv, Intact, Plain, Holds, Own, Live, Record, Inside, Exiting, dbVars,
        procVars
<1>6. ASSUME NEW a \in Pids, FindLast(a) PROVE HolderInv'
    BY <1>6, LocksAssumption DEF FindLast, Goto, TypeOK, Bookkeeping, SectionInv, HolderInv,
        Intact, Plain, Holds, Own, Live, Record, Inside, Exiting, dbVars, procVars
<1>7. ASSUME NEW a \in Pids, PutLast(a) PROVE HolderInv'
    BY <1>7, LocksAssumption DEF PutLast, Goto, WriteLast, TypeOK, Bookkeeping, SectionInv,
        HolderInv, Intact, Plain, Holds, Own, Live, Record, Inside, Exiting, dbVars,
        procVars
<1>8. ASSUME NEW a \in Pids, FindLock(a) PROVE HolderInv'
    BY <1>8, LocksAssumption DEF FindLock, Goto, TypeOK, Bookkeeping, SectionInv, HolderInv,
        Intact, Plain, Holds, Own, Live, Record, Inside, Exiting, dbVars, procVars
<1>9. ASSUME NEW a \in Pids, PutLock(a) PROVE HolderInv'
    BY <1>9, LocksAssumption DEF PutLock, Goto, WriteLockDataCurrent, TypeOK, Bookkeeping,
        SectionInv, HolderInv, Intact, Plain, Holds, Own, Live, Record, Inside, Exiting,
        dbVars, procVars
<1>10. ASSUME NEW a \in Pids, WriteLock(a) PROVE HolderInv'
    BY <1>10, LocksAssumption DEF WriteLock, Goto, WriteLockDataCurrent, TypeOK,
        Bookkeeping, SectionInv, HolderInv, Intact, Plain, Holds, Own, Live, Record, Inside,
        Exiting, dbVars, procVars
<1>11. ASSUME NEW a \in Pids, LeaveSection(a) PROVE HolderInv'
    BY <1>11, LocksAssumption DEF LeaveSection, Goto, TypeOK, Bookkeeping, SectionInv,
        HolderInv, Intact, Plain, Holds, Own, Live, Record, Inside, Exiting, dbVars,
        procVars
<1>12. ASSUME NEW a \in Pids, Refuse(a) PROVE HolderInv'
    BY <1>12, LocksAssumption DEF Refuse, Goto, TypeOK, Bookkeeping, SectionInv, HolderInv,
        Intact, Plain, Holds, Own, Live, Record, Inside, Exiting, dbVars, procVars
<1>13. ASSUME NEW a \in Pids, KillLockHolder(a) PROVE HolderInv'
    <2>1. \A b \in Pids, q \in Promises : Holds(b, q)' <=> Holds(b, q)
        BY <1>13 DEF KillLockHolder, Goto, Holds, TypeOK
    <2>2. \A b \in Pids \ {a} : pc'[b] = pc[b] /\ victim'[b] = victim[b]
        BY <1>13 DEF KillLockHolder, Goto, TypeOK
    <2>3. /\ pc[a] = "kill" /\ cur[a] \in Plain
          /\ UNCHANGED <<lock, born, stack, cur, breach>>
          /\ victim'[a] = lock[cur[a]] /\ pc'[a] \in {"write", "signal"}
          /\ pc'[a] = "write" <=> lock[cur[a]] = None
        BY <1>13 DEF KillLockHolder, Goto, Bookkeeping, Inside, TypeOK, Plain, dbVars
    <2>. QED  BY <2>1, <2>2, <2>3 DEF HolderInv, Intact, Own, Plain, Bookkeeping,
        Inside, TypeOK
<1>14. ASSUME NEW a \in Pids, HolderExited(a) PROVE HolderInv'
    BY <1>14, LocksAssumption DEF HolderExited, Goto, Live, TypeOK, Bookkeeping, SectionInv,
        HolderInv, Intact, Plain, Holds, Own, Record, Inside, Exiting, dbVars, procVars
<1>15. ASSUME NEW a \in Pids, ForceKill(a) PROVE HolderInv'
    BY <1>15, LocksAssumption DEF ForceKill, Goto, Live, Vanish, TypeOK, Bookkeeping,
        SectionInv, HolderInv, Intact, Plain, Holds, Own, Record, Inside, Exiting, dbVars,
        procVars
<1>16. ASSUME NEW a \in Pids, KillFails(a) PROVE HolderInv'
    BY <1>16, LocksAssumption DEF KillFails, Goto, Live, TypeOK, Bookkeeping, SectionInv,
        HolderInv, Intact, Plain, Holds, Own, Record, Inside, Exiting, dbVars, procVars
<1>17. ASSUME NEW a \in Pids, Exit(a) PROVE HolderInv'
    <2>. SUFFICES ASSUME Intact' PROVE HolderInv'
        BY DEF HolderInv, Intact
    <2>1. /\ Intact /\ pc[a] # "yieldlast"
          /\ UNCHANGED <<lock, born, stack, victim>>
        BY <1>17 DEF Exit, Interrupt, Intact, dbVars
    <2>2. pc'[a] = "exit" /\ \A b \in Pids \ {a} : pc'[b] = pc[b] /\ cur'[b] = cur[b]
        BY <1>17 DEF Exit, Interrupt, Exiting, TypeOK
    <2>3. \A b \in Pids, p \in Promises : Holds(b, p)' => Holds(b, p)
        BY <2>1, <2>2 DEF Holds
    <2>. QED  BY <2>1, <2>2, <2>3 DEF HolderInv, Intact, Own, Plain, Bookkeeping, Inside,
        TypeOK
<1>18. ASSUME NEW a \in Pids, NEW p \in Promises, ExitRemove(a, p) PROVE HolderInv'
    BY <1>18, LocksAssumption DEF ExitRemove, Goto, TypeOK, Bookkeeping, SectionInv,
        HolderInv, Intact, Plain, Holds, Own, Live, Record, Inside, Exiting, dbVars,
        procVars
<1>19. ASSUME NEW a \in Pids, ExitLast(a) PROVE HolderInv'
    BY <1>19, LocksAssumption DEF ExitLast, Goto, CompleteLast, WriteLast, TypeOK,
        Bookkeeping, SectionInv, HolderInv, Intact, Plain, Holds, Own, Live, Record, Inside,
        Exiting, dbVars, procVars
<1>20. ASSUME NEW a \in Pids, ExitDone(a) PROVE HolderInv'
    BY <1>20, LocksAssumption DEF ExitDone, Goto, Vanish, TypeOK, Bookkeeping, SectionInv,
        HolderInv, Intact, Plain, Holds, Own, Live, Record, Inside, Exiting, dbVars,
        procVars
<1>21. ASSUME NEW a \in Pids, Crash(a) PROVE HolderInv'
    BY <1>21, LocksAssumption DEF Crash, Goto, Vanish, TypeOK, Bookkeeping, SectionInv,
        HolderInv, Intact, Plain, Holds, Own, Live, Record, Inside, Exiting, dbVars,
        procVars
<1>22. ASSUME NEW a \in Pids, NEW p \in Promises, YieldRemove(a, p) PROVE HolderInv'
    BY <1>22, LocksAssumption DEF YieldRemove, Goto, TypeOK, Bookkeeping, SectionInv,
        HolderInv, Intact, Plain, Holds, Own, Live, Record, Inside, Exiting, dbVars,
        procVars
<1>23. ASSUME NEW a \in Pids, YieldLast(a) PROVE HolderInv'
    BY <1>23, LocksAssumption DEF YieldLast, Goto, CompleteLast, WriteLast, TypeOK,
        Bookkeeping, SectionInv, HolderInv, Intact, Plain, Holds, Own, Live, Record, Inside,
        Exiting, dbVars, procVars
<1>24. ASSUME NEW a \in Pids, PurgeLocks(a) PROVE HolderInv'
    <2>. SUFFICES ASSUME Intact' PROVE HolderInv'
        BY DEF HolderInv, Intact
    <2>1. Intact /\ UNCHANGED <<born, cur, stack, victim>>
        BY <1>24 DEF PurgeLocks, Intact
    <2>2. pc[a] = "idle" /\ pc'[a] = "wait" /\ \A b \in Pids \ {a} : pc'[b] = pc[b]
        BY <1>24 DEF PurgeLocks, Goto, TypeOK
    <2>3. \A b \in Pids, p \in Promises : Holds(b, p)' <=> Holds(b, p)
        BY <2>1, <2>2 DEF Holds
    <2>4. \A p \in Promises : Live(lock[p]) => lock'[p] = lock[p]
        <3>1. CASE UNCHANGED <<dbVars, breach>>
            BY <3>1 DEF dbVars
        <3>2. CASE /\ lock' = [p \in Promises |-> IF Purgeable(lock[p]) THEN None ELSE lock[p]]
                   /\ ~ \E p \in Promises : Purgeable(lock[p]) /\ Live(lock[p])
            BY <3>2
        <3>3. breach' # breach \cup {"purge"}
            BY DEF Intact
        <3>. QED  BY <1>24, <3>1, <3>2, <3>3 DEF PurgeLocks
    <2>5. \A b \in Pids, p \in Promises : Own(lock[p], b) /\ pc[b] # "off" => Own(lock[p], b)'
        BY <2>1, <2>4 DEF Own, Live
    <2>6. \A b \in Pids, p \in Promises : Holds(b, p) => pc[b] # "off"
        BY DEF Holds, Bookkeeping
    <2>. QED
        BY <2>1, <2>2, <2>3, <2>5, <2>6 DEF HolderInv, Intact, Own, Plain, Bookkeeping,
            Inside, TypeOK
<1>25. ASSUME NEW a \in Pids, BackupLockDatabase(a) PROVE HolderInv'
    BY <1>25, LocksAssumption DEF BackupLockDatabase, Goto, TypeOK, Bookkeeping, SectionInv,
        HolderInv, Intact, Plain, Holds, Own, Live, Record, Inside, Exiting, dbVars,
        procVars
<1>26. CASE UNCHANGED vars
    BY <1>26, LocksAssumption DEF vars, dbVars, procVars, TypeOK, Bookkeeping, SectionInv,
        HolderInv, Intact, Plain, Holds, Own, Live, Record, Inside, Exiting
<1>27. ASSUME NEW a \in Pids, GracefulTerminate(a) PROVE HolderInv'
    <2>. SUFFICES ASSUME Intact' PROVE HolderInv'
        BY DEF HolderInv, Intact
    <2>. DEFINE r == victim[a]
    <2>1. /\ Intact /\ pc[a] = "signal" /\ cur[a] \in Plain
          /\ UNCHANGED <<lock, born, stack, victim>>
        BY <1>27 DEF GracefulTerminate, Goto, Interrupt, Intact, Bookkeeping, Inside, TypeOK,
            Plain, dbVars
    <2>2. \A b \in Pids : Holds(b, cur[a]) => Own(r, b) /\ Live(r)
        BY <2>1 DEF HolderInv, Intact, Holds, Own, Live, Bookkeeping, TypeOK
    <2>3. CASE ~Live(r) /\ Goto(a, "write") /\ UNCHANGED <<cur, breach>>
        BY <2>1, <2>2, <2>3 DEF Goto, TypeOK, HolderInv, Intact, Plain, Holds, Own
    <2>4. CASE Goto(a, "stopped") /\ UNCHANGED <<cur, breach>>
        BY <2>1, <2>4 DEF Goto, TypeOK, HolderInv, Intact, Plain, Holds, Own
    <2>5. CASE /\ Live(r) /\ r.pid # a
               /\ Interrupt(r.pid, [pc EXCEPT ![a] = "killwait"])
        <3>1. r.pid \in Pids /\ r # None /\ pc[r.pid] # "yieldlast"
            BY <2>1, <2>5 DEF Live, TypeOK, Record, Interrupt, Intact, Plain
        <3>2. \A b \in Pids \ {a} : \/ pc'[b] = pc[b] /\ cur'[b] = cur[b]
                                    \/ pc'[b] = "exit" /\ pc[b] # "yieldlast"
            BY <2>5, <3>1 DEF Interrupt, Exiting, TypeOK
        <3>3. pc'[a] = "killwait" /\ cur'[a] = cur[a]
            BY <2>5, <3>1 DEF Interrupt, Exiting, TypeOK
        <3>4. \A b \in Pids, p \in Promises : Holds(b, p)' => Holds(b, p)
            BY <2>1, <3>2, <3>3 DEF Holds
        <3>. QED
            BY <2>1, <2>2, <3>1, <3>2, <3>3, <3>4 DEF HolderInv, Intact, Own, Plain,
                Bookkeeping, Inside, TypeOK
    <2>6. breach' # breach \cup {"survivor"}
        BY DEF Intact
    <2>. QED  BY <1>27, <2>3, <2>4, <2>5, <2>6 DEF GracefulTerminate
<1>. QED
    BY <1>1, <1>2, <1>3, <1>4, <1>5, <1>6, <1>7, <1>8, <1>9, <1>10, <1>11, <1>12, <1>13,
        <1>14, <1>15, <1>16, <1>17, <1>18, <1>19, <1>20, <1>21, <1>22, <1>23, <1>24, <1>25,
        <1>26, <1>27
    DEF Next, Acquire, Terminate, Yield, EndRun

-----------------------------------------------------------------------------
(* The whole invariant.                                                    *)

\* The invariant holds when no agent has started and the database is empty.
LEMMA InvInit == Init => Inv
<1>. SUFFICES ASSUME Init PROVE Inv
    OBVIOUS
<1>1. TypeOK
    BY TypeInit
<1>2. Bookkeeping /\ StartsInPast /\ Yielded /\ RecordInv /\ VictimInv /\ NeverStopsItself
    BY DEF Init, Bookkeeping, Inside, StartsInPast, Yielded, RecordInv, VictimInv,
        NeverStopsItself, Live
<1>3. SectionInv /\ HolderInv
    BY DEF Init, SectionInv, HolderInv, Intact, Holds, Inside
<1>. QED  BY <1>1, <1>2, <1>3 DEF Inv

\* Every action, and every stuttering step, keeps the whole invariant.
LEMMA InvStep == Inv /\ [Next]_vars => Inv'
<1>. SUFFICES ASSUME Inv, [Next]_vars PROVE Inv'
    OBVIOUS
<1>1. TypeOK' /\ Bookkeeping'
    BY TypeStep, BookkeepingStep DEF Inv
<1>2. StartsInPast' /\ Yielded'
    BY StartsInPastStep, YieldedStep DEF Inv
<1>3. RecordInv' /\ VictimInv' /\ NeverStopsItself'
    BY RecordStep, VictimStep, NeverStopsStep DEF Inv
<1>4. SectionInv' /\ HolderInv'
    BY SectionStep, HolderStep DEF Inv
<1>. QED  BY <1>1, <1>2, <1>3, <1>4 DEF Inv

\* The inductive invariant behind the theorems below: what the records of the
\* database say of the processes, between any two database accesses.
THEOREM Invariance == Spec => []Inv
    BY InvInit, InvStep, PTL DEF Spec

\* A record that names a live process names one that is at work on the promise,
\* whatever gaps were used, and so is the process that KillLockHolder signals unless
\* it yielded after the record was read.
THEOREM NamesItsHolder == Spec => []LockNamesItsHolder
<1>1. Inv => LockNamesItsHolder
    BY DEF Inv, RecordInv, VictimInv, LockNamesItsHolder, BusyWith
<1>. QED  BY Invariance, <1>1, PTL

\* KillLockHolder never finds the record of its own process.
THEOREM NoSelfStop == Spec => []NeverStopsItself
<1>1. Inv => NeverStopsItself
    BY DEF Inv
<1>. QED  BY Invariance, <1>1, PTL

\* Overlap, survivor, reyield and purge are the only ways to lose exclusion of
\* AcquireLock: for any number of agents and promises and any timing.
THEOREM Exclusive == Spec => []LockExclusive
<1>1. Inv => LockExclusive
    BY DEF Inv, HolderInv, Intact, LockExclusive, Plain, Own
<1>. QED  BY Invariance, <1>1, PTL

\* With an exclusive section, GracefulTerminate only signals the writer of a
\* record that is expired for the agent that signals.
THEOREM OnlyExpiredKilled == Spec => KillsOnlyExpired
<1>. DEFINE A == \A a \in Pids :
                     /\ "overlap" \notin breach
                     /\ pc[a] = "signal" /\ pc'[a] = "killwait"
                     => Elapsed(a, victim[a].time) >= ExpireAfter
<1>1. Inv /\ [Next]_vars => [A]_vars
    BY DEF Inv, SectionInv
<1>. QED  BY Invariance, <1>1, PTL DEF Spec, KillsOnlyExpired

\* With no gap used, the lock that YieldCurrentLock removes is its caller's.
THEOREM OwnLockYielded == Spec => YieldsOwnLock
<1>. DEFINE A == \A a \in Pids, p \in Promises \ Ignoring :
                     Intact /\ Yields(a, p) => lock[p] # None /\ lock[p].pid = a
<1>1. Inv /\ [Next]_vars => [A]_vars
    BY DEF Inv, HolderInv, Intact, Plain, Holds, Own, Yields
<1>. QED  BY Invariance, <1>1, PTL DEF Spec, YieldsOwnLock

-----------------------------------------------------------------------------
(* ifelapsed.                                                              *)

\* Every action keeps IfElapsedKept: until an overlap only the process that
\* judged last[p] writes it inside the section, and a YieldCurrentLock that
\* writes it from outside is recorded.
LEMMA ElapsedStep ==
    ASSUME TypeOK, Bookkeeping, SectionInv, SectionInv', IfElapsedKept, [Next]_vars
    PROVE  IfElapsedKept'
<1>1. CASE Tick
    BY <1>1 DEF Tick, TypeOK, IfElapsedKept, Judged, Elapsed, Bookkeeping, Inside, dbVars,
        procVars
<1>2. ASSUME NEW a \in Pids, Start(a) PROVE IfElapsedKept'
    BY <1>2 DEF Start, Goto, TypeOK, IfElapsedKept, Judged, Elapsed, Bookkeeping, Inside,
        dbVars
<1>3. ASSUME NEW a \in Pids, NEW p \in Promises, AcquireLock(a, p) PROVE IfElapsedKept'
    BY <1>3 DEF AcquireLock, Goto, TypeOK, IfElapsedKept, Judged, Elapsed, Bookkeeping,
        Inside, dbVars
<1>4. ASSUME NEW a \in Pids, WaitForCriticalSection(a) PROVE IfElapsedKept'
    BY <1>4 DEF WaitForCriticalSection, Goto, TypeOK, IfElapsedKept, Judged, Elapsed,
        Bookkeeping, Inside, dbVars
<1>5. ASSUME NEW a \in Pids, EnterSection(a) PROVE IfElapsedKept'
    BY <1>5 DEF EnterSection, Goto, TypeOK, IfElapsedKept, Judged, Elapsed, Bookkeeping,
        Inside, dbVars
<1>6. ASSUME NEW a \in Pids, FindLast(a) PROVE IfElapsedKept'
    <2>. SUFFICES ASSUME breach \cap {"overlap", "raced"} = {},
                         NEW b \in Pids, pc'[b] \in Judged
                  PROVE  LET r == last'[cur'[b]] IN
                         r = None \/ r.pid = b \/ CDiv(born'[b] - r.time, Minute) >= IfElapsed
        BY <1>6 DEF IfElapsedKept, Elapsed, FindLast
    <2>1. UNCHANGED <<last, cur, born>>
        BY <1>6 DEF FindLast, dbVars
    <2>2. CASE b # a
        <3>1. pc[b] \in Judged
            BY <1>6, <2>2 DEF FindLast, Goto, TypeOK
        <3>. QED  BY <2>1, <3>1 DEF IfElapsedKept, Elapsed
    <2>3. CASE b = a
        <3>. DEFINE r == last[cur[a]]
        <3>1. cur[a] \in Promises
            BY <1>6 DEF FindLast, Bookkeeping, Inside, TypeOK
        <3>2. r # None /\ ~(Elapsed(a, r.time) < IfElapsed)
            BY <1>6, <2>3 DEF FindLast, Goto, Judged, TypeOK
        <3>3. r.time \in Nat /\ born[a] \in Nat
            BY <3>1, <3>2 DEF TypeOK, Stamp
        <3>4. Elapsed(a, r.time) \in Int
            BY <3>3, LocksAssumption DEF Elapsed, CDiv
        <3>5. Elapsed(a, r.time) >= IfElapsed
            BY <3>2, <3>4, LocksAssumption
        <3>. QED  BY <2>1, <2>3, <3>5 DEF Elapsed
    <2>. QED  BY <2>2, <2>3
<1>7. ASSUME NEW a \in Pids, PutLast(a) PROVE IfElapsedKept'
    <2>. SUFFICES ASSUME "overlap" \notin breach, NEW b \in Pids, pc'[b] \in Judged,
                         breach \cap {"overlap", "raced"} = {}
                  PROVE  LET r == last'[cur'[b]] IN
                         r = None \/ r.pid = b \/ CDiv(born'[b] - r.time, Minute) >= IfElapsed
        BY <1>7 DEF IfElapsedKept, Elapsed, PutLast
    <2>1. b = a
        BY <1>7 DEF PutLast, Goto, TypeOK, SectionInv, Judged, Inside
    <2>2. cur[a] \in Promises /\ cur'[a] = cur[a]
        BY <1>7 DEF PutLast, Bookkeeping, Inside, TypeOK
    <2>. QED  BY <1>7, <2>1, <2>2 DEF PutLast, WriteLast, TypeOK
<1>8. ASSUME NEW a \in Pids, FindLock(a) PROVE IfElapsedKept'
    BY <1>8 DEF FindLock, Goto, TypeOK, IfElapsedKept, Judged, Elapsed, Bookkeeping, Inside,
        dbVars
<1>9. ASSUME NEW a \in Pids, PutLock(a) PROVE IfElapsedKept'
    BY <1>9 DEF PutLock, Goto, TypeOK, IfElapsedKept, Judged, Elapsed, Bookkeeping, Inside,
        dbVars
<1>10. ASSUME NEW a \in Pids, WriteLock(a) PROVE IfElapsedKept'
    BY <1>10 DEF WriteLock, Goto, TypeOK, IfElapsedKept, Judged, Elapsed, Bookkeeping,
        Inside, dbVars
<1>11. ASSUME NEW a \in Pids, LeaveSection(a) PROVE IfElapsedKept'
    BY <1>11 DEF LeaveSection, Goto, TypeOK, IfElapsedKept, Judged, Elapsed, Bookkeeping,
        Inside, dbVars
<1>12. ASSUME NEW a \in Pids, Refuse(a) PROVE IfElapsedKept'
    BY <1>12 DEF Refuse, Goto, TypeOK, IfElapsedKept, Judged, Elapsed, Bookkeeping, Inside,
        dbVars
<1>13. ASSUME NEW a \in Pids, KillLockHolder(a) PROVE IfElapsedKept'
    BY <1>13 DEF KillLockHolder, Goto, TypeOK, IfElapsedKept, Judged, Elapsed, Bookkeeping,
        Inside, dbVars
<1>14. ASSUME NEW a \in Pids, HolderExited(a) PROVE IfElapsedKept'
    BY <1>14 DEF HolderExited, Goto, TypeOK, IfElapsedKept, Judged, Elapsed, Bookkeeping,
        Inside, dbVars
<1>15. ASSUME NEW a \in Pids, ForceKill(a) PROVE IfElapsedKept'
    BY <1>15 DEF ForceKill, Vanish, Live, TypeOK, IfElapsedKept, Judged, Elapsed,
        Bookkeeping, Inside, dbVars
<1>16. ASSUME NEW a \in Pids, KillFails(a) PROVE IfElapsedKept'
    BY <1>16 DEF KillFails, Goto, TypeOK, IfElapsedKept, Judged, Elapsed, Bookkeeping,
        Inside, dbVars
<1>17. ASSUME NEW a \in Pids, Exit(a) PROVE IfElapsedKept'
    BY <1>17 DEF Exit, Interrupt, Exiting, TypeOK, IfElapsedKept, Judged, Elapsed,
        Bookkeeping, Inside, dbVars
<1>18. ASSUME NEW a \in Pids, NEW p \in Promises, ExitRemove(a, p) PROVE IfElapsedKept'
    BY <1>18 DEF ExitRemove, Goto, TypeOK, IfElapsedKept, Judged, Elapsed, Bookkeeping,
        Inside, dbVars
<1>19. ASSUME NEW a \in Pids, ExitLast(a) PROVE IfElapsedKept'
    <2>. SUFFICES ASSUME breach' \cap {"overlap", "raced"} = {},
                         NEW b \in Pids, pc'[b] \in Judged
                  PROVE  LET r == last'[cur'[b]] IN
                         r = None \/ r.pid = b \/ CDiv(born'[b] - r.time, Minute) >= IfElapsed
        BY DEF IfElapsedKept, Elapsed
    <2>1. UNCHANGED born /\ breach \cap {"overlap", "raced"} = {}
        BY <1>19 DEF ExitLast, CompleteLast
    <2>2. b # a /\ pc[b] \in Judged /\ cur'[b] = cur[b]
        BY <1>19 DEF ExitLast, Goto, Judged, TypeOK
    <2>3. ~ \E c \in Pids \ {a} : pc[c] \in Judged /\ cur[c] = cur[a]
        BY <1>19 DEF ExitLast, CompleteLast
    <2>4. cur[b] # cur[a]
        BY <2>2, <2>3
    <2>5. last'[cur[b]] = last[cur[b]]
        BY <1>19, <2>4 DEF ExitLast, CompleteLast, WriteLast, TypeOK, Stamp
    <2>. QED  BY <2>1, <2>2, <2>5 DEF IfElapsedKept, Elapsed
<1>20. ASSUME NEW a \in Pids, ExitDone(a) PROVE IfElapsedKept'
    BY <1>20 DEF ExitDone, Vanish, TypeOK, IfElapsedKept, Judged, Elapsed, Bookkeeping,
        Inside, dbVars
<1>21. ASSUME NEW a \in Pids, Crash(a) PROVE IfElapsedKept'
    BY <1>21 DEF Crash, Vanish, TypeOK, IfElapsedKept, Judged, Elapsed, Bookkeeping, Inside,
        dbVars
<1>22. ASSUME NEW a \in Pids, NEW p \in Promises, YieldRemove(a, p) PROVE IfElapsedKept'
    BY <1>22 DEF YieldRemove, Goto, TypeOK, IfElapsedKept, Judged, Elapsed, Bookkeeping,
        Inside, dbVars
<1>23. ASSUME NEW a \in Pids, YieldLast(a) PROVE IfElapsedKept'
    <2>. SUFFICES ASSUME breach' \cap {"overlap", "raced"} = {},
                         NEW b \in Pids, pc'[b] \in Judged
                  PROVE  LET r == last'[cur'[b]] IN
                         r = None \/ r.pid = b \/ CDiv(born'[b] - r.time, Minute) >= IfElapsed
        BY DEF IfElapsedKept, Elapsed
    <2>1. UNCHANGED born /\ breach \cap {"overlap", "raced"} = {}
        BY <1>23 DEF YieldLast, CompleteLast
    <2>2. b # a /\ pc[b] \in Judged /\ cur'[b] = cur[b]
        BY <1>23 DEF YieldLast, Goto, Judged, TypeOK
    <2>3. ~ \E c \in Pids \ {a} : pc[c] \in Judged /\ cur[c] = cur[a]
        BY <1>23 DEF YieldLast, CompleteLast
    <2>4. cur[b] # cur[a]
        BY <2>2, <2>3
    <2>5. last'[cur[b]] = last[cur[b]]
        BY <1>23, <2>4 DEF YieldLast, CompleteLast, WriteLast, TypeOK, Stamp
    <2>. QED  BY <2>1, <2>2, <2>5 DEF IfElapsedKept, Elapsed
<1>24. ASSUME NEW a \in Pids, PurgeLocks(a) PROVE IfElapsedKept'
    <2>. SUFFICES ASSUME breach' \cap {"overlap", "raced"} = {},
                         NEW b \in Pids, pc'[b] \in Judged
                  PROVE  LET r == last'[cur'[b]] IN
                         r = None \/ r.pid = b \/ CDiv(born'[b] - r.time, Minute) >= IfElapsed
        BY DEF IfElapsedKept, Elapsed
    <2>1. pc[b] \in Judged /\ UNCHANGED <<cur, born>> /\ breach \cap {"overlap", "raced"} = {}
        BY <1>24 DEF PurgeLocks, Goto, Judged, TypeOK
    <2>2. cur[b] \in Promises
        BY <2>1 DEF Judged, Bookkeeping, Inside, TypeOK
    <2>3. last'[cur[b]] \in {None, last[cur[b]]}
        BY <1>24, <2>2 DEF PurgeLocks, dbVars
    <2>. QED  BY <2>1, <2>3 DEF IfElapsedKept, Elapsed
<1>25. ASSUME NEW a \in Pids, BackupLockDatabase(a) PROVE IfElapsedKept'
    BY <1>25 DEF BackupLockDatabase, Goto, TypeOK, IfElapsedKept, Judged, Elapsed,
        Bookkeeping, Inside, dbVars
<1>26. CASE UNCHANGED vars
    BY <1>26 DEF vars, dbVars, procVars, TypeOK, IfElapsedKept, Judged, Elapsed,
        Bookkeeping, Inside
<1>27. ASSUME NEW a \in Pids, GracefulTerminate(a) PROVE IfElapsedKept'
    BY <1>27 DEF GracefulTerminate, Goto, Interrupt, Exiting, Live, TypeOK, IfElapsedKept,
        Judged, Elapsed, Bookkeeping, Inside, dbVars
<1>. QED
    BY <1>1, <1>2, <1>3, <1>4, <1>5, <1>6, <1>7, <1>8, <1>9, <1>10, <1>11, <1>12, <1>13,
        <1>14, <1>15, <1>16, <1>17, <1>18, <1>19, <1>20, <1>21, <1>22, <1>23, <1>24, <1>25,
        <1>26, <1>27
    DEF Next, Acquire, Terminate, Yield, EndRun

\* AcquireLock honours ifelapsed until an overlap or a raced YieldCurrentLock.
THEOREM ElapsedHonoured == Spec => []IfElapsedKept
<1>1. Init => IfElapsedKept
    BY DEF Init, IfElapsedKept, Judged
<1>2. Inv /\ Inv' /\ IfElapsedKept /\ [Next]_vars => IfElapsedKept'
    BY ElapsedStep DEF Inv
<1>. QED  BY Invariance, <1>1, <1>2, PTL DEF Spec

-----------------------------------------------------------------------------
(* Refinement.                                                             *)

\* The refinement mapping.
AbsHolders == [p \in Plain |-> {a \in Pids : Holds(a, p)}]
AbsVars == <<AbsHolders, ~Intact>>

\* A step after which everybody holds what it held is a stutter, or a break of
\* the promise.
LEMMA SameHolders ==
    ASSUME \A b \in Pids, q \in Promises : Holds(b, q)' <=> Holds(b, q), breach \subseteq breach'
    PROVE  PL!Break \/ UNCHANGED AbsVars
<1>1. AbsHolders' = AbsHolders
    BY DEF AbsHolders, Plain
<1>2. CASE Intact = Intact'
    BY <1>1, <1>2 DEF AbsVars
<1>3. CASE Intact # Intact'
    <2>1. ~Intact'
        BY <1>3 DEF Intact
    <2>. QED  BY <1>1, <2>1 DEF PL!Break, AbsHolders, Plain
<1>. QED  BY <1>2, <1>3

\* A step after which v holds nothing and everybody else what it held is a
\* release.
LEMMA LetsGo ==
    ASSUME NEW v \in Pids, UNCHANGED breach,
           \A q \in Promises : ~Holds(v, q)',
           \A b \in Pids \ {v}, q \in Promises : Holds(b, q)' <=> Holds(b, q)
    PROVE  PL!Release(v, Plain)
<1>1. AbsHolders' = [q \in Plain |-> IF q \in Plain THEN AbsHolders[q] \ {v} ELSE AbsHolders[q]]
    BY DEF AbsHolders, Plain
<1>2. Intact' = Intact
    BY DEF Intact
<1>. QED  BY <1>1, <1>2 DEF PL!Release, AbsHolders, Plain

\* A step after which v has lost p and nothing else has changed.
LEMMA LetsGoOne ==
    ASSUME NEW v \in Pids, NEW p \in Promises, Intact' = Intact, ~Holds(v, p)',
           \A b \in Pids, q \in Promises : b # v \/ q # p => (Holds(b, q)' <=> Holds(b, q))
    PROVE  PL!Release(v, {p} \cap Plain)
<1>1. AbsHolders' = [q \in Plain |-> IF q \in {p} \cap Plain THEN AbsHolders[q] \ {v}
                                    ELSE AbsHolders[q]]
    BY DEF AbsHolders, Plain
<1>. QED  BY <1>1 DEF PL!Release, AbsHolders, Plain

\* A step in which v finds again the lock of p.
LEMMA Regains ==
    ASSUME NEW v \in Pids, NEW p \in Promises, ~Intact', Holds(v, p)',
           \A b \in Pids, q \in Promises : b # v \/ q # p => (Holds(b, q)' <=> Holds(b, q))
    PROVE  IF p \in Plain THEN PL!Regain(v, p) ELSE PL!Break
<1>1. CASE p \in Plain
    <2>1. AbsHolders' = [AbsHolders EXCEPT ![p] = @ \cup {v}]
        BY <1>1 DEF AbsHolders, Plain
    <2>. QED  BY <1>1, <2>1 DEF PL!Regain, AbsHolders, Plain
<1>2. CASE p \notin Plain
    <2>1. AbsHolders' = AbsHolders
        BY <1>2 DEF AbsHolders, Plain
    <2>. QED  BY <1>2, <2>1 DEF PL!Break, AbsHolders, Plain
<1>. QED  BY <1>1, <1>2

\* exit() in a process: it keeps what it holds, and regains a lock it was
\* yielding.
LEMMA Interrupted ==
    ASSUME TypeOK, Bookkeeping, NEW v \in Pids, NEW q \in [Pids -> PC], UNCHANGED stack,
           \A b \in Pids \ {v} : pc[b] = "yieldlast" <=> q[b] = "yieldlast",
           Interrupt(v, q)
    PROVE  PL!Next \/ UNCHANGED AbsVars
<1>1. \A b \in Pids \ {v}, p \in Promises : Holds(b, p)' <=> Holds(b, p)
    BY DEF Interrupt, Holds, TypeOK
<1>2. pc'[v] # "yieldlast"
    BY DEF Interrupt, Exiting, TypeOK
<1>3. CASE pc[v] # "yieldlast"
    <2>1. \A p \in Promises : Holds(v, p)' <=> Holds(v, p)
        BY <1>2, <1>3 DEF Holds
    <2>2. breach \subseteq breach'
        BY DEF Interrupt
    <2>. QED  BY <1>1, <2>1, <2>2, SameHolders DEF PL!Next
<1>4. CASE pc[v] = "yieldlast"
    <2>1. PICK p \in Promises : p = cur[v]
        BY <1>4 DEF Bookkeeping
    <2>2. ~Intact'
        BY <1>4 DEF Interrupt, Intact
    <2>3. \A b \in Pids, r \in Promises : b # v \/ r # p => (Holds(b, r)' <=> Holds(b, r))
        BY <1>1, <1>2, <1>4, <2>1 DEF Holds
    <2>4. CASE p \in stack[v]
        <3>1. Holds(v, p)'
            BY <1>2, <2>4 DEF Holds
        <3>. QED  BY <2>2, <2>3, <3>1, Regains DEF PL!Next, Plain
    <2>5. CASE p \notin stack[v]
        <3>1. \A b \in Pids, r \in Promises : Holds(b, r)' <=> Holds(b, r)
            BY <2>3, <2>5 DEF Holds
        <3>2. breach \subseteq breach'
            BY DEF Interrupt
        <3>. QED  BY <3>1, <3>2, SameHolders DEF PL!Next
    <2>. QED  BY <2>4, <2>5
<1>. QED  BY <1>3, <1>4

\* A process that vanishes releases everything, and nobody else anything.
LEMMA Vanished ==
    ASSUME TypeOK, NEW v \in Pids, NEW q \in [Pids -> PC], UNCHANGED breach,
           \A b \in Pids \ {v} : pc[b] = "yieldlast" <=> q[b] = "yieldlast",
           Vanish(v, q)
    PROVE  PL!Next
<1>1. \A p \in Promises : ~Holds(v, p)'
    BY DEF Vanish, Holds, TypeOK
<1>2. \A b \in Pids \ {v}, p \in Promises : Holds(b, p)' <=> Holds(b, p)
    BY DEF Vanish, Holds, TypeOK
<1>3. PL!Release(v, Plain)
    BY <1>1, <1>2, LetsGo
<1>. QED  BY <1>3 DEF PL!Next, Plain

\* Every step of the processes is a step of PromiseLock or a stutter.
LEMMA RefinementStep ==
    ASSUME Inv, [Next]_vars PROVE PL!Next \/ UNCHANGED AbsVars
<1>. TypeOK /\ Bookkeeping /\ HolderInv
    BY DEF Inv
<1>1. CASE Tick
    BY <1>1 DEF Tick, AbsVars, AbsHolders, Holds, Intact, dbVars, procVars
<1>2. ASSUME NEW a \in Pids, Start(a) PROVE PL!Next \/ UNCHANGED AbsVars
    <2>1. \A b \in Pids, q \in Promises : Holds(b, q)' <=> Holds(b, q)
        BY <1>2 DEF Start, Goto, Holds, TypeOK, Bookkeeping, dbVars
    <2>2. breach \subseteq breach'
        BY <1>2 DEF Start, Goto
    <2>. QED  BY <2>1, <2>2, SameHolders DEF PL!Next
<1>3. ASSUME NEW a \in Pids, NEW p \in Promises, AcquireLock(a, p)
      PROVE  PL!Next \/ UNCHANGED AbsVars
    <2>1. \A b \in Pids, q \in Promises : Holds(b, q)' <=> Holds(b, q)
        BY <1>3 DEF AcquireLock, Goto, Holds, TypeOK, dbVars
    <2>2. breach \subseteq breach'
        BY <1>3 DEF AcquireLock, Goto
    <2>. QED  BY <2>1, <2>2, SameHolders DEF PL!Next
<1>4. ASSUME NEW a \in Pids, WaitForCriticalSection(a) PROVE PL!Next \/ UNCHANGED AbsVars
    <2>1. \A b \in Pids, q \in Promises : Holds(b, q)' <=> Holds(b, q)
        BY <1>4 DEF WaitForCriticalSection, Goto, Holds, TypeOK, dbVars
    <2>2. breach \subseteq breach'
        BY <1>4 DEF WaitForCriticalSection, Goto
    <2>. QED  BY <2>1, <2>2, SameHolders DEF PL!Next
<1>5. ASSUME NEW a \in Pids, EnterSection(a) PROVE PL!Next \/ UNCHANGED AbsVars
    <2>1. \A b \in Pids, q \in Promises : Holds(b, q)' <=> Holds(b, q)
        BY <1>5 DEF EnterSection, Goto, Holds, TypeOK, dbVars
    <2>2. breach \subseteq breach'
        BY <1>5 DEF EnterSection, Goto
    <2>. QED  BY <2>1, <2>2, SameHolders DEF PL!Next
<1>6. ASSUME NEW a \in Pids, FindLast(a) PROVE PL!Next \/ UNCHANGED AbsVars
    <2>1. \A b \in Pids, q \in Promises : Holds(b, q)' <=> Holds(b, q)
        BY <1>6 DEF FindLast, Goto, Holds, TypeOK, dbVars
    <2>2. breach \subseteq breach'
        BY <1>6 DEF FindLast, Goto
    <2>. QED  BY <2>1, <2>2, SameHolders DEF PL!Next
<1>7. ASSUME NEW a \in Pids, PutLast(a) PROVE PL!Next \/ UNCHANGED AbsVars
    <2>1. \A b \in Pids, q \in Promises : Holds(b, q)' <=> Holds(b, q)
        BY <1>7 DEF PutLast, Goto, WriteLast, Holds, TypeOK, dbVars
    <2>2. breach \subseteq breach'
        BY <1>7 DEF PutLast, Goto, WriteLast
    <2>. QED  BY <2>1, <2>2, SameHolders DEF PL!Next
<1>8. ASSUME NEW a \in Pids, FindLock(a) PROVE PL!Next \/ UNCHANGED AbsVars
    <2>1. \A b \in Pids, q \in Promises : Holds(b, q)' <=> Holds(b, q)
        BY <1>8 DEF FindLock, Goto, Holds, TypeOK, dbVars
    <2>2. breach \subseteq breach'
        BY <1>8 DEF FindLock, Goto
    <2>. QED  BY <2>1, <2>2, SameHolders DEF PL!Next
<1>9. ASSUME NEW a \in Pids, PutLock(a) PROVE PL!Next \/ UNCHANGED AbsVars
    <2>1. \A b \in Pids, q \in Promises : Holds(b, q)' <=> Holds(b, q)
        BY <1>9 DEF PutLock, Goto, Holds, TypeOK, dbVars
    <2>2. breach \subseteq breach'
        BY <1>9 DEF PutLock, Goto
    <2>. QED  BY <2>1, <2>2, SameHolders DEF PL!Next
<1>10. ASSUME NEW a \in Pids, WriteLock(a) PROVE PL!Next \/ UNCHANGED AbsVars
    <2>1. \A b \in Pids, q \in Promises : Holds(b, q)' <=> Holds(b, q)
        BY <1>10 DEF WriteLock, Goto, Holds, TypeOK, dbVars
    <2>2. breach \subseteq breach'
        BY <1>10 DEF WriteLock, Goto
    <2>. QED  BY <2>1, <2>2, SameHolders DEF PL!Next
<1>11. ASSUME NEW a \in Pids, LeaveSection(a) PROVE PL!Next \/ UNCHANGED AbsVars
    <2>. DEFINE p == cur[a]
    <2>1. p \in Promises /\ UNCHANGED breach
        BY <1>11 DEF LeaveSection, Bookkeeping, Inside, TypeOK
    <2>2. \A b \in Pids, q \in Promises : Holds(b, q)' <=> Holds(b, q) \/ (b = a /\ q = cur[a])
        <3>1. \A b \in Pids \ {a} : stack'[b] = stack[b] /\ cur'[b] = cur[b] /\ pc'[b] = pc[b]
            BY <1>11 DEF LeaveSection, Goto, TypeOK
        <3>2. stack'[a] = stack[a] \cup {cur[a]} /\ pc'[a] = "idle" /\ pc[a] = "leave"
            BY <1>11 DEF LeaveSection, Goto, TypeOK
        <3>. QED  BY <3>1, <3>2 DEF Holds
    <2>3. Intact' = Intact
        BY <2>1 DEF Intact
    <2>4. CASE p \in Plain
        <3>1. ~Intact \/ AbsHolders[p] = {}
            BY <1>11, <2>1, <2>4 DEF LeaveSection, HolderInv, AbsHolders
        <3>2. AbsHolders' = [AbsHolders EXCEPT ![p] = @ \cup {a}]
            BY <2>2, <2>4 DEF AbsHolders, Plain
        <3>3. PL!Take(a, p)
            BY <2>3, <3>1, <3>2 DEF PL!Take, AbsHolders, Plain
        <3>. QED  BY <2>4, <3>3 DEF PL!Next, Plain
    <2>5. CASE p \notin Plain
        <3>1. AbsHolders' = AbsHolders
            BY <2>2, <2>5 DEF AbsHolders, Plain
        <3>. QED  BY <2>3, <3>1 DEF AbsVars
    <2>. QED  BY <2>4, <2>5
<1>12. ASSUME NEW a \in Pids, Refuse(a) PROVE PL!Next \/ UNCHANGED AbsVars
    <2>1. \A b \in Pids, q \in Promises : Holds(b, q)' <=> Holds(b, q)
        BY <1>12 DEF Refuse, Goto, Holds, TypeOK, dbVars
    <2>2. breach \subseteq breach'
        BY <1>12 DEF Refuse, Goto
    <2>. QED  BY <2>1, <2>2, SameHolders DEF PL!Next
<1>13. ASSUME NEW a \in Pids, KillLockHolder(a) PROVE PL!Next \/ UNCHANGED AbsVars
    <2>1. \A b \in Pids, q \in Promises : Holds(b, q)' <=> Holds(b, q)
        BY <1>13 DEF KillLockHolder, Goto, Holds, TypeOK, dbVars
    <2>2. breach \subseteq breach'
        BY <1>13 DEF KillLockHolder, Goto
    <2>. QED  BY <2>1, <2>2, SameHolders DEF PL!Next
<1>14. ASSUME NEW a \in Pids, HolderExited(a) PROVE PL!Next \/ UNCHANGED AbsVars
    <2>1. \A b \in Pids, q \in Promises : Holds(b, q)' <=> Holds(b, q)
        BY <1>14 DEF HolderExited, Goto, Holds, TypeOK, dbVars
    <2>2. breach \subseteq breach'
        BY <1>14 DEF HolderExited, Goto
    <2>. QED  BY <2>1, <2>2, SameHolders DEF PL!Next
<1>15. ASSUME NEW a \in Pids, ForceKill(a) PROVE PL!Next \/ UNCHANGED AbsVars
    <2>. DEFINE q == [pc EXCEPT ![a] = "write"]
    <2>1. victim[a].pid \in Pids /\ pc[a] = "killwait" /\ UNCHANGED breach
        BY <1>15 DEF ForceKill, Live, Record, TypeOK
    <2>2. q \in [Pids -> PC]
        BY DEF TypeOK, PC
    <2>3. \A b \in Pids \ {victim[a].pid} : pc[b] = "yieldlast" <=> q[b] = "yieldlast"
        BY <2>1 DEF TypeOK
    <2>. HIDE DEF q
    <2>4. Vanish(victim[a].pid, q)
        BY <1>15 DEF ForceKill, q
    <2>. QED  BY <2>1, <2>2, <2>3, <2>4, Vanished
<1>16. ASSUME NEW a \in Pids, KillFails(a) PROVE PL!Next \/ UNCHANGED AbsVars
    <2>1. \A b \in Pids, q \in Promises : Holds(b, q)' <=> Holds(b, q)
        BY <1>16 DEF KillFails, Goto, Holds, TypeOK, dbVars
    <2>2. breach \subseteq breach'
        BY <1>16 DEF KillFails, Goto
    <2>. QED  BY <2>1, <2>2, SameHolders DEF PL!Next
<1>17. ASSUME NEW a \in Pids, Exit(a) PROVE PL!Next \/ UNCHANGED AbsVars
    <2>1. Interrupt(a, pc) /\ UNCHANGED stack
        BY <1>17 DEF Exit
    <2>. QED  BY <2>1, Interrupted DEF TypeOK
<1>18. ASSUME NEW a \in Pids, NEW p \in Promises, ExitRemove(a, p)
       PROVE  PL!Next \/ UNCHANGED AbsVars
    <2>1. Intact' = Intact /\ ~Holds(a, p)'
        BY <1>18 DEF ExitRemove, Intact, Goto, Holds, TypeOK
    <2>2. \A b \in Pids, q \in Promises : b # a \/ q # p => (Holds(b, q)' <=> Holds(b, q))
        BY <1>18 DEF ExitRemove, Goto, Holds, TypeOK
    <2>3. PL!Release(a, {p} \cap Plain)
        BY <2>1, <2>2, LetsGoOne
    <2>. QED  BY <2>3 DEF PL!Next, Plain
<1>19. ASSUME NEW a \in Pids, ExitLast(a) PROVE PL!Next \/ UNCHANGED AbsVars
    <2>1. \A b \in Pids, q \in Promises : Holds(b, q)' <=> Holds(b, q)
        BY <1>19 DEF ExitLast, Goto, CompleteLast, WriteLast, Holds, TypeOK, dbVars
    <2>2. breach \subseteq breach'
        BY <1>19 DEF ExitLast, Goto, CompleteLast, WriteLast
    <2>. QED  BY <2>1, <2>2, SameHolders DEF PL!Next
<1>20. ASSUME NEW a \in Pids, ExitDone(a) PROVE PL!Next \/ UNCHANGED AbsVars
    <2>1. Vanish(a, pc) /\ UNCHANGED breach
        BY <1>20 DEF ExitDone
    <2>. QED  BY <2>1, Vanished DEF TypeOK
<1>21. ASSUME NEW a \in Pids, Crash(a) PROVE PL!Next \/ UNCHANGED AbsVars
    <2>1. Vanish(a, pc) /\ UNCHANGED breach
        BY <1>21 DEF Crash
    <2>. QED  BY <2>1, Vanished DEF TypeOK
<1>22. ASSUME NEW a \in Pids, NEW p \in Promises, YieldRemove(a, p)
       PROVE  PL!Next \/ UNCHANGED AbsVars
    <2>1. Intact' = Intact /\ ~Holds(a, p)'
        BY <1>22 DEF YieldRemove, Intact, Goto, Holds, TypeOK
    <2>2. \A b \in Pids, q \in Promises : b # a \/ q # p => (Holds(b, q)' <=> Holds(b, q))
        BY <1>22 DEF YieldRemove, Goto, Holds, TypeOK
    <2>3. PL!Release(a, {p} \cap Plain)
        BY <2>1, <2>2, LetsGoOne
    <2>. QED  BY <2>3 DEF PL!Next, Plain
<1>23. ASSUME NEW a \in Pids, YieldLast(a) PROVE PL!Next \/ UNCHANGED AbsVars
    <2>1. \A b \in Pids, q \in Promises : Holds(b, q)' <=> Holds(b, q)
        BY <1>23 DEF YieldLast, Goto, CompleteLast, WriteLast, Holds, TypeOK, dbVars
    <2>2. breach \subseteq breach'
        BY <1>23 DEF YieldLast, Goto, CompleteLast, WriteLast
    <2>. QED  BY <2>1, <2>2, SameHolders DEF PL!Next
<1>24. ASSUME NEW a \in Pids, PurgeLocks(a) PROVE PL!Next \/ UNCHANGED AbsVars
    <2>1. \A b \in Pids, q \in Promises : Holds(b, q)' <=> Holds(b, q)
        BY <1>24 DEF PurgeLocks, Goto, Purgeable, Holds, TypeOK, dbVars
    <2>2. breach \subseteq breach'
        BY <1>24 DEF PurgeLocks, Goto, Purgeable
    <2>. QED  BY <2>1, <2>2, SameHolders DEF PL!Next
<1>25. ASSUME NEW a \in Pids, BackupLockDatabase(a) PROVE PL!Next \/ UNCHANGED AbsVars
    <2>1. \A b \in Pids, q \in Promises : Holds(b, q)' <=> Holds(b, q)
        BY <1>25 DEF BackupLockDatabase, Goto, Holds, TypeOK, dbVars
    <2>2. breach \subseteq breach'
        BY <1>25 DEF BackupLockDatabase, Goto
    <2>. QED  BY <2>1, <2>2, SameHolders DEF PL!Next
<1>26. CASE UNCHANGED vars
    BY <1>26 DEF vars, dbVars, procVars, AbsVars, AbsHolders, Holds, Intact
<1>27. ASSUME NEW a \in Pids, GracefulTerminate(a) PROVE PL!Next \/ UNCHANGED AbsVars
    <2>. DEFINE r == victim[a]
    <2>1. UNCHANGED stack /\ pc[a] = "signal" /\ r \in Record \cup {None}
        BY <1>27 DEF GracefulTerminate, Bookkeeping, Inside, TypeOK
    <2>2. CASE (Goto(a, "write") \/ Goto(a, "stopped")) /\ UNCHANGED cur /\ breach \subseteq breach'
        <3>1. \A b \in Pids, q \in Promises : Holds(b, q)' <=> Holds(b, q)
            BY <2>1, <2>2 DEF Goto, Holds, TypeOK
        <3>. QED  BY <2>2, <3>1, SameHolders DEF PL!Next
    <2>3. CASE Live(r) /\ Interrupt(r.pid, [pc EXCEPT ![a] = "killwait"])
        <3>. DEFINE q == [pc EXCEPT ![a] = "killwait"]
        <3>1. r.pid \in Pids
            BY <2>1, <2>3 DEF Live, Record
        <3>2. q \in [Pids -> PC]
            BY DEF TypeOK, PC
        <3>3. \A b \in Pids \ {r.pid} : pc[b] = "yieldlast" <=> q[b] = "yieldlast"
            BY <2>1 DEF TypeOK
        <3>. HIDE DEF q
        <3>4. Interrupt(r.pid, q)
            BY <2>3 DEF q
        <3>. QED  BY <2>1, <3>1, <3>2, <3>3, <3>4, Interrupted
    <2>. QED  BY <1>27, <2>2, <2>3 DEF GracefulTerminate
<1>. QED
    BY <1>1, <1>2, <1>3, <1>4, <1>5, <1>6, <1>7, <1>8, <1>9, <1>10, <1>11, <1>12, <1>13,
        <1>14, <1>15, <1>16, <1>17, <1>18, <1>19, <1>20, <1>21, <1>22, <1>23, <1>24, <1>25,
        <1>26, <1>27
    DEF Next, Acquire, Terminate, Yield, EndRun

\* AcquireLock and YieldCurrentLock implement an atomic lock per promise, for
\* every number of agents and promises, until one of the four gaps is used.
THEOREM Refinement == Spec => ImplementsPromiseLock
<1>1. Init => PL!Init
    BY DEF Init, PL!Init, Holds, Intact
<1>2. Inv /\ [Next]_vars => [PL!Next]_(PL!vars)
    BY RefinementStep DEF AbsVars, AbsHolders, Plain, PL!vars
<1>. QED  BY Invariance, <1>1, <1>2, PTL DEF Spec, ImplementsPromiseLock, PL!Spec
=============================================================================
