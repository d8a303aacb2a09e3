----------------------------- MODULE DBHandles -----------------------------
(***************************************************************************)
(* The handles of the embedded databases (libpromises/dbm_api.c) and the   *)
(* transactions of the LMDB backend (dbm_lmdb.c) in one process, from the  *)
(* first OpenDB to the exit handlers.                                      *)
(*                                                                         *)
(* A thread has one database open at a time.  A step is what a thread does *)
(* under one mutex; OpenDB and CloseDB are several, because a signal whose *)
(* handler calls exit() can interrupt the only thread of an agent between  *)
(* any two of them.  The mutexes are error-checking and nobody looks at    *)
(* the result of locking one: a thread that locks its own mutex goes on.   *)
(***************************************************************************)
EXTENDS Integers, Sequences, FiniteSets

CONSTANTS
    Main,           \* the thread that runs main() and exit()
    Workers,        \* threads of a daemon
    DbOrder,        \* the databases in the order of dbid
    LockDb,         \* dbid_locks
    MaxWait,        \* rounds of 10 ms that CloseAllDBExit waits for a database
    None

Dbs == {DbOrder[i] : i \in 1 .. Len(DbOrder)}
Threads == {Main} \cup Workers

ASSUME DBAssumption ==
    /\ Main \notin Workers /\ None \notin Threads \cup Dbs
    /\ DbOrder \in Seq(Dbs) /\ LockDb \in Dbs /\ MaxWait \in Nat
    /\ IsFiniteSet(Workers)

VARIABLES
    crew,       \* the workers of this process; none in an agent
    table,      \* owner of db_handles_lock beyond a step, or None
    named,      \* handles that are initialised: filename is not NULL
    priv,       \* handle->priv: "null", an "open" environment, or one that is "gone"
    ref,        \* handle->refcount
    owner,      \* owner of handle->lock, or None
    pc,         \* where a thread is in OpenDB and CloseDB; "run": in neither
    want,       \* the database it opened last, or is opening or closing
    uses,       \* the database between its OpenDB and its CloseDB, or None
    lost,       \* the database of a use that exit() interrupted, or None
    txn,        \* the transaction of a thread in a database
    mode,       \* of the process: at work or in exit()
    once,       \* atexit functions that were registered; each is only once
    hooks,      \* those still to be called, the last one first
    at, rounds, \* CloseAllDBExit: the handle it is at, the rounds it waited
    gaps        \* history: how a user can have lost its environment

handles == <<table, named, priv, ref, owner>>
threads == <<pc, want, uses, txn>>
exiting == <<mode, once, hooks, at, rounds, lost>>
vars    == <<crew, handles, threads, exiting, gaps>>

Live == {Main} \cup crew

\* stale   DBPathLock failed and the environment closed before was taken for open,
\* forced  CloseAllDBExit closed a database that is in use,
\* abort   an exit handler met the open cursor of the code it interrupted.
Gaps == {"stale", "forced", "abort"}

Init ==
    /\ crew \in {{}, Workers}
    /\ table = None /\ named = {}
    /\ priv = [d \in Dbs |-> "null"]
    /\ ref = [d \in Dbs |-> 0]
    /\ owner = [d \in Dbs |-> None]
    /\ pc = [t \in Threads |-> "run"]
    /\ want = [t \in Threads |-> None]
    /\ uses = [t \in Threads |-> None]
    /\ txn = [t \in Threads |-> [d \in Dbs |-> "none"]]
    /\ mode = "work" /\ once = {} /\ hooks = <<>> /\ at = 0 /\ rounds = 0 /\ lost = None
    /\ gaps = {}

Goto(t, l) == pc' = [pc EXCEPT ![t] = l]

\* pthread_mutex_lock by t returns, with EDEADLK if the mutex is t's already.
Lockable(m, t) == m \in {None, t}

\* t runs the program, and not exit() or nothing any more.
Runs(t) == IF t = Main THEN mode \in {"work", "cleanup"} ELSE t \in crew /\ mode # "exited"

-----------------------------------------------------------------------------
(* OpenDB.                                                                 *)

\* DBHandleGet.  LocksCleanup is only after the lock database.
DBHandleGet(t, d) ==
    /\ Runs(t) /\ pc[t] = "run" /\ uses[t] = None
    /\ t = Main /\ mode = "cleanup" => d = LockDb
    /\ Lockable(table, t)
    /\ named' = named \cup {d}
    /\ owner' = IF d \in named THEN owner ELSE [owner EXCEPT ![d] = None]
    /\ want' = [want EXCEPT ![t] = d]
    /\ Goto(t, "lock")
    /\ UNCHANGED <<crew, table, priv, ref, uses, txn, exiting, gaps>>

LockHandle(t) ==
    /\ Runs(t) /\ pc[t] = "lock" /\ Lockable(owner[want[t]], t)
    /\ owner' = [owner EXCEPT ![want[t]] = t]
    /\ Goto(t, "open")
    /\ UNCHANGED <<crew, table, named, priv, ref, want, uses, txn, exiting, gaps>>

\* The first user opens the environment, under the lock file of the database:
\* DBPrivOpenDB succeeds, at once or after a broken file was moved away, or
\* fails, or DBPathLock fails and priv stays as it is.
OpenEnvironment(t) ==
    LET d == want[t] IN
    /\ Runs(t) /\ pc[t] = "open"
    /\ IF ref[d] > 0 THEN UNCHANGED <<priv, gaps>>
       ELSE \/ priv' \in {[priv EXCEPT ![d] = "open"], [priv EXCEPT ![d] = "null"]}
               /\ UNCHANGED gaps
            \/ /\ UNCHANGED priv
               /\ gaps' = IF priv[d] = "gone" THEN gaps \cup {"stale"} ELSE gaps
    /\ Goto(t, "count")
    /\ UNCHANGED <<crew, table, named, ref, owner, want, uses, txn, exiting>>

\* A new user, and the exit handler with the first one; or a failure.
CountUser(t) ==
    LET d == want[t] IN
    /\ Runs(t) /\ pc[t] = "count"
    /\ IF priv[d] = "null"
       THEN want' = [want EXCEPT ![t] = None] /\ UNCHANGED <<ref, uses, once, hooks>>
       ELSE /\ ref' = [ref EXCEPT ![d] = @ + 1]
            /\ uses' = [uses EXCEPT ![t] = d]
            /\ once' = once \cup {"CloseAllDBExit"}
            /\ hooks' = IF "CloseAllDBExit" \in once THEN hooks ELSE Append(hooks, "CloseAllDBExit")
            /\ UNCHANGED want
    /\ owner' = [owner EXCEPT ![d] = None]
    /\ Goto(t, "run")
    /\ UNCHANGED <<crew, table, named, priv, txn, mode, at, rounds, lost, gaps>>

-----------------------------------------------------------------------------
(* Transactions: one per thread and environment, one writer at a time.     *)

Writing == {"write", "cursor"}

\* t is between OpenDB and CloseDB of d, and no cursor of its own is open.
Accesses(t, d) == Runs(t) /\ pc[t] = "run" /\ uses[t] = d

\* GetReadTransaction, which may fail, and a read, after whose failure
\* AbortTransaction drops the transaction.
DBPrivRead(t, d) ==
    /\ Accesses(t, d) /\ txn[t][d] # "cursor"
    /\ txn' \in {[txn EXCEPT ![t][d] = IF @ = "none" THEN "read" ELSE @],
                 [txn EXCEPT ![t][d] = "none"]}
    /\ UNCHANGED <<crew, handles, pc, want, uses, exiting, gaps>>

\* GetWriteTransaction commits a read transaction and waits for other writers.
DBPrivWrite(t, d) ==
    /\ Accesses(t, d) /\ txn[t][d] # "cursor"
    /\ \A u \in Threads \ {t} : txn[u][d] \notin Writing
    /\ txn' \in {[txn EXCEPT ![t][d] = "write"], [txn EXCEPT ![t][d] = "none"]}
    /\ UNCHANGED <<crew, handles, pc, want, uses, exiting, gaps>>

DBPrivOpenCursor(t, d) ==
    /\ Accesses(t, d) /\ txn[t][d] # "cursor"
    /\ \A u \in Threads \ {t} : txn[u][d] \notin Writing
    /\ txn' \in {[txn EXCEPT ![t][d] = "cursor"], [txn EXCEPT ![t][d] = "none"]}
    /\ UNCHANGED <<crew, handles, pc, want, uses, exiting, gaps>>

DBPrivCloseCursor(t, d) ==
    /\ Accesses(t, d) /\ txn[t][d] = "cursor" /\ mode # "cleanup"
    /\ txn' = [txn EXCEPT ![t][d] = "write"]
    /\ UNCHANGED <<crew, handles, pc, want, uses, exiting, gaps>>

-----------------------------------------------------------------------------
(* CloseDB.                                                                *)

CloseDB(t) ==
    /\ Runs(t) /\ pc[t] = "run" /\ uses[t] # None
    /\ txn[t][uses[t]] # "cursor"
    /\ Goto(t, "close")
    /\ UNCHANGED <<crew, handles, want, uses, txn, exiting, gaps>>

LockToClose(t) ==
    /\ Runs(t) /\ pc[t] = "close" /\ Lockable(owner[uses[t]], t)
    /\ owner' = [owner EXCEPT ![uses[t]] = t]
    /\ Goto(t, "commit")
    /\ UNCHANGED <<crew, table, named, priv, ref, want, uses, txn, exiting, gaps>>

\* Mutant of Commit: the environment is closed by the last but one.
CommitOffByOne(t) ==
    LET d == uses[t] IN
    /\ Runs(t) /\ pc[t] = "commit"
    /\ txn' = [txn EXCEPT ![t][d] = "none"]
    /\ ref' = [ref EXCEPT ![d] = @ - 1]
    /\ uses' = [uses EXCEPT ![t] = None]
    /\ Goto(t, "free")
    /\ UNCHANGED <<crew, table, named, priv, owner, want, exiting, gaps>>

\* DBPrivCommit of the thread's own transaction, and one user less.
Commit(t) ==
    LET d == uses[t] IN
    /\ Runs(t) /\ pc[t] = "commit"
    /\ txn' = [txn EXCEPT ![t][d] = "none"]
    /\ ref' = [ref EXCEPT ![d] = @ - 1]
    /\ uses' = [uses EXCEPT ![t] = None]
    /\ IF ref[d] = 1 THEN Goto(t, "free") /\ UNCHANGED owner
       ELSE Goto(t, "run") /\ owner' = [owner EXCEPT ![d] = None]
    /\ UNCHANGED <<crew, table, named, priv, want, exiting, gaps>>

\* DBPrivCloseDB by the last user; priv keeps pointing to what was freed.
FreeEnvironment(t) ==
    LET d == want[t] IN
    /\ Runs(t) /\ pc[t] = "free"
    /\ priv' = [priv EXCEPT ![d] = "gone"]
    /\ owner' = [owner EXCEPT ![d] = None]
    /\ Goto(t, "run")
    /\ UNCHANGED <<crew, table, named, ref, want, uses, txn, exiting, gaps>>

-----------------------------------------------------------------------------
(* The end of the process.                                                 *)

\* Mutant of RegisterLockCleanup: before the database was opened.
RegisterEarly ==
    /\ mode = "work" /\ pc[Main] = "run" /\ uses[Main] = None
    /\ "LocksCleanup" \notin once
    /\ once' = once \cup {"LocksCleanup"}
    /\ hooks' = Append(hooks, "LocksCleanup")
    /\ UNCHANGED <<crew, handles, threads, mode, at, rounds, lost, gaps>>

\* AcquireLock, after a WriteLock for which the lock database could be opened.
RegisterLockCleanup ==
    /\ mode = "work" /\ pc[Main] = "run" /\ uses[Main] = None
    /\ want[Main] = LockDb
    /\ "LocksCleanup" \notin once
    /\ once' = once \cup {"LocksCleanup"}
    /\ hooks' = Append(hooks, "LocksCleanup")
    /\ UNCHANGED <<crew, handles, threads, mode, at, rounds, lost, gaps>>

\* main() returns; the threads of a daemon go on.
ReturnFromMain ==
    /\ mode = "work" /\ pc[Main] = "run" /\ uses[Main] = None
    /\ mode' = "exit"
    /\ UNCHANGED <<crew, handles, threads, once, hooks, at, rounds, lost, gaps>>

\* HandleSignalsForAgent calls exit() wherever the program is.
Interrupt ==
    /\ mode = "work" /\ crew = {}
    /\ mode' = "exit"
    /\ lost' = uses[Main]
    /\ uses' = [uses EXCEPT ![Main] = None]
    /\ Goto(Main, "run")
    /\ UNCHANGED <<crew, handles, want, txn, once, hooks, at, rounds, gaps>>

RunHook ==
    /\ mode = "exit"
    /\ IF hooks = <<>> THEN mode' = "exited" /\ UNCHANGED hooks
       ELSE /\ mode' = IF hooks[Len(hooks)] = "LocksCleanup" THEN "cleanup" ELSE "grab"
            /\ hooks' = SubSeq(hooks, 1, Len(hooks) - 1)
    /\ UNCHANGED <<crew, handles, threads, once, at, rounds, lost, gaps>>

\* LocksCleanup opens, uses and closes the lock database for each lock it finds.
CleanupDone ==
    /\ mode = "cleanup" /\ pc[Main] = "run" /\ uses[Main] = None
    /\ mode' = "exit"
    /\ UNCHANGED <<crew, handles, threads, once, hooks, at, rounds, lost, gaps>>

\* assert(!txn->cursor_open), when the signal came in the middle of PurgeLocks.
CursorAssertion ==
    /\ mode = "cleanup" /\ Accesses(Main, LockDb) /\ txn[Main][LockDb] = "cursor"
    /\ mode' = "exited"
    /\ gaps' = gaps \cup {"abort"}
    /\ UNCHANGED <<crew, handles, threads, once, hooks, at, rounds, lost>>

GrabTable ==
    /\ mode = "grab" /\ Lockable(table, Main)
    /\ table' = Main /\ mode' = "sweep" /\ at' = 1 /\ rounds' = 0
    /\ UNCHANGED <<crew, named, priv, ref, owner, threads, once, hooks, lost, gaps>>

\* CloseAllDBExit is at handle d, whose mutex it gets.
At(d) == mode = "sweep" /\ at <= Len(DbOrder) /\ d = DbOrder[at]

\* Mutant of Wait: the rounds are not counted.
WaitUncounted(d) ==
    /\ At(d) /\ d \in named /\ Lockable(owner[d], Main)
    /\ ref[d] > 0 /\ rounds < MaxWait
    /\ owner' = [owner EXCEPT ![d] = None]
    /\ UNCHANGED <<crew, table, named, priv, ref, threads, exiting, gaps>>

\* Mutant of Wait: one round more.
WaitOnceMore(d) ==
    /\ At(d) /\ d \in named /\ Lockable(owner[d], Main)
    /\ ref[d] > 0 /\ rounds <= MaxWait
    /\ rounds' = rounds + 1
    /\ owner' = [owner EXCEPT ![d] = None]
    /\ UNCHANGED <<crew, table, named, priv, ref, threads, mode, once, hooks, at, lost, gaps>>

\* Lock, unlock, 10 ms of sleep; then the mutex is to be locked again.
Wait(d) ==
    /\ At(d) /\ d \in named /\ Lockable(owner[d], Main)
    /\ ref[d] > 0 /\ rounds < MaxWait
    /\ rounds' = rounds + 1
    /\ owner' = [owner EXCEPT ![d] = None]
    /\ UNCHANGED <<crew, table, named, priv, ref, threads, mode, once, hooks, at, lost, gaps>>

NextHandle == at' = at + 1 /\ rounds' = 0 /\ UNCHANGED <<mode, once, hooks, lost>>

SkipUnnamed(d) ==
    /\ At(d) /\ d \notin named
    /\ NextHandle /\ UNCHANGED <<crew, handles, threads, gaps>>

\* Mutant of SealUnused: the mutex is unlocked again.
SealNot(d) ==
    /\ At(d) /\ d \in named /\ Lockable(owner[d], Main) /\ ref[d] = 0
    /\ owner' = [owner EXCEPT ![d] = None]
    /\ named' = named \ {d}
    /\ NextHandle /\ UNCHANGED <<crew, table, priv, ref, threads, gaps>>

\* Nobody uses the database, and the mutex stays locked.
SealUnused(d) ==
    /\ At(d) /\ d \in named /\ Lockable(owner[d], Main) /\ ref[d] = 0
    /\ owner' = [owner EXCEPT ![d] = Main]
    /\ named' = named \ {d}
    /\ NextHandle /\ UNCHANGED <<crew, table, priv, ref, threads, gaps>>

\* After the last round the environment is closed under its users;
\* AbortTransaction reaches only the transaction of this thread.
ForceClose(d) ==
    /\ At(d) /\ d \in named /\ Lockable(owner[d], Main)
    /\ ref[d] > 0 /\ rounds = MaxWait
    /\ owner' = [owner EXCEPT ![d] = Main]
    /\ priv' = [priv EXCEPT ![d] = "gone"]
    /\ txn' = [txn EXCEPT ![Main][d] = "none"]
    /\ gaps' = gaps \cup {"forced"}
    /\ NextHandle /\ UNCHANGED <<crew, table, named, ref, pc, want, uses>>

SweepDone ==
    /\ mode = "sweep" /\ at > Len(DbOrder)
    /\ mode' = "exit"
    /\ UNCHANGED <<crew, handles, threads, once, hooks, at, rounds, lost, gaps>>

-----------------------------------------------------------------------------

Uses(t, d) ==
    \/ DBPrivRead(t, d) \/ DBPrivWrite(t, d)
    \/ DBPrivOpenCursor(t, d) \/ DBPrivCloseCursor(t, d)

HoldsMutex(t) ==
    \/ OpenEnvironment(t) \/ CountUser(t) \/ Commit(t) \/ FreeEnvironment(t)

Thread(t) ==
    \/ \E d \in Dbs : DBHandleGet(t, d) \/ Uses(t, d)
    \/ LockHandle(t) \/ CloseDB(t) \/ LockToClose(t) \/ HoldsMutex(t)

Sweep ==
    \/ GrabTable \/ SweepDone
    \/ \E d \in Dbs : SkipUnnamed(d) \/ Wait(d) \/ SealUnused(d) \/ ForceClose(d)

Next ==
    \/ \E t \in Threads : Thread(t)
    \/ RegisterLockCleanup \/ ReturnFromMain \/ Interrupt
    \/ RunHook \/ CleanupDone \/ CursorAssertion \/ Sweep

Spec == Init /\ [][Next]_vars

\* What holds a mutex gives it back, and CloseAllDBExit gets one that is free
\* again and again.
FairSpec ==
    /\ Spec /\ SF_vars(Sweep) /\ WF_vars(RunHook)
    /\ \A t \in Workers : WF_vars(HoldsMutex(t))

-----------------------------------------------------------------------------

TypeOK ==
    /\ crew \in SUBSET Workers
    /\ table \in {None, Main} /\ named \in SUBSET Dbs
    /\ priv \in [Dbs -> {"null", "open", "gone"}]
    /\ ref \in [Dbs -> Nat]
    /\ owner \in [Dbs -> Threads \cup {None}]
    /\ pc \in [Threads -> {"run", "lock", "open", "count", "close", "commit", "free"}]
    /\ want \in [Threads -> Dbs \cup {None}]
    /\ uses \in [Threads -> Dbs \cup {None}]
    /\ lost \in Dbs \cup {None}
    /\ txn \in [Threads -> [Dbs -> {"none", "read", "write", "cursor"}]]
    /\ mode \in {"work", "exit", "cleanup", "grab", "sweep", "exited"}
    /\ once \in SUBSET {"CloseAllDBExit", "LocksCleanup"} /\ hooks \in Seq(once)
    /\ at \in 0 .. Len(DbOrder) + 1 /\ rounds \in 0 .. MaxWait
    /\ gaps \in SUBSET Gaps

\* Between OpenDB and CloseDB a thread has an open environment, unless a lock
\* file could not be locked or the exit was forced.
EnvOpenForUsers ==
    gaps \cap {"stale", "forced"} = {} =>
        \A t \in Threads : uses[t] # None => priv[uses[t]] = "open"

\* LocksCleanup runs before CloseAllDBExit: it never finds a mutex that is
\* kept locked, and the locks can still be removed (locks.c:751).
CleanupBeforeSweep == mode = "cleanup" => table # Main

\* After CloseAllDBExit no thread uses a database or gets to open one, unless
\* it was forced.
QuietAtExit ==
    mode = "exited" /\ table = Main /\ "forced" \notin gaps =>
        \A t \in crew : uses[t] = None /\ pc[t] \in {"run", "lock"}

\* CloseAllDBExit returns, whatever the users of the databases do.
SweepEnds == mode = "grab" ~> mode = "exited"
=============================================================================
