------------------------------- MODULE Execd -------------------------------
(***************************************************************************)
(* The threads of cgn-execd that run the agent (LocalExec in               *)
(* cf-execd-runner.c) and the pipes they read its output from              *)
(* (cf_popen_sh, cf_pclose and PipeToPid in libpromises/pipes_unix.c).     *)
(*                                                                         *)
(* The table CHILDREN and its size MAX_FD are guarded by cft_count.  A     *)
(* child copies the descriptors of all threads, and the mutex as it is: if *)
(* another thread has it, CloseChildrenFD blocks in the child for ever and *)
(* the agent is never executed.                                            *)
(***************************************************************************)
EXTENDS Integers, FiniteSets

CONSTANTS
    Main,          \* the scheduling thread
    Workers,       \* threads made by LocalExecInThread
    Pids,          \* process ids that children get
    Fds,           \* file descriptors that pipes get
    FirstMax,      \* MAX_FD at the start
    Grow,          \* what SetChildFD adds to a descriptor that is too large
    None

Threads == {Main} \cup Workers

ASSUME ExecdAssumption ==
    /\ Main \notin Workers /\ None \notin Threads \cup Pids \cup Fds
    /\ None \notin [end : {"r", "w"}, of : Threads]
    /\ Fds \subseteq Nat /\ IsFiniteSet(Fds)
    /\ FirstMax \in Nat /\ Grow \in Nat \ {0}

VARIABLES
    children, maxfd,   \* CHILDREN[fd]: a pid or None; MAX_FD
    count,             \* who holds cft_count
    open,              \* descriptors of pipes: [end, thread] or None
    pc, fd, wfd,       \* a thread: where it is, its pd[0] and pd[1]
    newmax,            \* what SetChildFD computed before it took the mutex
    child, target,     \* the process it forked; the pid it got from the table
    state,             \* a process: "free" pid, "runs", is "stuck" or "dead"
    holds,             \* threads whose pipe it can write to
    orphans,           \* threads whose pipe a process of the agent's can write to
    half,              \* threads in whose pipe is a line that is not complete
    pending,           \* PENDING_TERMINATION, once a thread has seen it
    shrunk             \* history: two threads enlarged the table, and the
                       \* smaller size came last

table   == <<children, maxfd, count, open>>
procs   == <<state, holds, orphans, half>>
history == <<pending, shrunk>>
locals  == <<fd, wfd, newmax, child, target>>
vars    == <<table, pc, locals, procs, history>>

Init ==
    /\ children = [f \in Fds |-> None] /\ maxfd = FirstMax
    /\ count = None /\ open = [f \in Fds |-> None]
    /\ pc = [t \in Threads |-> "idle"]
    /\ fd = [t \in Threads |-> None] /\ wfd = [t \in Threads |-> None]
    /\ newmax = [t \in Threads |-> 0]
    /\ child = [t \in Threads |-> None] /\ target = [t \in Threads |-> None]
    /\ state = [p \in Pids |-> "free"]
    /\ holds = [p \in Pids |-> {}] /\ orphans = {}
    /\ half = {}
    /\ pending = FALSE /\ shrunk = FALSE

Goto(t, l) == pc' = [pc EXCEPT ![t] = l]

\* Somebody can write to the pipe of t.
HasWriter(t) == t \in orphans \/ \E p \in Pids : t \in holds[p]

-----------------------------------------------------------------------------
(* cf_popen_sh.                                                            *)

\* ScheduleRun found a class of the schedule.  Main makes a thread, or runs the
\* agent itself when it cannot.
LocalExec(t) ==
    /\ ~pending /\ pc[Main] = "idle" /\ pc[t] = "idle"
    /\ Goto(t, "init")
    /\ UNCHANGED <<table, locals, procs, history>>

\* ThreadLock(cft_count), in InitChildrenFD, SetChildFD, PipeToPid, cf_pclose
\* and CompareResult.
LockCount(t) ==
    /\ pc[t] \in {"init", "set", "pid", "pclose", "replace"} /\ count = None
    /\ count' = t
    /\ UNCHANGED <<children, maxfd, open, pc, locals, procs, history>>

Lowest(S) == CHOOSE f \in S : \A g \in S : f <= g

Unused == {f \in Fds : open[f] = None}

\* InitChildrenFD, and pipe() takes the two lowest descriptors, or fails.
Pipe(t) ==
    /\ pc[t] = "init" /\ count = t
    /\ count' = None
    /\ IF Cardinality(Unused) < 2 THEN Goto(t, "idle") /\ UNCHANGED <<open, fd, wfd>>
       ELSE LET r == Lowest(Unused)
                w == Lowest(Unused \ {r}) IN
            /\ open' = [open EXCEPT ![r] = [end |-> "r", of |-> t],
                                    ![w] = [end |-> "w", of |-> t]]
            /\ fd' = [fd EXCEPT ![t] = r] /\ wfd' = [wfd EXCEPT ![t] = w]
            /\ Goto(t, "fork")
    /\ UNCHANGED <<children, maxfd, newmax, child, target, procs, history>>

\* The pid of the child is the first free one, so that pids are reused at once.
\* The child keeps every write end it inherits: CloseChildrenFD closes what is
\* in the table, and those are read ends.
Fork(t) ==
    /\ pc[t] = "fork" /\ \E p \in Pids : state[p] = "free"
    /\ LET p == CHOOSE p \in Pids : state[p] = "free" IN
          /\ state' = [state EXCEPT ![p] = IF count = None THEN "runs" ELSE "stuck"]
          /\ holds' = [holds EXCEPT ![p] =
                {u \in Threads : \E f \in Fds : open[f] = [end |-> "w", of |-> u]}]
          /\ child' = [child EXCEPT ![t] = p]
    /\ Goto(t, "close")
    /\ UNCHANGED <<table, fd, wfd, newmax, target, orphans, half, history>>

\* Mutant of ForkFails: pd[1] stays open.
ForkFailsLeaking(t) ==
    /\ pc[t] = "fork"
    /\ open' = [open EXCEPT ![fd[t]] = None]
    /\ fd' = [fd EXCEPT ![t] = None] /\ wfd' = [wfd EXCEPT ![t] = None]
    /\ Goto(t, "idle")
    /\ UNCHANGED <<children, maxfd, count, newmax, child, target, procs, history>>

ForkFails(t) ==
    /\ pc[t] = "fork"
    /\ open' = [open EXCEPT ![fd[t]] = None, ![wfd[t]] = None]
    /\ fd' = [fd EXCEPT ![t] = None] /\ wfd' = [wfd EXCEPT ![t] = None]
    /\ holds' = [p \in Pids |-> holds[p] \ {t}]
    /\ Goto(t, "idle")
    /\ UNCHANGED <<children, maxfd, count, newmax, child, target, state, orphans, half, history>>

\* Mutant of CloseWriteEnd: the descriptor after the last is taken for one in
\* the table.
CloseWriteEndOffByOne(t) ==
    /\ pc[t] = "close"
    /\ open' = [open EXCEPT ![wfd[t]] = None]
    /\ wfd' = [wfd EXCEPT ![t] = None]
    /\ newmax' = [newmax EXCEPT ![t] = IF fd[t] > maxfd THEN fd[t] + Grow ELSE 0]
    /\ Goto(t, "set")
    /\ UNCHANGED <<children, maxfd, count, fd, child, target, procs, history>>

\* SetChildFD looks at MAX_FD before it takes the mutex ...
CloseWriteEnd(t) ==
    /\ pc[t] = "close"
    /\ open' = [open EXCEPT ![wfd[t]] = None]
    /\ wfd' = [wfd EXCEPT ![t] = None]
    /\ newmax' = [newmax EXCEPT ![t] = IF fd[t] >= maxfd THEN fd[t] + Grow ELSE 0]
    /\ Goto(t, "set")
    /\ UNCHANGED <<children, maxfd, count, fd, child, target, procs, history>>

\* ... so a table that another thread has made larger can become smaller again.
\* A write beyond the end is lost.
SetChildFD(t) ==
    LET max  == IF newmax[t] > 0 THEN newmax[t] ELSE maxfd
        kept == [f \in Fds |-> IF f < max THEN children[f] ELSE None] IN
    /\ pc[t] = "set" /\ count = t
    /\ maxfd' = max
    /\ children' = IF fd[t] < max THEN [kept EXCEPT ![fd[t]] = child[t]] ELSE kept
    /\ shrunk' = (shrunk \/ max < maxfd)
    /\ newmax' = [newmax EXCEPT ![t] = 0]
    /\ count' = None /\ Goto(t, "read")
    /\ UNCHANGED <<open, fd, wfd, child, target, procs, pending>>

-----------------------------------------------------------------------------
(* The loop of LocalExec.                                                  *)

\* IsReadReady is true with half a line, and CfReadLine waits for the rest.
\* Complete lines are read and leave no trace.
ReadBlocks(t) ==
    /\ pc[t] = "read" /\ t \in half
    /\ Goto(t, "blocked")
    /\ UNCHANGED <<table, locals, procs, history>>

ReadLine(t) ==
    /\ pc[t] = "blocked" /\ t \notin half
    /\ Goto(t, "read")
    /\ UNCHANGED <<table, locals, procs, history>>

EndOfFile(t) ==
    /\ pc[t] \in {"read", "blocked"} /\ ~HasWriter(t)
    /\ Goto(t, "pclose")
    /\ UNCHANGED <<table, locals, procs, history>>

\* No output for agent_expireafter minutes.
Timeout(t) ==
    /\ pc[t] = "read" /\ t \notin half /\ HasWriter(t)
    /\ Goto(t, "pid")
    /\ UNCHANGED <<table, locals, procs, history>>

\* SIGTERM came, and a thread that sees it leaves the loop before the next line;
\* the agent goes on.
StopReading(t) ==
    /\ pc[t] = "read"
    /\ pending' = TRUE
    /\ Goto(t, "pclose")
    /\ UNCHANGED <<table, locals, procs, shrunk>>

\* What CHILDREN[f] is for t: beyond the end of the table it may be anything.
InTable(f) == IF f < maxfd THEN {children[f]} ELSE Pids \cup {None}

PipeToPid(t) ==
    /\ pc[t] = "pid" /\ count = t
    /\ \E p \in InTable(fd[t]) : target' = [target EXCEPT ![t] = p]
    /\ count' = None /\ Goto(t, "signal")
    /\ UNCHANGED <<children, maxfd, open, fd, wfd, newmax, child, procs, history>>

\* A process ends: its pipes are closed, but for those a process of its own
\* has inherited.
Dies(p) ==
    /\ state' = [state EXCEPT ![p] = "dead"]
    /\ holds' = [holds EXCEPT ![p] = {}]
    /\ orphans' \in {orphans, IF state[p] = "runs" THEN orphans \cup holds[p] ELSE orphans}

\* Mutant of ProcessSignalTerminate: without SIGKILL, a process that has not
\* executed the agent only sets a flag in the handler it has inherited.
SignalTermOnly(t) ==
    /\ pc[t] = "signal"
    /\ IF target[t] \in Pids /\ state[target[t]] = "runs" THEN Dies(target[t])
       ELSE UNCHANGED <<state, holds, orphans>>
    /\ Goto(t, "pclose")
    /\ UNCHANGED <<table, locals, half, history>>

\* SIGINT, SIGTERM and SIGKILL within seven seconds.
ProcessSignalTerminate(t) ==
    /\ pc[t] = "signal"
    /\ IF target[t] \in Pids /\ state[target[t]] \in {"runs", "stuck"} THEN Dies(target[t])
       ELSE UNCHANGED <<state, holds, orphans>>
    /\ Goto(t, "pclose")
    /\ UNCHANGED <<table, locals, half, history>>

-----------------------------------------------------------------------------
(* cf_pclose, and CompareResult.                                           *)

\* The entry is cleared before the descriptor can be used again.
ClearEntry(t) ==
    /\ pc[t] = "pclose" /\ count = t
    /\ target' = [target EXCEPT ![t] = IF fd[t] < maxfd THEN children[fd[t]] ELSE None]
    /\ children' = IF fd[t] < maxfd THEN [children EXCEPT ![fd[t]] = None] ELSE children
    /\ count' = None /\ Goto(t, "fclose")
    /\ UNCHANGED <<maxfd, open, fd, wfd, newmax, child, procs, history>>

Fclose(t) ==
    /\ pc[t] = "fclose"
    /\ open' = [open EXCEPT ![fd[t]] = None]
    /\ holds' = [p \in Pids |-> holds[p] \ {t}]
    /\ orphans' = orphans \ {t}
    /\ half' = half \ {t}
    /\ fd' = [fd EXCEPT ![t] = None]
    /\ Goto(t, "wait")
    /\ UNCHANGED <<children, maxfd, count, wfd, newmax, child, target, state, history>>

\* cf_pwait, if the table had a pid.
PWait(t) ==
    /\ pc[t] = "wait"
    /\ IF target[t] = None THEN UNCHANGED state
       ELSE state[target[t]] = "dead" /\ state' = [state EXCEPT ![target[t]] = "free"]
    /\ child' = [child EXCEPT ![t] = None] /\ target' = [target EXCEPT ![t] = None]
    /\ Goto(t, "replace")
    /\ UNCHANGED <<table, fd, wfd, newmax, holds, orphans, half, history>>

\* CompareResult replaces "previous" by the output of this run, under cft_count.
ReplacePrevious(t) ==
    /\ pc[t] = "replace" /\ count = t
    /\ count' = None /\ Goto(t, "idle")
    /\ UNCHANGED <<children, maxfd, open, locals, procs, history>>

-----------------------------------------------------------------------------
(* The agents.                                                             *)

\* p writes a part of a line, or the rest of it, to the thread that forked it.
Writes(p) ==
    /\ state[p] = "runs"
    /\ \E t \in holds[p] :
          child[t] = p /\ half' = IF t \in half THEN half \ {t} ELSE half \cup {t}
    /\ UNCHANGED <<table, pc, locals, state, holds, orphans, history>>

\* An agent may leave processes behind that have its output.
Exits(p) ==
    /\ state[p] = "runs"
    /\ Dies(p)
    /\ UNCHANGED <<table, pc, locals, half, history>>

OrphanExits ==
    /\ orphans # {} /\ \E t \in orphans : orphans' = orphans \ {t}
    /\ UNCHANGED <<table, pc, locals, state, holds, half, history>>

ClosesOutput(p) ==
    /\ state[p] = "runs"
    /\ \E t \in holds[p] : child[t] = p /\ holds' = [holds EXCEPT ![p] = @ \ {t}]
    /\ UNCHANGED <<table, pc, locals, state, orphans, half, history>>

Agent(p) == Writes(p) \/ Exits(p) \/ ClosesOutput(p)

Step(t) ==
    \/ Pipe(t) \/ Fork(t) \/ ForkFails(t)
    \/ CloseWriteEnd(t) \/ SetChildFD(t)
    \/ ReadLine(t) \/ ReadBlocks(t) \/ EndOfFile(t) \/ Timeout(t)
    \/ PipeToPid(t) \/ ProcessSignalTerminate(t)
    \/ ClearEntry(t) \/ Fclose(t) \/ PWait(t) \/ ReplacePrevious(t)

Next ==
    \/ \E t \in Threads : LocalExec(t) \/ LockCount(t) \/ Step(t) \/ StopReading(t)
    \/ \E p \in Pids : Agent(p)
    \/ OrphanExits

Spec == Init /\ [][Next]_vars

\* Threads are scheduled, and get a mutex that is free again and again; nothing
\* is assumed of an agent.
FairSpec ==
    /\ Spec
    /\ \A t \in Threads : WF_vars(Step(t)) /\ SF_vars(LockCount(t))

-----------------------------------------------------------------------------

\* The types of the variables; and a descriptor is open as long as the thread
\* that made it knows it, and no longer.
TypeOK ==
    /\ children \in [Fds -> Pids \cup {None}] /\ maxfd \in Nat
    /\ count \in Threads \cup {None}
    /\ open \in [Fds -> [end : {"r", "w"}, of : Threads] \cup {None}]
    /\ fd \in [Threads -> Fds \cup {None}] /\ wfd \in [Threads -> Fds \cup {None}]
    /\ \A f \in Fds : IF open[f] = None THEN \A t \in Threads : f \notin {fd[t], wfd[t]}
                     ELSE f = IF open[f].end = "r" THEN fd[open[f].of] ELSE wfd[open[f].of]
    /\ newmax \in [Threads -> Nat]
    /\ child \in [Threads -> Pids \cup {None}] /\ target \in [Threads -> Pids \cup {None}]
    /\ state \in [Pids -> {"free", "runs", "stuck", "dead"}]
    /\ holds \in [Pids -> SUBSET Threads] /\ orphans \subseteq Threads /\ half \subseteq Threads
    /\ pending \in BOOLEAN /\ shrunk \in BOOLEAN

\* As long as the table is not cut short, a thread signals only its own child,
\* and only while that pid is not free to be another process.
SignalsOwnChild ==
    ~shrunk =>
        \A t \in Threads : pc[t] = "signal" =>
            target[t] = child[t] /\ state[child[t]] # "free"

\* As long as the table is not cut short, every child is waited for: whoever is
\* not "free" belongs to a thread that has yet to call waitpid for it.
ChildrenWaitedFor ==
    ~shrunk =>
        \A p \in Pids : state[p] # "free" =>
            \E t \in Threads : child[t] = p

\* A process has closed its output and goes on; cf_pwait waits for it.
Outlived(t) == pc[t] = "wait" /\ target[t] # None /\ state[target[t]] = "runs"

\* LocalExec returns, whatever the agent does and even when it was never
\* executed, unless the agent falls silent within a line or outlives its output,
\* or cgn-execd is told to stop: then it waits for the agent for as long as it takes.
Returns ==
    \A t \in Threads :
        pc[t] = "init" ~> pc[t] \in {"idle", "blocked"} \/ Outlived(t) \/ pending \/ shrunk

\* What is not looked at: what happens after the table was cut short, and after
\* the scheduling thread has ended and the others with it.
BeforeEnd == ~shrunk /\ ~(pending /\ pc[Main] = "idle")
=============================================================================
