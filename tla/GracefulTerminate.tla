------------------------- MODULE GracefulTerminate -------------------------
(***************************************************************************)
(* GracefulTerminate (libpromises/process_unix.c), which ends the holder of *)
(* an expired lock: SIGINT, then SIGTERM, then SIGKILL, each sent by        *)
(* SafeKill to the process that has the recorded pid and start time.       *)
(*                                                                         *)
(* The model follows one pid.  Its holders in the course of time are        *)
(* numbered: process 1 is the target, a greater one got the pid later and  *)
(* has another start time.  Between two system calls of a killer the        *)
(* process may stop late, exit, be reaped, and the pid be given out again. *)
(***************************************************************************)
EXTENDS Integers

CONSTANTS
    Killers,    \* processes that run GracefulTerminate on this pid
    MaxPid,     \* bound: processes that hold the pid one after the other
    MaxPolls    \* polls before STOP_WAIT_TIMEOUT is over

ASSUME KillAssumption == MaxPid \in Nat \ {0} /\ MaxPolls \in Nat \ {0}

VARIABLES
    holder,     \* which process has the pid, or had it last
    condition,  \* GetProcessState(pid)
    stopping,   \* a SIGSTOP was sent and has not taken effect
    allowed,    \* the processes that the killers may signal
    known,      \* the start time of the target was recorded
    hit,        \* history: the processes that got a terminating signal
    killing,    \* where a killer is in GracefulTerminate and SafeKill
    signal,     \* the signal it is sending
    polls,      \* polls left
    errno,      \* the error of the last Kill that failed
    result      \* what GracefulTerminate returned; "none" before

process == <<holder, condition, stopping>>
killer  == <<killing, signal, polls, errno, result>>
killvars    == <<process, allowed, known, hit, killer>>

Processes == 1 .. MaxPid
States  == {"running", "stopped", "zombie", "gone"}
Signals == {"SIGINT", "SIGTERM", "SIGKILL"}
NextSignal == [SIGINT |-> "SIGTERM", SIGTERM |-> "SIGKILL", SIGKILL |-> "SIGKILL"]

KillInit ==
    /\ holder = 1 /\ condition = "running" /\ stopping = FALSE
    /\ allowed \in SUBSET Processes
    /\ known \in BOOLEAN
    /\ hit = {}
    /\ killing = [k \in Killers |-> "kill"]
    /\ signal = [k \in Killers |-> "SIGINT"]
    /\ polls = [k \in Killers |-> MaxPolls]
    /\ errno = [k \in Killers |-> "none"]
    /\ result = [k \in Killers |-> "none"]

KillGoto(k, l) == killing' = [killing EXCEPT ![k] = l]

-----------------------------------------------------------------------------
(* The process.                                                            *)

StopTakesEffect ==
    /\ stopping /\ condition = "running"
    /\ condition' = "stopped" /\ stopping' = FALSE
    /\ UNCHANGED <<holder, allowed, known, hit, killer>>

\* By itself or because of a SIGINT or SIGTERM.
ProcessExits ==
    /\ condition = "running"
    /\ condition' = "zombie" /\ stopping' = FALSE
    /\ UNCHANGED <<holder, allowed, known, hit, killer>>

ProcessReaped ==
    /\ condition = "zombie"
    /\ condition' = "gone"
    /\ UNCHANGED <<holder, stopping, allowed, known, hit, killer>>

PidReused ==
    /\ condition = "gone" /\ holder < MaxPid
    /\ holder' = holder + 1 /\ condition' = "running" /\ stopping' = FALSE
    /\ UNCHANGED <<allowed, known, hit, killer>>

-----------------------------------------------------------------------------
(* System calls of a killer.                                               *)

\* GetProcessStartTime(pid) is the expected one; a zombie still has it.
StartTimeMatches == condition # "gone" /\ holder = 1

\* kill(pid, SIGCONT), whose result nobody looks at.
Continue ==
    /\ condition' = IF condition = "stopped" /\ holder \in allowed THEN "running" ELSE condition
    /\ stopping' = IF holder \in allowed THEN FALSE ELSE stopping
    /\ UNCHANGED holder

\* kill(pid, s) of a terminating signal that arrives; SIGKILL acts at once.
Deliver(s) ==
    /\ hit' = hit \cup {holder}
    /\ condition' = IF s = "SIGKILL" THEN "zombie" ELSE condition
    /\ stopping' = IF s = "SIGKILL" THEN FALSE ELSE stopping
    /\ UNCHANGED holder

\* Kill returned 0: the wait for the exit, or the end after SIGKILL.
Sent(k) ==
    /\ KillGoto(k, IF signal[k] = "SIGKILL" THEN "done" ELSE "await")
    /\ result' = IF signal[k] = "SIGKILL" THEN [result EXCEPT ![k] = "true"] ELSE result
    /\ polls' = [polls EXCEPT ![k] = MaxPolls]
    /\ UNCHANGED <<signal, errno>>

\* Mutant of Unsent: ESRCH counts as success after SIGINT too.
UnsentIsGone(k, e) ==
    /\ KillGoto(k, "done")
    /\ errno' = [errno EXCEPT ![k] = e]
    /\ result' = [result EXCEPT ![k] = IF e = "ESRCH" THEN "true" ELSE "false"]
    /\ UNCHANGED <<signal, polls>>

\* Kill returned -1: false after SIGINT, else whether errno is ESRCH.
Unsent(k, e) ==
    /\ KillGoto(k, "done")
    /\ errno' = [errno EXCEPT ![k] = e]
    /\ result' = [result EXCEPT ![k] =
                    IF signal[k] # "SIGINT" /\ e = "ESRCH" THEN "true" ELSE "false"]
    /\ UNCHANGED <<signal, polls>>

-----------------------------------------------------------------------------
\* Kill with PROCESS_START_TIME_UNKNOWN: kill(2), no check.
PlainKill(k) ==
    /\ killing[k] = "kill" /\ ~known
    /\ IF condition = "gone" THEN Unsent(k, "ESRCH") /\ UNCHANGED <<process, hit>>
       ELSE IF holder \notin allowed THEN Unsent(k, "EPERM") /\ UNCHANGED <<process, hit>>
       ELSE IF condition = "zombie" THEN Sent(k) /\ UNCHANGED <<process, hit>>
       ELSE Sent(k) /\ Deliver(signal[k])
    /\ UNCHANGED <<allowed, known>>

\* SafeKill, the preliminary check.
CheckStart(k) ==
    /\ killing[k] = "kill" /\ known
    /\ IF StartTimeMatches
       THEN KillGoto(k, "stop") /\ UNCHANGED <<signal, polls, errno, result>>
       ELSE Unsent(k, "ESRCH")
    /\ UNCHANGED <<process, allowed, known, hit>>

SendStop(k) ==
    /\ killing[k] = "stop"
    /\ IF condition = "gone" THEN Unsent(k, "ESRCH") /\ UNCHANGED process
       ELSE IF holder \notin allowed THEN Unsent(k, "EPERM") /\ UNCHANGED process
       ELSE /\ stopping' = (stopping \/ condition = "running")
            /\ KillGoto(k, "poll")
            /\ polls' = [polls EXCEPT ![k] = MaxPolls]
            /\ UNCHANGED <<holder, condition, signal, errno, result>>
    /\ UNCHANGED <<allowed, known, hit>>

\* Mutant of PollStopped: no SIGCONT on the way out of a timeout.
PollStoppedLeaves(k) ==
    /\ killing[k] = "poll"
    /\ \/ /\ condition = "stopped"
          /\ KillGoto(k, "recheck") /\ UNCHANGED <<process, signal, polls, errno, result>>
       \/ /\ condition = "running" /\ polls[k] > 0
          /\ polls' = [polls EXCEPT ![k] = @ - 1]
          /\ UNCHANGED <<process, killing, signal, errno, result>>
       \/ /\ polls[k] = 0 \/ condition \in {"zombie", "gone"}
          /\ Unsent(k, "ESRCH") /\ UNCHANGED process
    /\ UNCHANGED <<allowed, known, hit>>

\* Mutant of PollStopped: the timeout does not run down.
PollStoppedForever(k) ==
    /\ killing[k] = "poll" /\ condition # "running"
    /\ IF condition = "stopped"
       THEN KillGoto(k, "recheck") /\ UNCHANGED <<process, signal, polls, errno, result>>
       ELSE Continue /\ Unsent(k, "ESRCH")
    /\ UNCHANGED <<allowed, known, hit>>

\* ProcessWaitUntilStopped, and SIGCONT and ESRCH if it did not stop in time.
PollStopped(k) ==
    /\ killing[k] = "poll"
    /\ \/ /\ condition = "stopped" /\ polls[k] > 0
          /\ KillGoto(k, "recheck") /\ UNCHANGED <<process, signal, polls, errno, result>>
       \/ /\ condition = "running" /\ polls[k] > 0
          /\ polls' = [polls EXCEPT ![k] = @ - 1]
          /\ UNCHANGED <<process, killing, signal, errno, result>>
       \/ /\ polls[k] = 0 \/ condition \in {"zombie", "gone"}
          /\ Continue /\ Unsent(k, "ESRCH")
    /\ UNCHANGED <<allowed, known, hit>>

\* Mutant of Recheck: the start time is not looked at again.
RecheckSkipped(k) ==
    /\ killing[k] = "recheck"
    /\ KillGoto(k, "signal") /\ UNCHANGED <<process, signal, polls, errno, result>>
    /\ UNCHANGED <<allowed, known, hit>>

\* The stopped process is interrogated again.
Recheck(k) ==
    /\ killing[k] = "recheck"
    /\ IF StartTimeMatches
       THEN KillGoto(k, "signal") /\ UNCHANGED <<process, signal, polls, errno, result>>
       ELSE Continue /\ Unsent(k, "ESRCH")
    /\ UNCHANGED <<allowed, known, hit>>

SendSignal(k) ==
    /\ killing[k] = "signal"
    /\ IF condition # "gone" /\ holder \in allowed
       THEN /\ errno' = [errno EXCEPT ![k] = "none"]
            /\ IF condition = "zombie" THEN UNCHANGED <<process, hit>> ELSE Deliver(signal[k])
       ELSE /\ errno' = [errno EXCEPT ![k] = IF condition = "gone" THEN "ESRCH" ELSE "EPERM"]
            /\ UNCHANGED <<process, hit>>
    /\ KillGoto(k, "cont")
    /\ UNCHANGED <<allowed, known, signal, polls, result>>

\* SIGCONT, and the return of SafeKill with the saved errno.
SendCont(k) ==
    /\ killing[k] = "cont"
    /\ Continue
    /\ IF errno[k] = "none" THEN Sent(k) ELSE Unsent(k, errno[k])
    /\ UNCHANGED <<allowed, known, hit>>

\* ProcessWaitUntilExited, then the next signal.
AwaitExit(k) ==
    /\ killing[k] = "await"
    /\ \/ /\ condition \in {"zombie", "gone"} /\ polls[k] > 0
          /\ KillGoto(k, "done") /\ result' = [result EXCEPT ![k] = "true"]
          /\ UNCHANGED <<signal, polls>>
       \/ /\ condition = "running" /\ polls[k] > 0
          /\ polls' = [polls EXCEPT ![k] = @ - 1]
          /\ UNCHANGED <<killing, signal, result>>
       \/ /\ condition = "stopped" \/ polls[k] = 0
          /\ KillGoto(k, "kill") /\ signal' = [signal EXCEPT ![k] = NextSignal[@]]
          /\ UNCHANGED <<polls, result>>
    /\ UNCHANGED <<process, allowed, known, hit, errno>>

-----------------------------------------------------------------------------
Environment == StopTakesEffect \/ ProcessExits \/ ProcessReaped \/ PidReused

KillStep(k) ==
    \/ PlainKill(k) \/ CheckStart(k) \/ SendStop(k) \/ PollStopped(k) \/ Recheck(k)
    \/ SendSignal(k) \/ SendCont(k) \/ AwaitExit(k)

KillNext == Environment \/ \E k \in Killers : KillStep(k)

KillSpec == KillInit /\ [][KillNext]_killvars

\* A killer is a running process: nothing it calls blocks without a timeout.
FairKillSpec == KillSpec /\ \A k \in Killers : WF_killvars(KillStep(k))

-----------------------------------------------------------------------------
ProcessTypeOK ==
    /\ holder \in Processes /\ condition \in States
    /\ allowed \in SUBSET Processes /\ hit \in SUBSET Processes
    /\ stopping \in BOOLEAN /\ known \in BOOLEAN

KillerTypeOK ==
    /\ killing \in [Killers -> {"kill", "stop", "poll", "recheck",
                               "signal", "cont", "await", "done"}]
    /\ signal \in [Killers -> Signals]
    /\ polls \in [Killers -> 0 .. MaxPolls]
    /\ errno \in [Killers -> {"none", "ESRCH", "EPERM"}]
    /\ result \in [Killers -> {"none", "true", "false"}]

KillTypeOK == ProcessTypeOK /\ KillerTypeOK

\* With a recorded start time no other process than the target is ever sent a
\* terminating signal, however late it stops and whoever gets its pid: what
\* SafeKill's five steps are for.
HitsOnlyTarget == known => hit \subseteq {1}

\* When every call has returned, no process that holds the pid was left
\* stopped, or about to stop, by SafeKill.
NotLeftStopped ==
    (\A k \in Killers : killing[k] = "done") => condition # "stopped" /\ ~stopping

\* A result of true means at least that the target was signalled, or that it
\* had exited when its signal was sent.
TrueMeansSignalled ==
    \A k \in Killers : result[k] = "true" /\ known =>
        1 \in hit \/ holder # 1 \/ condition \in {"zombie", "gone"}

\* GracefulTerminate returns, whatever the process does.
KillReturns == \A k \in Killers : <>(killing[k] = "done")
=============================================================================
