-------------------------- MODULE CriticalSection --------------------------
(***************************************************************************)
(* Progress of WaitForCriticalSection and ReleaseCriticalSection           *)
(* (libpromises/locks.c), by themselves: module Locks bounds the clock and *)
(* cannot speak of what happens eventually.  Here the record of the section *)
(* has an age that stops growing when it is old enough to be ignored.      *)
(***************************************************************************)
EXTENDS Integers

CONSTANTS
    Agents,
    Minute,       \* the age at which a record is ignored
    MaxCrashes,   \* bound: agents crash finitely often
    None

ASSUME CriticalSectionAssumption ==
    Minute \in Nat \ {0} /\ MaxCrashes \in Nat /\ None \notin 0 .. Minute

VARIABLES age,      \* the age of the record CF_CRITICAL_SECTION, or None
          pc,       \* per agent: "out", "poll", "write", "inside", "dead"
          crashes

vars == <<age, pc, crashes>>

Goto(a, l) == pc' = [pc EXCEPT ![a] = l]

Init == age = None /\ pc = [a \in Agents |-> "out"] /\ crashes = 0

Tick ==
    /\ age # None /\ age < Minute
    /\ age' = age + 1
    /\ UNCHANGED <<pc, crashes>>

Call(a) == pc[a] = "out" /\ Goto(a, "poll") /\ UNCHANGED <<age, crashes>>

\* Mutant of Poll: the record is honoured whatever its age.
PollForever(a) ==
    /\ pc[a] = "poll" /\ age = None
    /\ Goto(a, "write") /\ UNCHANGED <<age, crashes>>

\* The loop of WaitForCriticalSection ends.
Poll(a) ==
    /\ pc[a] = "poll" /\ age \in {None, Minute}
    /\ Goto(a, "write") /\ UNCHANGED <<age, crashes>>

\* WriteLock(section_id).
Write(a) ==
    /\ pc[a] = "write"
    /\ age' = 0
    /\ Goto(a, "inside") /\ UNCHANGED crashes

ReleaseCriticalSection(a) ==
    /\ pc[a] = "inside"
    /\ age' = None
    /\ Goto(a, "out") /\ UNCHANGED crashes

Crash(a) ==
    /\ pc[a] # "dead" /\ crashes < MaxCrashes
    /\ crashes' = crashes + 1
    /\ Goto(a, "dead") /\ UNCHANGED age

Restart(a) == pc[a] = "dead" /\ Goto(a, "out") /\ UNCHANGED <<age, crashes>>

Next ==
    \/ Tick
    \/ \E a \in Agents :
          \/ Call(a) \/ Poll(a) \/ Write(a) \/ ReleaseCriticalSection(a)
          \/ Crash(a) \/ Restart(a)

\* Time passes, and an agent that polls or is about to write runs on.  Nothing
\* is assumed of an agent inside: it may hang there.
Spec ==
    /\ Init /\ [][Next]_vars
    /\ WF_vars(Tick)
    /\ \A a \in Agents : WF_vars(Poll(a)) /\ WF_vars(Write(a))

-----------------------------------------------------------------------------
\* Nobody waits for ever on a section that nobody enters any more: not on the
\* record of a crashed agent, not on one that hangs inside.  (One agent may
\* always be overtaken by others; the polling of WaitForCriticalSection does not
\* exclude that.)
WaitersMoveOn ==
    \A a \in Agents :
        pc[a] = "poll" ~> (pc[a] = "dead" \/ \E b \in Agents : pc[b] = "write")
=============================================================================
