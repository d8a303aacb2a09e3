---------------------------- MODULE PolicyReload ----------------------------
(***************************************************************************)
(* How cgn-agent, cgn-serverd and cgn-execd decide which policy to load    *)
(* (GenericAgentCheckPolicy and GenericAgentIsPolicyReloadNeeded in        *)
(* libpromises/generic_agent.c, CheckFileChanges and CheckNewPromises of   *)
(* the daemons, LoadPolicy in loading.c).                                  *)
(*                                                                         *)
(* Agents have the policy checked by cgn-promises and leave a mark, the    *)
(* file cf_promises_validated with a time in it.  A policy with no change  *)
(* that is newer than the mark is not checked again; a daemon that sees a  *)
(* newer mark than before checks and loads the policy.  Times are whole    *)
(* seconds, and nothing keeps the policy from changing meanwhile.          *)
(***************************************************************************)
EXTENDS Integers

CONSTANTS
    Agents, Daemons,
    MaxVersion,    \* changes of the policy, a bound
    MaxClock       \* seconds, a bound

Procs == Agents \cup Daemons

ASSUME PolicyAssumption ==
    /\ Agents \cap Daemons = {}
    /\ MaxVersion \in Nat \ {0} /\ MaxClock \in Nat \ {0}

VARIABLES
    clock,
    version, good,  \* the policy: which one, and whether it can be loaded
    mtime,          \* of promises.cf and of the directories of the policy
    mark,           \* the time in cf_promises_validated; 0 without it
    pc,
    stamp,          \* a time in a local variable: validated_at, or a new mark
    ok,             \* cgn-promises accepted the policy for this process
    last,           \* config->agent_specific.daemon.last_validated_at
    runs,           \* the version a daemon has loaded, or 0
    fallen,         \* daemons whose input file is failsafe.cf
    accepted,       \* history: cgn-promises accepted this version
    changed,        \* history: the policy changed after the process judged it
    gaps            \* history: what makes a mark mean less than it says

policy  == <<version, good, mtime, accepted>>
locals  == <<stamp, ok, changed>>
daemons == <<last, runs, fallen>>
vars    == <<clock, policy, mark, pc, locals, daemons, gaps>>

\* unseen     a change is not newer than the mark: a file in a directory was
\*            written in place, or the mark is of the same second or later,
\* overtaken  the policy changed between its check and the mark,
\* touched    the mark was written because it was in the future,
\* backward   a mark was replaced by an older one,
\* jumped     the clock was set back.
Gaps == {"unseen", "overtaken", "touched", "backward", "jumped"}

\* After these the policy may be another than the one the mark is about.
Worthless == {"unseen", "overtaken", "touched"}

Writing == {"creat", "time", "write"}

Init ==
    /\ clock = 1
    /\ version = 1 /\ good \in BOOLEAN /\ mtime = 1 /\ accepted = FALSE
    /\ mark = 0
    /\ pc = [p \in Procs |-> "off"]
    /\ stamp = [p \in Procs |-> 0] /\ ok = [p \in Procs |-> FALSE] /\ changed = {}
    /\ last = [d \in Daemons |-> 0] /\ runs = [d \in Daemons |-> 0] /\ fallen = {}
    /\ gaps = {}

Goto(p, l) == pc' = [pc EXCEPT ![p] = l]

\* The local variables of p do not matter any more.
Forget(p) == stamp' = [stamp EXCEPT ![p] = 0] /\ ok' = [ok EXCEPT ![p] = FALSE]

-----------------------------------------------------------------------------
(* The world.                                                              *)

Tick ==
    /\ clock < MaxClock /\ clock' = clock + 1
    /\ UNCHANGED <<policy, mark, pc, locals, daemons, gaps>>

\* Once, to bound it.
SetBack ==
    /\ "jumped" \notin gaps /\ gaps' = gaps \cup {"jumped"}
    /\ clock' \in 1 .. clock - 1
    /\ UNCHANGED <<policy, mark, pc, locals, daemons>>

\* Nothing will tell p of a change that leaves the policy with mtime t: it has
\* judged what is there, or the mark it has read is not older.
TooLate(p, t) ==
    \/ pc[p] = "load" \/ (ok[p] /\ pc[p] \in Writing)
    \/ pc[p] = "compare" /\ t <= stamp[p]

\* Somebody changes the policy: IsNewerFileTree sees a new name in a directory,
\* as a copy makes it, and not a file that is written in place.
Edit ==
    /\ version < MaxVersion /\ version' = version + 1
    /\ good' \in BOOLEAN /\ accepted' = FALSE
    /\ mtime' \in {mtime, clock}
    /\ changed' = changed \cup {p \in Procs : TooLate(p, mtime')}
    /\ gaps' = IF mtime' <= mark THEN gaps \cup {"unseen"} ELSE gaps
    /\ UNCHANGED <<clock, mark, pc, stamp, ok, daemons>>

-----------------------------------------------------------------------------
(* GenericAgentCheckPolicy, in an agent or in a daemon that starts.        *)

\* Mutant of Begin: a daemon takes note of the time.
BeginNow(p) ==
    /\ pc[p] \in {"off", "dead"}
    /\ last' = IF p \in Daemons THEN [last EXCEPT ![p] = clock] ELSE last
    /\ Forget(p) /\ changed' = changed \ {p}
    /\ Goto(p, "read")
    /\ UNCHANGED <<clock, policy, mark, runs, fallen, gaps>>

\* A daemon takes note of the mark first.
Begin(p) ==
    /\ pc[p] \in {"off", "dead"}
    /\ last' = IF p \in Daemons THEN [last EXCEPT ![p] = mark] ELSE last
    /\ Forget(p) /\ changed' = changed \ {p}
    /\ Goto(p, "read")
    /\ UNCHANGED <<clock, policy, mark, runs, fallen, gaps>>

\* A mark in the future is touched, and the policy checked.
ReadMark(p) ==
    /\ pc[p] = "read"
    /\ stamp' = [stamp EXCEPT ![p] = mark]
    /\ Goto(p, IF mark > clock THEN "creat" ELSE "compare")
    /\ UNCHANGED <<clock, policy, mark, ok, changed, daemons, gaps>>

\* Mutant of Compare: a change in the second after the mark is taken for older.
CompareAtLeast(p) ==
    /\ pc[p] = "compare"
    /\ \/ Goto(p, "validate")
       \/ mtime <= stamp[p] + 1 /\ Goto(p, "load")
    /\ UNCHANGED <<clock, policy, mark, locals, daemons, gaps>>

\* A newer policy_server.dat and an entry that vanishes during IsNewerFileTree make
\* the process check the policy, too; ALWAYS_VALIDATE is still false here.
Compare(p) ==
    /\ pc[p] = "compare"
    /\ \/ Goto(p, "validate")
       \/ mtime <= stamp[p] /\ Goto(p, "load")
    /\ UNCHANGED <<clock, policy, mark, locals, daemons, gaps>>

\* Mutant of ArePromisesValid: the exit status of cgn-promises is ignored.
TakenForValid(p) ==
    /\ pc[p] = "validate"
    /\ Goto(p, IF p \in Agents THEN "creat" ELSE "load")
    /\ ok' = [ok EXCEPT ![p] = TRUE] /\ stamp' = [stamp EXCEPT ![p] = 0]
    /\ accepted' = (accepted \/ good)
    /\ UNCHANGED <<clock, version, good, mtime, mark, changed, daemons, gaps>>

\* cgn-promises reads the policy.  Only an agent leaves a mark.
ArePromisesValid(p) ==
    /\ pc[p] = "validate"
    /\ Goto(p, IF ~good THEN "failsafe" ELSE IF p \in Agents THEN "creat" ELSE "load")
    /\ ok' = [ok EXCEPT ![p] = good] /\ stamp' = [stamp EXCEPT ![p] = 0]
    /\ accepted' = (accepted \/ good)
    /\ UNCHANGED <<clock, version, good, mtime, mark, changed, daemons, gaps>>

\* The input file of this process is failsafe.cf from now on.
Failsafe(p) ==
    /\ pc[p] = "failsafe"
    /\ IF p \in Daemons THEN fallen' = fallen \cup {p} /\ Goto(p, "idle")
       ELSE UNCHANGED fallen /\ Goto(p, "off")
    /\ UNCHANGED <<clock, policy, mark, locals, last, runs, gaps>>

-----------------------------------------------------------------------------
(* WritePolicyValidatedFile.                                               *)

\* Where the process goes on: one that only touched the mark checks the policy.
Marked(p) == Goto(p, IF ok[p] THEN "load" ELSE "validate")

\* The mark says t, because p accepted the policy or because it was too new.
Mark(p, t) ==
    /\ mark' = t
    /\ gaps' = gaps \cup (IF ok[p] /\ p \in changed /\ mtime <= t THEN {"overtaken"} ELSE {})
                    \cup (IF ~ok[p] /\ mtime <= t THEN {"touched"} ELSE {})
                    \cup (IF t < mark THEN {"backward"} ELSE {})

\* An empty file is as good as one with its mtime in it.
Creat(p) ==
    /\ pc[p] = "creat"
    /\ Mark(p, clock) /\ Goto(p, "time")
    /\ UNCHANGED <<clock, policy, locals, daemons>>

TakeTime(p) ==
    /\ pc[p] = "time"
    /\ stamp' = [stamp EXCEPT ![p] = clock] /\ Goto(p, "write")
    /\ UNCHANGED <<clock, policy, mark, ok, changed, daemons, gaps>>

Write(p) ==
    /\ pc[p] = "write"
    /\ Mark(p, stamp[p]) /\ Marked(p)
    /\ UNCHANGED <<clock, policy, locals, daemons>>

\* Nobody asks whether the mark could be written.
MarkFails(p) ==
    /\ pc[p] \in {"creat", "write"}
    /\ Marked(p)
    /\ UNCHANGED <<clock, policy, mark, locals, daemons, gaps>>

-----------------------------------------------------------------------------
(* LoadPolicy, which exits when there are errors; an agent acts, and ends.  *)

LoadPolicy(p) ==
    /\ pc[p] = "load"
    /\ IF p \in fallen \/ good
       THEN Goto(p, IF p \in Daemons THEN "idle" ELSE "off")
            /\ Forget(p) /\ changed' = changed \ {p}
       ELSE Goto(p, "dead") /\ UNCHANGED locals
    /\ runs' = IF p \in Daemons \ fallen THEN [runs EXCEPT ![p] = IF good THEN version ELSE 0]
               ELSE runs
    /\ UNCHANGED <<clock, policy, mark, last, fallen, gaps>>

-----------------------------------------------------------------------------
(* CheckFileChanges of cgn-serverd and CheckNewPromises of cgn-execd.      *)

\* Mutant of CheckNewPromises: a mark of the next second is not a new one.
NoticeLater(d) ==
    /\ pc[d] = "idle" /\ last[d] + 1 < mark
    /\ last' = [last EXCEPT ![d] = mark]
    /\ Goto(d, "revalidate")
    /\ UNCHANGED <<clock, policy, mark, locals, runs, fallen, gaps>>

\* The mark is noted before the policy is checked and loaded.
CheckNewPromises(d) ==
    /\ pc[d] = "idle" /\ last[d] < mark
    /\ last' = [last EXCEPT ![d] = mark]
    /\ Goto(d, "revalidate")
    /\ UNCHANGED <<clock, policy, mark, locals, runs, fallen, gaps>>

\* A policy with errors is ignored.
Revalidate(d) ==
    /\ pc[d] = "revalidate"
    /\ IF d \in fallen THEN Goto(d, "load") /\ UNCHANGED <<ok, accepted>>
       ELSE /\ Goto(d, IF good THEN "load" ELSE "idle")
            /\ ok' = [ok EXCEPT ![d] = good] /\ accepted' = (accepted \/ good)
    /\ changed' = changed \ {d}
    /\ UNCHANGED <<clock, version, good, mtime, mark, stamp, daemons, gaps>>

\* A process ends at any point; it is started again later.
Stop(p) ==
    /\ pc[p] \notin {"off", "dead"}
    /\ Goto(p, "off")
    /\ Forget(p) /\ changed' = changed \ {p}
    /\ last' = [d \in Daemons |-> IF d = p THEN 0 ELSE last[d]]
    /\ runs' = [d \in Daemons |-> IF d = p THEN 0 ELSE runs[d]]
    /\ fallen' = fallen \ {p}
    /\ UNCHANGED <<clock, policy, mark, gaps>>

-----------------------------------------------------------------------------

Check(p) ==
    \/ ReadMark(p) \/ Compare(p) \/ ArePromisesValid(p) \/ Failsafe(p)
    \/ Creat(p) \/ TakeTime(p) \/ Write(p) \/ LoadPolicy(p)

Daemon(d) == CheckNewPromises(d) \/ Revalidate(d)

Next ==
    \/ Tick \/ SetBack \/ Edit
    \/ \E p \in Procs : Begin(p) \/ Check(p) \/ MarkFails(p) \/ Stop(p)
    \/ \E d \in Daemons : Daemon(d)

Spec == Init /\ [][Next]_vars

\* Time goes on, daemons look at the mark, and cgn-execd runs an agent again and
\* again; not every one of them ends early, and not every mark is impossible to
\* write.
FairSpec ==
    /\ Spec /\ WF_vars(Tick)
    /\ \A d \in Daemons : WF_vars(Check(d) \/ Daemon(d))
    /\ \A a \in Agents :
          /\ WF_vars(Begin(a) \/ Check(a)) /\ SF_vars(ReadMark(a)) /\ SF_vars(Compare(a))
          /\ SF_vars(ArePromisesValid(a)) /\ SF_vars(Creat(a))

-----------------------------------------------------------------------------

TypeOK ==
    /\ clock \in Nat /\ version \in Nat /\ good \in BOOLEAN /\ mtime \in Nat
    /\ mark \in Nat
    /\ pc \in [Procs -> {"off", "dead", "read", "compare", "validate", "failsafe", "load",
                         "idle", "revalidate"} \cup Writing]
    /\ stamp \in [Procs -> Nat] /\ ok \in [Procs -> BOOLEAN]
    /\ last \in [Daemons -> Nat] /\ runs \in [Daemons -> Nat]
    /\ fallen \subseteq Daemons
    /\ accepted \in BOOLEAN /\ changed \subseteq Procs /\ gaps \subseteq Gaps

\* A policy with no change newer than the mark is one that cgn-promises has
\* accepted, and "Policy is already validated" is true, unless the change
\* escaped notice, came between the check and the mark, or the mark was touched.
MarkMeansAccepted ==
    gaps \cap Worthless = {} /\ mtime <= mark => accepted

\* LoadPolicy ends a process only when the policy changed after the process had
\* judged it, or when it trusted a mark that a gap had made worthless.
SurvivesLoading ==
    \A p \in Procs : pc[p] = "dead" =>
        \/ p \in changed
        \/ ~ok[p] /\ gaps \cap Worthless # {}

\* A daemon that is content with the mark, when agents are too, has the policy
\* that is there, unless a change or a mark escaped it (CheckFileChanges).
NoMissedUpdate ==
    gaps \cap {"unseen", "backward"} = {} /\ good /\ mtime <= mark =>
        \A d \in Daemons \ fallen :
            pc[d] = "idle" /\ mark <= last[d] => runs[d] = version

\* A good policy that is not changed any more is loaded by every daemon that
\* goes on running.
DaemonsFollow ==
    \A d \in Daemons, v \in 1 .. MaxVersion :
        <>[](version = v /\ good) =>
            []<>(\/ runs[d] = v \/ d \in fallen \/ pc[d] \in {"off", "dead"}
                 \/ gaps \cap {"unseen", "backward"} # {})
=============================================================================
