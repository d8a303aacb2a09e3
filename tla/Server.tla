------------------------------- MODULE Server -------------------------------
(***************************************************************************)
(* cgn-serverd: the main loop that accepts connections and reloads the     *)
(* policy (cf-serverd-functions.c), and the threads that serve connections *)
(* (server.c).                                                             *)
(*                                                                         *)
(* Two mutexes are involved.  cft_server_children protects ACTIVE_THREADS; *)
(* the main loop holds it while it reloads, which is the steps "clear" and *)
(* "load".  cft_count protects SV.connectionlist, and is only ever held for *)
(* what is one step here.  A policy is the number of its validation; None   *)
(* is the access control lists freed and not loaded again.                 *)
(***************************************************************************)
EXTENDS Integers, Sequences, FiniteSets

CONSTANTS
    Conns,          \* bound: connections open at a time
    Hosts,          \* clients
    Multi,          \* SV.multiconnlist: hosts that may connect more than once
    MaxProcesses,   \* CFD_MAXPROCESSES (maxconnections)
    MaxTries,       \* MAXTRIES
    Old,            \* the two hours of PurgeOldConnections
    MaxClock,       \* bound: the last clock value
    MaxPolicy,      \* bound: validated policies
    None

ASSUME ServerAssumption ==
    /\ IsFiniteSet(Conns) /\ Multi \subseteq Hosts
    /\ MaxProcesses \in Nat /\ MaxTries \in Nat /\ Old \in Nat
    /\ MaxClock \in Nat /\ MaxPolicy \in Nat
    /\ None \notin Hosts /\ None \notin Conns /\ None \notin Nat

VARIABLES
    clock,      \* time(NULL)
    term,       \* PENDING_TERMINATION
    valid,      \* the policy last validated on disk
    seen,       \* last_validated_at
    policy,     \* the policy the access control lists were made from
    main,       \* what the main thread does next
    from,       \* the host whose connection it has accepted, or None
    now,        \* the time it took in ServerEntryPoint
    mine,       \* the connection it handles itself, or None
    waits,      \* rounds left in WaitOnThreads
    active,     \* ACTIVE_THREADS
    tries,      \* TRIES
    list,       \* SV.connectionlist, the newest entry first
    st, host,   \* what the thread of a connection does, and its client
    session,    \* history: the policy when its session began
    forgot      \* history: hosts with an open connection whose entry was purged

mainVars == <<main, from, now, mine, waits>>
polVars  == <<valid, seen, policy>>
connVars == <<st, host, session>>
vars     == <<clock, term, polVars, mainVars, active, tries, list, connVars, forgot>>

-----------------------------------------------------------------------------
Entry == [host : Hosts, time : Nat]

Serving == {c \in Conns : st[c] = "serving"}

\* Connections of host h that are not torn down.
Open(h) == {c \in Conns : st[c] # "none" /\ host[c] = h}

Listed(h) == {i \in DOMAIN list : list[i].host = h}

\* What DeleteItem leaves of a list when only the items at the indexes S stay.
Keep(l, S) ==
    [j \in 1 .. Cardinality(S) |-> l[CHOOSE i \in S : Cardinality({k \in S : k <= i}) = j]]

\* cft_server_children is free.
Unlocked == main \notin {"clear", "load"}

Running == main # "stopped"

Init ==
    /\ clock = 0 /\ term = FALSE
    /\ valid = 0 /\ seen = 0 /\ policy = 0
    /\ main = "loop" /\ from = None /\ now = 0 /\ mine = None /\ waits = 2
    /\ active = 0 /\ tries = 0 /\ list = <<>>
    /\ st = [c \in Conns |-> "none"]
    /\ host = [c \in Conns |-> None]
    /\ session = [c \in Conns |-> None]
    /\ forgot = {}

Tick ==
    /\ Running /\ clock < MaxClock
    /\ clock' = clock + 1
    /\ UNCHANGED <<term, polVars, mainVars, active, tries, list, connVars, forgot>>

\* SIGTERM or SIGINT: HandleSignalsForDaemon.
Signal ==
    /\ Running /\ ~term
    /\ term' = TRUE
    /\ UNCHANGED <<clock, polVars, mainVars, active, tries, list, connVars, forgot>>

\* The agent validates a new policy.
NewPolicy ==
    /\ Running /\ valid < MaxPolicy
    /\ valid' = valid + 1
    /\ UNCHANGED <<clock, term, seen, policy, mainVars, active, tries, list, connVars, forgot>>

-----------------------------------------------------------------------------
(* The main loop of StartServer.                                           *)

\* WaitForIncoming: h is a host whose connection is pending and is accepted
\* later, or None after a timeout.
WaitForIncoming(h) ==
    /\ main = "loop" /\ ~term
    /\ h # None => \E c \in Conns : st[c] = "none"
    /\ main' = "update" /\ from' = h
    /\ UNCHANGED <<clock, term, polVars, now, mine, waits, active, tries, list, connVars, forgot>>

\* Where the main loop goes on after PolicyUpdateIfSafe.
Proceed == main' = IF from = None THEN "loop" ELSE "entry"

\* Mutant of PolicyUpdateIfSafe: the number of threads is not looked at.
PolicyUpdateAnyway ==
    /\ main = "update"
    /\ IF valid <= seen
       THEN Proceed /\ UNCHANGED seen
       ELSE seen' = valid /\ main' = "clear"
    /\ UNCHANGED <<clock, term, valid, policy, from, now, mine, waits,
                   active, tries, list, connVars, forgot>>

\* PolicyUpdateIfSafe and CheckFileChanges, to the point where everything is
\* freed; a policy that GenericAgentArePromisesValid rejects is ignored.
PolicyUpdateIfSafe ==
    /\ main = "update"
    /\ IF active # 0 \/ valid <= seen
       THEN Proceed /\ UNCHANGED seen
       ELSE seen' = valid /\ (main' = "clear" \/ Proceed)
    /\ UNCHANGED <<clock, term, valid, policy, from, now, mine, waits,
                   active, tries, list, connVars, forgot>>

\* ClearAuthAndACLs and PolicyDestroy.
ClearAuthAndACLs ==
    /\ main = "clear"
    /\ policy' = None
    /\ main' = "load"
    /\ UNCHANGED <<clock, term, valid, seen, from, now, mine, waits,
                   active, tries, list, connVars, forgot>>

\* LoadPolicy and KeepPromises, and the unlock.
LoadPolicy ==
    /\ main = "load"
    /\ policy' = seen
    /\ Proceed
    /\ UNCHANGED <<clock, term, valid, seen, from, now, mine, waits,
                   active, tries, list, connVars, forgot>>

\* The socket is closed: accept failed, or the host is not to be served.
Refuse ==
    /\ main' = "loop" /\ from' = None
    /\ UNCHANGED <<clock, term, polVars, now, mine, waits, active, tries, list, connVars, forgot>>

\* accept failed, or allowconnects or denyconnects keeps the host out.
AcceptDenied == main = "entry" /\ Refuse

\* PurgeOldConnections, at the time ServerEntryPoint works with.
PurgeOldConnections ==
    /\ main = "entry"
    /\ now' = clock
    /\ list' = Keep(list, {i \in DOMAIN list : clock <= list[i].time + Old})
    /\ forgot' = forgot \cup {h \in Hosts : Open(h) # {} /\
                     \E i \in Listed(h) : clock > list[i].time + Old}
    /\ main' = "admit"
    /\ UNCHANGED <<clock, term, polVars, from, mine, waits, active, tries, connVars>>

\* A second connection of a host is denied, unless it is in allowallconnects.
DenyDuplicate ==
    /\ main = "admit" /\ from \notin Multi /\ Listed(from) # {}
    /\ Refuse

Admit ==
    /\ main = "admit" /\ (from \in Multi \/ Listed(from) = {})
    /\ main' = "prepend"
    /\ UNCHANGED <<clock, term, polVars, from, now, mine, waits,
                   active, tries, list, connVars, forgot>>

PrependItem ==
    /\ main = "prepend"
    /\ list' = <<[host |-> from, time |-> now]>> \o list
    /\ main' = "spawn"
    /\ UNCHANGED <<clock, term, polVars, from, now, mine, waits, active, tries, connVars, forgot>>

\* NewConn; from here the connection has its thread, or the main thread takes
\* that part when no thread can be made.
SpawnConnection(c) ==
    /\ main = "spawn" /\ st[c] = "none"
    /\ st' = [st EXCEPT ![c] = "new"]
    /\ host' = [host EXCEPT ![c] = from]
    /\ from' = None
    /\ \/ main' = "loop" /\ UNCHANGED mine
       \/ main' = "inline" /\ mine' = c
    /\ UNCHANGED <<clock, term, polVars, now, waits, active, tries, list, session, forgot>>

\* getsockname fails: NewConn returns NULL, which SpawnConnection writes to.
SpawnCrashes ==
    /\ main = "spawn"
    /\ main' = "stopped"
    /\ UNCHANGED <<clock, term, polVars, from, now, mine, waits,
                   active, tries, list, connVars, forgot>>

-----------------------------------------------------------------------------
(* The end of StartServer.                                                 *)

\* Termination is pending, or select failed.
LeaveLoop ==
    /\ main = "loop"
    /\ main' = "wait"
    /\ UNCHANGED <<clock, term, polVars, from, now, mine, waits,
                   active, tries, list, connVars, forgot>>

\* Mutant of WaitOnThreads: it waits until all threads are done.
WaitOnThreadsForever ==
    /\ main = "wait" /\ active = 0
    /\ main' = "finalclear"
    /\ UNCHANGED <<clock, term, polVars, from, now, mine, waits,
                   active, tries, list, connVars, forgot>>

\* One round: the count is read under the mutex, and used after it.
WaitOnThreads ==
    /\ main = "wait"
    /\ IF active = 0 THEN main' = "finalclear" /\ UNCHANGED waits
       ELSE /\ waits' = waits - 1
            /\ main' = IF waits = 1 THEN "exit" ELSE "wait"
    /\ UNCHANGED <<clock, term, polVars, from, now, mine, active, tries, list, connVars, forgot>>

\* ClearAuthAndACLs again, with no mutex held.
FinalClear ==
    /\ main = "finalclear"
    /\ policy' = None
    /\ main' = "exit"
    /\ UNCHANGED <<clock, term, valid, seen, from, now, mine, waits,
                   active, tries, list, connVars, forgot>>

\* YieldCurrentLock and the end of the process, with the threads there are.
Exit ==
    /\ main = "exit"
    /\ main' = "stopped"
    /\ UNCHANGED <<clock, term, polVars, from, now, mine, waits,
                   active, tries, list, connVars, forgot>>

-----------------------------------------------------------------------------
(* HandleConnection, the thread of connection c.                           *)

\* Mutant of DropConnection: a dropped connection leaves through ret1.
DropConnectionCounted(c) ==
    /\ Running /\ Unlocked /\ st[c] = "new" /\ active > MaxProcesses
    /\ tries' = IF tries > MaxTries THEN tries ELSE tries + 1
    /\ active' = active - 1
    /\ st' = [st EXCEPT ![c] = "closing"]
    /\ UNCHANGED <<clock, term, polVars, mainVars, list, host, session, forgot>>

\* Too many threads: the connection is dropped; after too many drops in a row
\* the server ends itself.
DropConnection(c) ==
    /\ Running /\ Unlocked /\ st[c] = "new" /\ active > MaxProcesses
    /\ IF tries > MaxTries
       THEN main' = "stopped" /\ UNCHANGED <<tries, st>>
       ELSE tries' = tries + 1 /\ st' = [st EXCEPT ![c] = "closing"] /\ UNCHANGED main
    /\ UNCHANGED <<clock, term, polVars, from, now, mine, waits, active, list,
                   host, session, forgot>>

BeginSession(c) ==
    /\ Running /\ Unlocked /\ st[c] = "new" /\ active <= MaxProcesses
    /\ active' = active + 1 /\ tries' = 0
    /\ st' = [st EXCEPT ![c] = "serving"]
    /\ session' = [session EXCEPT ![c] = policy]
    /\ UNCHANGED <<clock, term, polVars, mainVars, list, host, forgot>>

\* Mutant of EndSession: a session that fails early skips the decrement.
EndSessionUncounted(c) ==
    /\ Running /\ Unlocked /\ st[c] = "serving"
    /\ active' \in {active, active - 1}
    /\ st' = [st EXCEPT ![c] = "closing"]
    /\ session' = [session EXCEPT ![c] = None]
    /\ UNCHANGED <<clock, term, polVars, mainVars, tries, list, host, forgot>>

\* ret1: the peer is refused, the connection fails or the dialogue is over.
EndSession(c) ==
    /\ Running /\ Unlocked /\ st[c] = "serving"
    /\ active' = active - 1
    /\ st' = [st EXCEPT ![c] = "closing"]
    /\ session' = [session EXCEPT ![c] = None]
    /\ UNCHANGED <<clock, term, polVars, mainVars, tries, list, host, forgot>>

\* Mutant of DeleteItemMatching: the head of the list goes, whosever it is.
DeleteItemHead(h) == IF list = <<>> THEN list ELSE Tail(list)

\* DeleteItemMatching: the first entry of h goes, which is the newest.
DeleteItemMatching(h) ==
    IF Listed(h) = {} THEN list
    ELSE LET i == CHOOSE i \in Listed(h) : \A j \in Listed(h) : i <= j IN
         Keep(list, DOMAIN list \ {i})

\* c is torn down, and the list of connections becomes l.
Teardown(c, l) ==
    /\ Running /\ st[c] = "closing"
    /\ list' = l
    /\ st' = [st EXCEPT ![c] = "none"]
    /\ host' = [host EXCEPT ![c] = None]
    /\ IF mine = c THEN main' = "loop" /\ mine' = None ELSE UNCHANGED <<main, mine>>
    /\ forgot' = forgot \ (IF Open(host[c]) = {c} /\ from # host[c] THEN {host[c]} ELSE {})
    /\ UNCHANGED <<clock, term, polVars, from, now, waits, active, tries, session>>

\* Mutant of DeleteConn: the entry of a connection is left to the purge.
DeleteConnForgets(c) == Teardown(c, list)

DeleteConn(c) == Teardown(c, DeleteItemMatching(host[c]))

-----------------------------------------------------------------------------
Main ==
    \/ \E h \in Hosts \cup {None} : WaitForIncoming(h)
    \/ PolicyUpdateIfSafe \/ ClearAuthAndACLs \/ LoadPolicy
    \/ AcceptDenied \/ PurgeOldConnections \/ DenyDuplicate \/ Admit \/ PrependItem
    \/ (\E c \in Conns : SpawnConnection(c)) \/ SpawnCrashes
    \/ LeaveLoop \/ WaitOnThreads \/ FinalClear \/ Exit

Thread(c) == DropConnection(c) \/ BeginSession(c) \/ EndSession(c) \/ DeleteConn(c)

Next == Tick \/ Signal \/ NewPolicy \/ Main \/ \E c \in Conns : Thread(c)

\* The main thread is scheduled: each of its waits has a timeout.
Spec == Init /\ [][Next]_vars /\ WF_vars(Main)

-----------------------------------------------------------------------------
TypeOK ==
    /\ clock \in Nat /\ term \in BOOLEAN
    /\ valid \in Nat /\ seen \in Nat /\ policy \in Nat \cup {None}
    /\ main \in {"loop", "update", "clear", "load", "entry", "admit", "prepend", "spawn",
                 "inline", "wait", "finalclear", "exit", "stopped"}
    /\ from \in Hosts \cup {None} /\ now \in Nat /\ mine \in Conns \cup {None}
    /\ waits \in 0 .. 2 /\ active \in Nat /\ tries \in 0 .. MaxTries + 1
    /\ list \in Seq(Entry)
    /\ st \in [Conns -> {"none", "new", "serving", "closing"}]
    /\ host \in [Conns -> Hosts \cup {None}]
    /\ session \in [Conns -> Nat \cup {None}]
    /\ forgot \in SUBSET Hosts

\* ACTIVE_THREADS is the number of sessions, whichever way they end, and the
\* limit lets one more in than maxconnections.
ActiveThreadsCounts == active = Cardinality(Serving) /\ active <= MaxProcesses + 1

\* As long as the server is not on its way out, a session sees one policy from
\* its first request to its last: no reload frees the access control lists
\* under a running session or changes them between two requests.
SessionKeepsPolicy ==
    main \notin {"exit", "stopped"} =>
        \A c \in Serving : policy # None /\ session[c] = policy

\* No host is locked out: there are no more entries in SV.connectionlist for a
\* host than it has connections open or about to be spawned, so a host with no
\* connection is never taken for a duplicate.
NoStaleEntry ==
    Running => \A h \in Hosts :
        Cardinality(Listed(h)) <=
            Cardinality(Open(h)) + (IF main = "spawn" /\ from = h THEN 1 ELSE 0)

\* A host that is not in allowallconnects has one connection at a time, unless
\* the entry of an open connection was purged for its age.
OneConnectionPerHost ==
    Running => \A h \in Hosts \ (Multi \cup forgot) : Cardinality(Open(h)) <= 1

\* A pending termination ends the server, whatever its clients do, unless the
\* main thread is serving a connection itself.
Stops == term ~> main \in {"stopped", "inline"}

\* What the comment on ClearAuthAndACLs demands: it runs when no thread is
\* active, so no session ever lacks the access control lists.
NoSessionWithoutACLs == \A c \in Serving : policy # None
=============================================================================
