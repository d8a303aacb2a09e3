----------------------------- MODULE ConnCache -----------------------------
(***************************************************************************)
(* The cache of connections to servers that remote copies share            *)
(* (libcfnet/conn_cache.c), and the copies that use it through             *)
(* FileCopyConnectionOpen and FileCopyConnectionClose                      *)
(* (cgn-agent/verify_files_utils.c).                                       *)
(*                                                                         *)
(* Every operation on the cache runs under the mutex cft_conncache and is   *)
(* one step; the connection to the server is made between two of them.     *)
(* The cache lives as long as the files promises of one bundle.            *)
(***************************************************************************)
EXTENDS Integers, Sequences

CONSTANTS
    Users,      \* copies that run concurrently
    Servers,    \* host and port
    Flags,      \* protocol version, IPv4 only, trust: ConnectionFlags
    MaxConns,   \* bound: connections made
    None

VARIABLES
    cache,      \* the sequence conn_cache; a connection is its index here
    pc,         \* what a copy does next
    want,       \* the server and flags it asks for
    conn        \* the connection it has, or None

vars == <<cache, pc, want, conn>>

Requests == [server : Servers, flags : Flags]
Entries  == [server : Servers, flags : Flags, status : {"idle", "busy", "offline"}]

Goto(u, l) == pc' = [pc EXCEPT ![u] = l]

ConnectionFlagsEqual(f, g) == f = g

\* The condition of FindIdleMarkBusy on an entry, as written: it compares the
\* result of ConnectionFlagsEqual with 0.
Matches(e, r) == e.server = r.server /\ ~ConnectionFlagsEqual(r.flags, e.flags)

Found(r) == {i \in DOMAIN cache : Matches(cache[i], r) /\ cache[i].status = "idle"}

Init ==
    /\ cache = <<>>
    /\ pc = [u \in Users |-> "start"]
    /\ want \in [Users -> Requests]
    /\ conn = [u \in Users |-> None]

\* ScheduleCopyOperation asks for a connection.
Open(u, r) ==
    /\ pc[u] = "start"
    /\ want' = [want EXCEPT ![u] = r]
    /\ Goto(u, "find")
    /\ UNCHANGED <<cache, conn>>

FindIdleMarkBusy(u) ==
    /\ pc[u] = "find"
    /\ IF Found(want[u]) = {}
       THEN Goto(u, "connect") /\ UNCHANGED <<cache, conn>>
       ELSE LET i == CHOOSE i \in Found(want[u]) : \A j \in Found(want[u]) : i <= j IN
            /\ cache' = [cache EXCEPT ![i].status = "busy"]
            /\ conn' = [conn EXCEPT ![u] = i]
            /\ Goto(u, "copy")
    /\ UNCHANGED want

\* ConnCache_Add of connection number Len(cache) + 1.
Add(r, s) == cache' = Append(cache, [server |-> r.server, flags |-> r.flags, status |-> s])

\* ServerConnection succeeds.
Connect(u) ==
    /\ pc[u] = "connect" /\ Len(cache) < MaxConns
    /\ Add(want[u], "busy")
    /\ conn' = [conn EXCEPT ![u] = Len(cache) + 1]
    /\ Goto(u, "copy")
    /\ UNCHANGED want

\* It fails: the cache remembers it and the copy goes without.
ConnectFails(u) ==
    /\ pc[u] = "connect" /\ Len(cache) < MaxConns
    /\ Add(want[u], "offline")
    /\ Goto(u, "start")
    /\ UNCHANGED <<want, conn>>

\* FileCopyConnectionClose.
MarkNotBusy(u) ==
    /\ pc[u] = "copy"
    /\ cache' = [cache EXCEPT ![conn[u]].status = "idle"]
    /\ conn' = [conn EXCEPT ![u] = None]
    /\ Goto(u, "start")
    /\ UNCHANGED want

\* The files promises of the bundle are done: ConnCache_Destroy, and
\* ConnCache_Init for the next bundle.
DestroyInit ==
    /\ \A u \in Users : pc[u] = "start"
    /\ cache # <<>>
    /\ cache' = <<>>
    /\ UNCHANGED <<pc, want, conn>>

Next ==
    \/ DestroyInit
    \/ \E u \in Users :
          \/ \E r \in Requests : Open(u, r)
          \/ FindIdleMarkBusy(u) \/ Connect(u) \/ ConnectFails(u) \/ MarkNotBusy(u)

Spec == Init /\ [][Next]_vars

-----------------------------------------------------------------------------
\* An entry is busy exactly while one copy has the connection: no two copies
\* mix their dialogues on one socket, and no connection stays busy when its
\* copy is over.  MarkNotBusy's assertion holds too.
BusyMeansOneUser ==
    \A i \in DOMAIN cache :
        /\ cache[i].status = "busy" <=> \E u \in Users : conn[u] = i
        /\ \A u, v \in Users : conn[u] = i /\ conn[v] = i => u = v

\* No dialogue is ever begun on a connection that could not be made, and none
\* with another host than the promise names.
RightServer ==
    [][\A i \in DOMAIN cache : i \in DOMAIN cache' =>
          /\ cache[i].status = "offline" => cache'[i] = cache[i]
          /\ \A u \in Users : conn[u] # i /\ conn'[u] = i
                => cache[i].server = want[u].server]_vars

\* What cfnet.h says of the fields of AgentConnection: the flags are part of the
\* identity of a server, so a copy gets a connection made with its flags.
RightFlags ==
    \A u \in Users : conn[u] # None => cache[conn[u]].flags = want[u].flags
=============================================================================
