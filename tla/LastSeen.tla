------------------------------ MODULE LastSeen ------------------------------
(***************************************************************************)
(* The database of hosts seen (libpromises/lastseen.c), which server       *)
(* threads and agents write whenever they meet a host, and from which      *)
(* cgn-key removes hosts.                                                  *)
(*                                                                         *)
(* It has three kinds of entries: q<direction><key> with the quality of    *)
(* the connection, k<key> with an address, a<address> with a key.  With    *)
(* LMDB what an operation reads before its first write is one snapshot and *)
(* what it writes one transaction; with the other libraries that CGNgine   *)
(* can be built with each access is by itself.  Nobody looks at the result *)
(* of a write, and a failed one drops what its transaction wrote before.   *)
(***************************************************************************)
EXTENDS Integers

CONSTANTS
    Procs,            \* threads and processes that use the database
    Keys, Addresses,
    MustBeCoherent,   \* the option of RemoveKeysFromLastSeen
    None

ASSUME LastSeenAssumption ==
    MustBeCoherent \in BOOLEAN /\ None \notin Keys /\ None \notin Addresses

VARIABLES
    transactions,   \* the build uses LMDB
    q,      \* the directions for which a key has a quality entry
    k,      \* k<key>: an address or None
    a,      \* a<address>: a key or None
    pc,     \* what a process does next
    op,     \* its operation and arguments
    gaps    \* history: what happened that may spoil the coherence

\* "overlap"  a removal and another operation worked on one key or address
\* "aliased"  a host was removed that had two addresses, or an address two keys
\* "crash"    a process died in the middle of its writes
\* "failed"   a write, a deletion or a commit failed for a part of an operation,
\* "unseen"   namely the write of a quality entry before that of k<key>, or the
\*            deletion of k<key> before that of the quality entries
\* "keyless"  namely the write of k<key> before that of a<address>, or a deletion
\*            of a<address> with that of k<key>; or a removal died between the two
Gaps == {"overlap", "aliased", "crash", "failed", "unseen", "keyless"}

db   == <<transactions, q, k, a>>
vars == <<db, pc, op, gaps>>

Directions == {"in", "out"}
Ops == [kind : {"update", "ip", "digest"}, key : Keys \cup {None},
        address : Addresses \cup {None}, dir : Directions]

aKEYS == {a[ip] : ip \in Addresses} \ {None}
kIPS  == {k[key] : key \in Keys} \ {None}
kKEYS == {key \in Keys : k[key] # None}
aIPS  == {ip \in Addresses : a[ip] # None}

\* IsLastSeenCoherent, on the snapshot its cursor sees.
IsLastSeenCoherent == kIPS \subseteq aIPS /\ aKEYS \subseteq kKEYS

\* The process removes a host.
Removing(p) == pc[p] # "idle" /\ op[p].kind # "update"

Init ==
    /\ transactions \in BOOLEAN
    /\ q = [key \in Keys |-> {}]
    /\ k = [key \in Keys |-> None]
    /\ a = [ip \in Addresses |-> None]
    /\ pc = [p \in Procs |-> "idle"]
    /\ op \in [Procs -> {o \in Ops : o.kind = "update" /\ o.key = None /\ o.address = None
                                     /\ o.dir = "in"}]
    /\ gaps = {}

Goto(p, l) == pc' = [pc EXCEPT ![p] = l]

Note(g, b) == IF b THEN {g} ELSE {}

\* Process r has read or written something for the key or the address of o.
Meets(r, o) == pc[r] \notin {"idle", "find"} /\ (op[r].key = o.key \/ op[r].address = o.address)

Begin(p, o, l) ==
    /\ pc[p] = "idle"
    /\ Goto(p, l)
    /\ op' = [op EXCEPT ![p] = o]
    /\ UNCHANGED db

-----------------------------------------------------------------------------
(* UpdateLastSawHost.                                                      *)

LastSaw(p, key, ip, dir) ==
    LET o == [kind |-> "update", key |-> key, address |-> ip, dir |-> dir] IN
    /\ Begin(p, o, "quality")
    /\ gaps' = gaps \cup Note("overlap", \E r \in Procs \ {p} : Removing(r) /\ Meets(r, o))

\* Mutant of WriteQuality: a host without an entry gets none.
WriteQualityKnown(p) ==
    /\ ~transactions /\ pc[p] = "quality"
    /\ Goto(p, "forward") /\ UNCHANGED <<db, op, gaps>>

WriteQuality(p) ==
    /\ ~transactions /\ pc[p] = "quality"
    /\ q' = [q EXCEPT ![op[p].key] = @ \cup {op[p].dir}]
    /\ Goto(p, "forward") /\ UNCHANGED <<transactions, k, a, op, gaps>>

\* Mutant of WriteForward: the mapping is only refreshed, never made.
WriteForwardKnown(p) ==
    /\ pc[p] = "forward"
    /\ k' = IF k[op[p].key] = None THEN k ELSE [k EXCEPT ![op[p].key] = op[p].address]
    /\ Goto(p, "reverse") /\ UNCHANGED <<transactions, q, a, op, gaps>>

WriteForward(p) ==
    /\ pc[p] = "forward"
    /\ k' = [k EXCEPT ![op[p].key] = op[p].address]
    /\ Goto(p, "reverse") /\ UNCHANGED <<transactions, q, a, op, gaps>>

WriteReverse(p) ==
    /\ pc[p] = "reverse"
    /\ a' = [a EXCEPT ![op[p].address] = op[p].key]
    /\ Goto(p, "idle") /\ UNCHANGED <<transactions, q, k, op, gaps>>

\* LMDB: the writes n to 3 are committed, the n-1st having failed; all of them
\* if n = 1, and none if the last one or the commit fails.
UpdateAtOnce(p) ==
    /\ transactions /\ pc[p] = "quality"
    /\ \E n \in 1 .. 4 :
          /\ q' = IF n > 1 THEN q ELSE [q EXCEPT ![op[p].key] = @ \cup {op[p].dir}]
          /\ k' = IF n > 2 THEN k ELSE [k EXCEPT ![op[p].key] = op[p].address]
          /\ a' = IF n > 3 THEN a ELSE [a EXCEPT ![op[p].address] = op[p].key]
          /\ gaps' = gaps \cup Note("failed", n \in 2 .. 3)
                           \cup Note("unseen", n = 2) \cup Note("keyless", n = 3)
    /\ Goto(p, "idle") /\ UNCHANGED <<transactions, op>>

-----------------------------------------------------------------------------
(* RemoveKeysFromLastSeen, which calls DeleteIpFromLastSeen or             *)
(* DeleteDigestFromLastSeen.                                               *)

\* An incoherent database is left alone if that is asked for.
RemoveKeysFromLastSeen(p, kind, key, ip) ==
    /\ MustBeCoherent => IsLastSeenCoherent
    /\ Begin(p, [kind |-> kind, key |-> key, address |-> ip, dir |-> "in"], "find")
    /\ UNCHANGED gaps

DeleteIpFromLastSeen(p, ip) == RemoveKeysFromLastSeen(p, "ip", None, ip)

DeleteDigestFromLastSeen(p, key) == RemoveKeysFromLastSeen(p, "digest", key, None)

\* The entry that leads to the other half of the host.
Found(o) == IF o.kind = "ip" THEN a[o.address] ELSE k[o.key]

Filled(o) == IF o.kind = "ip" THEN [o EXCEPT !.key = Found(o)]
             ELSE [o EXCEPT !.address = Found(o)]

\* HasKeyDB: there is another half.
Leads(o) == IF o.kind = "ip" THEN k[o.key] # None ELSE a[o.address] # None

\* The key has another address, or the address another key.
Aliased(o) ==
    \/ \E ip \in Addresses \ {o.address} : a[ip] = o.key
    \/ \E key \in Keys \ {o.key} : k[key] = o.address
    \/ k[o.key] # o.address \/ a[o.address] # o.key

\* Another process is at work on the host that is found.
Overlaps(p) == Note("overlap", \E r \in Procs \ {p} : Meets(r, Filled(op[p])))

\* Mutant of Find: a missing entry is not noticed.
FindUnchecked(p) ==
    /\ ~transactions /\ pc[p] = "find"
    /\ Goto(p, "check") /\ op' = [op EXCEPT ![p] = Filled(@)]
    /\ UNCHANGED <<db, gaps>>

\* The entry that is asked for is read; without it there is nothing to do.
Find(p) ==
    /\ ~transactions /\ pc[p] = "find"
    /\ IF Found(op[p]) = None THEN Goto(p, "idle") /\ UNCHANGED <<op, gaps>>
       ELSE /\ Goto(p, "check") /\ op' = [op EXCEPT ![p] = Filled(@)]
            /\ gaps' = gaps \cup Overlaps(p)
    /\ UNCHANGED db

Check(p) ==
    /\ pc[p] = "check"
    /\ Goto(p, IF Leads(op[p]) THEN "first" ELSE "idle")
    /\ gaps' = gaps \cup Note("aliased", Leads(op[p]) /\ Aliased(op[p]))
    /\ UNCHANGED <<db, op>>

\* LMDB: both reads see one snapshot.
FindAtOnce(p) ==
    LET o == Filled(op[p]) IN
    /\ transactions /\ pc[p] = "find"
    /\ IF Found(op[p]) = None \/ ~Leads(o) THEN Goto(p, "idle") /\ UNCHANGED <<op, gaps>>
       ELSE /\ Goto(p, "first") /\ op' = [op EXCEPT ![p] = o]
            /\ gaps' = gaps \cup Overlaps(p) \cup Note("aliased", Aliased(o))
    /\ UNCHANGED db

\* The entry it leads to goes first ...
DeleteFirst(p) ==
    LET o == op[p] IN
    /\ ~transactions /\ pc[p] = "first"
    /\ IF o.kind = "ip"
       THEN k' = [k EXCEPT ![o.key] = None] /\ UNCHANGED a
       ELSE a' = [a EXCEPT ![o.address] = None] /\ UNCHANGED k
    /\ Goto(p, "second") /\ UNCHANGED <<transactions, q, op, gaps>>

\* Mutant of DeleteSecond: the other entry stays.
DeleteSecondForgotten(p) ==
    /\ pc[p] = "second"
    /\ Goto(p, "qi") /\ UNCHANGED <<db, op, gaps>>

\* ... then the entry that was asked for ...
DeleteSecond(p) ==
    LET o == op[p] IN
    /\ pc[p] = "second"
    /\ IF o.kind = "ip"
       THEN a' = [a EXCEPT ![o.address] = None] /\ UNCHANGED k
       ELSE k' = [k EXCEPT ![o.key] = None] /\ UNCHANGED a
    /\ Goto(p, "qi") /\ UNCHANGED <<transactions, q, op, gaps>>

\* ... then both quality entries.
DeleteQuality(p) ==
    /\ pc[p] \in {"qi", "qo"}
    /\ q' = [q EXCEPT ![op[p].key] = @ \ {IF pc[p] = "qi" THEN "in" ELSE "out"}]
    /\ Goto(p, IF pc[p] = "qi" THEN "qo" ELSE "idle")
    /\ UNCHANGED <<transactions, k, a, op, gaps>>

\* LMDB: the deletions n to 4 are committed, the n-1st having failed.
RemoveAtOnce(p) ==
    LET o == op[p]
        forward(n) == n <= IF o.kind = "ip" THEN 1 ELSE 2
        reverse(n) == n <= IF o.kind = "ip" THEN 2 ELSE 1
        directions(n) == IF n <= 3 THEN Directions ELSE IF n = 4 THEN {"out"} ELSE {} IN
    /\ transactions /\ pc[p] = "first"
    /\ \E n \in 1 .. 5 :
          /\ k' = IF forward(n) THEN [k EXCEPT ![o.key] = None] ELSE k
          /\ a' = IF reverse(n) THEN [a EXCEPT ![o.address] = None] ELSE a
          /\ q' = [q EXCEPT ![o.key] = @ \ directions(n)]
          /\ gaps' = gaps \cup Note("failed", n \in 2 .. 4)
                           \cup Note("unseen", n \in 3 .. 4 \/ (n = 2 /\ o.kind = "ip"))
                           \cup Note("keyless", n = 2 /\ o.kind = "digest")
    /\ Goto(p, "idle") /\ UNCHANGED <<transactions, op>>

-----------------------------------------------------------------------------

\* A write or a deletion fails by itself.
After == [quality |-> "forward", forward |-> "reverse", reverse |-> "idle",
          first |-> "second", second |-> "qi", qi |-> "qo", qo |-> "idle"]

WriteFails(p) ==
    LET ip == op[p].kind = "ip" IN
    /\ ~transactions /\ pc[p] \in DOMAIN After
    /\ Goto(p, After[pc[p]])
    /\ gaps' = gaps \cup {"failed"}
                     \cup Note("unseen", pc[p] \in {"quality", IF ip THEN "first" ELSE "second"})
                     \cup Note("keyless", pc[p] \in {"forward", IF ip THEN "second" ELSE "first"})
    /\ UNCHANGED <<db, op>>

\* A transaction that is not committed leaves nothing behind.
Crash(p) ==
    /\ pc[p] # "idle"
    /\ Goto(p, "idle")
    /\ gaps' = gaps \cup Note("crash", ~transactions)
                     \cup Note("keyless", pc[p] = "second" /\ op[p].kind = "ip")
    /\ UNCHANGED <<db, op>>

Update(p) ==
    \/ \E key \in Keys, ip \in Addresses, dir \in Directions : LastSaw(p, key, ip, dir)
    \/ WriteQuality(p) \/ WriteForward(p) \/ WriteReverse(p) \/ UpdateAtOnce(p)

Remove(p) ==
    \/ \E ip \in Addresses : DeleteIpFromLastSeen(p, ip)
    \/ \E key \in Keys : DeleteDigestFromLastSeen(p, key)
    \/ Find(p) \/ Check(p) \/ DeleteFirst(p) \/ DeleteSecond(p) \/ DeleteQuality(p)
    \/ FindAtOnce(p) \/ RemoveAtOnce(p)

Next == \E p \in Procs : Update(p) \/ Remove(p) \/ WriteFails(p) \/ Crash(p)

Spec == Init /\ [][Next]_vars

-----------------------------------------------------------------------------
\* The types of the entries; and an operation past Find has a key and an address.
TypeOK ==
    /\ transactions \in BOOLEAN
    /\ q \in [Keys -> SUBSET Directions]
    /\ k \in [Keys -> Addresses \cup {None}]
    /\ a \in [Addresses -> Keys \cup {None}]
    /\ pc \in [Procs -> {"idle", "quality", "forward", "reverse",
                         "find", "check", "first", "second", "qi", "qo"}]
    /\ op \in [Procs -> Ops]
    /\ \A p \in Procs : pc[p] \notin {"idle", "find"} => op[p].key # None /\ op[p].address # None
    /\ gaps \subseteq Gaps

\* When nobody is at work the database passes IsLastSeenCoherent, however many
\* updates ran at the same time, and removals of other hosts beside them, unless
\* there was any of the gaps: a removal overlapped with something about the same
\* host, removed a host with two addresses or an address with two keys, a write
\* failed, or a process crashed half way without LMDB.
CoherentAtRest ==
    gaps = {} /\ (\A p \in Procs : pc[p] = "idle") => IsLastSeenCoherent

\* A key with an address has a quality entry, so that ScanLastSeenQuality
\* reports every known host: in the middle of operations too, after the crash of
\* a process anywhere, and after writes and deletions that failed, except the two
\* of "unseen"; until a removal and another operation work on one host at the
\* same time ("overlap").
KnownHostHasQuality ==
    gaps \cap {"overlap", "unseen"} = {} => \A key \in kKEYS : q[key] # {}

\* Every a<address> leads to a key with an entry of its own, or is being removed,
\* so that what the debug check of Address2HostkeyInDB warns of does not happen:
\* between the writes of updates too, after crashes, but that of a removal between
\* its two deletions, and after failures, but those of "keyless"; until a removal
\* takes a host with two addresses or an address with two keys ("aliased") or
\* meets another operation on the same host ("overlap").
AddressesHaveKeys ==
    gaps \cap {"overlap", "aliased", "keyless"} = {} =>
        \A ip \in aIPS : \/ a[ip] \in kKEYS
                         \/ \E p \in Procs : Removing(p) /\ op[p].address = ip
=============================================================================
