----------------------------- MODULE LockBackup -----------------------------
(***************************************************************************)
(* The lock database as a file: BackupLockDatabase at the end of every     *)
(* agent run, and RestoreLockDatabase by the agents that start after a     *)
(* reboot (libpromises/locks.c).                                           *)
(*                                                                         *)
(* Both call CopyLockDatabaseAtomically, which goes through a temporary    *)
(* file whose name depends only on the destination: two copies to the same *)
(* destination share it.  Files are inodes that names point to, because an *)
(* open descriptor survives a rename and an unlink.                        *)
(*                                                                         *)
(* The critical section around a backup is no mutex: an agent looks for    *)
(* its record until there is none or the record is a minute old, and only  *)
(* then writes its own, so that several agents may be in it.               *)
(*                                                                         *)
(* A file is a sequence of chunks (one read() each).  A write to the       *)
(* database is a transaction: it gives every chunk the next version.  0 is *)
(* a chunk that was never written, or was lost with the power.             *)
(***************************************************************************)
EXTENDS Integers, FiniteSets

CONSTANTS
    Pids,         \* agents
    Inodes,       \* bound: files that may exist at a time (1..n)
    Chunks,       \* bound: chunks of a database (1..n)
    MaxVersion,   \* bound: writes to the database
    MaxBoot,      \* bound: reboots
    None

Names == {"db", "backup", "db.tmp", "backup.tmp"}

\* There are inodes for every name and for the descriptors of every agent.
ASSUME LockBackupAssumption ==
    /\ IsFiniteSet(Pids) /\ None \notin Pids
    /\ IsFiniteSet(Inodes) /\ Inodes \subseteq Nat /\ 1 \in Inodes /\ None \notin Inodes
    /\ Cardinality(Inodes) > Cardinality(Names) + 2 * Cardinality(Pids)
    /\ Chunks \subseteq Nat \ {0} /\ 1 \in Chunks /\ \A c \in Chunks : 1 .. c \subseteq Chunks
    /\ MaxVersion \in Nat /\ MaxBoot \in Nat

VARIABLES
    name,       \* the inode of each file name, or None
    data,       \* the chunks of each inode
    mtime,      \* the boot in which an inode was last written
    synced,     \* the inode's data are on disk
    boot,       \* reboots so far
    version,    \* writes so far
    newest,     \* the last version written since the boot; 0: none
    section,    \* the record of the critical section: "none", "fresh" or "old"
    pc,         \* what a process does next
    job,        \* the copy a process makes: "backup" or "restore"
    from, to,   \* its two descriptors
    pos,        \* the chunk it copies next
    gaps        \* history: which of the code's gaps were used

files == <<name, data, mtime, synced>>
vars  == <<files, boot, version, newest, section, pc, job, from, to, pos, gaps>>

\* "clash"    an agent restored the database while not the only one
\* "overlap"  a copy began while another one had the same temporary file
\* "torn"     a copy was cut off while others could use or rename its file,
\*            or read from a file that another copy was writing
Gaps == {"clash", "overlap", "torn"}

Records == {"none", "fresh", "old"}

Source == [restore |-> "backup", backup |-> "db"]
Target == [restore |-> "db",     backup |-> "backup"]
Temp   == [restore |-> "db.tmp", backup |-> "backup.tmp"]

Complete(i) == i # None /\ \A c \in Chunks : data[i][c] # 0

Copying == {"open", "create", "chunk", "fsync", "rename", "unlink"}
Filling == {"chunk", "fsync", "rename"}

\* The other copies that have the temporary file of process a's copy.
Sharers(a) == {b \in Pids \ {a} : pc[b] \in Filling /\ job[b] = job[a]}

\* A file that process a has not finished is the copy, or is read by another copy.
InUse(a) ==
    /\ pc[a] \in {"chunk", "fsync"}
    /\ to[a] = name[Target[job[a]]] \/ \E b \in Pids : from[b] = to[a]

\* The end of process a's copy leaves a part of a file that is in use, or that
\* another copy can give its name.
CutOff(a) == InUse(a) \/ (pc[a] \in {"chunk", "fsync"} /\ Sharers(a) # {})

\* An inode that no name and no descriptor refers to.
Unused(i) ==
    /\ \A n \in Names : name[n] # i
    /\ \A a \in Pids : from[a] # i /\ to[a] # i

Fresh == CHOOSE i \in Inodes : Unused(i) /\ \A j \in Inodes : Unused(j) => i <= j

Init ==
    /\ name = [n \in Names |-> IF n = "db" THEN 1 ELSE None]
    /\ data = [i \in Inodes |-> [c \in Chunks |-> IF i = 1 THEN 1 ELSE 0]]
    /\ mtime = [i \in Inodes |-> 1]
    /\ synced = [i \in Inodes |-> TRUE]
    /\ boot = 1 /\ version = 1 /\ newest = 0
    /\ section = "none"
    /\ pc = [a \in Pids |-> "off"]
    /\ job = [a \in Pids |-> "backup"]
    /\ from = [a \in Pids |-> None] /\ to = [a \in Pids |-> None]
    /\ pos = [a \in Pids |-> 1]
    /\ gaps = {}

Note(g, b) == gaps' = IF b THEN gaps \cup {g} ELSE gaps

Goto(a, l) == pc' = [pc EXCEPT ![a] = l]

\* Inode i gets contents d.
Fill(i, d, ok) ==
    /\ data' = [data EXCEPT ![i] = d]
    /\ mtime' = [mtime EXCEPT ![i] = boot]
    /\ synced' = [synced EXCEPT ![i] = ok]

\* A transaction on the database.  OpenDB replaces a file it finds broken.
Transaction ==
    LET i == IF Complete(name["db"]) THEN name["db"] ELSE Fresh IN
    /\ version < MaxVersion
    /\ version' = version + 1 /\ newest' = version + 1
    /\ Fill(i, [c \in Chunks |-> version + 1], FALSE)
    /\ name' = [name EXCEPT !["db"] = i]

-----------------------------------------------------------------------------
Start(a) ==
    /\ pc[a] = "off"
    /\ Goto(a, "stat")
    /\ UNCHANGED <<files, boot, version, newest, section, job, from, to, pos, gaps>>

\* Mutant of VerifyThatDatabaseIsNotCorrupt: the age of the file is not looked at.
VerifyAlways(a) ==
    /\ pc[a] = "stat"
    /\ Goto(a, "open") /\ job' = [job EXCEPT ![a] = "restore"]
    /\ UNCHANGED <<files, boot, version, newest, section, from, to, pos, gaps>>

\* VerifyThatDatabaseIsNotCorrupt_once: older than the boot means restore.
VerifyThatDatabaseIsNotCorrupt(a) ==
    /\ pc[a] = "stat"
    /\ IF name["db"] # None /\ mtime[name["db"]] < boot
       THEN /\ Goto(a, "open") /\ job' = [job EXCEPT ![a] = "restore"]
            /\ Note("clash", \E b \in Pids \ {a} : pc[b] \notin {"off", "stat"})
       ELSE Goto(a, "use") /\ UNCHANGED <<job, gaps>>
    /\ UNCHANGED <<files, boot, version, newest, section, from, to, pos>>

\* A WriteLock or RemoveLock: acquiring and yielding locks of promises.  A new
\* file has no record of the section.
WriteDB(a) ==
    /\ pc[a] = "use"
    /\ Transaction
    /\ section' = IF Complete(name["db"]) THEN section ELSE "none"
    /\ UNCHANGED <<boot, pc, job, from, to, pos, gaps>>

\* A minute passes, and nobody waits for the writer of the record any more.
SectionAges ==
    /\ section = "fresh"
    /\ section' = "old"
    /\ UNCHANGED <<files, boot, version, newest, pc, job, from, to, pos, gaps>>

\* The last look of the loop: no record, or one of more than a minute.
WaitForCriticalSection(a) ==
    /\ pc[a] = "use"
    /\ Complete(name["db"]) => section # "fresh"
    /\ Goto(a, "enter")
    /\ UNCHANGED <<files, boot, version, newest, section, job, from, to, pos, gaps>>

\* The section's record is written, by everyone who came out of the loop.
BackupLockDatabase(a) ==
    /\ pc[a] = "enter"
    /\ section' = "fresh"
    /\ Transaction
    /\ job' = [job EXCEPT ![a] = "backup"]
    /\ Goto(a, "open")
    /\ UNCHANGED <<boot, from, to, pos, gaps>>

-----------------------------------------------------------------------------
(* CopyLockDatabaseAtomically, one system call a step.                     *)

Close(a) ==
    /\ from' = [from EXCEPT ![a] = None]
    /\ to' = [to EXCEPT ![a] = None]
    /\ pos' = [pos EXCEPT ![a] = 1]

\* What follows the copy: the first use of the database, or the removal of the
\* section's record, whoever wrote it, and the end of the run.
Finish(a) ==
    /\ Goto(a, IF job[a] = "restore" THEN "use" ELSE "off")
    /\ section' = IF job[a] = "restore" THEN section ELSE "none"
    /\ Close(a)

OpenSource(a) ==
    /\ pc[a] = "open"
    /\ IF name[Source[job[a]]] = None
       THEN Finish(a)
       ELSE /\ from' = [from EXCEPT ![a] = name[Source[job[a]]]]
            /\ Goto(a, "create")
            /\ UNCHANGED <<to, pos, section>>
    /\ UNCHANGED <<files, boot, version, newest, job, gaps>>

\* O_CREAT | O_TRUNC: the file another copy has under way is emptied.
CreateTemp(a) ==
    /\ pc[a] = "create"
    /\ LET t == Temp[job[a]]
           i == IF name[t] = None THEN Fresh ELSE name[t] IN
       /\ name' = [name EXCEPT ![t] = i]
       /\ to' = [to EXCEPT ![a] = i]
       /\ Fill(i, [c \in Chunks |-> 0], FALSE)
    /\ Goto(a, "chunk")
    /\ Note("overlap", Sharers(a) # {})
    /\ UNCHANGED <<boot, version, newest, section, job, from, pos>>

CopyChunk(a) ==
    /\ pc[a] = "chunk"
    /\ Fill(to[a], [data[to[a]] EXCEPT ![pos[a]] = data[from[a]][pos[a]]], FALSE)
    /\ pos' = [pos EXCEPT ![a] = @ + 1]
    /\ IF pos[a] + 1 \in Chunks THEN UNCHANGED pc ELSE Goto(a, "fsync")
    /\ Note("torn", \E b \in Pids : pc[b] = "chunk" /\ to[b] = from[a])
    /\ UNCHANGED <<name, boot, version, newest, section, job, from, to>>

\* Mutant of Fsync: the result of fsync is not waited for.
FsyncLater(a) ==
    /\ pc[a] = "fsync"
    /\ Goto(a, "rename")
    /\ UNCHANGED <<files, boot, version, newest, section, job, from, to, pos, gaps>>

Fsync(a) ==
    /\ pc[a] = "fsync"
    /\ synced' = [synced EXCEPT ![to[a]] = TRUE]
    /\ Goto(a, "rename")
    /\ UNCHANGED <<name, data, mtime, boot, version, newest, section, job, from, to, pos, gaps>>

\* The temporary name is moved, whichever inode it now stands for; rename fails
\* if another copy has moved it away.  The section's record is in the database:
\* a database restored brings the one it had.
Rename(a) ==
    /\ pc[a] = "rename"
    /\ LET t == Temp[job[a]] IN
       /\ name' = IF name[t] = None THEN name
                  ELSE [name EXCEPT ![Target[job[a]]] = name[t], ![t] = None]
       /\ IF name[t] # None /\ job[a] = "restore"
          THEN section' \in Records
          ELSE UNCHANGED section
    /\ Goto(a, "unlink")
    /\ UNCHANGED <<data, mtime, synced, boot, version, newest, job, from, to, pos, gaps>>

\* cleanup_3, on the way out of a success too.
Unlink(a) ==
    /\ pc[a] = "unlink"
    /\ name' = [name EXCEPT ![Temp[job[a]]] = None]
    /\ Finish(a)
    /\ UNCHANGED <<data, mtime, synced, boot, version, newest, job, gaps>>

\* A system call fails: cleanup_2 before the temporary file exists, else cleanup_4.
CopyFails(a) ==
    /\ pc[a] \in {"create", "chunk", "fsync"}
    /\ IF pc[a] = "create" THEN Finish(a)
       ELSE Goto(a, "unlink") /\ UNCHANGED <<section, from, to, pos>>
    /\ Note("torn", CutOff(a))
    /\ UNCHANGED <<files, boot, version, newest, job>>

-----------------------------------------------------------------------------
\* The agent dies; its record of the section stays until it is a minute old.
Crash(a) ==
    /\ pc[a] # "off"
    /\ Goto(a, "off")
    /\ Close(a)
    /\ Note("torn", CutOff(a))
    /\ UNCHANGED <<files, boot, version, newest, section, job>>

\* The system goes down and comes up: files not synced may lose their data,
\* and with them the record of the section.
Reboot ==
    /\ boot < MaxBoot
    /\ boot' = boot + 1
    /\ newest' = 0
    /\ \E lost \in SUBSET {i \in Inodes : ~synced[i]} :
          data' = [i \in Inodes |-> IF i \in lost THEN [c \in Chunks |-> 0] ELSE data[i]]
    /\ synced' = [i \in Inodes |-> TRUE]
    /\ pc' = [a \in Pids |-> "off"]
    /\ from' = [a \in Pids |-> None] /\ to' = [a \in Pids |-> None]
    /\ pos' = [a \in Pids |-> 1]
    /\ section' \in Records
    /\ Note("torn", \E a \in Pids : InUse(a))
    /\ UNCHANGED <<name, mtime, version, job>>

Next ==
    \/ Reboot \/ SectionAges
    \/ \E a \in Pids :
          \/ Start(a) \/ VerifyThatDatabaseIsNotCorrupt(a) \/ WriteDB(a)
          \/ WaitForCriticalSection(a) \/ BackupLockDatabase(a)
          \/ OpenSource(a) \/ CreateTemp(a) \/ CopyChunk(a) \/ Fsync(a)
          \/ Rename(a) \/ Unlink(a) \/ CopyFails(a) \/ Crash(a)

Spec == Init /\ [][Next]_vars

-----------------------------------------------------------------------------
\* The backup is never a part of a database: not after a failed read or write,
\* not after the crash of the agent that makes it, not after a loss of power at
\* any of CopyLockDatabaseAtomically's steps; until a copy begins while another
\* one fills the same temporary file ("overlap": two agents came out of the
\* wait for the section together, or one did after a minute).  Even then a part
\* of a database has the backup's name only while a copy that will complete it is
\* at work, until such a copy dies or fails before its end, or copies from a file
\* that is being written ("torn").
BackupComplete ==
    name["backup"] # None =>
        /\ "overlap" \notin gaps => Complete(name["backup"])
        /\ "torn" \notin gaps =>
               \/ Complete(name["backup"])
               \/ \E a \in Pids : pc[a] = "chunk" /\ to[a] = name["backup"]

\* As long as an agent that restores is the only one past the check of the
\* database's age, no lock written since the boot is undone by
\* RestoreLockDatabase.
RestoreKeepsLocks ==
    "clash" \notin gaps /\ newest # 0 =>
        \A c \in Chunks : name["db"] # None /\ data[name["db"]][c] = newest
=============================================================================
