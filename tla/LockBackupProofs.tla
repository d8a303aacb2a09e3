-------------------------- MODULE LockBackupProofs -------------------------
(***************************************************************************)
(* Proofs about LockBackup, for any number of agents, sizes of the         *)
(* database, crashes and reboots: until two copies meet over a temporary   *)
(* file the backup is never a part of a database, and until one of two     *)
(* that met is cut off such a part is still being completed; until two     *)
(* agents clash over the decision to restore, no restore undoes a lock.    *)
(***************************************************************************)
EXTENDS LockBackup, FiniteSetTheorems, WellFoundedInduction, TLAPS

PCs == {"off", "stat", "use", "enter"} \cup Copying

\* The types of the variables.
Types ==
    /\ name \in [Names -> Inodes \cup {None}]
    /\ data \in [Inodes -> [Chunks -> Nat]]
    /\ mtime \in [Inodes -> Nat] /\ synced \in [Inodes -> BOOLEAN]
    /\ boot \in Nat /\ version \in Nat \ {0} /\ newest \in Nat
    /\ section \in Records
    /\ pc \in [Pids -> PCs]
    /\ job \in [Pids -> {"backup", "restore"}]
    /\ from \in [Pids -> Inodes \cup {None}] /\ to \in [Pids -> Inodes \cup {None}]
    /\ pos \in [Pids -> Nat]
    /\ gaps \subseteq Gaps

\* A copy that has not been renamed yet.
Early == {"open", "create"} \cup Filling

\* The descriptors that a process has open, and how far its copy is.
FdInv == \A a \in Pids :
    /\ pc[a] \notin Copying \/ pc[a] = "open" => from[a] = None /\ to[a] = None
    /\ pc[a] = "create" => from[a] # None /\ to[a] = None
    /\ pc[a] \in Filling => from[a] # None /\ to[a] # None
    /\ pc[a] \notin Copying \/ pc[a] \in {"open", "create"} => pos[a] = 1
    /\ pc[a] = "chunk" => pos[a] \in Chunks
    /\ pc[a] \in {"fsync", "rename"} => \A c \in Chunks : c < pos[a]

\* Two names are two files, and nobody reads a temporary file.
NamesInv ==
    /\ name["db"] # None
    /\ \A m, n \in Names : name[m] = name[n] /\ name[m] # None => m = n
    /\ \A a \in Pids : from[a] # None => from[a] \notin {name["db.tmp"], name["backup.tmp"]}

\* A backup is made by an agent that has written a lock.
JobInv == \A a \in Pids : pc[a] \in Copying /\ job[a] = "backup" => newest # 0

\* A copy writes no file of the other job.
ToInv == \A a \in Pids : to[a] # None =>
    /\ job[a] = "backup" => to[a] \notin {name["db"], name["db.tmp"]}
    /\ job[a] = "restore" => to[a] \notin {name["backup"], name["backup.tmp"]}
    /\ \A b \in Pids : to[b] = to[a] => job[b] = job[a]

\* Who restores is alone, and nothing was written since the boot.
SoleInv == \A a \in Pids :
    pc[a] \in Early /\ job[a] = "restore" =>
        /\ newest = 0 /\ mtime[name["db"]] < boot /\ to[a] # name["db"]
        /\ \A b \in Pids \ {a} : pc[b] \in {"off", "stat"}

\* The database has what was written last.
NewestInv ==
    newest # 0 =>
        mtime[name["db"]] = boot /\ \A c \in Chunks : data[name["db"]][c] = newest

\* A copy is alone with its file, which has no other name and no reader.
AloneInv == \A a \in Pids : pc[a] \in Filling =>
    /\ Sharers(a) = {}
    /\ name[Temp[job[a]]] \in {to[a], None}
    /\ to[a] # name[Target[job[a]]]
    /\ \A b \in Pids : from[b] # to[a]

\* Process a is filling inode i, and has written every chunk it has passed.
Leads(a, i) ==
    /\ pc[a] = "chunk" /\ to[a] = i
    /\ \A c \in Chunks : c < pos[a] => data[i][c] # 0

\* An inode is complete, or a copy will complete it; the same for the disk.
Good(i) == Complete(i) \/ \E a \in Pids : Leads(a, i)
Safe(i) == synced[i] \/ \E a \in Pids : pc[a] \in {"chunk", "fsync"} /\ to[a] = i

\* The file that a copy will rename is in order, though it may not be its own,
TempInv == \A a \in Pids : pc[a] \in Filling =>
    LET t == name[Temp[job[a]]] IN t # None => Good(t) /\ Safe(t)

\* so are the files that copies are made from,
SourceInv == \A a \in Pids :
    /\ pc[a] \in {"create", "chunk"} => Good(from[a])
    /\ pc[a] = "open" /\ job[a] = "backup" => Good(name["db"])

\* and so is the backup.
BackupInv ==
    name["backup"] # None => Good(name["backup"]) /\ Safe(name["backup"])

\* The inductive invariant: what holds always, and what holds until each gap.
Always == Types /\ FdInv /\ NamesInv /\ JobInv /\ ToInv

Inv ==
    /\ Always
    /\ "clash" \notin gaps => SoleInv /\ NewestInv
    /\ "overlap" \notin gaps => AloneInv /\ "torn" \notin gaps
    /\ "torn" \notin gaps => TempInv /\ SourceInv /\ BackupInv

-----------------------------------------------------------------------------
(* Lemmas.                                                                 *)

\* A function has no more values than arguments.
LEMMA FewValues ==
    ASSUME NEW S, IsFiniteSet(S), NEW f, f = [s \in S |-> f[s]]
    PROVE  /\ IsFiniteSet({f[s] : s \in S})
           /\ Cardinality({f[s] : s \in S}) \in Nat
           /\ Cardinality({f[s] : s \in S}) <= Cardinality(S)
<1>. DEFINE R == {f[s] : s \in S}
<1>1. f \in Surjection(S, R)
    BY DEF Surjection
<1>. QED  BY <1>1, FS_Surjection, FS_CardinalityType

\* There is always an inode for a new file, and Fresh is one.
LEMMA FreshUnused ==
    ASSUME Types PROVE Fresh \in Inodes /\ Unused(Fresh)
<1>. USE LockBackupAssumption
<1>. DEFINE N == {name[n] : n \in Names}
            F == {from[a] : a \in Pids}
            T == {to[a] : a \in Pids}
<1>1. IsFiniteSet(Names) /\ Cardinality(Names) \in Nat
  <2>1. IsFiniteSet(((({} \cup {"db"}) \cup {"backup"}) \cup {"db.tmp"}) \cup {"backup.tmp"})
    <3>1. IsFiniteSet({} \cup {"db"})
        BY FS_EmptySet, FS_AddElement
    <3>2. IsFiniteSet(({} \cup {"db"}) \cup {"backup"})
        BY <3>1, FS_AddElement
    <3>3. IsFiniteSet((({} \cup {"db"}) \cup {"backup"}) \cup {"db.tmp"})
        BY <3>2, FS_AddElement
    <3>. QED  BY <3>3, FS_AddElement
  <2>2. Names = ((({} \cup {"db"}) \cup {"backup"}) \cup {"db.tmp"}) \cup {"backup.tmp"}
      BY DEF Names
  <2>. QED  BY <2>1, <2>2, FS_CardinalityType
<1>2. IsFiniteSet(N) /\ Cardinality(N) \in Nat /\ Cardinality(N) <= Cardinality(Names)
  <2>1. name = [n \in Names |-> name[n]]
      BY DEF Types
  <2>. QED  BY <1>1, <2>1, FewValues
<1>3. IsFiniteSet(F) /\ Cardinality(F) \in Nat /\ Cardinality(F) <= Cardinality(Pids)
  <2>1. from = [a \in Pids |-> from[a]]
      BY DEF Types
  <2>. QED  BY <2>1, FewValues
<1>4. IsFiniteSet(T) /\ Cardinality(T) \in Nat /\ Cardinality(T) <= Cardinality(Pids)
  <2>1. to = [a \in Pids |-> to[a]]
      BY DEF Types
  <2>. QED  BY <2>1, FewValues
<1>5. Cardinality(Pids) \in Nat
    BY FS_CardinalityType
<1>6. IsFiniteSet(F \cup T) /\ Cardinality(F \cup T) \in Nat
      /\ Cardinality(F \cup T) <= 2 * Cardinality(Pids)
  <2>1. IsFiniteSet(F \cup T) /\ Cardinality(F \cap T) \in Nat
        /\ Cardinality(F \cup T) = Cardinality(F) + Cardinality(T) - Cardinality(F \cap T)
      BY <1>3, <1>4, FS_Union, FS_Intersection, FS_CardinalityType
  <2>. QED  BY <1>3, <1>4, <1>5, <2>1, FS_CardinalityType
<1>7. IsFiniteSet(N \cup (F \cup T))
      /\ Cardinality(N \cup (F \cup T)) <= Cardinality(Names) + 2 * Cardinality(Pids)
  <2>1. IsFiniteSet(N \cup (F \cup T)) /\ Cardinality(N \cap (F \cup T)) \in Nat
        /\ Cardinality(N \cup (F \cup T))
              = Cardinality(N) + Cardinality(F \cup T) - Cardinality(N \cap (F \cup T))
      BY <1>2, <1>6, FS_Union, FS_Intersection, FS_CardinalityType
  <2>. QED  BY <1>1, <1>2, <1>5, <1>6, <2>1
<1>8. ~(Inodes \subseteq N \cup (F \cup T))
  <2>1. SUFFICES ASSUME Inodes \subseteq N \cup (F \cup T) PROVE FALSE
      OBVIOUS
  <2>2. Cardinality(Inodes) <= Cardinality(N \cup (F \cup T))
      BY <1>7, <2>1, FS_Subset
  <2>3. Cardinality(Inodes) \in Nat /\ Cardinality(N \cup (F \cup T)) \in Nat
      BY <1>7, FS_CardinalityType
  <2>. QED  BY <1>1, <1>5, <1>7, <2>2, <2>3
<1>9. \E i \in Inodes : Unused(i)
    BY <1>8 DEF Unused
<1>10. \E i \in Inodes : Unused(i) /\ \A j \in Inodes : Unused(j) => i <= j
  <2>. DEFINE S == {i \in Inodes : Unused(i)}
  <2>1. S \subseteq Nat /\ S # {}
      BY <1>9
  <2>2. PICK i \in S : \A j \in S : <<j, i>> \notin OpToRel(<, Nat)
      BY <2>1, NatLessThanWellFounded, WFMin
  <2>3. \A j \in S : ~(j < i)
      BY <2>1, <2>2 DEF OpToRel
  <2>. QED  BY <2>1, <2>3
<1>. QED  BY <1>10 DEF Fresh

\* A transaction writes all chunks of the database, or of a file that takes its
\* place.
Transacts(i) ==
    /\ i = name["db"] \/ Unused(i)
    /\ name' = [name EXCEPT !["db"] = i]
    /\ Fill(i, [c \in Chunks |-> version + 1], FALSE)
    /\ version' = version + 1 /\ newest' = version + 1

LEMMA Transact ==
    ASSUME Types, NamesInv, Transaction PROVE \E i \in Inodes : Transacts(i)
<1>1. CASE Complete(name["db"])
    BY <1>1 DEF Transaction, Transacts, Types, NamesInv, Names
<1>2. CASE ~Complete(name["db"])
    BY <1>2, FreshUnused DEF Transaction, Transacts
<1>. QED  BY <1>1, <1>2

\* A copy begins with an empty file under its temporary name.
Creates(a, i) ==
    /\ i = name[Temp[job[a]]] \/ Unused(i)
    /\ name' = [name EXCEPT ![Temp[job[a]]] = i]
    /\ to' = [to EXCEPT ![a] = i]
    /\ Fill(i, [c \in Chunks |-> 0], FALSE)

LEMMA Create ==
    ASSUME Types, NEW a \in Pids, CreateTemp(a) PROVE \E i \in Inodes : Creates(a, i)
<1>1. CASE name[Temp[job[a]]] = None
    BY <1>1, FreshUnused DEF CreateTemp, Creates
<1>2. CASE name[Temp[job[a]]] # None
  <2>1. name[Temp[job[a]]] \in Inodes
      BY <1>2 DEF Types, Temp, Names
  <2>. QED  BY <1>2, <2>1 DEF CreateTemp, Creates
<1>. QED  BY <1>1, <1>2

-----------------------------------------------------------------------------
(* The invariant.                                                          *)

\* Every step keeps the types.
LEMMA TypeStep ==
    ASSUME Types, FdInv, NamesInv, [Next]_vars
    PROVE  Types'
<1>. USE LockBackupAssumption
<1>1. CASE Reboot
    BY <1>1 DEF Reboot, Note, Types, FdInv, NamesInv, PCs, Copying, Filling, Records, Gaps,
        Names, Temp, Source, Target, files
<1>2. CASE SectionAges
    BY <1>2 DEF SectionAges, Types, FdInv, NamesInv, PCs, Copying, Filling, Records, Gaps,
        Names, Temp, Source, Target, files
<1>3. ASSUME NEW a \in Pids, Start(a) PROVE Types'
    BY <1>3 DEF Start, Goto, Types, FdInv, NamesInv, PCs, Copying, Filling, Records, Gaps,
        Names, Temp, Source, Target, files
<1>4. ASSUME NEW a \in Pids, VerifyThatDatabaseIsNotCorrupt(a) PROVE Types'
  <2>1. /\ pc' = [pc EXCEPT ![a] = "open"] \/ pc' = [pc EXCEPT ![a] = "use"]
        /\ job' = job \/ job' = [job EXCEPT ![a] = "restore"]
        /\ gaps' \subseteq Gaps
        /\ UNCHANGED <<files, boot, version, newest, section, from, to, pos>>
      BY <1>4 DEF VerifyThatDatabaseIsNotCorrupt, Goto, Note, Types, Gaps
  <2>2. pc' \in [Pids -> PCs]
      BY <2>1 DEF Types, PCs, Copying
  <2>3. job' \in [Pids -> {"backup", "restore"}]
      BY <2>1 DEF Types
  <2>. QED  BY <2>1, <2>2, <2>3 DEF Types, files
<1>5. ASSUME NEW a \in Pids, WriteDB(a) PROVE Types'
  <2>1. PICK i \in Inodes : Transacts(i)
      BY <1>5, Transact DEF WriteDB
  <2>. QED  BY <1>5, <2>1 DEF Transacts, Unused, Fill, WriteDB, Types, FdInv, NamesInv, PCs,
      Copying, Filling, Records, Gaps, Names, Temp, Source, Target, files
<1>6. ASSUME NEW a \in Pids, WaitForCriticalSection(a) PROVE Types'
    BY <1>6 DEF WaitForCriticalSection, Goto, Types, FdInv, NamesInv, PCs, Copying, Filling,
        Records, Gaps, Names, Temp, Source, Target, files
<1>7. ASSUME NEW a \in Pids, BackupLockDatabase(a) PROVE Types'
  <2>1. PICK i \in Inodes : Transacts(i)
      BY <1>7, Transact DEF BackupLockDatabase
  <2>. QED  BY <1>7, <2>1 DEF Transacts, Unused, Fill, BackupLockDatabase, Goto, Types,
      FdInv, NamesInv, PCs, Copying, Filling, Records, Gaps, Names, Temp, Source, Target,
      files
<1>8. ASSUME NEW a \in Pids, OpenSource(a) PROVE Types'
    BY <1>8 DEF OpenSource, Finish, Close, Goto, Types, FdInv, NamesInv, PCs, Copying,
        Filling, Records, Gaps, Names, Temp, Source, Target, files
<1>9. ASSUME NEW a \in Pids, CreateTemp(a) PROVE Types'
  <2>1. PICK i \in Inodes : Creates(a, i)
      BY <1>9, Create
  <2>. QED  BY <1>9, <2>1 DEF Creates, Unused, Fill, CreateTemp, Goto, Note, Types, FdInv,
      NamesInv, PCs, Copying, Filling, Records, Gaps, Names, Temp, Source, Target, files
<1>10. ASSUME NEW a \in Pids, CopyChunk(a) PROVE Types'
  <2>1. to[a] \in Inodes /\ from[a] \in Inodes /\ pos[a] \in Chunks
      BY <1>10 DEF CopyChunk, Types, FdInv, Filling
  <2>2. [data[to[a]] EXCEPT ![pos[a]] = data[from[a]][pos[a]]] \in [Chunks -> Nat]
    <3>1. data[to[a]] \in [Chunks -> Nat] /\ data[from[a]] \in [Chunks -> Nat]
        BY <2>1 DEF Types
    <3>2. data[from[a]][pos[a]] \in Nat
        BY <2>1, <3>1
    <3>. QED  BY <3>1, <3>2
  <2>3. data' \in [Inodes -> [Chunks -> Nat]]
      BY <1>10, <2>1, <2>2 DEF CopyChunk, Fill, Types
  <2>4. /\ mtime' \in [Inodes -> Nat] /\ synced' \in [Inodes -> BOOLEAN]
        /\ pos' \in [Pids -> Nat] /\ pc' \in [Pids -> PCs]
    <3>1. /\ mtime' = [mtime EXCEPT ![to[a]] = boot] /\ synced' = [synced EXCEPT ![to[a]] = FALSE]
          /\ pos' = [pos EXCEPT ![a] = @ + 1] /\ pc' \in {pc, [pc EXCEPT ![a] = "fsync"]}
        BY <1>10 DEF CopyChunk, Fill, Goto
    <3>2. mtime' \in [Inodes -> Nat] /\ synced' \in [Inodes -> BOOLEAN]
        BY <3>1 DEF Types
    <3>3. pos' \in [Pids -> Nat]
        BY <3>1 DEF Types
    <3>4. pc' \in [Pids -> PCs]
        BY <3>1 DEF Types, PCs, Copying
    <3>. QED  BY <3>2, <3>3, <3>4
  <2>. QED  BY <1>10, <2>3, <2>4 DEF CopyChunk, Note, Types, Gaps
<1>11. ASSUME NEW a \in Pids, Fsync(a) PROVE Types'
    BY <1>11 DEF Fsync, Goto, Types, FdInv, NamesInv, PCs, Copying, Filling, Records, Gaps,
        Names, Temp, Source, Target, files
<1>12. ASSUME NEW a \in Pids, Rename(a) PROVE Types'
    BY <1>12 DEF Rename, Goto, Types, FdInv, NamesInv, PCs, Copying, Filling, Records, Gaps,
        Names, Temp, Source, Target, files
<1>13. ASSUME NEW a \in Pids, Unlink(a) PROVE Types'
    BY <1>13 DEF Unlink, Finish, Close, Goto, Types, FdInv, NamesInv, PCs, Copying, Filling,
        Records, Gaps, Names, Temp, Source, Target, files
<1>14. ASSUME NEW a \in Pids, CopyFails(a) PROVE Types'
    BY <1>14 DEF CopyFails, Finish, Close, Goto, Note, Types, FdInv, NamesInv, PCs, Copying,
        Filling, Records, Gaps, Names, Temp, Source, Target, files
<1>15. ASSUME NEW a \in Pids, Crash(a) PROVE Types'
    BY <1>15 DEF Crash, Close, Goto, Note, Types, FdInv, NamesInv, PCs, Copying, Filling,
        Records, Gaps, Names, Temp, Source, Target, files
<1>16. CASE UNCHANGED vars
    BY <1>16 DEF vars, files, Types, FdInv, NamesInv, PCs, Copying, Filling, Records, Gaps,
        Names, Temp, Source, Target
<1>. QED  BY <1>1, <1>2, <1>3, <1>4, <1>5, <1>6, <1>7, <1>8, <1>9, <1>10, <1>11, <1>12,
    <1>13, <1>14, <1>15, <1>16 DEF Next

\* Every step keeps FdInv.
LEMMA FdStep ==
    ASSUME Types, FdInv, NamesInv, [Next]_vars
    PROVE  FdInv'
<1>. USE LockBackupAssumption
<1>1. CASE Reboot
    BY <1>1 DEF Reboot, Note, Types, FdInv, Copying, Filling, files
<1>2. CASE SectionAges
    BY <1>2 DEF SectionAges, Types, FdInv, Copying, Filling, files
<1>3. ASSUME NEW a \in Pids, Start(a) PROVE FdInv'
    BY <1>3 DEF Start, Goto, Types, FdInv, Copying, Filling, files
<1>4. ASSUME NEW a \in Pids, VerifyThatDatabaseIsNotCorrupt(a) PROVE FdInv'
    BY <1>4 DEF VerifyThatDatabaseIsNotCorrupt, Goto, Note, Types, FdInv, Copying, Filling,
        files
<1>5. ASSUME NEW a \in Pids, WriteDB(a) PROVE FdInv'
  <2>1. PICK i \in Inodes : Transacts(i)
      BY <1>5, Transact DEF WriteDB
  <2>. QED  BY <1>5, <2>1 DEF Transacts, Unused, Fill, WriteDB, Types, FdInv, Copying,
      Filling, files
<1>6. ASSUME NEW a \in Pids, WaitForCriticalSection(a) PROVE FdInv'
    BY <1>6 DEF WaitForCriticalSection, Goto, Types, FdInv, Copying, Filling, files
<1>7. ASSUME NEW a \in Pids, BackupLockDatabase(a) PROVE FdInv'
  <2>1. PICK i \in Inodes : Transacts(i)
      BY <1>7, Transact DEF BackupLockDatabase
  <2>. QED  BY <1>7, <2>1 DEF Transacts, Unused, Fill, BackupLockDatabase, Goto, Types,
      FdInv, Copying, Filling, files
<1>8. ASSUME NEW a \in Pids, OpenSource(a) PROVE FdInv'
    BY <1>8 DEF OpenSource, Finish, Close, Goto, Types, FdInv, Copying, Filling, files
<1>9. ASSUME NEW a \in Pids, CreateTemp(a) PROVE FdInv'
  <2>1. PICK i \in Inodes : Creates(a, i)
      BY <1>9, Create
  <2>. QED  BY <1>9, <2>1 DEF Creates, Unused, Fill, CreateTemp, Goto, Note, Types, FdInv,
      Copying, Filling, files
<1>10. ASSUME NEW a \in Pids, CopyChunk(a) PROVE FdInv'
    BY <1>10 DEF CopyChunk, Fill, Goto, Note, Types, FdInv, Copying, Filling, files
<1>11. ASSUME NEW a \in Pids, Fsync(a) PROVE FdInv'
    BY <1>11 DEF Fsync, Goto, Types, FdInv, Copying, Filling, files
<1>12. ASSUME NEW a \in Pids, Rename(a) PROVE FdInv'
    BY <1>12 DEF Rename, Goto, Types, FdInv, Copying, Filling, files
<1>13. ASSUME NEW a \in Pids, Unlink(a) PROVE FdInv'
    BY <1>13 DEF Unlink, Finish, Close, Goto, Types, FdInv, Copying, Filling, files
<1>14. ASSUME NEW a \in Pids, CopyFails(a) PROVE FdInv'
    BY <1>14 DEF CopyFails, Finish, Close, Goto, Note, Types, FdInv, Copying, Filling, files
<1>15. ASSUME NEW a \in Pids, Crash(a) PROVE FdInv'
    BY <1>15 DEF Crash, Close, Goto, Note, Types, FdInv, Copying, Filling, files
<1>16. CASE UNCHANGED vars
    BY <1>16 DEF vars, files, Types, FdInv, Copying, Filling
<1>. QED  BY <1>1, <1>2, <1>3, <1>4, <1>5, <1>6, <1>7, <1>8, <1>9, <1>10, <1>11, <1>12,
    <1>13, <1>14, <1>15, <1>16 DEF Next

\* Every step keeps NamesInv.
LEMMA NamesStep ==
    ASSUME Types, FdInv, NamesInv, [Next]_vars
    PROVE  NamesInv'
<1>. USE LockBackupAssumption
<1>1. CASE Reboot
    BY <1>1 DEF Reboot, Note, Types, FdInv, NamesInv, Copying, Filling, Names, Temp, Source,
        Target, files
<1>2. CASE SectionAges
    BY <1>2 DEF SectionAges, Types, FdInv, NamesInv, Copying, Filling, Names, Temp, Source,
        Target, files
<1>3. ASSUME NEW a \in Pids, Start(a) PROVE NamesInv'
    BY <1>3 DEF Start, Goto, Types, FdInv, NamesInv, Copying, Filling, Names, Temp, Source,
        Target, files
<1>4. ASSUME NEW a \in Pids, VerifyThatDatabaseIsNotCorrupt(a) PROVE NamesInv'
    BY <1>4 DEF VerifyThatDatabaseIsNotCorrupt, Goto, Note, Types, FdInv, NamesInv, Copying,
        Filling, Names, Temp, Source, Target, files
<1>5. ASSUME NEW a \in Pids, WriteDB(a) PROVE NamesInv'
  <2>1. PICK i \in Inodes : Transacts(i)
      BY <1>5, Transact DEF WriteDB
  <2>. QED  BY <1>5, <2>1 DEF Transacts, Unused, Fill, WriteDB, Types, FdInv, NamesInv,
      Copying, Filling, Names, Temp, Source, Target, files
<1>6. ASSUME NEW a \in Pids, WaitForCriticalSection(a) PROVE NamesInv'
    BY <1>6 DEF WaitForCriticalSection, Goto, Types, FdInv, NamesInv, Copying, Filling,
        Names, Temp, Source, Target, files
<1>7. ASSUME NEW a \in Pids, BackupLockDatabase(a) PROVE NamesInv'
  <2>1. PICK i \in Inodes : Transacts(i)
      BY <1>7, Transact DEF BackupLockDatabase
  <2>. QED  BY <1>7, <2>1 DEF Transacts, Unused, Fill, BackupLockDatabase, Goto, Types,
      FdInv, NamesInv, Copying, Filling, Names, Temp, Source, Target, files
<1>8. ASSUME NEW a \in Pids, OpenSource(a) PROVE NamesInv'
    BY <1>8 DEF OpenSource, Finish, Close, Goto, Types, FdInv, NamesInv, Copying, Filling,
        Names, Temp, Source, Target, files
<1>9. ASSUME NEW a \in Pids, CreateTemp(a) PROVE NamesInv'
  <2>1. PICK i \in Inodes : Creates(a, i)
      BY <1>9, Create
  <2>2. PICK t \in {"db.tmp", "backup.tmp"} : t = Temp[job[a]]
      BY DEF Types, Temp
  <2>3. name' = [name EXCEPT ![t] = i] /\ from' = from
      BY <1>9, <2>1, <2>2 DEF Creates, CreateTemp
  <2>4. /\ \A n \in Names \ {t} : name[n] # i
        /\ \A b \in Pids : from[b] # i
    <3>1. CASE Unused(i)
        BY <3>1 DEF Unused
    <3>2. CASE i = name[t]
        BY <2>2, <3>2 DEF NamesInv, Types, Names
    <3>. QED  BY <2>1, <2>2, <3>1, <3>2 DEF Creates
  <2>5. \A n \in Names : name'[n] = IF n = t THEN i ELSE name[n]
      BY <2>3 DEF Types
  <2>6. t \in Names /\ {"db", "db.tmp", "backup.tmp"} \subseteq Names
      BY DEF Names
  <2>. QED  BY <2>2, <2>3, <2>4, <2>5, <2>6 DEF NamesInv
<1>10. ASSUME NEW a \in Pids, CopyChunk(a) PROVE NamesInv'
    BY <1>10 DEF CopyChunk, Fill, Goto, Note, Types, FdInv, NamesInv, Copying, Filling,
        Names, Temp, Source, Target, files
<1>11. ASSUME NEW a \in Pids, Fsync(a) PROVE NamesInv'
    BY <1>11 DEF Fsync, Goto, Types, FdInv, NamesInv, Copying, Filling, Names, Temp, Source,
        Target, files
<1>12. ASSUME NEW a \in Pids, Rename(a) PROVE NamesInv'
    BY <1>12 DEF Rename, Goto, Types, FdInv, NamesInv, Copying, Filling, Names, Temp,
        Source, Target, files
<1>13. ASSUME NEW a \in Pids, Unlink(a) PROVE NamesInv'
    BY <1>13 DEF Unlink, Finish, Close, Goto, Types, FdInv, NamesInv, Copying, Filling,
        Names, Temp, Source, Target, files
<1>14. ASSUME NEW a \in Pids, CopyFails(a) PROVE NamesInv'
    BY <1>14 DEF CopyFails, Finish, Close, Goto, Note, Types, FdInv, NamesInv, Copying,
        Filling, Names, Temp, Source, Target, files
<1>15. ASSUME NEW a \in Pids, Crash(a) PROVE NamesInv'
    BY <1>15 DEF Crash, Close, Goto, Note, Types, FdInv, NamesInv, Copying, Filling, Names,
        Temp, Source, Target, files
<1>16. CASE UNCHANGED vars
    BY <1>16 DEF vars, files, Types, FdInv, NamesInv, Copying, Filling, Names, Temp, Source,
        Target
<1>. QED  BY <1>1, <1>2, <1>3, <1>4, <1>5, <1>6, <1>7, <1>8, <1>9, <1>10, <1>11, <1>12,
    <1>13, <1>14, <1>15, <1>16 DEF Next

\* Every step keeps JobInv.
LEMMA JobStep ==
    ASSUME Types, NamesInv, JobInv, [Next]_vars
    PROVE  JobInv'
<1>. USE LockBackupAssumption
<1>1. CASE Reboot
    BY <1>1 DEF Reboot, Note, Types, JobInv, Copying, files
<1>2. CASE SectionAges
    BY <1>2 DEF SectionAges, Types, JobInv, Copying, files
<1>3. ASSUME NEW a \in Pids, Start(a) PROVE JobInv'
    BY <1>3 DEF Start, Goto, Types, JobInv, Copying, files
<1>4. ASSUME NEW a \in Pids, VerifyThatDatabaseIsNotCorrupt(a) PROVE JobInv'
    BY <1>4 DEF VerifyThatDatabaseIsNotCorrupt, Goto, Note, Types, JobInv, Copying, files
<1>5. ASSUME NEW a \in Pids, WriteDB(a) PROVE JobInv'
  <2>1. PICK i \in Inodes : Transacts(i)
      BY <1>5, Transact DEF WriteDB
  <2>. QED  BY <1>5, <2>1 DEF Transacts, Unused, Fill, WriteDB, Types, JobInv, Copying,
      files
<1>6. ASSUME NEW a \in Pids, WaitForCriticalSection(a) PROVE JobInv'
    BY <1>6 DEF WaitForCriticalSection, Goto, Types, JobInv, Copying, files
<1>7. ASSUME NEW a \in Pids, BackupLockDatabase(a) PROVE JobInv'
  <2>1. PICK i \in Inodes : Transacts(i)
      BY <1>7, Transact DEF BackupLockDatabase
  <2>. QED  BY <1>7, <2>1 DEF Transacts, Unused, Fill, BackupLockDatabase, Goto, Types,
      JobInv, Copying, files
<1>8. ASSUME NEW a \in Pids, OpenSource(a) PROVE JobInv'
    BY <1>8 DEF OpenSource, Finish, Close, Goto, Types, JobInv, Copying, files
<1>9. ASSUME NEW a \in Pids, CreateTemp(a) PROVE JobInv'
  <2>1. PICK i \in Inodes : Creates(a, i)
      BY <1>9, Create
  <2>. QED  BY <1>9, <2>1 DEF Creates, Unused, Fill, CreateTemp, Goto, Note, Types, JobInv,
      Copying, files
<1>10. ASSUME NEW a \in Pids, CopyChunk(a) PROVE JobInv'
    BY <1>10 DEF CopyChunk, Fill, Goto, Note, Types, JobInv, Copying, files
<1>11. ASSUME NEW a \in Pids, Fsync(a) PROVE JobInv'
    BY <1>11 DEF Fsync, Goto, Types, JobInv, Copying, files
<1>12. ASSUME NEW a \in Pids, Rename(a) PROVE JobInv'
    BY <1>12 DEF Rename, Goto, Types, JobInv, Copying, files
<1>13. ASSUME NEW a \in Pids, Unlink(a) PROVE JobInv'
    BY <1>13 DEF Unlink, Finish, Close, Goto, Types, JobInv, Copying, files
<1>14. ASSUME NEW a \in Pids, CopyFails(a) PROVE JobInv'
    BY <1>14 DEF CopyFails, Finish, Close, Goto, Note, Types, JobInv, Copying, files
<1>15. ASSUME NEW a \in Pids, Crash(a) PROVE JobInv'
    BY <1>15 DEF Crash, Close, Goto, Note, Types, JobInv, Copying, files
<1>16. CASE UNCHANGED vars
    BY <1>16 DEF vars, files, Types, JobInv, Copying
<1>. QED  BY <1>1, <1>2, <1>3, <1>4, <1>5, <1>6, <1>7, <1>8, <1>9, <1>10, <1>11, <1>12,
    <1>13, <1>14, <1>15, <1>16 DEF Next

\* Every step keeps ToInv.
LEMMA ToStep ==
    ASSUME Types, FdInv, NamesInv, ToInv, [Next]_vars
    PROVE  ToInv'
<1>. USE LockBackupAssumption
<1>1. CASE Reboot
    BY <1>1 DEF Reboot, Note, Types, FdInv, NamesInv, ToInv, Copying, Filling, Names, Temp,
        Source, Target, files
<1>2. CASE SectionAges
    BY <1>2 DEF SectionAges, Types, FdInv, NamesInv, ToInv, Copying, Filling, Names, Temp,
        Source, Target, files
<1>3. ASSUME NEW a \in Pids, Start(a) PROVE ToInv'
    BY <1>3 DEF Start, Goto, Types, FdInv, NamesInv, ToInv, Copying, Filling, Names, Temp,
        Source, Target, files
<1>4. ASSUME NEW a \in Pids, VerifyThatDatabaseIsNotCorrupt(a) PROVE ToInv'
    BY <1>4 DEF VerifyThatDatabaseIsNotCorrupt, Goto, Note, Types, FdInv, NamesInv, ToInv,
        Copying, Filling, Names, Temp, Source, Target, files
<1>5. ASSUME NEW a \in Pids, WriteDB(a) PROVE ToInv'
  <2>1. PICK i \in Inodes : Transacts(i)
      BY <1>5, Transact DEF WriteDB
  <2>. QED  BY <1>5, <2>1 DEF Transacts, Unused, Fill, WriteDB, Types, FdInv, NamesInv,
      ToInv, Copying, Filling, Names, Temp, Source, Target, files
<1>6. ASSUME NEW a \in Pids, WaitForCriticalSection(a) PROVE ToInv'
    BY <1>6 DEF WaitForCriticalSection, Goto, Types, FdInv, NamesInv, ToInv, Copying,
        Filling, Names, Temp, Source, Target, files
<1>7. ASSUME NEW a \in Pids, BackupLockDatabase(a) PROVE ToInv'
  <2>1. PICK i \in Inodes : Transacts(i)
      BY <1>7, Transact DEF BackupLockDatabase
  <2>. QED  BY <1>7, <2>1 DEF Transacts, Unused, Fill, BackupLockDatabase, Goto, Types,
      FdInv, NamesInv, ToInv, Copying, Filling, Names, Temp, Source, Target, files
<1>8. ASSUME NEW a \in Pids, OpenSource(a) PROVE ToInv'
    BY <1>8 DEF OpenSource, Finish, Close, Goto, Types, FdInv, NamesInv, ToInv, Copying,
        Filling, Names, Temp, Source, Target, files
<1>9. ASSUME NEW a \in Pids, CreateTemp(a) PROVE ToInv'
  <2>1. PICK i \in Inodes : Creates(a, i)
      BY <1>9, Create
  <2>. QED  BY <1>9, <2>1 DEF Creates, Unused, Fill, CreateTemp, Goto, Note, Types, FdInv,
      NamesInv, ToInv, Copying, Filling, Names, Temp, Source, Target, files
<1>10. ASSUME NEW a \in Pids, CopyChunk(a) PROVE ToInv'
    BY <1>10 DEF CopyChunk, Fill, Goto, Note, Types, FdInv, NamesInv, ToInv, Copying,
        Filling, Names, Temp, Source, Target, files
<1>11. ASSUME NEW a \in Pids, Fsync(a) PROVE ToInv'
    BY <1>11 DEF Fsync, Goto, Types, FdInv, NamesInv, ToInv, Copying, Filling, Names, Temp,
        Source, Target, files
<1>12. ASSUME NEW a \in Pids, Rename(a) PROVE ToInv'
    BY <1>12 DEF Rename, Goto, Types, FdInv, NamesInv, ToInv, Copying, Filling, Names, Temp,
        Source, Target, files
<1>13. ASSUME NEW a \in Pids, Unlink(a) PROVE ToInv'
    BY <1>13 DEF Unlink, Finish, Close, Goto, Types, FdInv, NamesInv, ToInv, Copying,
        Filling, Names, Temp, Source, Target, files
<1>14. ASSUME NEW a \in Pids, CopyFails(a) PROVE ToInv'
    BY <1>14 DEF CopyFails, Finish, Close, Goto, Note, Types, FdInv, NamesInv, ToInv,
        Copying, Filling, Names, Temp, Source, Target, files
<1>15. ASSUME NEW a \in Pids, Crash(a) PROVE ToInv'
    BY <1>15 DEF Crash, Close, Goto, Note, Types, FdInv, NamesInv, ToInv, Copying, Filling,
        Names, Temp, Source, Target, files
<1>16. CASE UNCHANGED vars
    BY <1>16 DEF vars, files, Types, FdInv, NamesInv, ToInv, Copying, Filling, Names, Temp,
        Source, Target
<1>. QED  BY <1>1, <1>2, <1>3, <1>4, <1>5, <1>6, <1>7, <1>8, <1>9, <1>10, <1>11, <1>12,
    <1>13, <1>14, <1>15, <1>16 DEF Next

\* Until two agents clash, who restores stays alone.
LEMMA SoleStep ==
    ASSUME Always, "clash" \notin gaps', SoleInv, NewestInv, [Next]_vars
    PROVE  SoleInv'
<1>. USE LockBackupAssumption
<1>1. CASE Reboot
    BY <1>1 DEF Reboot, Note, Always, Types, FdInv, NamesInv, JobInv, SoleInv, NewestInv,
        Copying, Early, Filling, Names, Temp, Source, Target, files
<1>2. CASE SectionAges
    BY <1>2 DEF SectionAges, Always, Types, FdInv, NamesInv, JobInv, SoleInv, NewestInv,
        Copying, Early, Filling, Names, Temp, Source, Target, files
<1>3. ASSUME NEW a \in Pids, Start(a) PROVE SoleInv'
    BY <1>3 DEF Start, Goto, Always, Types, FdInv, NamesInv, JobInv, SoleInv, NewestInv,
        Copying, Early, Filling, Names, Temp, Source, Target, files
<1>4. ASSUME NEW a \in Pids, VerifyThatDatabaseIsNotCorrupt(a) PROVE SoleInv'
  <2>1. UNCHANGED <<mtime, boot, newest, name, to>> /\ pc[a] = "stat"
      BY <1>4 DEF VerifyThatDatabaseIsNotCorrupt, files
  <2>2. CASE mtime[name["db"]] < boot
    <3>1. /\ pc' = [pc EXCEPT ![a] = "open"] /\ job' = [job EXCEPT ![a] = "restore"]
          /\ \A b \in Pids \ {a} : pc[b] \in {"off", "stat"}
        BY <1>4, <2>2 DEF VerifyThatDatabaseIsNotCorrupt, Goto, Note, Always, Types, NamesInv
    <3>2. newest = 0
        BY <2>2 DEF Always, NewestInv, Types, NamesInv, Names
    <3>3. to[a] # name["db"]
        BY <2>1 DEF Always, FdInv, NamesInv, Copying
    <3>. QED  BY <2>1, <2>2, <3>1, <3>2, <3>3 DEF SoleInv, Always, Types, Early, Filling
  <2>3. CASE ~(mtime[name["db"]] < boot)
    <3>1. pc' = [pc EXCEPT ![a] = "use"] /\ job' = job
        BY <1>4, <2>3 DEF VerifyThatDatabaseIsNotCorrupt, Goto
    <3>2. \A b \in Pids : pc[b] \in Early => job[b] # "restore"
        BY <2>3 DEF SoleInv
    <3>. QED  BY <3>1, <3>2 DEF SoleInv, Always, Types, Early, Filling
  <2>. QED  BY <2>2, <2>3
<1>5. ASSUME NEW a \in Pids, WriteDB(a) PROVE SoleInv'
  <2>1. PICK i \in Inodes : Transacts(i)
      BY <1>5, Transact DEF WriteDB, Always
  <2>. QED  BY <1>5, <2>1 DEF Transacts, Unused, Fill, WriteDB, Always, Types, FdInv,
      NamesInv, JobInv, SoleInv, NewestInv, Copying, Early, Filling, Names, Temp, Source,
      Target, files
<1>6. ASSUME NEW a \in Pids, WaitForCriticalSection(a) PROVE SoleInv'
    BY <1>6 DEF WaitForCriticalSection, Goto, Always, Types, FdInv, NamesInv, JobInv,
        SoleInv, NewestInv, Copying, Early, Filling, Names, Temp, Source, Target, files
<1>7. ASSUME NEW a \in Pids, BackupLockDatabase(a) PROVE SoleInv'
  <2>1. PICK i \in Inodes : Transacts(i)
      BY <1>7, Transact DEF BackupLockDatabase, Always
  <2>. QED  BY <1>7, <2>1 DEF Transacts, Unused, Fill, BackupLockDatabase, Goto, Always,
      Types, FdInv, NamesInv, JobInv, SoleInv, NewestInv, Copying, Early, Filling, Names,
      Temp, Source, Target, files
<1>8. ASSUME NEW a \in Pids, OpenSource(a) PROVE SoleInv'
    BY <1>8 DEF OpenSource, Finish, Close, Goto, Always, Types, FdInv, NamesInv, JobInv,
        SoleInv, NewestInv, Copying, Early, Filling, Names, Temp, Source, Target, files
<1>9. ASSUME NEW a \in Pids, CreateTemp(a) PROVE SoleInv'
  <2>1. PICK i \in Inodes : Creates(a, i)
      BY <1>9, Create DEF Always
  <2>. QED  BY <1>9, <2>1 DEF Creates, Unused, Fill, CreateTemp, Goto, Note, Always, Types,
      FdInv, NamesInv, JobInv, SoleInv, NewestInv, Copying, Early, Filling, Names, Temp,
      Source, Target, files
<1>10. ASSUME NEW a \in Pids, CopyChunk(a) PROVE SoleInv'
    BY <1>10 DEF CopyChunk, Fill, Goto, Note, Always, Types, FdInv, NamesInv, JobInv,
        SoleInv, NewestInv, Copying, Early, Filling, Names, Temp, Source, Target, files
<1>11. ASSUME NEW a \in Pids, Fsync(a) PROVE SoleInv'
    BY <1>11 DEF Fsync, Goto, Always, Types, FdInv, NamesInv, JobInv, SoleInv, NewestInv,
        Copying, Early, Filling, Names, Temp, Source, Target, files
<1>12. ASSUME NEW a \in Pids, Rename(a) PROVE SoleInv'
    BY <1>12 DEF Rename, Goto, Always, Types, FdInv, NamesInv, JobInv, SoleInv, NewestInv,
        Copying, Early, Filling, Names, Temp, Source, Target, files
<1>13. ASSUME NEW a \in Pids, Unlink(a) PROVE SoleInv'
    BY <1>13 DEF Unlink, Finish, Close, Goto, Always, Types, FdInv, NamesInv, JobInv,
        SoleInv, NewestInv, Copying, Early, Filling, Names, Temp, Source, Target, files
<1>14. ASSUME NEW a \in Pids, CopyFails(a) PROVE SoleInv'
    BY <1>14 DEF CopyFails, Finish, Close, Goto, Note, Always, Types, FdInv, NamesInv,
        JobInv, SoleInv, NewestInv, Copying, Early, Filling, Names, Temp, Source, Target,
        files
<1>15. ASSUME NEW a \in Pids, Crash(a) PROVE SoleInv'
    BY <1>15 DEF Crash, Close, Goto, Note, Always, Types, FdInv, NamesInv, JobInv, SoleInv,
        NewestInv, Copying, Early, Filling, Names, Temp, Source, Target, files
<1>16. CASE UNCHANGED vars
    BY <1>16 DEF vars, files, Always, Types, FdInv, NamesInv, JobInv, SoleInv, NewestInv,
        Copying, Early, Filling, Names, Temp, Source, Target
<1>. QED  BY <1>1, <1>2, <1>3, <1>4, <1>5, <1>6, <1>7, <1>8, <1>9, <1>10, <1>11, <1>12,
    <1>13, <1>14, <1>15, <1>16 DEF Next

\* Until then nothing takes away what was written last.
LEMMA NewestStep ==
    ASSUME Always, "clash" \notin gaps', SoleInv, NewestInv, [Next]_vars
    PROVE  NewestInv'
<1>. USE LockBackupAssumption
<1>1. CASE Reboot
    BY <1>1 DEF Reboot, Note, Always, Types, FdInv, NamesInv, ToInv, SoleInv, NewestInv,
        Copying, Early, Filling, Names, Temp, Source, Target, files
<1>2. CASE SectionAges
    BY <1>2 DEF SectionAges, Always, Types, FdInv, NamesInv, ToInv, SoleInv, NewestInv,
        Copying, Early, Filling, Names, Temp, Source, Target, files
<1>3. ASSUME NEW a \in Pids, Start(a) PROVE NewestInv'
    BY <1>3 DEF Start, Goto, Always, Types, FdInv, NamesInv, ToInv, SoleInv, NewestInv,
        Copying, Early, Filling, Names, Temp, Source, Target, files
<1>4. ASSUME NEW a \in Pids, VerifyThatDatabaseIsNotCorrupt(a) PROVE NewestInv'
    BY <1>4 DEF VerifyThatDatabaseIsNotCorrupt, Goto, Note, Always, Types, FdInv, NamesInv,
        ToInv, SoleInv, NewestInv, Copying, Early, Filling, Names, Temp, Source, Target,
        files
<1>5. ASSUME NEW a \in Pids, WriteDB(a) PROVE NewestInv'
  <2>1. PICK i \in Inodes : Transacts(i)
      BY <1>5, Transact DEF WriteDB, Always
  <2>. QED  BY <1>5, <2>1 DEF Transacts, Unused, Fill, WriteDB, Always, Types, FdInv,
      NamesInv, ToInv, SoleInv, NewestInv, Copying, Early, Filling, Names, Temp, Source,
      Target, files
<1>6. ASSUME NEW a \in Pids, WaitForCriticalSection(a) PROVE NewestInv'
    BY <1>6 DEF WaitForCriticalSection, Goto, Always, Types, FdInv, NamesInv, ToInv,
        SoleInv, NewestInv, Copying, Early, Filling, Names, Temp, Source, Target, files
<1>7. ASSUME NEW a \in Pids, BackupLockDatabase(a) PROVE NewestInv'
  <2>1. PICK i \in Inodes : Transacts(i)
      BY <1>7, Transact DEF BackupLockDatabase, Always
  <2>. QED  BY <1>7, <2>1 DEF Transacts, Unused, Fill, BackupLockDatabase, Goto, Always,
      Types, FdInv, NamesInv, ToInv, SoleInv, NewestInv, Copying, Early, Filling, Names,
      Temp, Source, Target, files
<1>8. ASSUME NEW a \in Pids, OpenSource(a) PROVE NewestInv'
    BY <1>8 DEF OpenSource, Finish, Close, Goto, Always, Types, FdInv, NamesInv, ToInv,
        SoleInv, NewestInv, Copying, Early, Filling, Names, Temp, Source, Target, files
<1>9. ASSUME NEW a \in Pids, CreateTemp(a) PROVE NewestInv'
  <2>1. PICK i \in Inodes : Creates(a, i)
      BY <1>9, Create DEF Always
  <2>. QED  BY <1>9, <2>1 DEF Creates, Unused, Fill, CreateTemp, Goto, Note, Always, Types,
      FdInv, NamesInv, ToInv, SoleInv, NewestInv, Copying, Early, Filling, Names, Temp,
      Source, Target, files
<1>10. ASSUME NEW a \in Pids, CopyChunk(a) PROVE NewestInv'
    BY <1>10 DEF CopyChunk, Fill, Goto, Note, Always, Types, FdInv, NamesInv, ToInv,
        SoleInv, NewestInv, Copying, Early, Filling, Names, Temp, Source, Target, files
<1>11. ASSUME NEW a \in Pids, Fsync(a) PROVE NewestInv'
    BY <1>11 DEF Fsync, Goto, Always, Types, FdInv, NamesInv, ToInv, SoleInv, NewestInv,
        Copying, Early, Filling, Names, Temp, Source, Target, files
<1>12. ASSUME NEW a \in Pids, Rename(a) PROVE NewestInv'
    BY <1>12 DEF Rename, Goto, Always, Types, FdInv, NamesInv, ToInv, SoleInv, NewestInv,
        Copying, Early, Filling, Names, Temp, Source, Target, files
<1>13. ASSUME NEW a \in Pids, Unlink(a) PROVE NewestInv'
    BY <1>13 DEF Unlink, Finish, Close, Goto, Always, Types, FdInv, NamesInv, ToInv,
        SoleInv, NewestInv, Copying, Early, Filling, Names, Temp, Source, Target, files
<1>14. ASSUME NEW a \in Pids, CopyFails(a) PROVE NewestInv'
    BY <1>14 DEF CopyFails, Finish, Close, Goto, Note, Always, Types, FdInv, NamesInv,
        ToInv, SoleInv, NewestInv, Copying, Early, Filling, Names, Temp, Source, Target,
        files
<1>15. ASSUME NEW a \in Pids, Crash(a) PROVE NewestInv'
    BY <1>15 DEF Crash, Close, Goto, Note, Always, Types, FdInv, NamesInv, ToInv, SoleInv,
        NewestInv, Copying, Early, Filling, Names, Temp, Source, Target, files
<1>16. CASE UNCHANGED vars
    BY <1>16 DEF vars, files, Always, Types, FdInv, NamesInv, ToInv, SoleInv, NewestInv,
        Copying, Early, Filling, Names, Temp, Source, Target
<1>. QED  BY <1>1, <1>2, <1>3, <1>4, <1>5, <1>6, <1>7, <1>8, <1>9, <1>10, <1>11, <1>12,
    <1>13, <1>14, <1>15, <1>16 DEF Next

\* Until two copies overlap, each one is alone with its temporary file.
LEMMA AloneStep ==
    ASSUME Always, "overlap" \notin gaps', AloneInv, [Next]_vars
    PROVE  AloneInv'
<1>. USE LockBackupAssumption
<1>1. CASE Reboot
    BY <1>1 DEF Reboot, Note, Always, Types, FdInv, NamesInv, ToInv, AloneInv, Sharers,
        Copying, Filling, Names, Temp, Source, Target, files
<1>2. CASE SectionAges
    BY <1>2 DEF SectionAges, Always, Types, FdInv, NamesInv, ToInv, AloneInv, Sharers,
        Copying, Filling, Names, Temp, Source, Target, files
<1>3. ASSUME NEW a \in Pids, Start(a) PROVE AloneInv'
    BY <1>3 DEF Start, Goto, Always, Types, FdInv, NamesInv, ToInv, AloneInv, Sharers,
        Copying, Filling, Names, Temp, Source, Target, files
<1>4. ASSUME NEW a \in Pids, VerifyThatDatabaseIsNotCorrupt(a) PROVE AloneInv'
    BY <1>4 DEF VerifyThatDatabaseIsNotCorrupt, Goto, Note, Always, Types, FdInv, NamesInv,
        ToInv, AloneInv, Sharers, Copying, Filling, Names, Temp, Source, Target, files
<1>5. ASSUME NEW a \in Pids, WriteDB(a) PROVE AloneInv'
  <2>1. PICK i \in Inodes : Transacts(i)
      BY <1>5, Transact DEF WriteDB, Always
  <2>. QED  BY <1>5, <2>1 DEF Transacts, Unused, Fill, WriteDB, Always, Types, FdInv,
      NamesInv, ToInv, AloneInv, Sharers, Copying, Filling, Names, Temp, Source, Target,
      files
<1>6. ASSUME NEW a \in Pids, WaitForCriticalSection(a) PROVE AloneInv'
    BY <1>6 DEF WaitForCriticalSection, Goto, Always, Types, FdInv, NamesInv, ToInv,
        AloneInv, Sharers, Copying, Filling, Names, Temp, Source, Target, files
<1>7. ASSUME NEW a \in Pids, BackupLockDatabase(a) PROVE AloneInv'
  <2>1. PICK i \in Inodes : Transacts(i)
      BY <1>7, Transact DEF BackupLockDatabase, Always
  <2>. QED  BY <1>7, <2>1 DEF Transacts, Unused, Fill, BackupLockDatabase, Goto, Always,
      Types, FdInv, NamesInv, ToInv, AloneInv, Sharers, Copying, Filling, Names, Temp,
      Source, Target, files
<1>8. ASSUME NEW a \in Pids, OpenSource(a) PROVE AloneInv'
    BY <1>8 DEF OpenSource, Finish, Close, Goto, Always, Types, FdInv, NamesInv, ToInv,
        AloneInv, Sharers, Copying, Filling, Names, Temp, Source, Target, files
<1>9. ASSUME NEW a \in Pids, CreateTemp(a) PROVE AloneInv'
  <2>1. PICK i \in Inodes : Creates(a, i)
      BY <1>9, Create DEF Always
  <2>. QED  BY <1>9, <2>1 DEF Creates, Unused, Fill, CreateTemp, Goto, Note, Always, Types,
      FdInv, NamesInv, ToInv, AloneInv, Sharers, Copying, Filling, Names, Temp, Source,
      Target, files
<1>10. ASSUME NEW a \in Pids, CopyChunk(a) PROVE AloneInv'
    BY <1>10 DEF CopyChunk, Fill, Goto, Note, Always, Types, FdInv, NamesInv, ToInv,
        AloneInv, Sharers, Copying, Filling, Names, Temp, Source, Target, files
<1>11. ASSUME NEW a \in Pids, Fsync(a) PROVE AloneInv'
    BY <1>11 DEF Fsync, Goto, Always, Types, FdInv, NamesInv, ToInv, AloneInv, Sharers,
        Copying, Filling, Names, Temp, Source, Target, files
<1>12. ASSUME NEW a \in Pids, Rename(a) PROVE AloneInv'
    BY <1>12 DEF Rename, Goto, Always, Types, FdInv, NamesInv, ToInv, AloneInv, Sharers,
        Copying, Filling, Names, Temp, Source, Target, files
<1>13. ASSUME NEW a \in Pids, Unlink(a) PROVE AloneInv'
    BY <1>13 DEF Unlink, Finish, Close, Goto, Always, Types, FdInv, NamesInv, ToInv,
        AloneInv, Sharers, Copying, Filling, Names, Temp, Source, Target, files
<1>14. ASSUME NEW a \in Pids, CopyFails(a) PROVE AloneInv'
    BY <1>14 DEF CopyFails, Finish, Close, Goto, Note, Always, Types, FdInv, NamesInv,
        ToInv, AloneInv, Sharers, Copying, Filling, Names, Temp, Source, Target, files
<1>15. ASSUME NEW a \in Pids, Crash(a) PROVE AloneInv'
    BY <1>15 DEF Crash, Close, Goto, Note, Always, Types, FdInv, NamesInv, ToInv, AloneInv,
        Sharers, Copying, Filling, Names, Temp, Source, Target, files
<1>16. CASE UNCHANGED vars
    BY <1>16 DEF vars, files, Always, Types, FdInv, NamesInv, ToInv, AloneInv, Sharers,
        Copying, Filling, Names, Temp, Source, Target
<1>. QED  BY <1>1, <1>2, <1>3, <1>4, <1>5, <1>6, <1>7, <1>8, <1>9, <1>10, <1>11, <1>12,
    <1>13, <1>14, <1>15, <1>16 DEF Next

\* Until then no copy is cut off.
LEMMA TornStep ==
    ASSUME Always, "torn" \notin gaps, AloneInv, [Next]_vars
    PROVE  "torn" \notin gaps'
<1>. USE LockBackupAssumption
<1>1. CASE Reboot
    BY <1>1 DEF Reboot, Note, Always, Types, FdInv, ToInv, AloneInv, InUse, CutOff, Filling,
        Names, Temp, Source, Target, files
<1>2. CASE SectionAges
    BY <1>2 DEF SectionAges, Always, Types, FdInv, ToInv, AloneInv, InUse, CutOff, Filling,
        Names, Temp, Source, Target, files
<1>3. ASSUME NEW a \in Pids, Start(a) PROVE "torn" \notin gaps'
    BY <1>3 DEF Start, Goto, Always, Types, FdInv, ToInv, AloneInv, InUse, CutOff, Filling,
        Names, Temp, Source, Target, files
<1>4. ASSUME NEW a \in Pids, VerifyThatDatabaseIsNotCorrupt(a) PROVE "torn" \notin gaps'
    BY <1>4 DEF VerifyThatDatabaseIsNotCorrupt, Goto, Note, Always, Types, FdInv, ToInv,
        AloneInv, InUse, CutOff, Filling, Names, Temp, Source, Target, files
<1>5. ASSUME NEW a \in Pids, WriteDB(a) PROVE "torn" \notin gaps'
    BY <1>5 DEF WriteDB
<1>6. ASSUME NEW a \in Pids, WaitForCriticalSection(a) PROVE "torn" \notin gaps'
    BY <1>6 DEF WaitForCriticalSection, Goto, Always, Types, FdInv, ToInv, AloneInv, InUse,
        CutOff, Filling, Names, Temp, Source, Target, files
<1>7. ASSUME NEW a \in Pids, BackupLockDatabase(a) PROVE "torn" \notin gaps'
    BY <1>7 DEF BackupLockDatabase
<1>8. ASSUME NEW a \in Pids, OpenSource(a) PROVE "torn" \notin gaps'
    BY <1>8 DEF OpenSource, Finish, Close, Goto, Always, Types, FdInv, ToInv, AloneInv,
        InUse, CutOff, Filling, Names, Temp, Source, Target, files
<1>9. ASSUME NEW a \in Pids, CreateTemp(a) PROVE "torn" \notin gaps'
    BY <1>9 DEF CreateTemp, Note
<1>10. ASSUME NEW a \in Pids, CopyChunk(a) PROVE "torn" \notin gaps'
    BY <1>10 DEF CopyChunk, Fill, Goto, Note, Always, Types, FdInv, ToInv, AloneInv, InUse,
        CutOff, Filling, Names, Temp, Source, Target, files
<1>11. ASSUME NEW a \in Pids, Fsync(a) PROVE "torn" \notin gaps'
    BY <1>11 DEF Fsync, Goto, Always, Types, FdInv, ToInv, AloneInv, InUse, CutOff, Filling,
        Names, Temp, Source, Target, files
<1>12. ASSUME NEW a \in Pids, Rename(a) PROVE "torn" \notin gaps'
    BY <1>12 DEF Rename, Goto, Always, Types, FdInv, ToInv, AloneInv, InUse, CutOff,
        Filling, Names, Temp, Source, Target, files
<1>13. ASSUME NEW a \in Pids, Unlink(a) PROVE "torn" \notin gaps'
    BY <1>13 DEF Unlink, Finish, Close, Goto, Always, Types, FdInv, ToInv, AloneInv, InUse,
        CutOff, Filling, Names, Temp, Source, Target, files
<1>14. ASSUME NEW a \in Pids, CopyFails(a) PROVE "torn" \notin gaps'
    BY <1>14 DEF CopyFails, Finish, Close, Goto, Note, Always, Types, FdInv, ToInv,
        AloneInv, InUse, CutOff, Filling, Names, Temp, Source, Target, files
<1>15. ASSUME NEW a \in Pids, Crash(a) PROVE "torn" \notin gaps'
    BY <1>15 DEF Crash, Close, Goto, Note, Always, Types, FdInv, ToInv, AloneInv, InUse,
        CutOff, Filling, Names, Temp, Source, Target, files
<1>16. CASE UNCHANGED vars
    BY <1>16 DEF vars, files, Always, Types, FdInv, ToInv, AloneInv, InUse, CutOff, Filling,
        Names, Temp, Source, Target
<1>. QED  BY <1>1, <1>2, <1>3, <1>4, <1>5, <1>6, <1>7, <1>8, <1>9, <1>10, <1>11, <1>12,
    <1>13, <1>14, <1>15, <1>16 DEF Next

-----------------------------------------------------------------------------
(* Until a copy is torn.                                                   *)

\* A copy that stops before its end leaves nothing that is in use.
LEMMA StopStep ==
    ASSUME Types, [Next]_vars, "torn" \notin gaps', NEW b \in Pids,
           pc[b] \in {"chunk", "fsync"}, pc'[b] \notin Filling
    PROVE  ~CutOff(b) \/ (Reboot /\ ~InUse(b))
<1>1. CASE Reboot
    BY <1>1 DEF Reboot, Note
<1>2. ASSUME NEW a \in Pids, CopyFails(a) \/ Crash(a) PROVE ~CutOff(b)
  <2>1. a = b
      BY <1>2 DEF CopyFails, Crash, Finish, Goto, Types, Filling
  <2>. QED  BY <1>2, <2>1 DEF CopyFails, Crash, Note
<1>3. ASSUME NEW a \in Pids,
             \/ Start(a) \/ VerifyThatDatabaseIsNotCorrupt(a) \/ WriteDB(a)
             \/ WaitForCriticalSection(a) \/ BackupLockDatabase(a)
             \/ OpenSource(a) \/ CreateTemp(a) \/ Rename(a) \/ Unlink(a)
      PROVE  FALSE
  <2>1. a # b
      BY <1>3 DEF Start, VerifyThatDatabaseIsNotCorrupt, WriteDB, WaitForCriticalSection,
          BackupLockDatabase, OpenSource, CreateTemp, Rename, Unlink, Filling
  <2>2. pc'[b] = pc[b]
      BY <1>3, <2>1 DEF Start, VerifyThatDatabaseIsNotCorrupt, WriteDB, WaitForCriticalSection,
          BackupLockDatabase, OpenSource, CreateTemp, Rename, Unlink, Finish, Goto, Types
  <2>. QED  BY <2>2 DEF Filling
<1>4. ASSUME NEW a \in Pids, CopyChunk(a) \/ Fsync(a) PROVE FALSE
    BY <1>4 DEF CopyChunk, Fsync, Goto, Types, Filling
<1>5. CASE SectionAges \/ UNCHANGED vars
    BY <1>5 DEF SectionAges, vars, Filling
<1>. QED  BY <1>1, <1>2, <1>3, <1>4, <1>5 DEF Next

\* An inode stays in order as long as no copy that fills it stops.
LEMMA GoodStep ==
    ASSUME Types, FdInv, NamesInv, SourceInv, "torn" \notin gaps', NEW f \in Inodes, Good(f),
           Reboot => synced[f],
           \A b \in Pids : pc[b] \in {"chunk", "fsync"} /\ to[b] = f => pc'[b] \in Filling, [Next]_vars
    PROVE  Good(f)'
<1>. USE LockBackupAssumption
<1>1. CASE Reboot
  <2>1. \A b \in Pids : ~Leads(b, f)
      BY <1>1 DEF Reboot, Leads, Filling
  <2>2. data'[f] = data[f]
      BY <1>1 DEF Reboot
  <2>. QED  BY <2>1, <2>2 DEF Good, Complete
<1>2. CASE SectionAges
    BY <1>2 DEF SectionAges, Types, FdInv, NamesInv, Good, Leads, Complete, Filling,
        Copying, files
<1>3. ASSUME NEW a \in Pids, Start(a) PROVE Good(f)'
    BY <1>3 DEF Start, Goto, Types, FdInv, NamesInv, Good, Leads, Complete, Filling,
        Copying, files
<1>4. ASSUME NEW a \in Pids, VerifyThatDatabaseIsNotCorrupt(a) PROVE Good(f)'
    BY <1>4 DEF VerifyThatDatabaseIsNotCorrupt, Goto, Note, Types, FdInv, NamesInv, Good,
        Leads, Complete, Filling, Copying, files
<1>5. ASSUME NEW a \in Pids, WriteDB(a) PROVE Good(f)'
  <2>1. PICK i \in Inodes : Transacts(i)
      BY <1>5, Transact DEF WriteDB
  <2>. QED  BY <1>5, <2>1 DEF Transacts, Unused, Fill, WriteDB, Types, FdInv, NamesInv,
      Good, Leads, Complete, Filling, Copying, files
<1>6. ASSUME NEW a \in Pids, WaitForCriticalSection(a) PROVE Good(f)'
    BY <1>6 DEF WaitForCriticalSection, Goto, Types, FdInv, NamesInv, Good, Leads, Complete,
        Filling, Copying, files
<1>7. ASSUME NEW a \in Pids, BackupLockDatabase(a) PROVE Good(f)'
  <2>1. PICK i \in Inodes : Transacts(i)
      BY <1>7, Transact DEF BackupLockDatabase
  <2>. QED  BY <1>7, <2>1 DEF Transacts, Unused, Fill, BackupLockDatabase, Goto, Types,
      FdInv, NamesInv, Good, Leads, Complete, Filling, Copying, files
<1>8. ASSUME NEW a \in Pids, OpenSource(a) PROVE Good(f)'
    BY <1>8 DEF OpenSource, Finish, Close, Goto, Types, FdInv, NamesInv, Good, Leads,
        Complete, Filling, Copying, files
<1>9. ASSUME NEW a \in Pids, CreateTemp(a) PROVE Good(f)'
  <2>1. PICK k \in Inodes : Creates(a, k)
      BY <1>9, Create
  <2>2. CASE k = f
    <3>1. pc'[a] = "chunk" /\ to'[a] = f /\ pos'[a] = 1
        BY <1>9, <2>1, <2>2 DEF CreateTemp, Creates, Goto, Types, FdInv
    <3>2. \A c \in Chunks : ~(c < 1)
        OBVIOUS
    <3>3. Leads(a, f)'
        BY <3>1, <3>2 DEF Leads
    <3>. QED  BY <3>3 DEF Good
  <2>3. CASE k # f
    <3>1. data'[f] = data[f]
        BY <2>1, <2>3 DEF Creates, Fill, Types
    <3>2. ASSUME NEW b \in Pids, Leads(b, f) PROVE Leads(b, f)'
      <4>1. b # a
          BY <1>9, <3>2 DEF CreateTemp, Leads
      <4>. QED  BY <1>9, <2>1, <3>1, <3>2, <4>1 DEF CreateTemp, Creates, Goto, Leads, Types
    <3>. QED  BY <3>1, <3>2 DEF Good, Complete
  <2>. QED  BY <2>2, <2>3
<1>10. ASSUME NEW a \in Pids, CopyChunk(a) PROVE Good(f)'
  <2>1. /\ pc[a] = "chunk" /\ to[a] \in Inodes /\ from[a] \in Inodes /\ pos[a] \in Chunks
        /\ pos' = [pos EXCEPT ![a] = @ + 1] /\ UNCHANGED to
        /\ pos[a] + 1 \in Chunks => pc' = pc
        /\ pos[a] + 1 \notin Chunks => pc' = [pc EXCEPT ![a] = "fsync"]
      BY <1>10 DEF CopyChunk, Goto, Types, FdInv, Filling
  <2>2. data' = [data EXCEPT ![to[a]] = [@ EXCEPT ![pos[a]] = data[from[a]][pos[a]]]]
      BY <1>10 DEF CopyChunk, Fill
  <2>3. data[from[a]][pos[a]] # 0
    <3>1. Good(from[a])
        BY <2>1 DEF SourceInv
    <3>2. \A b \in Pids : ~Leads(b, from[a])
        BY <1>10 DEF CopyChunk, Note, Leads
    <3>. QED  BY <2>1, <3>1, <3>2 DEF Good, Complete
  <2>4. \A c \in Chunks : data[f][c] # 0 => data'[f][c] # 0
    <3>1. CASE f = to[a]
      <4>1. \A c \in Chunks : data'[f][c] = IF c = pos[a] THEN data[from[a]][c] ELSE data[f][c]
          BY <2>1, <2>2, <3>1 DEF Types
      <4>. QED  BY <2>3, <4>1
    <3>2. CASE f # to[a]
        BY <2>1, <2>2, <3>2 DEF Types
    <3>. QED  BY <3>1, <3>2
  <2>5. CASE Complete(f)
      BY <2>4, <2>5 DEF Good, Complete
  <2>6. ASSUME NEW b \in Pids, Leads(b, f), b # a PROVE Leads(b, f)'
      BY <2>1, <2>4, <2>6 DEF Leads, Types
  <2>7. CASE Leads(a, f)
    <3>1. to[a] = f /\ \A c \in Chunks : c < pos[a] => data'[f][c] # 0
        BY <2>4, <2>7 DEF Leads
    <3>2. data'[f][pos[a]] # 0
        BY <2>1, <2>2, <2>3, <3>1 DEF Types
    <3>3. \A c \in Chunks : c < pos[a] + 1 => data'[f][c] # 0
      <4>1. \A c \in Chunks : c < pos[a] + 1 => c < pos[a] \/ c = pos[a]
        <5>1. Chunks \subseteq Nat /\ pos[a] \in Nat
            BY <2>1
        <5>. QED  BY <5>1
      <4>. QED  BY <3>1, <3>2, <4>1
    <3>4. CASE pos[a] + 1 \in Chunks
      <4>1. Leads(a, f)'
          BY <2>1, <3>1, <3>3, <3>4 DEF Leads, Types
      <4>. QED  BY <4>1 DEF Good
    <3>5. CASE pos[a] + 1 \notin Chunks
      <4>1. \A c \in Chunks : c < pos[a] + 1
        <5>1. SUFFICES ASSUME NEW c \in Chunks, ~(c < pos[a] + 1) PROVE FALSE
            OBVIOUS
        <5>2. 1 .. c \subseteq Chunks /\ c \in Nat /\ pos[a] \in Nat
            BY <2>1
        <5>3. pos[a] + 1 \in 1 .. c
            BY <5>1, <5>2
        <5>. QED  BY <3>5, <5>2, <5>3
      <4>. QED  BY <3>3, <4>1 DEF Good, Complete
    <3>. QED  BY <3>4, <3>5
  <2>. QED  BY <2>5, <2>6, <2>7 DEF Good
<1>11. ASSUME NEW a \in Pids, Fsync(a) PROVE Good(f)'
    BY <1>11 DEF Fsync, Goto, Types, FdInv, NamesInv, Good, Leads, Complete, Filling,
        Copying, files
<1>12. ASSUME NEW a \in Pids, Rename(a) PROVE Good(f)'
    BY <1>12 DEF Rename, Goto, Types, FdInv, NamesInv, Good, Leads, Complete, Filling,
        Copying, files
<1>13. ASSUME NEW a \in Pids, Unlink(a) PROVE Good(f)'
    BY <1>13 DEF Unlink, Finish, Close, Goto, Types, FdInv, NamesInv, Good, Leads, Complete,
        Filling, Copying, files
<1>14. ASSUME NEW a \in Pids, CopyFails(a) PROVE Good(f)'
    BY <1>14 DEF CopyFails, Finish, Close, Goto, Note, Types, FdInv, NamesInv, Good, Leads,
        Complete, Filling, Copying, files
<1>15. ASSUME NEW a \in Pids, Crash(a) PROVE Good(f)'
    BY <1>15 DEF Crash, Close, Goto, Note, Types, FdInv, NamesInv, Good, Leads, Complete,
        Filling, Copying, files
<1>16. CASE UNCHANGED vars
    BY <1>16 DEF vars, files, Types, FdInv, NamesInv, Good, Leads, Complete, Filling,
        Copying
<1>. QED  BY <1>1, <1>2, <1>3, <1>4, <1>5, <1>6, <1>7, <1>8, <1>9, <1>10, <1>11, <1>12,
    <1>13, <1>14, <1>15, <1>16 DEF Next

\* So does what it has on the disk, but for the database itself.
LEMMA SafeStep ==
    ASSUME Types, FdInv, NamesInv, "torn" \notin gaps', NEW f \in Inodes, Safe(f),
           NEW n \in Names \ {"db"}, name[n] = f,
           Reboot => synced[f],
           \A b \in Pids : pc[b] \in {"chunk", "fsync"} /\ to[b] = f => pc'[b] \in Filling, [Next]_vars
    PROVE  Safe(f)'
<1>. USE LockBackupAssumption
<1>1. CASE Reboot
    BY <1>1 DEF Reboot, Note, Types, NamesInv, Safe, Filling, Copying, Names, files
<1>2. CASE SectionAges
    BY <1>2 DEF SectionAges, Types, NamesInv, Safe, Filling, Copying, Names, files
<1>3. ASSUME NEW a \in Pids, Start(a) PROVE Safe(f)'
    BY <1>3 DEF Start, Goto, Types, NamesInv, Safe, Filling, Copying, Names, files
<1>4. ASSUME NEW a \in Pids, VerifyThatDatabaseIsNotCorrupt(a) PROVE Safe(f)'
    BY <1>4 DEF VerifyThatDatabaseIsNotCorrupt, Goto, Note, Types, NamesInv, Safe, Filling,
        Copying, Names, files
<1>5. ASSUME NEW a \in Pids, WriteDB(a) PROVE Safe(f)'
  <2>1. PICK i \in Inodes : Transacts(i)
      BY <1>5, Transact DEF WriteDB
  <2>. QED  BY <1>5, <2>1 DEF Transacts, Unused, Fill, WriteDB, Types, NamesInv, Safe,
      Filling, Copying, Names, files
<1>6. ASSUME NEW a \in Pids, WaitForCriticalSection(a) PROVE Safe(f)'
    BY <1>6 DEF WaitForCriticalSection, Goto, Types, NamesInv, Safe, Filling, Copying,
        Names, files
<1>7. ASSUME NEW a \in Pids, BackupLockDatabase(a) PROVE Safe(f)'
  <2>1. PICK i \in Inodes : Transacts(i)
      BY <1>7, Transact DEF BackupLockDatabase
  <2>. QED  BY <1>7, <2>1 DEF Transacts, Unused, Fill, BackupLockDatabase, Goto, Types,
      NamesInv, Safe, Filling, Copying, Names, files
<1>8. ASSUME NEW a \in Pids, OpenSource(a) PROVE Safe(f)'
    BY <1>8 DEF OpenSource, Finish, Close, Goto, Types, NamesInv, Safe, Filling, Copying,
        Names, files
<1>9. ASSUME NEW a \in Pids, CreateTemp(a) PROVE Safe(f)'
  <2>1. PICK i \in Inodes : Creates(a, i)
      BY <1>9, Create
  <2>. QED  BY <1>9, <2>1 DEF Creates, Unused, Fill, CreateTemp, Goto, Note, Types,
      NamesInv, Safe, Filling, Copying, Names, files
<1>10. ASSUME NEW a \in Pids, CopyChunk(a) PROVE Safe(f)'
    BY <1>10 DEF CopyChunk, Fill, Goto, Note, Types, NamesInv, Safe, Filling, Copying,
        Names, files
<1>11. ASSUME NEW a \in Pids, Fsync(a) PROVE Safe(f)'
    BY <1>11 DEF Fsync, Goto, Types, NamesInv, Safe, Filling, Copying, Names, files
<1>12. ASSUME NEW a \in Pids, Rename(a) PROVE Safe(f)'
    BY <1>12 DEF Rename, Goto, Types, NamesInv, Safe, Filling, Copying, Names, files
<1>13. ASSUME NEW a \in Pids, Unlink(a) PROVE Safe(f)'
    BY <1>13 DEF Unlink, Finish, Close, Goto, Types, NamesInv, Safe, Filling, Copying,
        Names, files
<1>14. ASSUME NEW a \in Pids, CopyFails(a) PROVE Safe(f)'
    BY <1>14 DEF CopyFails, Finish, Close, Goto, Note, Types, NamesInv, Safe, Filling,
        Copying, Names, files
<1>15. ASSUME NEW a \in Pids, Crash(a) PROVE Safe(f)'
    BY <1>15 DEF Crash, Close, Goto, Note, Types, NamesInv, Safe, Filling, Copying, Names,
        files
<1>16. CASE UNCHANGED vars
    BY <1>16 DEF vars, files, Types, NamesInv, Safe, Filling, Copying, Names
<1>. QED  BY <1>1, <1>2, <1>3, <1>4, <1>5, <1>6, <1>7, <1>8, <1>9, <1>10, <1>11, <1>12,
    <1>13, <1>14, <1>15, <1>16 DEF Next

\* Process b gives the file under its temporary name the name of the copy.
Renames(b, m, n) ==
    /\ pc[b] = "rename" /\ name[m] # None /\ name'[n] = name[m]
    /\ \A a \in Pids \ {b} : pc'[a] = pc[a]

\* Process b begins to fill a file under its temporary name.
Begins(b) ==
    /\ pc[b] = "create" /\ pc'[b] = "chunk" /\ pos'[b] = 1
    /\ to'[b] = name'[Temp[job[b]]] /\ job'[b] = job[b]

\* What a step does to the names, and to the copies under way.
Moves ==
    /\ name'["backup"] # name["backup"] =>
           \E b \in Pids : job[b] = "backup" /\ Renames(b, "backup.tmp", "backup")
    /\ name'["db"] # name["db"] =>
           \/ Complete(name["db"])'
           \/ \E b \in Pids : job[b] = "restore" /\ Renames(b, "db.tmp", "db")
    /\ \A j \in {"backup", "restore"} :
           name'[Temp[j]] \notin {name[Temp[j]], None} => \E b \in Pids : job[b] = j /\ Begins(b)
    /\ \A a \in Pids :
           /\ pc'[a] \in Filling => job'[a] = job[a] /\ (pc[a] \in Filling \/ Begins(a))
           /\ pc'[a] \in {"create", "chunk"} =>
                  \/ pc[a] \in {"create", "chunk"} /\ from'[a] = from[a]
                  \/ pc[a] = "open" /\ from'[a] = name[Source[job[a]]] /\ data' = data
           /\ pc'[a] = "open" /\ job'[a] = "backup" =>
                  \/ pc[a] = "open" /\ job[a] = "backup"
                  \/ Complete(name["db"])'

\* The names move, and copies begin, in these ways only.
LEMMA MoveStep ==
    ASSUME Types, NamesInv, FdInv, [Next]_vars
    PROVE  Moves
<1>. USE LockBackupAssumption
<1>1. CASE Reboot
    BY <1>1 DEF Reboot, Note, Moves, Renames, Begins, Types, NamesInv, FdInv, Filling,
        Copying, Names, Temp, Source, Target, files
<1>2. CASE SectionAges
    BY <1>2 DEF SectionAges, Moves, Renames, Begins, Types, NamesInv, FdInv, Filling,
        Copying, Names, Temp, Source, Target, files
<1>3. ASSUME NEW a \in Pids, Start(a) PROVE Moves
    BY <1>3 DEF Start, Goto, Moves, Renames, Begins, Types, NamesInv, FdInv, Filling,
        Copying, Names, Temp, Source, Target, files
<1>4. ASSUME NEW a \in Pids, VerifyThatDatabaseIsNotCorrupt(a) PROVE Moves
    BY <1>4 DEF VerifyThatDatabaseIsNotCorrupt, Goto, Note, Moves, Renames, Begins, Types,
        NamesInv, FdInv, Filling, Copying, Names, Temp, Source, Target, files
<1>5. ASSUME NEW a \in Pids, WriteDB(a) PROVE Moves
  <2>1. PICK i \in Inodes : Transacts(i)
      BY <1>5, Transact DEF WriteDB
  <2>2. Complete(name["db"])'
      BY <2>1 DEF Transacts, Fill, Complete, Types, Names
  <2>. QED  BY <1>5, <2>1, <2>2 DEF Moves, Transacts, WriteDB, Types, Filling, Names, Temp
<1>6. ASSUME NEW a \in Pids, WaitForCriticalSection(a) PROVE Moves
    BY <1>6 DEF WaitForCriticalSection, Goto, Moves, Renames, Begins, Types, NamesInv,
        FdInv, Filling, Copying, Names, Temp, Source, Target, files
<1>7. ASSUME NEW a \in Pids, BackupLockDatabase(a) PROVE Moves
  <2>1. PICK i \in Inodes : Transacts(i)
      BY <1>7, Transact DEF BackupLockDatabase
  <2>2. Complete(name["db"])'
      BY <2>1 DEF Transacts, Fill, Complete, Types, Names
  <2>. QED  BY <1>7, <2>1, <2>2 DEF Moves, Transacts, BackupLockDatabase, Goto, Types, Filling,
      Names, Temp
<1>8. ASSUME NEW a \in Pids, OpenSource(a) PROVE Moves
    BY <1>8 DEF OpenSource, Finish, Close, Goto, Moves, Renames, Begins, Types, NamesInv,
        FdInv, Filling, Copying, Names, Temp, Source, Target, files
<1>9. ASSUME NEW a \in Pids, CreateTemp(a) PROVE Moves
  <2>1. PICK i \in Inodes : Creates(a, i)
      BY <1>9, Create
  <2>2. Temp[job[a]] \in {"db.tmp", "backup.tmp"} /\ Temp[job[a]] \in Names
      BY DEF Types, Temp, Names
  <2>3. name' = [name EXCEPT ![Temp[job[a]]] = i] /\ to' = [to EXCEPT ![a] = i]
        /\ pc' = [pc EXCEPT ![a] = "chunk"] /\ UNCHANGED <<job, from, pos>>
        /\ pc[a] = "create"
      BY <1>9, <2>1 DEF CreateTemp, Creates, Goto
  <2>4. Begins(a)
      BY <2>2, <2>3 DEF Begins, Types, FdInv
  <2>5. UNCHANGED <<name["db"], name["backup"]>>
        /\ \A j \in {"backup", "restore"} : name'[Temp[j]] # name[Temp[j]] => j = job[a]
      BY <2>2, <2>3 DEF Types, Temp, Names
  <2>6. \A b \in Pids \ {a} : pc'[b] = pc[b]
      BY <2>3 DEF Types
  <2>. QED  BY <2>2, <2>3, <2>4, <2>5, <2>6 DEF Moves, Filling
<1>10. ASSUME NEW a \in Pids, CopyChunk(a) PROVE Moves
    BY <1>10 DEF CopyChunk, Fill, Goto, Note, Moves, Renames, Begins, Types, NamesInv,
        FdInv, Filling, Copying, Names, Temp, Source, Target, files
<1>11. ASSUME NEW a \in Pids, Fsync(a) PROVE Moves
    BY <1>11 DEF Fsync, Goto, Moves, Renames, Begins, Types, NamesInv, FdInv, Filling,
        Copying, Names, Temp, Source, Target, files
<1>12. ASSUME NEW a \in Pids, Rename(a) PROVE Moves
    BY <1>12 DEF Rename, Goto, Moves, Renames, Begins, Types, NamesInv, FdInv, Filling,
        Copying, Names, Temp, Source, Target, files
<1>13. ASSUME NEW a \in Pids, Unlink(a) PROVE Moves
    BY <1>13 DEF Unlink, Finish, Close, Goto, Moves, Renames, Begins, Types, NamesInv,
        FdInv, Filling, Copying, Names, Temp, Source, Target, files
<1>14. ASSUME NEW a \in Pids, CopyFails(a) PROVE Moves
    BY <1>14 DEF CopyFails, Finish, Close, Goto, Note, Moves, Renames, Begins, Types,
        NamesInv, FdInv, Filling, Copying, Names, Temp, Source, Target, files
<1>15. ASSUME NEW a \in Pids, Crash(a) PROVE Moves
    BY <1>15 DEF Crash, Close, Goto, Note, Moves, Renames, Begins, Types, NamesInv, FdInv,
        Filling, Copying, Names, Temp, Source, Target, files
<1>16. CASE UNCHANGED vars
    BY <1>16 DEF vars, files, Moves, Renames, Begins, Types, NamesInv, FdInv, Filling,
        Copying, Names, Temp, Source, Target
<1>. QED  BY <1>1, <1>2, <1>3, <1>4, <1>5, <1>6, <1>7, <1>8, <1>9, <1>10, <1>11, <1>12,
    <1>13, <1>14, <1>15, <1>16 DEF Next

\* What keeps the copies that fill a file at work: it is in use, or another copy
\* of the same job may rename it.
LEMMA StayStep ==
    ASSUME Types, ToInv, [Next]_vars, "torn" \notin gaps', NEW f \in Inodes,
           NEW b \in Pids, pc[b] \in {"chunk", "fsync"}, to[b] = f,
           \/ f = name["backup"] \/ f = name["db"]
           \/ \E a \in Pids : from[a] = f /\ pc'[a] # "off"
           \/ \E a \in Pids : pc[a] \in Filling /\ pc'[a] \in Filling /\ f = name[Temp[job[a]]]
    PROVE  pc'[b] \in Filling
<1>. SUFFICES ASSUME pc'[b] \notin Filling PROVE FALSE
    OBVIOUS
<1>. USE LockBackupAssumption
<1>1. ~CutOff(b) \/ (Reboot /\ ~InUse(b))
    BY StopStep
<1>2. job[b] \in {"backup", "restore"} /\ to[b] # None /\ to[b] = f
    BY DEF Types
<1>3. ~InUse(b)
    BY <1>1 DEF CutOff
<1>4. f # name["backup"] /\ f # name["db"] /\ \A a \in Pids : from[a] # f
    BY <1>2, <1>3 DEF InUse, ToInv, Target
<1>5. PICK a \in Pids : pc[a] \in Filling /\ pc'[a] \in Filling /\ f = name[Temp[job[a]]]
    BY <1>4
<1>6. ~Reboot
    BY <1>5 DEF Reboot, Filling
<1>7. a # b /\ job[a] = job[b]
    BY <1>2, <1>5 DEF ToInv, Types, Temp
<1>. QED  BY <1>1, <1>5, <1>6, <1>7 DEF CutOff, Sharers

\* The file that a copy begins to fill is in order.
LEMMA BeginStep ==
    ASSUME NEW b \in Pids, Begins(b), NEW f \in Inodes, f = name'[Temp[job[b]]]
    PROVE  Good(f)' /\ Safe(f)'
<1>. USE LockBackupAssumption
<1>1. \A c \in Chunks : ~(c < 1)
    OBVIOUS
<1>2. pc'[b] = "chunk" /\ to'[b] = f /\ pos'[b] = 1
    BY DEF Begins
<1>3. Leads(b, f)'
    BY <1>1, <1>2 DEF Leads
<1>. QED  BY <1>2, <1>3 DEF Good, Safe

\* A file that a copy may rename stays in order.
LEMMA TempStep ==
    ASSUME Always, "torn" \notin gaps', TempInv, SourceInv, [Next]_vars
    PROVE  TempInv'
<1>1. Types' /\ Moves
    BY TypeStep, MoveStep DEF Always
<1>. SUFFICES ASSUME NEW a \in Pids, pc'[a] \in Filling,
                     NEW f \in Inodes, f = name'[Temp[job'[a]]]
              PROVE  Good(f)' /\ Safe(f)'
    BY <1>1 DEF TempInv, Good, Safe, Leads, Complete, Types, Temp, Names
<1>. DEFINE j == job[a]
<1>. USE LockBackupAssumption DEF Always
<1>2. job'[a] = j /\ (pc[a] \in Filling \/ Begins(a)) /\ j \in {"backup", "restore"}
    BY <1>1 DEF Moves, Types
<1>3. ASSUME NEW b \in Pids, job[b] = j, Begins(b) PROVE Good(f)' /\ Safe(f)'
    BY <1>2, <1>3, BeginStep
<1>4. CASE ~ \E b \in Pids : job[b] = j /\ Begins(b)
  <2>1. f = name[Temp[j]] /\ pc[a] \in Filling /\ Temp[j] \in Names \ {"db"}
      BY <1>1, <1>2, <1>4 DEF Moves, Names, Temp
  <2>2. Good(f) /\ Safe(f)
      BY <2>1 DEF TempInv
  <2>3. \A b \in Pids : pc[b] \in {"chunk", "fsync"} /\ to[b] = f => pc'[b] \in Filling
      BY <2>1, StayStep
  <2>4. ~Reboot
      BY <2>1 DEF Reboot, Filling
  <2>. QED  BY <2>1, <2>2, <2>3, <2>4, GoodStep, SafeStep
<1>. QED  BY <1>3, <1>4

\* So do the files that copies are made from.
LEMMA SourceStep ==
    ASSUME Always, "torn" \notin gaps', TempInv, SourceInv, BackupInv, [Next]_vars
    PROVE  SourceInv'
<1>1. Types' /\ FdInv' /\ NamesInv' /\ Moves
    BY TypeStep, FdStep, NamesStep, MoveStep DEF Always
<1>. USE LockBackupAssumption DEF Always
<1>2. ASSUME NEW a \in Pids, pc'[a] \in {"create", "chunk"},
             NEW f \in Inodes, f = from'[a]
      PROVE  Good(f)'
  <2>1. ~Reboot
      BY <1>2 DEF Reboot
  <2>2. CASE pc[a] \in {"create", "chunk"} /\ f = from[a]
    <3>1. Good(f)
        BY <2>2 DEF SourceInv
    <3>2. \A b \in Pids : pc[b] \in {"chunk", "fsync"} /\ to[b] = f => pc'[b] \in Filling
        BY <1>2, <2>2, StayStep
    <3>. QED  BY <2>1, <3>1, <3>2, GoodStep
  <2>3. CASE pc[a] = "open" /\ f = name[Source[job[a]]]
    <3>1. Good(f) /\ (f = name["backup"] \/ f = name["db"])
      <4>1. CASE job[a] = "backup"
          BY <2>3, <4>1 DEF SourceInv, Source
      <4>2. CASE job[a] = "restore"
          BY <1>2, <2>3, <4>2 DEF BackupInv, Source
      <4>. QED  BY <4>1, <4>2 DEF Types
    <3>2. \A b \in Pids : pc[b] \in {"chunk", "fsync"} /\ to[b] = f => pc'[b] \in Filling
        BY <3>1, StayStep
    <3>. QED  BY <2>1, <3>1, <3>2, GoodStep
  <2>. QED  BY <1>1, <1>2, <2>2, <2>3 DEF Moves
<1>3. ASSUME NEW a \in Pids, pc'[a] = "open", job'[a] = "backup",
             NEW f \in Inodes, f = name'["db"]
      PROVE  Good(f)'
  <2>1. ~Reboot
      BY <1>3 DEF Reboot
  <2>2. CASE Complete(name["db"])'
      BY <1>3, <2>2 DEF Good, Complete
  <2>3. CASE ~Complete(name["db"])' /\ name'["db"] = name["db"]
    <3>1. f = name["db"] /\ Good(f)
        BY <1>1, <1>3, <2>3 DEF Moves, SourceInv
    <3>2. \A b \in Pids : pc[b] \in {"chunk", "fsync"} /\ to[b] = f => pc'[b] \in Filling
        BY <3>1, StayStep
    <3>. QED  BY <2>1, <3>1, <3>2, GoodStep
  <2>4. CASE ~Complete(name["db"])' /\ name'["db"] # name["db"]
    <3>1. PICK r \in Pids : job[r] = "restore" /\ Renames(r, "db.tmp", "db")
        BY <1>1, <2>4 DEF Moves
    <3>2. f = name["db.tmp"] /\ Good(f)
        BY <1>3, <3>1 DEF Renames, TempInv, Temp, Filling
    <3>3. \A b \in Pids : pc[b] \in {"chunk", "fsync"} /\ to[b] = f => pc'[b] \in Filling
        BY <3>1 DEF Renames, Filling
    <3>. QED  BY <2>1, <3>2, <3>3, GoodStep
  <2>. QED  BY <2>2, <2>3, <2>4
<1>4. name'["db"] \in Inodes /\ \A a \in Pids : pc'[a] \in {"create", "chunk"} => from'[a] \in Inodes
    BY <1>1 DEF Types, FdInv, NamesInv, Names, Filling
<1>5. \A a \in Pids : pc'[a] \in {"create", "chunk"} => Good(from[a])'
    BY <1>2, <1>4 DEF Good, Leads, Complete
<1>6. \A a \in Pids : pc'[a] = "open" /\ job'[a] = "backup" => Good(name["db"])'
    BY <1>3, <1>4 DEF Good, Leads, Complete
<1>. QED  BY <1>5, <1>6 DEF SourceInv

\* So does the backup.
LEMMA BackupStep ==
    ASSUME Always, "torn" \notin gaps', TempInv, SourceInv, BackupInv, [Next]_vars
    PROVE  BackupInv'
<1>1. Types' /\ Moves
    BY TypeStep, MoveStep DEF Always
<1>. SUFFICES ASSUME NEW f \in Inodes, f = name'["backup"] PROVE Good(f)' /\ Safe(f)'
    BY <1>1 DEF BackupInv, Good, Safe, Leads, Complete, Types, Names
<1>. USE LockBackupAssumption DEF Always
<1>2. CASE f = name["backup"]
  <2>1. Good(f) /\ Safe(f) /\ "backup" \in Names \ {"db"}
      BY <1>2 DEF BackupInv, Names
  <2>2. \A b \in Pids : pc[b] \in {"chunk", "fsync"} /\ to[b] = f => pc'[b] \in Filling
      BY <1>2, StayStep
  <2>3. Reboot => synced[f]
      BY <2>1, <2>2 DEF Safe, Reboot, Filling
  <2>. QED  BY <1>2, <2>1, <2>2, <2>3, GoodStep, SafeStep
<1>3. CASE f # name["backup"]
  <2>1. PICK r \in Pids : job[r] = "backup" /\ Renames(r, "backup.tmp", "backup")
      BY <1>1, <1>3 DEF Moves
  <2>2. f = name["backup.tmp"] /\ Good(f) /\ Safe(f) /\ "backup.tmp" \in Names \ {"db"}
      BY <2>1 DEF Renames, TempInv, Temp, Filling, Names
  <2>3. \A b \in Pids : pc[b] \in {"chunk", "fsync"} /\ to[b] = f => pc'[b] \in Filling
      BY <2>1 DEF Renames, Filling
  <2>4. ~Reboot
      BY <1>3 DEF Reboot
  <2>. QED  BY <2>2, <2>3, <2>4, GoodStep, SafeStep
<1>. QED  BY <1>2, <1>3

-----------------------------------------------------------------------------
\* The invariant holds before the first agent starts.
LEMMA InvInit == Init => Inv
<1>. SUFFICES ASSUME Init PROVE Inv  OBVIOUS
<1>. USE LockBackupAssumption
<1>1. Types
  <2>1. name \in [Names -> Inodes \cup {None}] /\ data \in [Inodes -> [Chunks -> Nat]]
      BY DEF Init
  <2>2. mtime \in [Inodes -> Nat] /\ synced \in [Inodes -> BOOLEAN]
      BY DEF Init
  <2>3. boot = 1 /\ version = 1 /\ newest = 0 /\ section \in Records /\ gaps = {}
      BY DEF Init, Records
  <2>4. pc \in [Pids -> PCs] /\ job \in [Pids -> {"backup", "restore"}]
      BY DEF Init, PCs
  <2>5. /\ from \in [Pids -> Inodes \cup {None}] /\ to \in [Pids -> Inodes \cup {None}]
        /\ pos \in [Pids -> Nat]
      BY DEF Init
  <2>. QED  BY <2>1, <2>2, <2>3, <2>4, <2>5 DEF Types
<1>2. FdInv /\ JobInv /\ NamesInv /\ ToInv
    BY DEF Init, FdInv, JobInv, NamesInv, ToInv, Names, Copying, Filling
<1>3. SoleInv /\ NewestInv /\ AloneInv
    BY DEF Init, SoleInv, NewestInv, AloneInv, Early, Filling
<1>4. TempInv /\ SourceInv /\ BackupInv /\ "torn" \notin gaps
    BY DEF Init, TempInv, SourceInv, BackupInv, Names, Filling
<1>. QED  BY <1>1, <1>2, <1>3, <1>4 DEF Inv, Always

\* No gap is forgotten.
LEMMA GapsStay == ASSUME [Next]_vars PROVE gaps \subseteq gaps'
BY DEF Next, vars, Note, Reboot, SectionAges, Start, VerifyThatDatabaseIsNotCorrupt, WriteDB,
    WaitForCriticalSection, BackupLockDatabase, OpenSource, CreateTemp, CopyChunk, Fsync,
    Rename, Unlink, CopyFails, Crash

\* The invariant behind the theorems.
THEOREM Invariance == Spec => []Inv
<1>1. Inv /\ [Next]_vars => Inv'
  <2>. SUFFICES ASSUME Inv, [Next]_vars PROVE Inv'
      OBVIOUS
  <2>1. Always /\ Always'
      BY TypeStep, FdStep, NamesStep, JobStep, ToStep DEF Inv, Always
  <2>2. gaps \subseteq gaps'
      BY GapsStay
  <2>3. "clash" \notin gaps' => (SoleInv /\ NewestInv)'
      BY <2>1, <2>2, SoleStep, NewestStep DEF Inv
  <2>4. "overlap" \notin gaps' => (AloneInv /\ "torn" \notin gaps)'
      BY <2>1, <2>2, AloneStep, TornStep DEF Inv
  <2>5. "torn" \notin gaps' => (TempInv /\ SourceInv /\ BackupInv)'
      BY <2>1, <2>2, TempStep, SourceStep, BackupStep DEF Inv
  <2>. QED  BY <2>1, <2>3, <2>4, <2>5 DEF Inv
<1>. QED  BY <1>1, InvInit, PTL DEF Spec

\* CopyLockDatabaseAtomically, whatever step fails, whichever agent dies and
\* wherever the power is lost: until a copy begins over the temporary file of
\* another, the backup is a whole database; from then on until one that met
\* another is cut off, it is whole or a copy is at work that will complete it.
THEOREM BackupWhole == Spec => []BackupComplete
<1>1. Inv => BackupComplete
  <2>. SUFFICES ASSUME Inv, name["backup"] # None, "torn" \notin gaps
                PROVE  /\ "overlap" \notin gaps => Complete(name["backup"])
                       /\ \/ Complete(name["backup"])
                          \/ \E a \in Pids : pc[a] = "chunk" /\ to[a] = name["backup"]
      BY DEF Inv, BackupComplete
  <2>1. Good(name["backup"])
      BY DEF Inv, BackupInv
  <2>2. ASSUME NEW a \in Pids, Leads(a, name["backup"]) PROVE "overlap" \in gaps
    <3>1. pc[a] = "chunk" /\ to[a] = name["backup"] /\ job[a] \in {"backup", "restore"}
        BY <2>2 DEF Leads, Inv, Always, Types
    <3>2. job[a] = "backup"
        BY <3>1 DEF Inv, Always, ToInv
    <3>. QED  BY <3>1, <3>2 DEF Inv, AloneInv, Filling, Target
  <2>. QED  BY <2>1, <2>2 DEF Good, Leads
<1>. QED  BY <1>1, Invariance, PTL

\* The check of the database's age lets no agent restore over locks written
\* since the boot, until an agent decides to restore while another one is past
\* that check.
THEOREM RestoreUndoesNothing == Spec => []RestoreKeepsLocks
<1>1. Inv => RestoreKeepsLocks
    BY DEF Inv, Always, NewestInv, NamesInv, RestoreKeepsLocks
<1>. QED  BY <1>1, Invariance, PTL
=============================================================================
