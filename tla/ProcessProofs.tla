--------------------------- MODULE ProcessProofs ---------------------------
(***************************************************************************)
(* Proofs about the processes that CGNgine ends: the agents that the       *)
(* threads of cgn-execd run (Execd), and the holders of expired locks      *)
(* (GracefulTerminate).  Whoever is signalled is the process that was      *)
(* meant, for any number of threads, killers, processes and pids.          *)
(***************************************************************************)
EXTENDS Execd, GracefulTerminate, FiniteSetTheorems, WellFoundedInduction, TLAPS

-----------------------------------------------------------------------------
(* Execd: what a thread has at each place of LocalExec.                    *)

\* Where a thread has its pipe, and where it has a child.
HasFd    == {"fork", "close", "set", "read", "blocked", "pid", "signal", "pclose", "fclose"}
HasChild == (HasFd \ {"fork"}) \cup {"wait"}

\* TypeOK without what it says of the descriptors, which FdInv has.
Types ==
    /\ children \in [Fds -> Pids \cup {None}] /\ maxfd \in Nat
    /\ count \in Threads \cup {None}
    /\ open \in [Fds -> [end : {"r", "w"}, of : Threads] \cup {None}]
    /\ pc \in [Threads -> HasFd \cup HasChild \cup {"idle", "init", "replace"}]
    /\ fd \in [Threads -> Fds \cup {None}] /\ wfd \in [Threads -> Fds \cup {None}]
    /\ newmax \in [Threads -> Nat]
    /\ child \in [Threads -> Pids \cup {None}] /\ target \in [Threads -> Pids \cup {None}]
    /\ state \in [Pids -> {"free", "runs", "stuck", "dead"}]
    /\ holds \in [Pids -> SUBSET Threads] /\ orphans \subseteq Threads /\ half \subseteq Threads
    /\ pending \in BOOLEAN /\ shrunk \in BOOLEAN

\* A thread has its pipe from pipe() to fclose(), and its child from fork() to
\* waitpid(); what SetChildFD computed exceeds the descriptor it is for.
PcInv == \A t \in Threads :
    /\ fd[t] # None <=> pc[t] \in HasFd
    /\ wfd[t] # None <=> pc[t] \in {"fork", "close"}
    /\ child[t] # None <=> pc[t] \in HasChild
    /\ pc[t] = "set" /\ newmax[t] # 0 => fd[t] < newmax[t]

\* e is the end of a pipe of t.
IsEnd(e, end, t) == e # None /\ e.end = end /\ e.of = t

\* A descriptor is open for the thread that made it, and for no other one.
FdInv ==
    /\ \A t \in Threads :
          /\ fd[t] # None => IsEnd(open[fd[t]], "r", t)
          /\ wfd[t] # None => IsEnd(open[wfd[t]], "w", t)
    /\ \A f \in Fds : open[f] # None =>
          /\ open[f].end = "r" => f = fd[open[f].of]
          /\ open[f].end = "w" => f = wfd[open[f].of]

\* A process that is not waited for is the child of exactly one thread, and its
\* pid is not free.
ChildInv ==
    /\ \A t, u \in Threads : child[t] # None /\ child[t] = child[u] => t = u
    /\ \A t \in Threads : child[t] # None => state[child[t]] # "free"
    /\ \A p \in Pids : state[p] # "free" => \E t \in Threads : child[t] = p

\* The entry of a thread's descriptor is its child, from SetChildFD until
\* cf_pclose has taken it.
TableInv == \A t \in Threads :
    /\ pc[t] = "set" /\ newmax[t] = 0 => fd[t] < maxfd
    /\ pc[t] \in {"read", "blocked", "pid", "signal", "pclose"}
          => fd[t] < maxfd /\ children[fd[t]] = child[t]
    /\ pc[t] \in {"signal", "fclose", "wait"} => target[t] = child[t]

\* The inductive invariant; the table means nothing once it was cut short.
Inv == Types /\ PcInv /\ FdInv /\ (~shrunk => ChildInv /\ TableInv)

-----------------------------------------------------------------------------
(* Lemmas.                                                                 *)

\* A set of numbers has a least one.
LEMMA LeastExists ==
    ASSUME NEW F, F \subseteq Nat, F # {}
    PROVE  \E i \in F : \A j \in F : i <= j
<1>. DEFINE R == {p \in Nat \X Nat : p[1] < p[2]}
<1>1. IsWellFoundedOn(R, Nat)
    BY NatLessThanWellFounded DEF OpToRel
<1>2. PICK i \in F : \A j \in F : ~(<<j, i>> \in R)
  <2>. HIDE DEF R
  <2>. QED  BY <1>1, WFMin, Zenon
<1>3. ASSUME NEW j \in F PROVE i <= j
  <2>1. <<j, i>> \in Nat \X Nat
      OBVIOUS
  <2>2. ~(<<j, i>>[1] < <<j, i>>[2])
      BY <1>2, <2>1, Zenon
  <2>. QED  BY <2>1, <2>2
<1>. QED  BY <1>3

\* The two descriptors that pipe() takes are unused and differ.
LEMMA TwoUnused ==
    ASSUME ~(Cardinality(Unused) < 2)
    PROVE  /\ Lowest(Unused) \in Unused
           /\ Lowest(Unused \ {Lowest(Unused)}) \in Unused \ {Lowest(Unused)}
<1>1. ASSUME NEW S, S \subseteq Nat, S # {} PROVE Lowest(S) \in S
    BY <1>1, LeastExists DEF Lowest
<1>2. Unused \subseteq Nat /\ IsFiniteSet(Unused)
    BY ExecdAssumption, FS_Subset DEF Unused
<1>3. ASSUME NEW x, Unused \subseteq {x} PROVE FALSE
  <2>1. IsFiniteSet({x}) /\ Cardinality({x}) = 1
      BY FS_Singleton
  <2>2. Cardinality(Unused) <= Cardinality({x}) /\ Cardinality(Unused) \in Nat
      BY <1>2, <1>3, <2>1, FS_Subset, FS_CardinalityType
  <2>. QED  BY <2>1, <2>2
<1>4. Lowest(Unused) \in Unused
    BY <1>1, <1>2, <1>3
<1>. QED  BY <1>1, <1>2, <1>3, <1>4

\* No descriptor is that of two threads, or both ends of a pipe.
LEMMA OwnDescriptors ==
    ASSUME Types, FdInv, NEW t \in Threads, NEW u \in Threads
    PROVE  /\ fd[t] # None => wfd[u] # fd[t] /\ (fd[u] = fd[t] => u = t)
           /\ wfd[t] # None => fd[u] # wfd[t] /\ (wfd[u] = wfd[t] => u = t)
BY ExecdAssumption DEF Types, FdInv, IsEnd

\* SetChildFD makes room for the descriptor.
LEMMA Room == ASSUME NEW f \in Fds PROVE f \in Nat /\ f + Grow \in Nat /\ f + Grow > f /\ f + Grow > 0
BY ExecdAssumption

\* PipeToPid and cf_pclose read a pid, or that there is none.
LEMMA InTablePids == ASSUME Types, NEW f \in Fds PROVE InTable(f) \subseteq Pids \cup {None}
BY DEF Types, InTable

-----------------------------------------------------------------------------
(* The invariant of Execd.                                                 *)

\* Every step keeps the types and what a thread has.
LEMMA TypeStep ==
    ASSUME Types, PcInv, [Next]_vars PROVE (Types /\ PcInv)'
<1>. USE ExecdAssumption DEF table, procs, history, locals, Goto, HasFd, HasChild, Types, PcInv
<1>1. ASSUME NEW t \in Threads, LocalExec(t) PROVE (Types /\ PcInv)'
    BY <1>1 DEF LocalExec
<1>2. ASSUME NEW t \in Threads, LockCount(t) PROVE (Types /\ PcInv)'
    BY <1>2 DEF LockCount
<1>3. ASSUME NEW t \in Threads, Pipe(t) PROVE (Types /\ PcInv)'
  <2>1. CASE Cardinality(Unused) < 2
      BY <1>3, <2>1 DEF Pipe
  <2>2. CASE ~(Cardinality(Unused) < 2)
    <3>. DEFINE r == Lowest(Unused)
                w == Lowest(Unused \ {r})
    <3>1. r \in Fds /\ w \in Fds /\ r # w /\ open[r] = None /\ open[w] = None
        BY <2>2, TwoUnused DEF Unused
    <3>2. /\ open' = [open EXCEPT ![r] = [end |-> "r", of |-> t], ![w] = [end |-> "w", of |-> t]]
          /\ fd' = [fd EXCEPT ![t] = r] /\ wfd' = [wfd EXCEPT ![t] = w]
          /\ pc[t] = "init" /\ pc' = [pc EXCEPT ![t] = "fork"] /\ count' = None
          /\ UNCHANGED <<children, maxfd, newmax, child, target, procs, history>>
        BY <1>3, <2>2 DEF Pipe
    <3>. HIDE DEF r, w
    <3>. QED  BY <3>1, <3>2
  <2>. QED  BY <2>1, <2>2
<1>4. ASSUME NEW t \in Threads, Fork(t) PROVE (Types /\ PcInv)'
  <2>. DEFINE p == CHOOSE p \in Pids : state[p] = "free"
  <2>1. p \in Pids
      BY <1>4 DEF Fork
  <2>2. /\ state' = [state EXCEPT ![p] = IF count = None THEN "runs" ELSE "stuck"]
        /\ holds' = [holds EXCEPT ![p] =
              {u \in Threads : \E f \in Fds : open[f] = [end |-> "w", of |-> u]}]
        /\ child' = [child EXCEPT ![t] = p] /\ pc[t] = "fork" /\ pc' = [pc EXCEPT ![t] = "close"]
        /\ UNCHANGED <<table, fd, wfd, newmax, target, orphans, half, history>>
      BY <1>4 DEF Fork
  <2>. HIDE DEF p
  <2>. QED  BY <2>1, <2>2
<1>5. ASSUME NEW t \in Threads, ForkFails(t) PROVE (Types /\ PcInv)'
    BY <1>5 DEF ForkFails
<1>6. ASSUME NEW t \in Threads, CloseWriteEnd(t) PROVE (Types /\ PcInv)'
  <2>0. fd[t] \in Fds /\ wfd[t] \in Fds
      BY <1>6 DEF CloseWriteEnd
  <2>1. fd[t] \in Nat /\ fd[t] + Grow \in Nat /\ fd[t] + Grow > fd[t]
      BY <2>0, Room
  <2>2. newmax' = [newmax EXCEPT ![t] = IF fd[t] >= maxfd THEN fd[t] + Grow ELSE 0]
      BY <1>6 DEF CloseWriteEnd
  <2>3. Types'
      BY <1>6, <2>1, <2>2 DEF CloseWriteEnd
  <2>4. PcInv'
      BY <1>6, <2>1, <2>2 DEF CloseWriteEnd
  <2>. QED  BY <2>3, <2>4
<1>7. ASSUME NEW t \in Threads, SetChildFD(t) PROVE (Types /\ PcInv)'
    BY <1>7 DEF SetChildFD
<1>8. ASSUME NEW t \in Threads, ReadLine(t) PROVE (Types /\ PcInv)'
    BY <1>8 DEF ReadLine
<1>9. ASSUME NEW t \in Threads, ReadBlocks(t) PROVE (Types /\ PcInv)'
    BY <1>9 DEF ReadBlocks
<1>10. ASSUME NEW t \in Threads, EndOfFile(t) PROVE (Types /\ PcInv)'
    BY <1>10 DEF EndOfFile
<1>11. ASSUME NEW t \in Threads, Timeout(t) PROVE (Types /\ PcInv)'
    BY <1>11 DEF Timeout
<1>12. ASSUME NEW t \in Threads, PipeToPid(t) PROVE (Types /\ PcInv)'
  <2>0. fd[t] \in Fds
      BY <1>12 DEF PipeToPid
  <2>1. InTable(fd[t]) \subseteq Pids \cup {None}
      BY <2>0, InTablePids
  <2>2. PICK p \in Pids \cup {None} : target' = [target EXCEPT ![t] = p]
      BY <1>12, <2>1 DEF PipeToPid
  <2>. QED  BY <1>12, <2>2 DEF PipeToPid
<1>13. ASSUME NEW t \in Threads, ProcessSignalTerminate(t) PROVE (Types /\ PcInv)'
  <2>1. CASE target[t] \in Pids /\ state[target[t]] \in {"runs", "stuck"}
      BY <1>13, <2>1 DEF ProcessSignalTerminate, Dies
  <2>2. CASE ~(target[t] \in Pids /\ state[target[t]] \in {"runs", "stuck"})
      BY <1>13, <2>2 DEF ProcessSignalTerminate
  <2>. QED  BY <2>1, <2>2
<1>14. ASSUME NEW t \in Threads, ClearEntry(t) PROVE (Types /\ PcInv)'
    BY <1>14 DEF ClearEntry
<1>15. ASSUME NEW t \in Threads, Fclose(t) PROVE (Types /\ PcInv)'
    BY <1>15 DEF Fclose
<1>16. ASSUME NEW t \in Threads, PWait(t) PROVE (Types /\ PcInv)'
    BY <1>16 DEF PWait
<1>17. ASSUME NEW t \in Threads, ReplacePrevious(t) PROVE (Types /\ PcInv)'
    BY <1>17 DEF ReplacePrevious
<1>18. ASSUME NEW t \in Threads, StopReading(t) PROVE (Types /\ PcInv)'
    BY <1>18 DEF StopReading
<1>19. ASSUME NEW p \in Pids, Writes(p) PROVE (Types /\ PcInv)'
    BY <1>19 DEF Writes
<1>20. ASSUME NEW p \in Pids, Exits(p) PROVE (Types /\ PcInv)'
    BY <1>20 DEF Exits, Dies
<1>21. ASSUME NEW p \in Pids, ClosesOutput(p) PROVE (Types /\ PcInv)'
    BY <1>21 DEF ClosesOutput
<1>22. CASE OrphanExits
    BY <1>22 DEF OrphanExits
<1>23. CASE UNCHANGED vars
    BY <1>23 DEF vars
<1>. QED  BY <1>1, <1>2, <1>3, <1>4, <1>5, <1>6, <1>7, <1>8, <1>9, <1>10, <1>11, <1>12,
    <1>13, <1>14, <1>15, <1>16, <1>17, <1>18, <1>19, <1>20, <1>21, <1>22, <1>23
    DEF Next, Step, Agent

\* Every step keeps the descriptors of the threads apart.
LEMMA FdStep ==
    ASSUME Types, PcInv, FdInv, [Next]_vars PROVE FdInv'
<1>. USE ExecdAssumption DEF table, procs, history, locals, Goto, HasFd, HasChild,
    Types, PcInv, FdInv, IsEnd
<1>1. ASSUME NEW t \in Threads, LocalExec(t) PROVE FdInv'
    BY <1>1 DEF LocalExec
<1>2. ASSUME NEW t \in Threads, LockCount(t) PROVE FdInv'
    BY <1>2 DEF LockCount
<1>3. ASSUME NEW t \in Threads, Pipe(t) PROVE FdInv'
  <2>1. CASE Cardinality(Unused) < 2
      BY <1>3, <2>1 DEF Pipe
  <2>2. CASE ~(Cardinality(Unused) < 2)
    <3>. DEFINE r == Lowest(Unused)
                w == Lowest(Unused \ {r})
    <3>1. r \in Fds /\ w \in Fds /\ r # w /\ open[r] = None /\ open[w] = None
        BY <2>2, TwoUnused DEF Unused
    <3>2. /\ open' = [open EXCEPT ![r] = [end |-> "r", of |-> t], ![w] = [end |-> "w", of |-> t]]
          /\ fd' = [fd EXCEPT ![t] = r] /\ wfd' = [wfd EXCEPT ![t] = w]
          /\ pc[t] = "init" /\ pc' = [pc EXCEPT ![t] = "fork"] /\ count' = None
          /\ UNCHANGED <<children, maxfd, newmax, child, target, procs, history>>
        BY <1>3, <2>2 DEF Pipe
    <3>. HIDE DEF r, w
    <3>. DEFINE R == [end |-> "r", of |-> t]
                W == [end |-> "w", of |-> t]
    <3>5. /\ R # None /\ R.end = "r" /\ R.of = t
          /\ W # None /\ W.end = "w" /\ W.of = t
      <4>1. R \in [end : {"r", "w"}, of : Threads] /\ W \in [end : {"r", "w"}, of : Threads]
          BY DEF Threads
      <4>. QED  BY <4>1
    <3>6. open' = [open EXCEPT ![r] = R, ![w] = W]
        BY <3>2
    <3>. HIDE DEF R, W
    <3>7. /\ open'[r] = R /\ open'[w] = W
          /\ \A f \in Fds \ {r, w} : open'[f] = open[f]
          /\ fd'[t] = r /\ wfd'[t] = w
          /\ \A u \in Threads \ {t} : fd'[u] = fd[u] /\ wfd'[u] = wfd[u]
        BY <3>1, <3>2, <3>6
    <3>8. fd[t] = None /\ wfd[t] = None
        BY <3>2
    <3>3. \A u \in Threads :
             /\ fd'[u] # None => IsEnd(open'[fd'[u]], "r", u)
             /\ wfd'[u] # None => IsEnd(open'[wfd'[u]], "w", u)
      <4>1. IsEnd(open'[r], "r", t) /\ IsEnd(open'[w], "w", t)
          BY <3>5, <3>7
      <4>2. ASSUME NEW u \in Threads \ {t}
            PROVE  /\ fd'[u] # None => IsEnd(open'[fd'[u]], "r", u)
                   /\ wfd'[u] # None => IsEnd(open'[wfd'[u]], "w", u)
        <5>1. fd[u] # None => fd[u] \in Fds \ {r, w} /\ IsEnd(open[fd[u]], "r", u)
            BY <3>1
        <5>2. wfd[u] # None => wfd[u] \in Fds \ {r, w} /\ IsEnd(open[wfd[u]], "w", u)
            BY <3>1
        <5>3. fd'[u] = fd[u] /\ wfd'[u] = wfd[u]
            BY <3>7
        <5>4. \A f \in Fds \ {r, w} : open'[f] = open[f]
            BY <3>7
        <5>. HIDE DEF IsEnd
        <5>5. fd[u] # None => IsEnd(open'[fd[u]], "r", u)
            BY <5>1, <5>4, Zenon
        <5>6. wfd[u] # None => IsEnd(open'[wfd[u]], "w", u)
            BY <5>2, <5>4, Zenon
        <5>. QED  BY <5>3, <5>5, <5>6, Zenon
      <4>. QED  BY <3>7, <4>1, <4>2, Zenon
    <3>4. \A f \in Fds : open'[f] # None =>
             /\ open'[f].end = "r" => f = fd'[open'[f].of]
             /\ open'[f].end = "w" => f = wfd'[open'[f].of]
      <4>. SUFFICES ASSUME NEW f \in Fds, open'[f] # None
                    PROVE  /\ open'[f].end = "r" => f = fd'[open'[f].of]
                           /\ open'[f].end = "w" => f = wfd'[open'[f].of]
          OBVIOUS
      <4>1. CASE f \in {r, w}
          BY <3>1, <3>5, <3>7, <4>1
      <4>2. CASE f \notin {r, w}
        <5>4. open'[f] = open[f]
            BY <3>7, <4>2, Zenon
        <5>5. open[f] # None
            BY <5>4, Zenon
        <5>6. open[f] \in [end : {"r", "w"}, of : Threads]
            BY <5>5
        <5>1. open[f] # None /\ open'[f] = open[f] /\ open[f].of \in Threads
            BY <5>4, <5>5, <5>6
        <5>2. /\ open[f].end = "r" => f = fd[open[f].of]
              /\ open[f].end = "w" => f = wfd[open[f].of]
            BY <5>1
        <5>3. open[f].of # t \/ open[f].end \notin {"r", "w"}
            BY <3>1, <3>8, <5>1, <5>2
        <5>. QED  BY <3>7, <5>1, <5>2, <5>3
      <4>. QED  BY <4>1, <4>2
    <3>. QED  BY <3>3, <3>4
  <2>. QED  BY <2>1, <2>2
<1>4. ASSUME NEW t \in Threads, Fork(t) PROVE FdInv'
    BY <1>4 DEF Fork
<1>5. ASSUME NEW t \in Threads, ForkFails(t) PROVE FdInv'
  <2>1. /\ wfd[t] \in Fds /\ IsEnd(open[wfd[t]], "w", t)
        /\ fd[t] \in Fds /\ IsEnd(open[fd[t]], "r", t)
      BY <1>5 DEF ForkFails
  <2>2. /\ open' = [open EXCEPT ![fd[t]] = None, ![wfd[t]] = None]
        /\ fd' = [fd EXCEPT ![t] = None] /\ wfd' = [wfd EXCEPT ![t] = None]
      BY <1>5 DEF ForkFails
  <2>5. \A u \in Threads :
           /\ fd'[u] # None => IsEnd(open'[fd'[u]], "r", u)
           /\ wfd'[u] # None => IsEnd(open'[wfd'[u]], "w", u)
    <3>1. ASSUME NEW u \in Threads \ {t}
          PROVE  /\ fd[u] # None => fd[u] \notin {fd[t], wfd[t]} /\ IsEnd(open[fd[u]], "r", u)
                 /\ wfd[u] # None => wfd[u] \notin {fd[t], wfd[t]} /\ IsEnd(open[wfd[u]], "w", u)
        BY <2>1
    <3>2. fd'[t] = None /\ wfd'[t] = None /\ \A u \in Threads \ {t} : fd'[u] = fd[u] /\ wfd'[u] = wfd[u]
        BY <2>2
    <3>3. \A f \in Fds \ {fd[t], wfd[t]} : open'[f] = open[f]
        BY <2>2
    <3>4. ASSUME NEW u \in Threads \ {t}
          PROVE  /\ fd[u] # None => fd[u] \in Fds /\ IsEnd(open'[fd[u]], "r", u)
                 /\ wfd[u] # None => wfd[u] \in Fds /\ IsEnd(open'[wfd[u]], "w", u)
      <4>1. fd[u] \in Fds \cup {None} /\ wfd[u] \in Fds \cup {None}
          OBVIOUS
      <4>. HIDE DEF IsEnd, FdInv, Types
      <4>. QED  BY <3>1, <3>3, <4>1, Zenon
    <3>. HIDE DEF IsEnd, FdInv, Types
    <3>. QED  BY <3>2, <3>4, Zenon
  <2>6. \A f \in Fds : open'[f] # None =>
           /\ open'[f].end = "r" => f = fd'[open'[f].of]
           /\ open'[f].end = "w" => f = wfd'[open'[f].of]
      BY <2>1, <2>2
  <2>. QED  BY <2>5, <2>6
<1>6. ASSUME NEW t \in Threads, CloseWriteEnd(t) PROVE FdInv'
  <2>1. wfd[t] \in Fds /\ IsEnd(open[wfd[t]], "w", t) /\ fd' = fd
      BY <1>6 DEF CloseWriteEnd
  <2>2. open' = [open EXCEPT ![wfd[t]] = None] /\ wfd' = [wfd EXCEPT ![t] = None]
      BY <1>6 DEF CloseWriteEnd
  <2>5. \A u \in Threads :
           /\ fd'[u] # None => IsEnd(open'[fd'[u]], "r", u)
           /\ wfd'[u] # None => IsEnd(open'[wfd'[u]], "w", u)
      BY <2>1, <2>2, OwnDescriptors
  <2>6. \A f \in Fds : open'[f] # None =>
           /\ open'[f].end = "r" => f = fd'[open'[f].of]
           /\ open'[f].end = "w" => f = wfd'[open'[f].of]
      BY <2>1, <2>2
  <2>. QED  BY <2>5, <2>6
<1>7. ASSUME NEW t \in Threads, SetChildFD(t) PROVE FdInv'
    BY <1>7 DEF SetChildFD
<1>8. ASSUME NEW t \in Threads, ReadLine(t) PROVE FdInv'
    BY <1>8 DEF ReadLine
<1>9. ASSUME NEW t \in Threads, ReadBlocks(t) PROVE FdInv'
    BY <1>9 DEF ReadBlocks
<1>10. ASSUME NEW t \in Threads, EndOfFile(t) PROVE FdInv'
    BY <1>10 DEF EndOfFile
<1>11. ASSUME NEW t \in Threads, Timeout(t) PROVE FdInv'
    BY <1>11 DEF Timeout
<1>12. ASSUME NEW t \in Threads, PipeToPid(t) PROVE FdInv'
    BY <1>12 DEF PipeToPid
<1>13. ASSUME NEW t \in Threads, ProcessSignalTerminate(t) PROVE FdInv'
    BY <1>13 DEF ProcessSignalTerminate
<1>14. ASSUME NEW t \in Threads, ClearEntry(t) PROVE FdInv'
    BY <1>14 DEF ClearEntry
<1>15. ASSUME NEW t \in Threads, Fclose(t) PROVE FdInv'
  <2>1. fd[t] \in Fds /\ IsEnd(open[fd[t]], "r", t) /\ wfd' = wfd
      BY <1>15 DEF Fclose
  <2>2. open' = [open EXCEPT ![fd[t]] = None] /\ fd' = [fd EXCEPT ![t] = None]
      BY <1>15 DEF Fclose
  <2>5. \A u \in Threads :
           /\ fd'[u] # None => IsEnd(open'[fd'[u]], "r", u)
           /\ wfd'[u] # None => IsEnd(open'[wfd'[u]], "w", u)
      BY <2>1, <2>2, OwnDescriptors
  <2>6. \A f \in Fds : open'[f] # None =>
           /\ open'[f].end = "r" => f = fd'[open'[f].of]
           /\ open'[f].end = "w" => f = wfd'[open'[f].of]
      BY <2>1, <2>2
  <2>. QED  BY <2>5, <2>6
<1>16. ASSUME NEW t \in Threads, PWait(t) PROVE FdInv'
    BY <1>16 DEF PWait
<1>17. ASSUME NEW t \in Threads, ReplacePrevious(t) PROVE FdInv'
    BY <1>17 DEF ReplacePrevious
<1>18. ASSUME NEW t \in Threads, StopReading(t) PROVE FdInv'
    BY <1>18 DEF StopReading
<1>19. ASSUME NEW p \in Pids, Writes(p) PROVE FdInv'
    BY <1>19 DEF Writes
<1>20. ASSUME NEW p \in Pids, Exits(p) PROVE FdInv'
    BY <1>20 DEF Exits
<1>21. ASSUME NEW p \in Pids, ClosesOutput(p) PROVE FdInv'
    BY <1>21 DEF ClosesOutput
<1>22. CASE OrphanExits
    BY <1>22 DEF OrphanExits
<1>23. CASE UNCHANGED vars
    BY <1>23 DEF vars
<1>. QED  BY <1>1, <1>2, <1>3, <1>4, <1>5, <1>6, <1>7, <1>8, <1>9, <1>10, <1>11, <1>12,
    <1>13, <1>14, <1>15, <1>16, <1>17, <1>18, <1>19, <1>20, <1>21, <1>22, <1>23
    DEF Next, Step, Agent

\* SetChildFD enters the child of its thread, and leaves the entries of the
\* others unless it makes the table smaller.
LEMMA SetChildKeepsTable ==
    ASSUME Types, PcInv, FdInv, ~shrunk => TableInv,
           NEW t \in Threads, SetChildFD(t), ~shrunk'
    PROVE  TableInv'
<1>. DEFINE max == IF newmax[t] > 0 THEN newmax[t] ELSE maxfd
            kept == [f \in Fds |-> IF f < max THEN children[f] ELSE None]
<1>1. pc[t] = "set" /\ fd[t] \in Fds
    BY DEF SetChildFD, Types, PcInv, HasFd
<1>2. /\ maxfd' = max
      /\ children' = IF fd[t] < max THEN [kept EXCEPT ![fd[t]] = child[t]] ELSE kept
      /\ newmax' = [newmax EXCEPT ![t] = 0] /\ pc' = [pc EXCEPT ![t] = "read"]
      /\ fd' = fd /\ child' = child /\ target' = target
      /\ ~shrunk /\ ~(max < maxfd)
    BY DEF SetChildFD, Goto
<1>3. TableInv
    BY <1>2
<1>4. newmax[t] \in Nat /\ maxfd \in Nat /\ max \in Nat
    BY DEF Types
<1>5. fd[t] < max
  <2>1. newmax[t] # 0 => fd[t] < newmax[t]
      BY <1>1 DEF PcInv
  <2>2. newmax[t] = 0 => fd[t] < maxfd
      BY <1>1, <1>3 DEF TableInv
  <2>. QED  BY <1>4, <2>1, <2>2
<1>. HIDE DEF max
<1>6. children' = [kept EXCEPT ![fd[t]] = child[t]]
    BY <1>2, <1>5
<1>7. children'[fd[t]] = child[t]
    BY <1>1, <1>6
<1>8. ASSUME NEW u \in Threads, fd[u] \in Fds, fd[u] # fd[t], fd[u] < maxfd
      PROVE  fd[u] < max /\ children'[fd[u]] = children[fd[u]]
  <2>1. fd[u] \in Nat
      BY <1>8, ExecdAssumption
  <2>2. fd[u] < max
      BY <1>2, <1>4, <1>8, <2>1
  <2>. QED  BY <1>6, <1>8, <2>2
<1>9. ASSUME NEW u \in Threads PROVE
        /\ pc'[u] = "set" /\ newmax'[u] = 0 => fd'[u] < maxfd'
        /\ pc'[u] \in {"read", "blocked", "pid", "signal", "pclose"}
              => fd'[u] < maxfd' /\ children'[fd'[u]] = child'[u]
        /\ pc'[u] \in {"signal", "fclose", "wait"} => target'[u] = child'[u]
  <2>1. CASE u = t
    <3>1. pc'[u] = "read" /\ fd'[u] = fd[t] /\ child'[u] = child[t]
        BY <1>2, <2>1 DEF Types
    <3>. QED  BY <1>2, <1>5, <1>7, <3>1
  <2>2. CASE u # t
    <3>1. pc'[u] = pc[u] /\ newmax'[u] = newmax[u] /\ fd'[u] = fd[u] /\ child'[u] = child[u]
          /\ target'[u] = target[u]
        BY <1>2, <2>2 DEF Types
    <3>2. pc[u] \in HasFd => fd[u] \in Fds /\ fd[u] # fd[t]
      <4>1. pc[u] \in HasFd => fd[u] # None
          BY DEF PcInv
      <4>. QED  BY <1>1, <2>2, <4>1, OwnDescriptors DEF Types
    <3>3. /\ pc[u] = "set" /\ newmax[u] = 0 => fd[u] < maxfd
          /\ pc[u] \in {"read", "blocked", "pid", "signal", "pclose"}
                => fd[u] < maxfd /\ children[fd[u]] = child[u]
          /\ pc[u] \in {"signal", "fclose", "wait"} => target[u] = child[u]
        BY <1>3 DEF TableInv
    <3>. QED  BY <1>2, <1>8, <3>1, <3>2, <3>3 DEF HasFd
  <2>. QED  BY <2>1, <2>2
<1>. QED  BY <1>9 DEF TableInv

\* Every other step keeps them too.
LEMMA TableStep ==
    ASSUME Types, PcInv, FdInv, ~shrunk => ChildInv /\ TableInv, [Next]_vars
    PROVE  (~shrunk => ChildInv /\ TableInv)'
<1>. USE ExecdAssumption DEF table, procs, history, locals, Goto, HasFd, HasChild,
    Types, PcInv, FdInv, IsEnd,
        ChildInv, TableInv
<1>1. ASSUME NEW t \in Threads, LocalExec(t) PROVE (~shrunk => ChildInv /\ TableInv)'
    BY <1>1 DEF LocalExec
<1>2. ASSUME NEW t \in Threads, LockCount(t) PROVE (~shrunk => ChildInv /\ TableInv)'
    BY <1>2 DEF LockCount
<1>3. ASSUME NEW t \in Threads, Pipe(t) PROVE (~shrunk => ChildInv /\ TableInv)'
  <2>1. CASE Cardinality(Unused) < 2
      BY <1>3, <2>1 DEF Pipe
  <2>2. CASE ~(Cardinality(Unused) < 2)
    <3>. DEFINE r == Lowest(Unused)
                w == Lowest(Unused \ {r})
    <3>1. r \in Fds /\ w \in Fds /\ r # w /\ open[r] = None /\ open[w] = None
        BY <2>2, TwoUnused DEF Unused
    <3>2. /\ open' = [open EXCEPT ![r] = [end |-> "r", of |-> t], ![w] = [end |-> "w", of |-> t]]
          /\ fd' = [fd EXCEPT ![t] = r] /\ wfd' = [wfd EXCEPT ![t] = w]
          /\ pc[t] = "init" /\ pc' = [pc EXCEPT ![t] = "fork"] /\ count' = None
          /\ UNCHANGED <<children, maxfd, newmax, child, target, procs, history>>
        BY <1>3, <2>2 DEF Pipe
    <3>. HIDE DEF r, w
    <3>. QED  BY <3>1, <3>2
  <2>. QED  BY <2>1, <2>2
<1>4. ASSUME NEW t \in Threads, Fork(t) PROVE (~shrunk => ChildInv /\ TableInv)'
  <2>. DEFINE p == CHOOSE p \in Pids : state[p] = "free"
  <2>1. p \in Pids /\ state[p] = "free"
      BY <1>4 DEF Fork
  <2>2. /\ state' = [state EXCEPT ![p] = IF count = None THEN "runs" ELSE "stuck"]
        /\ holds' = [holds EXCEPT ![p] =
              {u \in Threads : \E f \in Fds : open[f] = [end |-> "w", of |-> u]}]
        /\ child' = [child EXCEPT ![t] = p] /\ pc[t] = "fork" /\ pc' = [pc EXCEPT ![t] = "close"]
        /\ UNCHANGED <<table, fd, wfd, newmax, target, orphans, half, history>>
      BY <1>4 DEF Fork
  <2>. HIDE DEF p
  <2>. QED  BY <2>1, <2>2
<1>5. ASSUME NEW t \in Threads, ForkFails(t) PROVE (~shrunk => ChildInv /\ TableInv)'
    BY <1>5 DEF ForkFails
<1>6. ASSUME NEW t \in Threads, CloseWriteEnd(t) PROVE (~shrunk => ChildInv /\ TableInv)'
  <2>0. fd[t] \in Fds /\ pc[t] = "close"
      BY <1>6 DEF CloseWriteEnd
  <2>1. fd[t] \in Nat /\ fd[t] + Grow \in Nat /\ fd[t] + Grow > 0
      BY <2>0, Room, Zenon
  <2>2. /\ newmax' = [newmax EXCEPT ![t] = IF fd[t] >= maxfd THEN fd[t] + Grow ELSE 0]
        /\ pc' = [pc EXCEPT ![t] = "set"]
        /\ UNCHANGED <<children, maxfd, fd, child, target, state, shrunk>>
      BY <1>6 DEF CloseWriteEnd
  <2>3. newmax'[t] = 0 => fd[t] < maxfd
    <3>1. newmax'[t] = IF fd[t] >= maxfd THEN fd[t] + Grow ELSE 0
        BY <2>2
    <3>. QED  BY <2>1, <3>1
  <2>4. ~shrunk' => ChildInv'
      BY <2>2
  <2>5. ~shrunk' => TableInv'
      BY <2>1, <2>2, <2>3
  <2>. QED  BY <2>4, <2>5
<1>7. ASSUME NEW t \in Threads, SetChildFD(t) PROVE (~shrunk => ChildInv /\ TableInv)'
  <2>1. ~shrunk' => ~shrunk
      BY <1>7 DEF SetChildFD
  <2>2. ~shrunk' => ChildInv'
      BY <1>7, <2>1 DEF SetChildFD
  <2>. QED  BY <1>7, <2>1, <2>2, SetChildKeepsTable
<1>8. ASSUME NEW t \in Threads, ReadLine(t) PROVE (~shrunk => ChildInv /\ TableInv)'
    BY <1>8 DEF ReadLine
<1>9. ASSUME NEW t \in Threads, ReadBlocks(t) PROVE (~shrunk => ChildInv /\ TableInv)'
    BY <1>9 DEF ReadBlocks
<1>10. ASSUME NEW t \in Threads, EndOfFile(t) PROVE (~shrunk => ChildInv /\ TableInv)'
    BY <1>10 DEF EndOfFile
<1>11. ASSUME NEW t \in Threads, Timeout(t) PROVE (~shrunk => ChildInv /\ TableInv)'
    BY <1>11 DEF Timeout
<1>12. ASSUME NEW t \in Threads, PipeToPid(t) PROVE (~shrunk => ChildInv /\ TableInv)'
    BY <1>12 DEF PipeToPid, InTable
<1>13. ASSUME NEW t \in Threads, ProcessSignalTerminate(t)
       PROVE  (~shrunk => ChildInv /\ TableInv)'
  <2>1. CASE target[t] \in Pids /\ state[target[t]] \in {"runs", "stuck"}
      BY <1>13, <2>1 DEF ProcessSignalTerminate, Dies
  <2>2. CASE ~(target[t] \in Pids /\ state[target[t]] \in {"runs", "stuck"})
      BY <1>13, <2>2 DEF ProcessSignalTerminate
  <2>. QED  BY <2>1, <2>2
<1>14. ASSUME NEW t \in Threads, ClearEntry(t) PROVE (~shrunk => ChildInv /\ TableInv)'
    BY <1>14 DEF ClearEntry
<1>15. ASSUME NEW t \in Threads, Fclose(t) PROVE (~shrunk => ChildInv /\ TableInv)'
    BY <1>15 DEF Fclose
<1>16. ASSUME NEW t \in Threads, PWait(t) PROVE (~shrunk => ChildInv /\ TableInv)'
    BY <1>16 DEF PWait
<1>17. ASSUME NEW t \in Threads, ReplacePrevious(t) PROVE (~shrunk => ChildInv /\ TableInv)'
    BY <1>17 DEF ReplacePrevious
<1>18. ASSUME NEW t \in Threads, StopReading(t) PROVE (~shrunk => ChildInv /\ TableInv)'
    BY <1>18 DEF StopReading
<1>19. ASSUME NEW p \in Pids, Writes(p) PROVE (~shrunk => ChildInv /\ TableInv)'
    BY <1>19 DEF Writes
<1>20. ASSUME NEW p \in Pids, Exits(p) PROVE (~shrunk => ChildInv /\ TableInv)'
    BY <1>20 DEF Exits, Dies
<1>21. ASSUME NEW p \in Pids, ClosesOutput(p) PROVE (~shrunk => ChildInv /\ TableInv)'
    BY <1>21 DEF ClosesOutput
<1>22. CASE OrphanExits
    BY <1>22 DEF OrphanExits
<1>23. CASE UNCHANGED vars
    BY <1>23 DEF vars
<1>. QED  BY <1>1, <1>2, <1>3, <1>4, <1>5, <1>6, <1>7, <1>8, <1>9, <1>10, <1>11, <1>12,
    <1>13, <1>14, <1>15, <1>16, <1>17, <1>18, <1>19, <1>20, <1>21, <1>22, <1>23
    DEF Next, Step, Agent

\* At the start no thread has anything.
LEMMA InvInit == Init => Inv
<1>. SUFFICES ASSUME Init PROVE Inv
    OBVIOUS
<1>. USE ExecdAssumption DEF Init, HasFd, HasChild
<1>1. Types
    BY DEF Types
<1>2. PcInv /\ FdInv
    BY DEF PcInv, FdInv
<1>3. ChildInv /\ TableInv
    BY DEF ChildInv, TableInv
<1>. QED  BY <1>1, <1>2, <1>3 DEF Inv

\* The invariant behind the theorems about cgn-execd.
THEOREM Invariance == Spec => []Inv
<1>1. Inv /\ [Next]_vars => Inv'
    BY TypeStep, FdStep, TableStep DEF Inv
<1>. QED  BY InvInit, <1>1, PTL DEF Spec

\* The types of the variables; and a descriptor is open exactly as long as the
\* thread that made it knows it.
THEOREM TypeCorrect == Spec => []TypeOK
<1>1. Inv => TypeOK
  <2>. SUFFICES ASSUME Inv PROVE TypeOK
      OBVIOUS
  <2>. USE ExecdAssumption DEF Inv
  <2>1. ASSUME NEW f \in Fds, open[f] = None PROVE \A t \in Threads : f \notin {fd[t], wfd[t]}
    <3>1. ASSUME NEW t \in Threads, f \in {fd[t], wfd[t]} PROVE FALSE
        BY <2>1, <3>1 DEF FdInv, IsEnd
    <3>. QED  BY <3>1
  <2>2. ASSUME NEW f \in Fds, open[f] # None
        PROVE  f = IF open[f].end = "r" THEN fd[open[f].of] ELSE wfd[open[f].of]
      BY <2>2 DEF Types, FdInv
  <2>. QED  BY <2>1, <2>2 DEF Types, TypeOK
<1>. QED  BY Invariance, <1>1, PTL

\* A thread whose agent has been silent for too long ends its own child and no
\* other process, for any number of threads, as long as the table is not cut
\* short (PipeToPid, ProcessSignalTerminate).
THEOREM OwnChildSignalled == Spec => []SignalsOwnChild
<1>1. Inv => SignalsOwnChild
    BY ExecdAssumption DEF Inv, Types, PcInv, ChildInv, TableInv, SignalsOwnChild,
        HasFd, HasChild
<1>. QED  BY Invariance, <1>1, PTL

\* As long as the table is not cut short every child has a thread that will call
\* waitpid for it, which no other thread has taken (cf_pclose).
THEOREM EveryChildWaitedFor == Spec => []ChildrenWaitedFor
<1>1. Inv => ChildrenWaitedFor
    BY DEF Inv, ChildInv, ChildrenWaitedFor
<1>. QED  BY Invariance, <1>1, PTL

-----------------------------------------------------------------------------
(* GracefulTerminate.                                                      *)

\* After its SIGSTOP a killer has a SIGCONT still to send.
OwesCont(k) == killing[k] \in {"poll", "recheck", "signal", "cont"}

\* A process stopped by a killer may be continued by every killer, and one of
\* them is still going to.
StopInv ==
    condition = "stopped" \/ stopping =>
        holder \in allowed /\ \E k \in Killers : OwesCont(k)

\* What a killer knows between its two checks of the start time and its signal
\* when nobody else sends SIGCONT.
TargetInv ==
    /\ \A k \in Killers :
          /\ killing[k] \in {"recheck", "signal"} => condition = "stopped"
          /\ killing[k] = "signal" => holder = 1
    /\ HitsOnlyTarget

-----------------------------------------------------------------------------
\* Every step keeps the types of the process.
LEMMA ProcessTypeStep ==
    ASSUME ProcessTypeOK, [KillNext]_killvars PROVE ProcessTypeOK'
<1>1. CASE StopTakesEffect
    BY <1>1, KillAssumption DEF StopTakesEffect, killer, ProcessTypeOK,
        Processes, States
<1>2. CASE ProcessExits
    BY <1>2, KillAssumption DEF ProcessExits, killer, ProcessTypeOK,
        Processes, States
<1>3. CASE ProcessReaped
    BY <1>3, KillAssumption DEF ProcessReaped, killer, ProcessTypeOK,
        Processes, States
<1>4. CASE PidReused
    <2>1. holder' \in Processes
        BY <1>4, KillAssumption DEF PidReused, ProcessTypeOK, Processes
    <2>2. condition' \in States /\ stopping' = FALSE /\ UNCHANGED <<allowed, known, hit>>
        BY <1>4 DEF PidReused, States
    <2>. QED  BY <2>1, <2>2 DEF ProcessTypeOK
<1>5. ASSUME NEW k \in Killers, PlainKill(k) PROVE ProcessTypeOK'
    <2>1. UNCHANGED <<process, hit>> \/ Deliver(signal[k])
        BY <1>5 DEF PlainKill
    <2>2. UNCHANGED <<allowed, known>>
        BY <1>5 DEF PlainKill
    <2>3. CASE UNCHANGED <<process, hit>>
        BY <2>2, <2>3 DEF ProcessTypeOK, process
    <2>4. CASE Deliver(signal[k])
        BY <2>2, <2>4 DEF Deliver, ProcessTypeOK, States
    <2>. QED  BY <2>1, <2>3, <2>4
<1>6. ASSUME NEW k \in Killers, CheckStart(k) PROVE ProcessTypeOK'
    BY <1>6, KillAssumption DEF CheckStart, KillGoto, StartTimeMatches,
        Unsent, process,
        ProcessTypeOK, Processes, States
<1>7. ASSUME NEW k \in Killers, SendStop(k) PROVE ProcessTypeOK'
    BY <1>7, KillAssumption DEF SendStop, KillGoto, Unsent, process,
        ProcessTypeOK, Processes,
        States
<1>8. ASSUME NEW k \in Killers, PollStopped(k) PROVE ProcessTypeOK'
    BY <1>8, KillAssumption DEF PollStopped, KillGoto, Continue, Unsent,
        process, ProcessTypeOK,
        Processes, States
<1>9. ASSUME NEW k \in Killers, Recheck(k) PROVE ProcessTypeOK'
    BY <1>9, KillAssumption DEF Recheck, KillGoto, StartTimeMatches,
        Continue, Unsent, process,
        ProcessTypeOK, Processes, States
<1>10. ASSUME NEW k \in Killers, SendSignal(k) PROVE ProcessTypeOK'
    BY <1>10, KillAssumption DEF SendSignal, KillGoto, Deliver, process,
        ProcessTypeOK,
        Processes, States
<1>11. ASSUME NEW k \in Killers, SendCont(k) PROVE ProcessTypeOK'
    BY <1>11, KillAssumption DEF SendCont, KillGoto, Continue, Sent,
        Unsent, process,
        ProcessTypeOK, Processes, States
<1>12. ASSUME NEW k \in Killers, AwaitExit(k) PROVE ProcessTypeOK'
    BY <1>12, KillAssumption DEF AwaitExit, KillGoto, NextSignal, process,
        ProcessTypeOK,
        Processes, States
<1>13. CASE UNCHANGED killvars
    BY <1>13 DEF killvars, process, killer, ProcessTypeOK, Processes,
        States
<1>. QED BY <1>1, <1>2, <1>3, <1>4, <1>5, <1>6, <1>7, <1>8, <1>9, <1>10, <1>11, <1>12, <1>13
    DEF KillNext, Environment, KillStep

\* Every step keeps the types of the killers.
LEMMA KillerTypeStep ==
    ASSUME KillerTypeOK, [KillNext]_killvars PROVE KillerTypeOK'
<1>1. CASE StopTakesEffect
    BY <1>1, KillAssumption DEF StopTakesEffect, killer, KillerTypeOK,
        Signals
<1>2. CASE ProcessExits
    BY <1>2, KillAssumption DEF ProcessExits, killer, KillerTypeOK, Signals
<1>3. CASE ProcessReaped
    BY <1>3, KillAssumption DEF ProcessReaped, killer, KillerTypeOK,
        Signals
<1>4. CASE PidReused
    BY <1>4, KillAssumption DEF PidReused, killer, KillerTypeOK, Signals
<1>5. ASSUME NEW k \in Killers, PlainKill(k) PROVE KillerTypeOK'
    <2>1. Sent(k) \/ Unsent(k, "ESRCH") \/ Unsent(k, "EPERM")
        BY <1>5 DEF PlainKill
    <2>2. CASE Sent(k)
        BY <2>2, KillAssumption DEF Sent, KillGoto, KillerTypeOK
    <2>3. CASE Unsent(k, "ESRCH")
        BY <2>3 DEF Unsent, KillGoto, KillerTypeOK
    <2>4. CASE Unsent(k, "EPERM")
        BY <2>4 DEF Unsent, KillGoto, KillerTypeOK
    <2>. QED  BY <2>1, <2>2, <2>3, <2>4
<1>6. ASSUME NEW k \in Killers, CheckStart(k) PROVE KillerTypeOK'
    BY <1>6, KillAssumption DEF CheckStart, KillGoto, StartTimeMatches,
        Unsent, process,
        KillerTypeOK, Signals
<1>7. ASSUME NEW k \in Killers, SendStop(k) PROVE KillerTypeOK'
    BY <1>7, KillAssumption DEF SendStop, KillGoto, Unsent, process,
        KillerTypeOK, Signals
<1>8. ASSUME NEW k \in Killers, PollStopped(k) PROVE KillerTypeOK'
    <2>1. CASE KillGoto(k, "recheck") /\ UNCHANGED <<signal, polls, errno, result>>
        BY <2>1 DEF KillGoto, KillerTypeOK
    <2>2. CASE /\ polls[k] > 0 /\ polls' = [polls EXCEPT ![k] = @ - 1]
               /\ UNCHANGED <<killing, signal, errno, result>>
        BY <2>2, KillAssumption DEF KillerTypeOK
    <2>3. CASE Unsent(k, "ESRCH")
        BY <2>3 DEF Unsent, KillGoto, KillerTypeOK
    <2>. QED  BY <1>8, <2>1, <2>2, <2>3 DEF PollStopped
<1>9. ASSUME NEW k \in Killers, Recheck(k) PROVE KillerTypeOK'
    BY <1>9, KillAssumption DEF Recheck, KillGoto, StartTimeMatches,
        Continue, Unsent, process,
        KillerTypeOK, Signals
<1>10. ASSUME NEW k \in Killers, SendSignal(k) PROVE KillerTypeOK'
    BY <1>10, KillAssumption DEF SendSignal, KillGoto, Deliver, process,
        KillerTypeOK, Signals
<1>11. ASSUME NEW k \in Killers, SendCont(k) PROVE KillerTypeOK'
    BY <1>11, KillAssumption DEF SendCont, KillGoto, Continue, Sent,
        Unsent, process,
        KillerTypeOK, Signals
<1>12. ASSUME NEW k \in Killers, AwaitExit(k) PROVE KillerTypeOK'
    BY <1>12, KillAssumption DEF AwaitExit, KillGoto, NextSignal, process,
        KillerTypeOK, Signals
<1>13. CASE UNCHANGED killvars
    BY <1>13 DEF killvars, process, killer, KillerTypeOK, Signals
<1>. QED BY <1>1, <1>2, <1>3, <1>4, <1>5, <1>6, <1>7, <1>8, <1>9, <1>10, <1>11, <1>12, <1>13
    DEF KillNext, Environment, KillStep

\* The variables keep their types.
THEOREM KillTypeCorrect ==
    KillSpec => []KillTypeOK
<1>1. KillInit => KillTypeOK
    <2>1. KillInit => ProcessTypeOK
        <3>. SUFFICES ASSUME KillInit PROVE ProcessTypeOK
            OBVIOUS
        <3>1. holder \in Processes /\ condition \in States /\ hit \in SUBSET Processes
            BY KillAssumption DEF KillInit, Processes, States
        <3>2. stopping = FALSE /\ allowed \in SUBSET Processes /\ known \in BOOLEAN
            BY DEF KillInit
        <3>. QED  BY <3>1, <3>2 DEF ProcessTypeOK
    <2>2. KillInit => KillerTypeOK
        BY KillAssumption DEF KillInit, KillerTypeOK, Signals
    <2>. QED  BY <2>1, <2>2 DEF KillTypeOK
<1>2. KillTypeOK /\ [KillNext]_killvars => KillTypeOK'
    BY ProcessTypeStep, KillerTypeStep DEF KillTypeOK
<1>. QED  BY <1>1, <1>2, PTL DEF KillSpec

\* Every step keeps StopInv: each SIGSTOP is followed by a SIGCONT of its sender.
LEMMA StopStep ==
    ASSUME KillTypeOK, StopInv, [KillNext]_killvars PROVE StopInv'
<1>1. CASE StopTakesEffect
    BY <1>1 DEF StopTakesEffect, killer, KillTypeOK, ProcessTypeOK,
        KillerTypeOK, StopInv,
        OwesCont, States
<1>2. CASE ProcessExits
    BY <1>2 DEF ProcessExits, killer, KillTypeOK, ProcessTypeOK,
        KillerTypeOK, StopInv,
        OwesCont, States
<1>3. CASE ProcessReaped
    BY <1>3 DEF ProcessReaped, killer, KillTypeOK, ProcessTypeOK,
        KillerTypeOK, StopInv,
        OwesCont, States
<1>4. CASE PidReused
    BY <1>4 DEF PidReused, killer, KillTypeOK, ProcessTypeOK, KillerTypeOK,
        StopInv, OwesCont,
        States
<1>5. ASSUME NEW k \in Killers, PlainKill(k) PROVE StopInv'
    BY <1>5 DEF PlainKill, KillGoto, Sent, Unsent, Deliver, process,
        KillTypeOK, ProcessTypeOK,
        KillerTypeOK, StopInv, OwesCont, States
<1>6. ASSUME NEW k \in Killers, CheckStart(k) PROVE StopInv'
    BY <1>6 DEF CheckStart, KillGoto, StartTimeMatches, Unsent, process,
        KillTypeOK, ProcessTypeOK,
        KillerTypeOK, StopInv, OwesCont, States
<1>7. ASSUME NEW k \in Killers, SendStop(k) PROVE StopInv'
    BY <1>7 DEF SendStop, KillGoto, Unsent, process, KillTypeOK,
        ProcessTypeOK, KillerTypeOK,
        StopInv, OwesCont, States
<1>8. ASSUME NEW k \in Killers, PollStopped(k) PROVE StopInv'
    BY <1>8 DEF PollStopped, KillGoto, Continue, Unsent, process,
        KillTypeOK, ProcessTypeOK,
        KillerTypeOK, StopInv, OwesCont, States
<1>9. ASSUME NEW k \in Killers, Recheck(k) PROVE StopInv'
    BY <1>9 DEF Recheck, KillGoto, StartTimeMatches, Continue, Unsent,
        process, KillTypeOK,
        ProcessTypeOK, KillerTypeOK, StopInv, OwesCont, States
<1>10. ASSUME NEW k \in Killers, SendSignal(k) PROVE StopInv'
    BY <1>10 DEF SendSignal, KillGoto, Deliver, process, KillTypeOK,
        ProcessTypeOK, KillerTypeOK,
        StopInv, OwesCont, States
<1>11. ASSUME NEW k \in Killers, SendCont(k) PROVE StopInv'
    BY <1>11 DEF SendCont, KillGoto, Continue, Sent, Unsent, process,
        KillTypeOK, ProcessTypeOK,
        KillerTypeOK, StopInv, OwesCont, States
<1>12. ASSUME NEW k \in Killers, AwaitExit(k) PROVE StopInv'
    BY <1>12 DEF AwaitExit, KillGoto, NextSignal, process, KillTypeOK,
        ProcessTypeOK, KillerTypeOK,
        StopInv, OwesCont, States
<1>13. CASE UNCHANGED killvars
    BY <1>13 DEF killvars, process, killer, KillTypeOK, ProcessTypeOK,
        KillerTypeOK, StopInv,
        OwesCont, States
<1>. QED BY <1>1, <1>2, <1>3, <1>4, <1>5, <1>6, <1>7, <1>8, <1>9, <1>10, <1>11, <1>12, <1>13
    DEF KillNext, Environment, KillStep

\* Whoever calls GracefulTerminate on a process and however it behaves, when
\* all calls have returned the process is not left stopped.
THEOREM NoneLeftStopped ==
    KillSpec => []NotLeftStopped
<1>1. KillInit => StopInv
    BY DEF KillInit, StopInv
<1>2. KillTypeOK /\ StopInv /\ [KillNext]_killvars => StopInv'
    BY StopStep
<1>3. StopInv => NotLeftStopped
    BY DEF StopInv, NotLeftStopped, OwesCont
<1>. QED  BY KillTypeCorrect, <1>1, <1>2, <1>3, PTL DEF KillSpec

-----------------------------------------------------------------------------
\* One process at a time calls GracefulTerminate on this pid.
Alone == \A k, l \in Killers : k = l

\* Every step of a killer that is alone keeps TargetInv.
LEMMA TargetStep ==
    ASSUME Alone, KillTypeOK, TargetInv, [KillNext]_killvars PROVE TargetInv'
<1>1. CASE StopTakesEffect
    BY <1>1 DEF StopTakesEffect, killer, Alone, KillTypeOK, ProcessTypeOK,
        KillerTypeOK,
        TargetInv, HitsOnlyTarget, States
<1>2. CASE ProcessExits
    BY <1>2 DEF ProcessExits, killer, Alone, KillTypeOK, ProcessTypeOK,
        KillerTypeOK, TargetInv,
        HitsOnlyTarget, States
<1>3. CASE ProcessReaped
    BY <1>3 DEF ProcessReaped, killer, Alone, KillTypeOK, ProcessTypeOK,
        KillerTypeOK,
        TargetInv, HitsOnlyTarget, States
<1>4. CASE PidReused
    BY <1>4 DEF PidReused, killer, Alone, KillTypeOK, ProcessTypeOK,
        KillerTypeOK, TargetInv,
        HitsOnlyTarget, States
<1>5. ASSUME NEW k \in Killers, PlainKill(k) PROVE TargetInv'
    <2>1. killing'[k] \notin {"recheck", "signal"}
        BY <1>5 DEF PlainKill, KillGoto, Sent, Unsent, KillTypeOK,
            KillerTypeOK
    <2>2. ~known /\ UNCHANGED known
        BY <1>5 DEF PlainKill
    <2>3. \A l \in Killers : l = k
        BY DEF Alone
    <2>. QED  BY <2>1, <2>2, <2>3 DEF TargetInv, HitsOnlyTarget
<1>6. ASSUME NEW k \in Killers, CheckStart(k) PROVE TargetInv'
    BY <1>6 DEF CheckStart, KillGoto, StartTimeMatches, Unsent, process,
        Alone, KillTypeOK,
        ProcessTypeOK, KillerTypeOK, TargetInv, HitsOnlyTarget, States
<1>7. ASSUME NEW k \in Killers, SendStop(k) PROVE TargetInv'
    BY <1>7 DEF SendStop, KillGoto, Unsent, process, Alone, KillTypeOK,
        ProcessTypeOK, KillerTypeOK,
        TargetInv, HitsOnlyTarget, States
<1>8. ASSUME NEW k \in Killers, PollStopped(k) PROVE TargetInv'
    <2>1. UNCHANGED <<known, hit>>
        BY <1>8 DEF PollStopped
    <2>2. \A l \in Killers : l = k
        BY DEF Alone
    <2>3. CASE condition = "stopped" /\ KillGoto(k, "recheck") /\ UNCHANGED process
        <3>1. killing'[k] = "recheck" /\ condition' = "stopped"
            BY <2>3 DEF KillGoto, process, KillTypeOK, KillerTypeOK
        <3>. QED  BY <2>1, <2>2, <3>1 DEF TargetInv, HitsOnlyTarget
    <2>4. CASE UNCHANGED <<process, killing>>
        BY <2>1, <2>4 DEF TargetInv, HitsOnlyTarget, process
    <2>5. CASE Unsent(k, "ESRCH")
        <3>1. killing'[k] = "done"
            BY <2>5 DEF Unsent, KillGoto, KillTypeOK, KillerTypeOK
        <3>. QED  BY <2>1, <2>2, <3>1 DEF TargetInv, HitsOnlyTarget
    <2>. QED  BY <1>8, <2>3, <2>4, <2>5 DEF PollStopped
<1>9. ASSUME NEW k \in Killers, Recheck(k) PROVE TargetInv'
    BY <1>9 DEF Recheck, KillGoto, StartTimeMatches, Continue, Unsent,
        process, Alone, KillTypeOK,
        ProcessTypeOK, KillerTypeOK, TargetInv, HitsOnlyTarget, States
<1>10. ASSUME NEW k \in Killers, SendSignal(k) PROVE TargetInv'
    BY <1>10 DEF SendSignal, KillGoto, Deliver, process, Alone, KillTypeOK,
        ProcessTypeOK,
        KillerTypeOK, TargetInv, HitsOnlyTarget, States
<1>11. ASSUME NEW k \in Killers, SendCont(k) PROVE TargetInv'
    BY <1>11 DEF SendCont, KillGoto, Continue, Sent, Unsent, process,
        Alone, KillTypeOK,
        ProcessTypeOK, KillerTypeOK, TargetInv, HitsOnlyTarget, States
<1>12. ASSUME NEW k \in Killers, AwaitExit(k) PROVE TargetInv'
    BY <1>12 DEF AwaitExit, KillGoto, NextSignal, process, Alone, KillTypeOK,
        ProcessTypeOK,
        KillerTypeOK, TargetInv, HitsOnlyTarget, States
<1>13. CASE UNCHANGED killvars
    BY <1>13 DEF killvars, process, killer, Alone, KillTypeOK, ProcessTypeOK,
        KillerTypeOK,
        TargetInv, HitsOnlyTarget, States
<1>. QED BY <1>1, <1>2, <1>3, <1>4, <1>5, <1>6, <1>7, <1>8, <1>9, <1>10, <1>11, <1>12, <1>13
    DEF KillNext, Environment, KillStep

\* SafeKill's protocol is sound when nobody else continues the process: for any
\* number of reuses of the pid and any timing, only the target is signalled.
THEOREM OnlyTargetHit ==
    ASSUME Alone PROVE KillSpec => []HitsOnlyTarget
<1>1. KillInit => TargetInv
    BY DEF KillInit, TargetInv, HitsOnlyTarget
<1>2. KillTypeOK /\ TargetInv /\ [KillNext]_killvars => TargetInv'
    BY TargetStep
<1>3. TargetInv => HitsOnlyTarget
    BY DEF TargetInv
<1>. QED  BY KillTypeCorrect, <1>1, <1>2, <1>3, PTL DEF KillSpec

-----------------------------------------------------------------------------
\* The target has got a terminating signal, or is not a running process any more.
TargetEnded == 1 \in hit \/ holder # 1 \/ condition \in {"zombie", "gone"}

\* A killer that returned true, waits for the exit, has a greater signal to
\* send or has just sent one knows that the target has ended.
TrueInv ==
    known =>
        \A k \in Killers :
            \/ result[k] = "true" \/ killing[k] = "await" \/ signal[k] # "SIGINT"
            \/ killing[k] = "cont" /\ errno[k] = "none"
            => TargetEnded

\* Nothing brings the target back, and a start time is not learnt later.
LEMMA EndedStays ==
    ASSUME KillTypeOK, [KillNext]_killvars
    PROVE  known' = known /\ (TargetEnded => TargetEnded')
<1>1. CASE Environment
    BY <1>1 DEF Environment, StopTakesEffect, ProcessExits, ProcessReaped,
        PidReused,
        TargetEnded, KillTypeOK, ProcessTypeOK, Processes
<1>2. ASSUME NEW k \in Killers,
    PlainKill(k) PROVE known' = known /\ (TargetEnded => TargetEnded')
    BY <1>2 DEF PlainKill, Deliver, process, TargetEnded
<1>3. ASSUME NEW k \in Killers, CheckStart(k) \/ AwaitExit(k)
      PROVE  known' = known /\ (TargetEnded => TargetEnded')
    BY <1>3 DEF CheckStart, AwaitExit, process, TargetEnded
<1>4. ASSUME NEW k \in Killers,
    SendStop(k) PROVE known' = known /\ (TargetEnded => TargetEnded')
    BY <1>4 DEF SendStop, process, TargetEnded
<1>5. ASSUME NEW k \in Killers, PollStopped(k) \/ Recheck(k) \/ SendCont(k)
      PROVE  known' = known /\ (TargetEnded => TargetEnded')
    BY <1>5 DEF PollStopped, Recheck, SendCont, Continue, process,
        TargetEnded
<1>6. ASSUME NEW k \in Killers,
    SendSignal(k) PROVE known' = known /\ (TargetEnded => TargetEnded')
    BY <1>6 DEF SendSignal, Deliver, process, TargetEnded
<1>7. CASE UNCHANGED killvars
    BY <1>7 DEF killvars, process, TargetEnded
<1>. QED  BY <1>1, <1>2, <1>3, <1>4, <1>5, <1>6, <1>7 DEF KillNext, KillStep

\* Every step keeps TrueInv.
LEMMA TrueStep ==
    ASSUME KillTypeOK, TrueInv, [KillNext]_killvars PROVE TrueInv'
<1>. USE EndedStays
<1>1. CASE Environment
    BY <1>1 DEF Environment, StopTakesEffect, ProcessExits, ProcessReaped,
        PidReused, killer,
        TrueInv
<1>2. ASSUME NEW k \in Killers, PlainKill(k) PROVE TrueInv'
    BY <1>2 DEF PlainKill, TrueInv
<1>3. ASSUME NEW k \in Killers, CheckStart(k) PROVE TrueInv'
    BY <1>3 DEF CheckStart, KillGoto, Unsent, TrueInv, KillTypeOK, KillerTypeOK
<1>4. ASSUME NEW k \in Killers, SendStop(k) PROVE TrueInv'
    BY <1>4 DEF SendStop, KillGoto, Unsent, TrueInv, KillTypeOK, KillerTypeOK
<1>5. ASSUME NEW k \in Killers, PollStopped(k) PROVE TrueInv'
    BY <1>5 DEF PollStopped, KillGoto, Unsent, TrueInv, KillTypeOK, KillerTypeOK
<1>6. ASSUME NEW k \in Killers, Recheck(k) PROVE TrueInv'
    BY <1>6 DEF Recheck, KillGoto, Unsent, TrueInv, KillTypeOK, KillerTypeOK
<1>7. ASSUME NEW k \in Killers, SendSignal(k) PROVE TrueInv'
  <2>1. errno'[k] = "none" => TargetEnded'
      BY <1>7 DEF SendSignal, Deliver, process, TargetEnded, KillTypeOK,
          ProcessTypeOK, States,
          KillerTypeOK
  <2>2. /\ killing' = [killing EXCEPT ![k] = "cont"] /\ UNCHANGED <<signal, result>>
        /\ \A l \in Killers \ {k} : errno'[l] = errno[l]
      BY <1>7 DEF SendSignal, KillGoto, KillTypeOK, KillerTypeOK
  <2>. QED  BY <2>1, <2>2 DEF TrueInv, KillTypeOK, KillerTypeOK
<1>8. ASSUME NEW k \in Killers, SendCont(k) PROVE TrueInv'
    BY <1>8 DEF SendCont, KillGoto, Sent, Unsent, TrueInv, KillTypeOK,
        KillerTypeOK
<1>9. ASSUME NEW k \in Killers, AwaitExit(k) PROVE TrueInv'
    BY <1>9 DEF AwaitExit, KillGoto, TrueInv, KillTypeOK, KillerTypeOK
<1>10. CASE UNCHANGED killvars
    BY <1>10 DEF killvars, killer, TrueInv
<1>. QED  BY <1>1, <1>2, <1>3, <1>4, <1>5, <1>6, <1>7, <1>8, <1>9, <1>10 DEF KillNext, KillStep

\* The result that lets a lock be taken over is never true for a target that
\* runs on unsignalled, however many killers there are and however ESRCH came
\* about.
THEOREM TrueIsEarned ==
    KillSpec => []TrueMeansSignalled
<1>1. KillInit => TrueInv
    BY DEF KillInit, TrueInv
<1>2. KillTypeOK /\ TrueInv /\ [KillNext]_killvars => TrueInv'
    BY TrueStep
<1>3. TrueInv => TrueMeansSignalled
    BY DEF TrueInv, TrueMeansSignalled, TargetEnded
<1>. QED  BY KillTypeCorrect, <1>1, <1>2, <1>3, PTL DEF KillSpec
=============================================================================
