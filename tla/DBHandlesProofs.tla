-------------------------- MODULE DBHandlesProofs --------------------------
(***************************************************************************)
(* Proofs about DBHandles: what the mutex of a handle, the count of its    *)
(* users and the order of the exit handlers keep true, for any number of   *)
(* threads and databases and wherever a signal interrupts the program.     *)
(***************************************************************************)
EXTENDS DBHandles, FiniteSetTheorems, SequenceTheorems, TLAPS

\* The threads between OpenDB and CloseDB of a database.
Users(d) == {t \in Threads : uses[t] = d}

\* A thread that has locked the mutex of a handle, in OpenDB or in CloseDB.
Holds(t) == pc[t] \in {"open", "count", "commit", "free"}

\* handle->refcount counts the users, and the one that exit() interrupted.
CountInv == \A d \in Dbs : ref[d] = Cardinality(Users(d)) + (IF lost = d THEN 1 ELSE 0)

\* What a thread uses and wants, by its place in OpenDB and CloseDB.
PcInv ==
    /\ \A t \in Threads :
          /\ pc[t] \in {"lock", "open", "count", "free"} => uses[t] = None
          /\ pc[t] \in {"close", "commit"} => uses[t] # None
          /\ pc[t] # "run" => want[t] # None
          /\ uses[t] # None => want[t] = uses[t]
    /\ mode \notin {"work", "cleanup"} => pc[Main] = "run"
    /\ mode = "work" => lost = None

\* Who has locked the mutex of a handle owns it.
MutexInv == \A t \in Threads : Holds(t) => owner[want[t]] = t

\* A handle that is not initialised has no user, and a thread on its way to it
\* waits for the mutex that CloseAllDBExit keeps.
NameInv == \A d \in Dbs \ named :
    /\ ref[d] = 0
    /\ \/ table = Main /\ owner[d] = Main
       \/ \A t \in Threads : want[t] = d => pc[t] = "run"

\* The environment is open for whoever is counted, and who is about to be
\* counted has not found one that was closed.
EnvInv ==
    /\ \A t \in Threads : pc[t] = "free" => ref[want[t]] = 0
    /\ gaps \cap {"stale", "forced"} = {} =>
          /\ \A d \in Dbs : ref[d] > 0 => priv[d] = "open"
          /\ \A t \in Threads : pc[t] = "count" => priv[want[t]] # "gone"

\* CloseAllDBExit is registered before LocksCleanup, and called after it.
HookInv ==
    /\ Len(hooks) \in 0 .. 2
    /\ Len(hooks) >= 1 => hooks[1] = "CloseAllDBExit"
    /\ Len(hooks) = 2 => hooks[2] = "LocksCleanup"
    /\ mode = "work" => /\ "CloseAllDBExit" \in once <=> Len(hooks) >= 1
                        /\ "LocksCleanup" \in once <=> Len(hooks) = 2
                        /\ want[Main] # None /\ pc[Main] \notin {"lock", "open", "count"}
                              => "CloseAllDBExit" \in once
    /\ mode = "cleanup" => table = None /\ Len(hooks) = 1
    /\ mode = "grab" => "CloseAllDBExit" \in once /\ Len(hooks) = 0
    /\ mode = "sweep" => table = Main /\ at >= 1
    /\ table = Main => /\ mode \in {"sweep", "exit", "exited"}
                       /\ "CloseAllDBExit" \in once /\ Len(hooks) = 0

\* CloseAllDBExit has sealed the handles that it is past.
SweepInv ==
    table = Main /\ "forced" \notin gaps =>
        \A i \in 1 .. IF mode = "sweep" THEN at - 1 ELSE Len(DbOrder) : DbOrder[i] \notin named

\* The inductive invariant.
Inv == TypeOK /\ CountInv /\ PcInv /\ MutexInv /\ NameInv /\ EnvInv /\ HookInv /\ SweepInv

-----------------------------------------------------------------------------
(* Lemmas.                                                                 *)

\* A step inside a database changes nothing but the transactions.
LEMMA UsesOnlyTxn ==
    ASSUME TypeOK, NEW t \in Threads, NEW d \in Dbs, Uses(t, d)
    PROVE  /\ UNCHANGED <<crew, handles, pc, want, uses, exiting, gaps>>
           /\ txn' \in [Threads -> [Dbs -> {"none", "read", "write", "cursor"}]]
<1>. DEFINE S == {"none", "read", "write", "cursor"}
<1>1. UNCHANGED <<crew, handles, pc, want, uses, exiting, gaps>>
    BY DEF Uses, DBPrivRead, DBPrivWrite, DBPrivOpenCursor, DBPrivCloseCursor
<1>2. txn[t] \in [Dbs -> S]
    BY DEF TypeOK
<1>3. \A s \in S : [txn EXCEPT ![t][d] = s] \in [Threads -> [Dbs -> S]]
    BY <1>2 DEF TypeOK
<1>4. \E s \in S : txn' = [txn EXCEPT ![t][d] = s]
  <2>1. CASE DBPrivRead(t, d)
    <3>1. PICK s \in S : [txn EXCEPT ![t][d] = IF @ = "none" THEN "read" ELSE @]
                             = [txn EXCEPT ![t][d] = s]
        BY <1>2
    <3>. QED  BY <2>1, <3>1 DEF DBPrivRead
  <2>2. CASE DBPrivWrite(t, d)  BY <2>2 DEF DBPrivWrite
  <2>3. CASE DBPrivOpenCursor(t, d)  BY <2>3 DEF DBPrivOpenCursor
  <2>4. CASE DBPrivCloseCursor(t, d)  BY <2>4 DEF DBPrivCloseCursor
  <2>. QED  BY <2>1, <2>2, <2>3, <2>4 DEF Uses
<1>. QED  BY <1>1, <1>3, <1>4

\* The users of a database are finitely many, and counted.
LEMMA Counted ==
    ASSUME TypeOK, CountInv, NEW d \in Dbs
    PROVE  /\ IsFiniteSet(Users(d)) /\ Cardinality(Users(d)) \in Nat
           /\ \A t \in Threads : uses[t] = d => ref[d] >= 1
<1>1. IsFiniteSet(Threads)
    BY FS_AddElement, DBAssumption DEF Threads
<1>2. IsFiniteSet(Users(d)) /\ Cardinality(Users(d)) \in Nat
    BY <1>1, FS_Subset, FS_CardinalityType DEF Users
<1>3. \A t \in Threads : uses[t] = d => Cardinality(Users(d)) # 0
    BY <1>2, FS_EmptySet DEF Users
<1>. QED  BY <1>2, <1>3 DEF CountInv

\* A step that neither makes nor takes away a user.
LEMMA CountQuiet ==
    ASSUME CountInv, UNCHANGED <<uses, ref, lost>> PROVE CountInv'
<1>1. \A d \in Dbs : Users(d)' = Users(d)
    BY DEF Users
<1>. QED  BY <1>1 DEF CountInv

\* One user less.
LEMMA UserLeaves ==
    ASSUME TypeOK, CountInv, NEW d \in Dbs, NEW t \in Users(d),
           Users(d)' = Users(d) \ {t}, \A e \in Dbs \ {d} : Users(e)' = Users(e)
    PROVE  \A e \in Dbs : Cardinality(Users(e))' = Cardinality(Users(e)) - IF e = d THEN 1 ELSE 0
<1>. SUFFICES ASSUME NEW e \in Dbs
              PROVE  Cardinality(Users(e))' = Cardinality(Users(e)) - IF e = d THEN 1 ELSE 0
    OBVIOUS
<1>1. Cardinality(Users(d) \ {t}) = Cardinality(Users(d)) - 1
    BY Counted, FS_RemoveElement
<1>2. Users(e)' = IF e = d THEN Users(d) \ {t} ELSE Users(e)
    OBVIOUS
<1>3. Cardinality(Users(e)) \in Nat
    BY Counted
<1>. QED  BY <1>1, <1>2, <1>3

\* A thread that locks, holds or uses a handle finds it initialised: while
\* CloseAllDBExit keeps the handles locked only the other threads run.
LEMMA Named ==
    ASSUME TypeOK, CountInv, PcInv, MutexInv, NameInv, HookInv, NEW t \in Threads, Runs(t),
           \/ Holds(t) \/ uses[t] # None
           \/ pc[t] = "lock" /\ Lockable(owner[want[t]], t)
    PROVE  want[t] \in named
<1>1. want[t] \in Dbs  BY DEF TypeOK, PcInv, Holds
<1>2. CASE uses[t] # None
    BY <1>1, <1>2, Counted DEF PcInv, NameInv
<1>3. CASE uses[t] = None
  <2>1. pc[t] # "run" /\ (owner[want[t]] = Main => t = Main)
      BY <1>3, DBAssumption DEF Holds, MutexInv, Lockable, Threads
  <2>2. table = Main => t # Main
      BY DEF Runs, HookInv
  <2>. QED  BY <1>1, <2>1, <2>2 DEF NameInv
<1>. QED  BY <1>2, <1>3

-----------------------------------------------------------------------------
(* The invariant.                                                          *)

\* Every step keeps the types.
LEMMA TypeStep ==
    ASSUME TypeOK, CountInv, PcInv, HookInv, [Next]_vars
    PROVE  TypeOK'
<1>. USE DBAssumption
<1>1. ASSUME NEW t \in Threads, NEW d \in Dbs, DBHandleGet(t, d) PROVE TypeOK'
    BY <1>1 DEF DBHandleGet, Runs, Lockable, Goto, TypeOK, PcInv, HookInv, handles, threads,
        exiting
<1>2. ASSUME NEW t \in Threads, LockHandle(t) PROVE TypeOK'
    BY <1>2 DEF LockHandle, Runs, Lockable, Goto, TypeOK, PcInv, HookInv, handles, threads,
        exiting
<1>3. ASSUME NEW t \in Threads, OpenEnvironment(t) PROVE TypeOK'
  <2>1. want[t] \in Dbs
      BY <1>3 DEF OpenEnvironment, TypeOK, PcInv
  <2>2. /\ priv' \in [Dbs -> {"null", "open", "gone"}] /\ pc' \in [Threads -> {"run", "lock",
                                "open", "count", "close", "commit", "free"}]
        /\ gaps' \in SUBSET Gaps
      BY <1>3, <2>1 DEF OpenEnvironment, Goto, TypeOK, Gaps
  <2>. QED  BY <1>3, <2>2 DEF OpenEnvironment, TypeOK, exiting
<1>4. ASSUME NEW t \in Threads, CountUser(t) PROVE TypeOK'
  <2>1. want[t] \in Dbs
      BY <1>4 DEF CountUser, TypeOK, PcInv
  <2>2. once' \in SUBSET {"CloseAllDBExit", "LocksCleanup"} /\ hooks' \in Seq(once')
    <3>1. CASE priv[want[t]] = "null"
      <4>1. once' = once /\ hooks' = hooks
          BY <1>4, <3>1 DEF CountUser
      <4>. QED  BY <4>1 DEF TypeOK
    <3>2. CASE priv[want[t]] # "null" /\ "CloseAllDBExit" \in once
      <4>1. once' = once /\ hooks' = hooks
          BY <1>4, <3>2 DEF CountUser
      <4>. QED  BY <4>1 DEF TypeOK
    <3>3. CASE priv[want[t]] # "null" /\ "CloseAllDBExit" \notin once
      <4>1. /\ once' = once \cup {"CloseAllDBExit"}
            /\ hooks' = Append(hooks, "CloseAllDBExit")
          BY <1>4, <3>3 DEF CountUser
      <4>2. hooks \in Seq(once')
          BY <4>1, SeqMonotonic DEF TypeOK
      <4>. QED  BY <4>1, <4>2 DEF TypeOK
    <3>. QED  BY <3>1, <3>2, <3>3
  <2>3. /\ ref' \in [Dbs -> Nat] /\ owner' \in [Dbs -> Threads \cup {None}]
        /\ pc' \in [Threads -> {"run", "lock", "open", "count", "close", "commit", "free"}]
      BY <1>4, <2>1 DEF CountUser, Goto, TypeOK
  <2>4. /\ uses' = uses \/ uses' = [uses EXCEPT ![t] = want[t]]
        /\ want' = want \/ want' = [want EXCEPT ![t] = None]
      BY <1>4 DEF CountUser
  <2>5. want' \in [Threads -> Dbs \cup {None}]
      BY <2>4 DEF TypeOK
  <2>6. uses' \in [Threads -> Dbs \cup {None}]
      BY <2>1, <2>4 DEF TypeOK
  <2>. QED  BY <1>4, <2>2, <2>3, <2>5, <2>6 DEF CountUser, TypeOK
<1>5. ASSUME NEW t \in Threads, NEW d \in Dbs, Uses(t, d) PROVE TypeOK'
  <2>1. /\ UNCHANGED <<crew, table, named, priv, ref, owner, pc, want, uses>>
        /\ UNCHANGED <<mode, once, hooks, at, rounds, lost, gaps>>
        /\ txn' \in [Threads -> [Dbs -> {"none", "read", "write", "cursor"}]]
      BY <1>5, UsesOnlyTxn DEF handles, exiting
  <2>. QED  BY <2>1 DEF TypeOK
<1>6. ASSUME NEW t \in Threads, CloseDB(t) PROVE TypeOK'
    BY <1>6 DEF CloseDB, Runs, Goto, TypeOK, PcInv, HookInv, handles, threads, exiting
<1>7. ASSUME NEW t \in Threads, LockToClose(t) PROVE TypeOK'
    BY <1>7 DEF LockToClose, Runs, Lockable, Goto, TypeOK, PcInv, HookInv, handles, threads,
        exiting
<1>8. ASSUME NEW t \in Threads, Commit(t) PROVE TypeOK'
  <2>1. uses[t] \in Dbs /\ ref[uses[t]] - 1 \in Nat
      BY <1>8, Counted DEF Commit, TypeOK, PcInv
  <2>2. ref' \in [Dbs -> Nat] /\ owner' \in [Dbs -> Threads \cup {None}]
      BY <1>8, <2>1 DEF Commit, TypeOK
  <2>3. /\ pc' \in [Threads -> {"run", "lock", "open", "count", "close", "commit", "free"}]
        /\ uses' \in [Threads -> Dbs \cup {None}]
      BY <1>8 DEF Commit, Goto, TypeOK
  <2>4. txn' \in [Threads -> [Dbs -> {"none", "read", "write", "cursor"}]]
      BY <1>8, <2>1 DEF Commit, TypeOK
  <2>. QED  BY <1>8, <2>2, <2>3, <2>4 DEF Commit, TypeOK, exiting
<1>9. ASSUME NEW t \in Threads, FreeEnvironment(t) PROVE TypeOK'
    BY <1>9 DEF FreeEnvironment, Runs, Goto, TypeOK, PcInv, HookInv, handles, threads,
        exiting
<1>10. CASE RegisterLockCleanup
    BY <1>10 DEF RegisterLockCleanup, TypeOK, PcInv, HookInv, handles, threads, exiting
<1>11. CASE ReturnFromMain
    BY <1>11 DEF ReturnFromMain, TypeOK, PcInv, HookInv, handles, threads, exiting
<1>12. CASE Interrupt
  <2>1. /\ pc' \in [Threads -> {"run", "lock", "open", "count", "close", "commit", "free"}]
        /\ uses' \in [Threads -> Dbs \cup {None}] /\ lost' \in Dbs \cup {None}
      BY <1>12 DEF Interrupt, Goto, TypeOK, Threads
  <2>. QED  BY <1>12, <2>1 DEF Interrupt, TypeOK, handles
<1>13. CASE RunHook
    BY <1>13 DEF RunHook, TypeOK, PcInv, HookInv, handles, threads, exiting
<1>14. CASE CleanupDone
    BY <1>14 DEF CleanupDone, TypeOK, PcInv, HookInv, handles, threads, exiting
<1>15. CASE CursorAssertion
  <2>1. gaps' \in SUBSET Gaps
      BY <1>15 DEF CursorAssertion, TypeOK, Gaps
  <2>. QED  BY <1>15, <2>1 DEF CursorAssertion, TypeOK, handles, threads
<1>16. CASE GrabTable
    BY <1>16 DEF GrabTable, Lockable, TypeOK, PcInv, HookInv, handles, threads, exiting
<1>17. CASE SweepDone
    BY <1>17 DEF SweepDone, TypeOK, PcInv, HookInv, handles, threads, exiting
<1>18. ASSUME NEW d \in Dbs, SkipUnnamed(d) PROVE TypeOK'
    BY <1>18 DEF SkipUnnamed, At, NextHandle, TypeOK, PcInv, HookInv, handles, threads,
        exiting
<1>19. ASSUME NEW d \in Dbs, Wait(d) PROVE TypeOK'
    BY <1>19 DEF Wait, At, Lockable, TypeOK, PcInv, HookInv, handles, threads, exiting
<1>20. ASSUME NEW d \in Dbs, SealUnused(d) PROVE TypeOK'
  <2>1. /\ owner' \in [Dbs -> Threads \cup {None}] /\ named' \in SUBSET Dbs
        /\ at' \in 0 .. Len(DbOrder) + 1 /\ rounds' \in 0 .. MaxWait
      BY <1>20 DEF SealUnused, At, NextHandle, TypeOK, Threads
  <2>. QED  BY <1>20, <2>1 DEF SealUnused, NextHandle, TypeOK, threads
<1>21. ASSUME NEW d \in Dbs, ForceClose(d) PROVE TypeOK'
  <2>1. owner' \in [Dbs -> Threads \cup {None}] /\ priv' \in [Dbs -> {"null", "open", "gone"}]
      BY <1>21 DEF ForceClose, TypeOK, Threads
  <2>2. txn' \in [Threads -> [Dbs -> {"none", "read", "write", "cursor"}]]
      BY <1>21 DEF ForceClose, TypeOK, Threads
  <2>3. at' \in 0 .. Len(DbOrder) + 1 /\ rounds' \in 0 .. MaxWait /\ gaps' \in SUBSET Gaps
      BY <1>21 DEF ForceClose, At, NextHandle, TypeOK, Gaps
  <2>. QED  BY <1>21, <2>1, <2>2, <2>3 DEF ForceClose, NextHandle, TypeOK
<1>22. CASE UNCHANGED vars
    BY <1>22 DEF vars, TypeOK, PcInv, HookInv, handles, threads, exiting
<1>. QED  BY <1>1, <1>2, <1>3, <1>4, <1>5, <1>6, <1>7, <1>8, <1>9, <1>10, <1>11, <1>12,
    <1>13, <1>14, <1>15, <1>16, <1>17, <1>18, <1>19, <1>20, <1>21, <1>22 DEF Next, Thread,
    HoldsMutex, Sweep

\* Every step counts the users it makes or takes away.
LEMMA CountStep ==
    ASSUME TypeOK, CountInv, PcInv, TypeOK', [Next]_vars
    PROVE  CountInv'
<1>. USE DBAssumption
<1>1. ASSUME NEW t \in Threads, NEW d \in Dbs, DBHandleGet(t, d) PROVE CountInv'
    BY <1>1 DEF DBHandleGet, Runs, Lockable, Goto, CountInv, PcInv, TypeOK, Users, handles,
        threads, exiting
<1>2. ASSUME NEW t \in Threads, LockHandle(t) PROVE CountInv'
    BY <1>2 DEF LockHandle, Runs, Lockable, Goto, CountInv, PcInv, TypeOK, Users, handles,
        threads, exiting
<1>3. ASSUME NEW t \in Threads, OpenEnvironment(t) PROVE CountInv'
    BY <1>3 DEF OpenEnvironment, Runs, Goto, CountInv, PcInv, TypeOK, Users, handles,
        threads, exiting
<1>4. ASSUME NEW t \in Threads, CountUser(t) PROVE CountInv'
  <2>1. CASE priv[want[t]] = "null"
      BY <1>4, <2>1, CountQuiet DEF CountUser
  <2>2. CASE priv[want[t]] # "null"
    <3>1. PICK d \in Dbs : d = want[t] /\ t \notin Users(d)
        BY <1>4 DEF CountUser, TypeOK, PcInv, Users
    <3>2. Users(d)' = Users(d) \cup {t} /\ \A e \in Dbs \ {d} : Users(e)' = Users(e)
        BY <1>4, <2>2, <3>1 DEF CountUser, TypeOK, PcInv, Users
    <3>3. Cardinality(Users(d) \cup {t}) = Cardinality(Users(d)) + 1
        BY <3>1, Counted, FS_AddElement
    <3>4. ref' = [ref EXCEPT ![d] = @ + 1] /\ lost' = lost
        BY <1>4, <2>2, <3>1 DEF CountUser
    <3>5. \A e \in Dbs : Cardinality(Users(e)) \in Nat
        BY Counted
    <3>6. ASSUME NEW e \in Dbs
          PROVE  Cardinality(Users(e))' = Cardinality(Users(e)) + IF e = d THEN 1 ELSE 0
      <4>1. Users(e)' = IF e = d THEN Users(d) \cup {t} ELSE Users(e)
          BY <3>2
      <4>. QED  BY <3>3, <3>5, <4>1
    <3>7. \A e \in Dbs : ref'[e] = ref[e] + IF e = d THEN 1 ELSE 0
        BY <3>1, <3>4 DEF TypeOK
    <3>. QED  BY <3>1, <3>4, <3>5, <3>6, <3>7 DEF CountInv
  <2>. QED  BY <2>1, <2>2
<1>5. ASSUME NEW t \in Threads, NEW d \in Dbs, Uses(t, d) PROVE CountInv'
    BY <1>5, UsesOnlyTxn, CountQuiet DEF handles, exiting
<1>6. ASSUME NEW t \in Threads, CloseDB(t) PROVE CountInv'
    BY <1>6 DEF CloseDB, Runs, Goto, CountInv, PcInv, TypeOK, Users, handles, threads,
        exiting
<1>7. ASSUME NEW t \in Threads, LockToClose(t) PROVE CountInv'
    BY <1>7 DEF LockToClose, Runs, Lockable, Goto, CountInv, PcInv, TypeOK, Users, handles,
        threads, exiting
<1>8. ASSUME NEW t \in Threads, Commit(t) PROVE CountInv'
  <2>1. PICK d \in Dbs : d = uses[t] /\ t \in Users(d)
      BY <1>8 DEF Commit, TypeOK, PcInv, Users
  <2>2. Users(d)' = Users(d) \ {t} /\ \A e \in Dbs \ {d} : Users(e)' = Users(e)
      BY <1>8, <2>1 DEF Commit, TypeOK, Users
  <2>3. ref' = [ref EXCEPT ![d] = @ - 1] /\ lost' = lost
      BY <1>8, <2>1 DEF Commit, exiting
  <2>4. \A e \in Dbs : Cardinality(Users(e)) \in Nat
      BY Counted
  <2>5. \A e \in Dbs : Cardinality(Users(e))' = Cardinality(Users(e)) - IF e = d THEN 1 ELSE 0
      BY <2>1, <2>2, UserLeaves
  <2>6. \A e \in Dbs : ref'[e] = ref[e] - IF e = d THEN 1 ELSE 0
      BY <2>1, <2>3 DEF TypeOK
  <2>. QED  BY <2>3, <2>4, <2>5, <2>6 DEF CountInv
<1>9. ASSUME NEW t \in Threads, FreeEnvironment(t) PROVE CountInv'
    BY <1>9 DEF FreeEnvironment, Runs, Goto, CountInv, PcInv, TypeOK, Users, handles,
        threads, exiting
<1>10. CASE RegisterLockCleanup
    BY <1>10 DEF RegisterLockCleanup, CountInv, PcInv, TypeOK, Users, handles, threads,
        exiting
<1>11. CASE ReturnFromMain
    BY <1>11 DEF ReturnFromMain, CountInv, PcInv, TypeOK, Users, handles, threads, exiting
<1>12. CASE Interrupt
  <2>1. lost = None /\ lost' = uses[Main] /\ ref' = ref
      BY <1>12 DEF Interrupt, PcInv, handles
  <2>2. CASE uses[Main] = None
      BY <1>12, <2>2, <2>1, CountQuiet DEF Interrupt, TypeOK, Threads
  <2>3. CASE uses[Main] # None
    <3>1. PICK d \in Dbs : d = uses[Main] /\ Main \in Users(d)
        BY <2>3 DEF TypeOK, Users, Threads
    <3>2. Users(d)' = Users(d) \ {Main} /\ \A e \in Dbs \ {d} : Users(e)' = Users(e)
        BY <1>12, <3>1 DEF Interrupt, TypeOK, Users
    <3>3. \A e \in Dbs : Cardinality(Users(e)) \in Nat /\ ref[e] = Cardinality(Users(e))
        BY <2>1, Counted DEF CountInv
    <3>4. lost' = d /\ ref' = ref
        BY <2>1, <3>1
    <3>5. \A e \in Dbs : Cardinality(Users(e))' = Cardinality(Users(e)) - IF e = d THEN 1 ELSE 0
        BY <3>1, <3>2, UserLeaves
    <3>. QED  BY <3>3, <3>4, <3>5 DEF CountInv
  <2>. QED  BY <2>2, <2>3
<1>13. CASE RunHook
    BY <1>13 DEF RunHook, CountInv, PcInv, TypeOK, Users, handles, threads, exiting
<1>14. CASE CleanupDone
    BY <1>14 DEF CleanupDone, CountInv, PcInv, TypeOK, Users, handles, threads, exiting
<1>15. CASE CursorAssertion
    BY <1>15 DEF CursorAssertion, Accesses, Runs, CountInv, PcInv, TypeOK, Users, handles,
        threads, exiting
<1>16. CASE GrabTable
    BY <1>16 DEF GrabTable, Lockable, CountInv, PcInv, TypeOK, Users, handles, threads,
        exiting
<1>17. CASE SweepDone
    BY <1>17 DEF SweepDone, CountInv, PcInv, TypeOK, Users, handles, threads, exiting
<1>18. ASSUME NEW d \in Dbs, SkipUnnamed(d) PROVE CountInv'
    BY <1>18 DEF SkipUnnamed, At, NextHandle, CountInv, PcInv, TypeOK, Users, handles,
        threads, exiting
<1>19. ASSUME NEW d \in Dbs, Wait(d) PROVE CountInv'
    BY <1>19 DEF Wait, At, Lockable, CountInv, PcInv, TypeOK, Users, handles, threads,
        exiting
<1>20. ASSUME NEW d \in Dbs, SealUnused(d) PROVE CountInv'
    BY <1>20 DEF SealUnused, At, Lockable, NextHandle, CountInv, PcInv, TypeOK, Users,
        handles, threads, exiting
<1>21. ASSUME NEW d \in Dbs, ForceClose(d) PROVE CountInv'
    BY <1>21, CountQuiet DEF ForceClose, NextHandle
<1>22. CASE UNCHANGED vars
    BY <1>22 DEF vars, CountInv, PcInv, TypeOK, Users, handles, threads, exiting
<1>. QED  BY <1>1, <1>2, <1>3, <1>4, <1>5, <1>6, <1>7, <1>8, <1>9, <1>10, <1>11, <1>12,
    <1>13, <1>14, <1>15, <1>16, <1>17, <1>18, <1>19, <1>20, <1>21, <1>22 DEF Next, Thread,
    HoldsMutex, Sweep

\* Every step keeps PcInv.
LEMMA PcStep ==
    ASSUME TypeOK, PcInv, [Next]_vars
    PROVE  PcInv'
<1>. USE DBAssumption
<1>1. ASSUME NEW t \in Threads, NEW d \in Dbs, DBHandleGet(t, d) PROVE PcInv'
    BY <1>1 DEF DBHandleGet, Runs, Lockable, Goto, PcInv, TypeOK, Threads, handles, threads,
        exiting
<1>2. ASSUME NEW t \in Threads, LockHandle(t) PROVE PcInv'
    BY <1>2 DEF LockHandle, Runs, Lockable, Goto, PcInv, TypeOK, Threads, handles, threads,
        exiting
<1>3. ASSUME NEW t \in Threads, OpenEnvironment(t) PROVE PcInv'
    BY <1>3 DEF OpenEnvironment, Runs, Goto, PcInv, TypeOK, Threads, handles, threads,
        exiting
<1>4. ASSUME NEW t \in Threads, CountUser(t) PROVE PcInv'
    BY <1>4 DEF CountUser, Runs, Goto, PcInv, TypeOK, Threads, handles, threads, exiting
<1>5. ASSUME NEW t \in Threads, NEW d \in Dbs, Uses(t, d) PROVE PcInv'
    BY <1>5, UsesOnlyTxn DEF PcInv, TypeOK, Threads, handles, threads, exiting
<1>6. ASSUME NEW t \in Threads, CloseDB(t) PROVE PcInv'
    BY <1>6 DEF CloseDB, Runs, Goto, PcInv, TypeOK, Threads, handles, threads, exiting
<1>7. ASSUME NEW t \in Threads, LockToClose(t) PROVE PcInv'
    BY <1>7 DEF LockToClose, Runs, Lockable, Goto, PcInv, TypeOK, Threads, handles, threads,
        exiting
<1>8. ASSUME NEW t \in Threads, Commit(t) PROVE PcInv'
    BY <1>8 DEF Commit, Runs, Goto, PcInv, TypeOK, Threads, handles, threads, exiting
<1>9. ASSUME NEW t \in Threads, FreeEnvironment(t) PROVE PcInv'
    BY <1>9 DEF FreeEnvironment, Runs, Goto, PcInv, TypeOK, Threads, handles, threads,
        exiting
<1>10. CASE RegisterLockCleanup
    BY <1>10 DEF RegisterLockCleanup, PcInv, TypeOK, Threads, handles, threads, exiting
<1>11. CASE ReturnFromMain
    BY <1>11 DEF ReturnFromMain, PcInv, TypeOK, Threads, handles, threads, exiting
<1>12. CASE Interrupt
    BY <1>12 DEF Interrupt, Goto, PcInv, TypeOK, Threads, handles, threads, exiting
<1>13. CASE RunHook
    BY <1>13 DEF RunHook, PcInv, TypeOK, Threads, handles, threads, exiting
<1>14. CASE CleanupDone
    BY <1>14 DEF CleanupDone, PcInv, TypeOK, Threads, handles, threads, exiting
<1>15. CASE CursorAssertion
    BY <1>15 DEF CursorAssertion, Accesses, Runs, PcInv, TypeOK, Threads, handles, threads,
        exiting
<1>16. CASE GrabTable
    BY <1>16 DEF GrabTable, Lockable, PcInv, TypeOK, Threads, handles, threads, exiting
<1>17. CASE SweepDone
    BY <1>17 DEF SweepDone, PcInv, TypeOK, Threads, handles, threads, exiting
<1>18. ASSUME NEW d \in Dbs, SkipUnnamed(d) PROVE PcInv'
    BY <1>18 DEF SkipUnnamed, At, NextHandle, PcInv, TypeOK, Threads, handles, threads,
        exiting
<1>19. ASSUME NEW d \in Dbs, Wait(d) PROVE PcInv'
    BY <1>19 DEF Wait, At, Lockable, PcInv, TypeOK, Threads, handles, threads, exiting
<1>20. ASSUME NEW d \in Dbs, SealUnused(d) PROVE PcInv'
    BY <1>20 DEF SealUnused, At, Lockable, NextHandle, PcInv, TypeOK, Threads, handles,
        threads, exiting
<1>21. ASSUME NEW d \in Dbs, ForceClose(d) PROVE PcInv'
    BY <1>21 DEF ForceClose, At, Lockable, NextHandle, PcInv, TypeOK, Threads, handles,
        threads, exiting
<1>22. CASE UNCHANGED vars
    BY <1>22 DEF vars, PcInv, TypeOK, Threads, handles, threads, exiting
<1>. QED  BY <1>1, <1>2, <1>3, <1>4, <1>5, <1>6, <1>7, <1>8, <1>9, <1>10, <1>11, <1>12,
    <1>13, <1>14, <1>15, <1>16, <1>17, <1>18, <1>19, <1>20, <1>21, <1>22 DEF Next, Thread,
    HoldsMutex, Sweep

\* Every step keeps MutexInv.
LEMMA MutexStep ==
    ASSUME TypeOK, CountInv, PcInv, MutexInv, NameInv, HookInv, [Next]_vars
    PROVE  MutexInv'
<1>. USE DBAssumption
<1>1. ASSUME NEW t \in Threads, NEW d \in Dbs, DBHandleGet(t, d) PROVE MutexInv'
    BY <1>1 DEF DBHandleGet, Runs, Lockable, Goto, MutexInv, PcInv, HookInv, NameInv,
        TypeOK, Holds, Threads, handles, threads, exiting
<1>2. ASSUME NEW t \in Threads, LockHandle(t) PROVE MutexInv'
    BY <1>2 DEF LockHandle, Runs, Lockable, Goto, MutexInv, PcInv, HookInv, NameInv, TypeOK,
        Holds, Threads, handles, threads, exiting
<1>3. ASSUME NEW t \in Threads, OpenEnvironment(t) PROVE MutexInv'
    BY <1>3 DEF OpenEnvironment, Runs, Goto, MutexInv, PcInv, HookInv, NameInv, TypeOK,
        Holds, Threads, handles, threads, exiting
<1>4. ASSUME NEW t \in Threads, CountUser(t) PROVE MutexInv'
    BY <1>4 DEF CountUser, Runs, Goto, MutexInv, PcInv, HookInv, NameInv, TypeOK, Holds,
        Threads, handles, threads, exiting
<1>5. ASSUME NEW t \in Threads, NEW d \in Dbs, Uses(t, d) PROVE MutexInv'
    BY <1>5, UsesOnlyTxn DEF MutexInv, PcInv, HookInv, NameInv, TypeOK, Holds, Threads,
        handles, threads, exiting
<1>6. ASSUME NEW t \in Threads, CloseDB(t) PROVE MutexInv'
    BY <1>6 DEF CloseDB, Runs, Goto, MutexInv, PcInv, HookInv, NameInv, TypeOK, Holds,
        Threads, handles, threads, exiting
<1>7. ASSUME NEW t \in Threads, LockToClose(t) PROVE MutexInv'
    BY <1>7 DEF LockToClose, Runs, Lockable, Goto, MutexInv, PcInv, HookInv, NameInv,
        TypeOK, Holds, Threads, handles, threads, exiting
<1>8. ASSUME NEW t \in Threads, Commit(t) PROVE MutexInv'
    BY <1>8 DEF Commit, Runs, Goto, MutexInv, PcInv, HookInv, NameInv, TypeOK, Holds,
        Threads, handles, threads, exiting
<1>9. ASSUME NEW t \in Threads, FreeEnvironment(t) PROVE MutexInv'
    BY <1>9 DEF FreeEnvironment, Runs, Goto, MutexInv, PcInv, HookInv, NameInv, TypeOK,
        Holds, Threads, handles, threads, exiting
<1>10. CASE RegisterLockCleanup
    BY <1>10 DEF RegisterLockCleanup, MutexInv, PcInv, HookInv, NameInv, TypeOK, Holds,
        Threads, handles, threads, exiting
<1>11. CASE ReturnFromMain
    BY <1>11 DEF ReturnFromMain, MutexInv, PcInv, HookInv, NameInv, TypeOK, Holds, Threads,
        handles, threads, exiting
<1>12. CASE Interrupt
    BY <1>12 DEF Interrupt, Goto, MutexInv, PcInv, HookInv, NameInv, TypeOK, Holds, Threads,
        handles, threads, exiting
<1>13. CASE RunHook
    BY <1>13 DEF RunHook, MutexInv, PcInv, HookInv, NameInv, TypeOK, Holds, Threads,
        handles, threads, exiting
<1>14. CASE CleanupDone
    BY <1>14 DEF CleanupDone, MutexInv, PcInv, HookInv, NameInv, TypeOK, Holds, Threads,
        handles, threads, exiting
<1>15. CASE CursorAssertion
    BY <1>15 DEF CursorAssertion, Accesses, Runs, MutexInv, PcInv, HookInv, NameInv, TypeOK,
        Holds, Threads, handles, threads, exiting
<1>16. CASE GrabTable
    BY <1>16 DEF GrabTable, Lockable, MutexInv, PcInv, HookInv, NameInv, TypeOK, Holds,
        Threads, handles, threads, exiting
<1>17. CASE SweepDone
    BY <1>17 DEF SweepDone, MutexInv, PcInv, HookInv, NameInv, TypeOK, Holds, Threads,
        handles, threads, exiting
<1>18. ASSUME NEW d \in Dbs, SkipUnnamed(d) PROVE MutexInv'
    BY <1>18 DEF SkipUnnamed, At, NextHandle, MutexInv, PcInv, HookInv, NameInv, TypeOK,
        Holds, Threads, handles, threads, exiting
<1>19. ASSUME NEW d \in Dbs, Wait(d) PROVE MutexInv'
    BY <1>19 DEF Wait, At, Lockable, MutexInv, PcInv, HookInv, NameInv, TypeOK, Holds,
        Threads, handles, threads, exiting
<1>20. ASSUME NEW d \in Dbs, SealUnused(d) PROVE MutexInv'
    BY <1>20 DEF SealUnused, At, Lockable, NextHandle, MutexInv, PcInv, HookInv, NameInv,
        TypeOK, Holds, Threads, handles, threads, exiting
<1>21. ASSUME NEW d \in Dbs, ForceClose(d) PROVE MutexInv'
    BY <1>21 DEF ForceClose, At, Lockable, NextHandle, MutexInv, PcInv, HookInv, NameInv,
        TypeOK, Holds, Threads, handles, threads, exiting
<1>22. CASE UNCHANGED vars
    BY <1>22 DEF vars, MutexInv, PcInv, HookInv, NameInv, TypeOK, Holds, Threads, handles,
        threads, exiting
<1>. QED  BY <1>1, <1>2, <1>3, <1>4, <1>5, <1>6, <1>7, <1>8, <1>9, <1>10, <1>11, <1>12,
    <1>13, <1>14, <1>15, <1>16, <1>17, <1>18, <1>19, <1>20, <1>21, <1>22 DEF Next, Thread,
    HoldsMutex, Sweep

\* Every step keeps NameInv.
LEMMA NameStep ==
    ASSUME TypeOK, CountInv, PcInv, MutexInv, NameInv, HookInv, [Next]_vars
    PROVE  NameInv'
<1>. USE DBAssumption
<1>1. ASSUME NEW t \in Threads, NEW d \in Dbs, DBHandleGet(t, d) PROVE NameInv'
    BY <1>1 DEF DBHandleGet, Runs, Lockable, Goto, NameInv, PcInv, HookInv, TypeOK, Holds,
        Threads, handles, threads, exiting
<1>2. ASSUME NEW t \in Threads, LockHandle(t) PROVE NameInv'
    BY <1>2, Named DEF LockHandle, Runs, Lockable, Goto, NameInv, PcInv, HookInv, TypeOK,
        Holds, Threads, handles, threads, exiting
<1>3. ASSUME NEW t \in Threads, OpenEnvironment(t) PROVE NameInv'
    BY <1>3, Named DEF OpenEnvironment, Runs, Goto, NameInv, PcInv, HookInv, TypeOK, Holds,
        Threads, handles, threads, exiting
<1>4. ASSUME NEW t \in Threads, CountUser(t) PROVE NameInv'
    BY <1>4, Named DEF CountUser, Runs, Goto, NameInv, PcInv, HookInv, TypeOK, Holds,
        Threads, handles, threads, exiting
<1>5. ASSUME NEW t \in Threads, NEW d \in Dbs, Uses(t, d) PROVE NameInv'
    BY <1>5, UsesOnlyTxn DEF NameInv, PcInv, HookInv, TypeOK, Holds, Threads, handles,
        threads, exiting
<1>6. ASSUME NEW t \in Threads, CloseDB(t) PROVE NameInv'
    BY <1>6, Named DEF CloseDB, Runs, Goto, NameInv, PcInv, HookInv, TypeOK, Holds, Threads,
        handles, threads, exiting
<1>7. ASSUME NEW t \in Threads, LockToClose(t) PROVE NameInv'
    BY <1>7, Named DEF LockToClose, Runs, Lockable, Goto, NameInv, PcInv, HookInv, TypeOK,
        Holds, Threads, handles, threads, exiting
<1>8. ASSUME NEW t \in Threads, Commit(t) PROVE NameInv'
    BY <1>8, Named DEF Commit, Runs, Goto, NameInv, PcInv, HookInv, TypeOK, Holds, Threads,
        handles, threads, exiting
<1>9. ASSUME NEW t \in Threads, FreeEnvironment(t) PROVE NameInv'
    BY <1>9, Named DEF FreeEnvironment, Runs, Goto, NameInv, PcInv, HookInv, TypeOK, Holds,
        Threads, handles, threads, exiting
<1>10. CASE RegisterLockCleanup
    BY <1>10 DEF RegisterLockCleanup, NameInv, PcInv, HookInv, TypeOK, Holds, Threads,
        handles, threads, exiting
<1>11. CASE ReturnFromMain
    BY <1>11 DEF ReturnFromMain, NameInv, PcInv, HookInv, TypeOK, Holds, Threads, handles,
        threads, exiting
<1>12. CASE Interrupt
    BY <1>12 DEF Interrupt, Goto, NameInv, PcInv, HookInv, TypeOK, Holds, Threads, handles,
        threads, exiting
<1>13. CASE RunHook
    BY <1>13 DEF RunHook, NameInv, PcInv, HookInv, TypeOK, Holds, Threads, handles, threads,
        exiting
<1>14. CASE CleanupDone
    BY <1>14 DEF CleanupDone, NameInv, PcInv, HookInv, TypeOK, Holds, Threads, handles,
        threads, exiting
<1>15. CASE CursorAssertion
    BY <1>15 DEF CursorAssertion, Accesses, Runs, NameInv, PcInv, HookInv, TypeOK, Holds,
        Threads, handles, threads, exiting
<1>16. CASE GrabTable
    BY <1>16 DEF GrabTable, Lockable, NameInv, PcInv, HookInv, TypeOK, Holds, Threads,
        handles, threads, exiting
<1>17. CASE SweepDone
    BY <1>17 DEF SweepDone, NameInv, PcInv, HookInv, TypeOK, Holds, Threads, handles,
        threads, exiting
<1>18. ASSUME NEW d \in Dbs, SkipUnnamed(d) PROVE NameInv'
    BY <1>18 DEF SkipUnnamed, At, NextHandle, NameInv, PcInv, HookInv, TypeOK, Holds,
        Threads, handles, threads, exiting
<1>19. ASSUME NEW d \in Dbs, Wait(d) PROVE NameInv'
    BY <1>19 DEF Wait, At, Lockable, NameInv, PcInv, HookInv, TypeOK, Holds, Threads,
        handles, threads, exiting
<1>20. ASSUME NEW d \in Dbs, SealUnused(d) PROVE NameInv'
    BY <1>20 DEF SealUnused, At, Lockable, NextHandle, NameInv, PcInv, HookInv, TypeOK,
        Holds, Threads, handles, threads, exiting
<1>21. ASSUME NEW d \in Dbs, ForceClose(d) PROVE NameInv'
    BY <1>21 DEF ForceClose, At, Lockable, NextHandle, NameInv, PcInv, HookInv, TypeOK,
        Holds, Threads, handles, threads, exiting
<1>22. CASE UNCHANGED vars
    BY <1>22 DEF vars, NameInv, PcInv, HookInv, TypeOK, Holds, Threads, handles, threads,
        exiting
<1>. QED  BY <1>1, <1>2, <1>3, <1>4, <1>5, <1>6, <1>7, <1>8, <1>9, <1>10, <1>11, <1>12,
    <1>13, <1>14, <1>15, <1>16, <1>17, <1>18, <1>19, <1>20, <1>21, <1>22 DEF Next, Thread,
    HoldsMutex, Sweep

\* Every step keeps EnvInv.
LEMMA EnvStep ==
    ASSUME TypeOK, CountInv, PcInv, MutexInv, EnvInv, [Next]_vars
    PROVE  EnvInv'
<1>. USE DBAssumption
<1>1. ASSUME NEW t \in Threads, NEW d \in Dbs, DBHandleGet(t, d) PROVE EnvInv'
    BY <1>1 DEF DBHandleGet, Runs, Lockable, Goto, EnvInv, PcInv, MutexInv, TypeOK, Holds,
        Gaps, handles, threads, exiting
<1>2. ASSUME NEW t \in Threads, LockHandle(t) PROVE EnvInv'
    BY <1>2 DEF LockHandle, Runs, Lockable, Goto, EnvInv, PcInv, MutexInv, TypeOK, Holds,
        Gaps, handles, threads, exiting
<1>3. ASSUME NEW t \in Threads, OpenEnvironment(t) PROVE EnvInv'
  <2>1. PICK d \in Dbs : d = want[t] /\ owner[d] = t /\ Holds(t)
      BY <1>3 DEF OpenEnvironment, TypeOK, PcInv, MutexInv, Holds
  <2>2. \A u \in Threads \ {t} : Holds(u) => want[u] # d
      BY <2>1 DEF MutexInv
  <2>3. /\ pc' = [pc EXCEPT ![t] = "count"] /\ UNCHANGED <<ref, want>>
        /\ \A e \in Dbs \ {d} : priv'[e] = priv[e]
        /\ ref[d] > 0 => priv' = priv
        /\ gaps \subseteq gaps'
      BY <1>3, <2>1 DEF OpenEnvironment, Goto, TypeOK
  <2>4. ASSUME gaps' \cap {"stale", "forced"} = {}, ref[d] = 0 PROVE priv'[d] # "gone"
    <3>1. \/ priv' \in {[priv EXCEPT ![d] = "open"], [priv EXCEPT ![d] = "null"]}
          \/ priv' = priv /\ (priv[d] = "gone" => "stale" \in gaps')
        BY <1>3, <2>1, <2>4 DEF OpenEnvironment
    <3>. QED  BY <2>1, <2>4, <3>1 DEF TypeOK
  <2>5. \A u \in Threads : pc'[u] = "free" => ref[want[u]] = 0
      BY <2>3 DEF EnvInv, TypeOK
  <2>6. ASSUME gaps' \cap {"stale", "forced"} = {}
        PROVE  /\ \A e \in Dbs : ref[e] > 0 => priv'[e] = "open"
               /\ \A u \in Threads : pc'[u] = "count" => priv'[want[u]] # "gone"
    <3>1. /\ \A e \in Dbs : ref[e] > 0 => priv[e] = "open"
          /\ \A u \in Threads : pc[u] = "count" => priv[want[u]] # "gone"
        BY <2>3, <2>6 DEF EnvInv
    <3>2. \A e \in Dbs : ref[e] > 0 => priv'[e] = "open"
        BY <2>1, <2>3, <3>1
    <3>3. priv'[d] # "gone"
        BY <2>1, <2>3, <2>4, <2>6, <3>1 DEF TypeOK
    <3>4. \A u \in Threads \ {t} : pc[u] = "count" => want[u] \in Dbs \ {d}
        BY <2>2 DEF TypeOK, PcInv, Holds
    <3>. QED  BY <2>1, <2>3, <3>1, <3>2, <3>3, <3>4 DEF TypeOK
  <2>. QED  BY <2>3, <2>5, <2>6 DEF EnvInv
<1>4. ASSUME NEW t \in Threads, CountUser(t) PROVE EnvInv'
  <2>1. PICK d \in Dbs : d = want[t] /\ owner[d] = t /\ Holds(t)
      BY <1>4 DEF CountUser, TypeOK, PcInv, MutexInv, Holds
  <2>2. \A u \in Threads \ {t} : Holds(u) => want[u] # d
      BY <2>1 DEF MutexInv
  <2>3. /\ pc' = [pc EXCEPT ![t] = "run"] /\ UNCHANGED <<priv, gaps>>
        /\ \A u \in Threads \ {t} : want'[u] = want[u]
        /\ \A e \in Dbs \ {d} : ref'[e] = ref[e]
        /\ ref'[d] > 0 /\ ref[d] = 0 => priv[d] # "null"
      BY <1>4, <2>1 DEF CountUser, Goto, TypeOK
  <2>4. \A u \in Threads : pc'[u] \in {"free", "count"} =>
            u # t /\ pc[u] = pc'[u] /\ want[u] \in Dbs \ {d} /\ want'[u] = want[u]
      BY <2>2, <2>3 DEF TypeOK, PcInv, Holds
  <2>5. gaps \cap {"stale", "forced"} = {} /\ ref'[d] > 0 => priv[d] = "open"
      BY <1>4, <2>1, <2>3 DEF CountUser, EnvInv, TypeOK
  <2>6. \A u \in Threads : pc'[u] \in {"free", "count"} =>
            ref'[want'[u]] = ref[want[u]] /\ priv'[want'[u]] = priv[want[u]]
      BY <2>3, <2>4
  <2>7. \A u \in Threads : pc'[u] = "free" => ref'[want'[u]] = 0
      BY <2>4, <2>6 DEF EnvInv
  <2>8. ASSUME gaps' \cap {"stale", "forced"} = {}
        PROVE  /\ \A e \in Dbs : ref'[e] > 0 => priv'[e] = "open"
               /\ \A u \in Threads : pc'[u] = "count" => priv'[want'[u]] # "gone"
      BY <2>3, <2>4, <2>5, <2>6, <2>8 DEF EnvInv
  <2>. QED  BY <2>7, <2>8 DEF EnvInv
<1>5. ASSUME NEW t \in Threads, NEW d \in Dbs, Uses(t, d) PROVE EnvInv'
    BY <1>5, UsesOnlyTxn DEF EnvInv, PcInv, MutexInv, TypeOK, Holds, Gaps, handles, threads,
        exiting
<1>6. ASSUME NEW t \in Threads, CloseDB(t) PROVE EnvInv'
    BY <1>6 DEF CloseDB, Runs, Goto, EnvInv, PcInv, MutexInv, TypeOK, Holds, Gaps, handles,
        threads, exiting
<1>7. ASSUME NEW t \in Threads, LockToClose(t) PROVE EnvInv'
    BY <1>7 DEF LockToClose, Runs, Lockable, Goto, EnvInv, PcInv, MutexInv, TypeOK, Holds,
        Gaps, handles, threads, exiting
<1>8. ASSUME NEW t \in Threads, Commit(t) PROVE EnvInv'
    BY <1>8 DEF Commit, Runs, Goto, EnvInv, PcInv, MutexInv, TypeOK, Holds, Gaps, handles,
        threads, exiting
<1>9. ASSUME NEW t \in Threads, FreeEnvironment(t) PROVE EnvInv'
    BY <1>9 DEF FreeEnvironment, Runs, Goto, EnvInv, PcInv, MutexInv, TypeOK, Holds, Gaps,
        handles, threads, exiting
<1>10. CASE RegisterLockCleanup
    BY <1>10 DEF RegisterLockCleanup, EnvInv, PcInv, MutexInv, TypeOK, Holds, Gaps, handles,
        threads, exiting
<1>11. CASE ReturnFromMain
    BY <1>11 DEF ReturnFromMain, EnvInv, PcInv, MutexInv, TypeOK, Holds, Gaps, handles,
        threads, exiting
<1>12. CASE Interrupt
    BY <1>12 DEF Interrupt, Goto, EnvInv, PcInv, MutexInv, TypeOK, Holds, Gaps, handles,
        threads, exiting
<1>13. CASE RunHook
    BY <1>13 DEF RunHook, EnvInv, PcInv, MutexInv, TypeOK, Holds, Gaps, handles, threads,
        exiting
<1>14. CASE CleanupDone
    BY <1>14 DEF CleanupDone, EnvInv, PcInv, MutexInv, TypeOK, Holds, Gaps, handles,
        threads, exiting
<1>15. CASE CursorAssertion
    BY <1>15 DEF CursorAssertion, Accesses, Runs, EnvInv, PcInv, MutexInv, TypeOK, Holds,
        Gaps, handles, threads, exiting
<1>16. CASE GrabTable
    BY <1>16 DEF GrabTable, Lockable, EnvInv, PcInv, MutexInv, TypeOK, Holds, Gaps, handles,
        threads, exiting
<1>17. CASE SweepDone
    BY <1>17 DEF SweepDone, EnvInv, PcInv, MutexInv, TypeOK, Holds, Gaps, handles, threads,
        exiting
<1>18. ASSUME NEW d \in Dbs, SkipUnnamed(d) PROVE EnvInv'
    BY <1>18 DEF SkipUnnamed, At, NextHandle, EnvInv, PcInv, MutexInv, TypeOK, Holds, Gaps,
        handles, threads, exiting
<1>19. ASSUME NEW d \in Dbs, Wait(d) PROVE EnvInv'
    BY <1>19 DEF Wait, At, Lockable, EnvInv, PcInv, MutexInv, TypeOK, Holds, Gaps, handles,
        threads, exiting
<1>20. ASSUME NEW d \in Dbs, SealUnused(d) PROVE EnvInv'
    BY <1>20 DEF SealUnused, At, Lockable, NextHandle, EnvInv, PcInv, MutexInv, TypeOK,
        Holds, Gaps, handles, threads, exiting
<1>21. ASSUME NEW d \in Dbs, ForceClose(d) PROVE EnvInv'
    BY <1>21 DEF ForceClose, At, Lockable, NextHandle, EnvInv, PcInv, MutexInv, TypeOK,
        Holds, Gaps, handles, threads, exiting
<1>22. CASE UNCHANGED vars
    BY <1>22 DEF vars, EnvInv, PcInv, MutexInv, TypeOK, Holds, Gaps, handles, threads,
        exiting
<1>. QED  BY <1>1, <1>2, <1>3, <1>4, <1>5, <1>6, <1>7, <1>8, <1>9, <1>10, <1>11, <1>12,
    <1>13, <1>14, <1>15, <1>16, <1>17, <1>18, <1>19, <1>20, <1>21, <1>22 DEF Next, Thread,
    HoldsMutex, Sweep

\* Every step keeps HookInv.
LEMMA HookStep ==
    ASSUME TypeOK, PcInv, HookInv, [Next]_vars
    PROVE  HookInv'
<1>. USE DBAssumption
<1>1. ASSUME NEW t \in Threads, NEW d \in Dbs, DBHandleGet(t, d) PROVE HookInv'
    BY <1>1 DEF DBHandleGet, Runs, Lockable, Goto, HookInv, PcInv, TypeOK, Threads, handles,
        threads, exiting
<1>2. ASSUME NEW t \in Threads, LockHandle(t) PROVE HookInv'
    BY <1>2 DEF LockHandle, Runs, Lockable, Goto, HookInv, PcInv, TypeOK, Threads, handles,
        threads, exiting
<1>3. ASSUME NEW t \in Threads, OpenEnvironment(t) PROVE HookInv'
    BY <1>3 DEF OpenEnvironment, Runs, Goto, HookInv, PcInv, TypeOK, Threads, handles,
        threads, exiting
<1>4. ASSUME NEW t \in Threads, CountUser(t) PROVE HookInv'
  <2>1. CASE priv[want[t]] = "null"
      BY <1>4, <2>1 DEF CountUser, Goto, HookInv, PcInv, TypeOK, Threads
  <2>2. CASE priv[want[t]] # "null" /\ "CloseAllDBExit" \in once
      BY <1>4, <2>2 DEF CountUser, Goto, HookInv, PcInv, TypeOK, Threads
  <2>3. CASE priv[want[t]] # "null" /\ "CloseAllDBExit" \notin once
    <3>1. /\ once' = once \cup {"CloseAllDBExit"} /\ hooks' = Append(hooks, "CloseAllDBExit")
          /\ UNCHANGED <<table, mode, at>>
        BY <1>4, <2>3 DEF CountUser
    <3>2. hooks = <<>>
        BY <2>3 DEF HookInv, TypeOK
    <3>3. Len(hooks') = 1 /\ hooks'[1] = "CloseAllDBExit"
        BY <3>1, <3>2
    <3>4. Len(hooks) = 0
        BY <3>2
    <3>5. "LocksCleanup" \in once' <=> "LocksCleanup" \in once
        BY <3>1
    <3>6. "LocksCleanup" \in once => mode # "work"
        BY <3>4 DEF HookInv
    <3>7. mode \notin {"cleanup", "grab"} /\ table # Main
        BY <2>3, <3>4 DEF HookInv
    <3>. QED  BY <3>1, <3>3, <3>4, <3>5, <3>6, <3>7 DEF HookInv
  <2>. QED  BY <2>1, <2>2, <2>3
<1>5. ASSUME NEW t \in Threads, NEW d \in Dbs, Uses(t, d) PROVE HookInv'
    BY <1>5, UsesOnlyTxn DEF HookInv, PcInv, TypeOK, Threads, handles, threads, exiting
<1>6. ASSUME NEW t \in Threads, CloseDB(t) PROVE HookInv'
    BY <1>6 DEF CloseDB, Runs, Goto, HookInv, PcInv, TypeOK, Threads, handles, threads,
        exiting
<1>7. ASSUME NEW t \in Threads, LockToClose(t) PROVE HookInv'
    BY <1>7 DEF LockToClose, Runs, Lockable, Goto, HookInv, PcInv, TypeOK, Threads, handles,
        threads, exiting
<1>8. ASSUME NEW t \in Threads, Commit(t) PROVE HookInv'
    BY <1>8 DEF Commit, Runs, Goto, HookInv, PcInv, TypeOK, Threads, handles, threads,
        exiting
<1>9. ASSUME NEW t \in Threads, FreeEnvironment(t) PROVE HookInv'
    BY <1>9 DEF FreeEnvironment, Runs, Goto, HookInv, PcInv, TypeOK, Threads, handles,
        threads, exiting
<1>10. CASE RegisterLockCleanup
  <2>1. "CloseAllDBExit" \in once /\ "LocksCleanup" \notin once /\ mode = "work"
      BY <1>10 DEF RegisterLockCleanup, HookInv, TypeOK
  <2>2. Len(hooks) = 1 /\ hooks[1] = "CloseAllDBExit"
      BY <2>1 DEF HookInv
  <2>3. hooks' = Append(hooks, "LocksCleanup") /\ once' = once \cup {"LocksCleanup"}
      BY <1>10 DEF RegisterLockCleanup
  <2>4. Len(hooks') = 2 /\ hooks'[1] = "CloseAllDBExit" /\ hooks'[2] = "LocksCleanup"
    <3>1. hooks \in Seq(once')
        BY <2>3, SeqMonotonic DEF TypeOK
    <3>2. "LocksCleanup" \in once'
        BY <2>3
    <3>3. /\ Len(hooks') = Len(hooks) + 1 /\ hooks'[Len(hooks) + 1] = "LocksCleanup"
          /\ \A i \in 1 .. Len(hooks) : hooks'[i] = hooks[i]
        BY <2>3, <3>1, <3>2, AppendProperties
    <3>. QED  BY <2>2, <3>3
  <2>5. UNCHANGED <<mode, table, at, want, pc>>
      BY <1>10 DEF RegisterLockCleanup, handles, threads
  <2>6. table # Main
      BY <2>2 DEF HookInv
  <2>. QED  BY <2>1, <2>3, <2>4, <2>5, <2>6 DEF HookInv
<1>11. CASE ReturnFromMain
    BY <1>11 DEF ReturnFromMain, HookInv, PcInv, TypeOK, Threads, handles, threads, exiting
<1>12. CASE Interrupt
    BY <1>12 DEF Interrupt, Goto, HookInv, PcInv, TypeOK, Threads, handles, threads, exiting
<1>13. CASE RunHook
  <2>1. mode = "exit" /\ UNCHANGED <<table, once, at, want, pc>>
      BY <1>13 DEF RunHook, handles, threads
  <2>2. CASE hooks = <<>>
    <3>1. mode' = "exited" /\ hooks' = hooks
        BY <1>13, <2>2 DEF RunHook
    <3>. QED  BY <2>1, <3>1 DEF HookInv
  <2>3. CASE hooks # <<>>
    <3>1. /\ mode' = IF hooks[Len(hooks)] = "LocksCleanup" THEN "cleanup" ELSE "grab"
          /\ hooks' = SubSeq(hooks, 1, Len(hooks) - 1)
        BY <1>13, <2>3 DEF RunHook
    <3>2. Len(hooks) \in 1 .. 2 /\ table # Main /\ table = None
        BY <2>3 DEF HookInv, TypeOK
    <3>3. /\ Len(hooks') = Len(hooks) - 1
          /\ Len(hooks) = 2 => hooks'[1] = hooks[1]
      <4>1. hooks \in Seq(once)
          BY DEF TypeOK
      <4>2. \A i \in 1 .. Len(hooks) - 1 : hooks[i] \in once
          BY <4>1
      <4>3. PICK n \in Int : n = Len(hooks) - 1
          BY <3>2
      <4>4. /\ Len(hooks') = IF 1 <= n THEN n - 1 + 1 ELSE 0
            /\ \A i \in 1 .. n - 1 + 1 : hooks'[i] = hooks[1 + i - 1]
          BY <3>1, <4>2, <4>3, SubSeqProperties
      <4>. QED  BY <3>2, <4>3, <4>4
    <3>4. hooks[1] \in once /\ hooks[1] = "CloseAllDBExit"
        BY <3>2 DEF HookInv, TypeOK
    <3>5. /\ Len(hooks) = 1 => mode' = "grab"
          /\ Len(hooks) = 2 => mode' = "cleanup"
        BY <3>1, <3>2, <3>4 DEF HookInv
    <3>6. Len(hooks') \in 0 .. 1 /\ (Len(hooks') = 1 => hooks'[1] = "CloseAllDBExit")
        BY <3>2, <3>3, <3>4
    <3>7. /\ mode' = "grab" => Len(hooks') = 0
          /\ mode' = "cleanup" => Len(hooks') = 1
          /\ mode' \in {"grab", "cleanup"}
        BY <3>2, <3>3, <3>5
    <3>. QED  BY <2>1, <3>2, <3>4, <3>6, <3>7 DEF HookInv
  <2>. QED  BY <2>2, <2>3
<1>14. CASE CleanupDone
    BY <1>14 DEF CleanupDone, HookInv, PcInv, TypeOK, Threads, handles, threads, exiting
<1>15. CASE CursorAssertion
    BY <1>15 DEF CursorAssertion, Accesses, Runs, HookInv, PcInv, TypeOK, Threads, handles,
        threads, exiting
<1>16. CASE GrabTable
    BY <1>16 DEF GrabTable, Lockable, HookInv, PcInv, TypeOK, Threads, handles, threads,
        exiting
<1>17. CASE SweepDone
    BY <1>17 DEF SweepDone, HookInv, PcInv, TypeOK, Threads, handles, threads, exiting
<1>18. ASSUME NEW d \in Dbs, SkipUnnamed(d) PROVE HookInv'
    BY <1>18 DEF SkipUnnamed, At, NextHandle, HookInv, PcInv, TypeOK, Threads, handles,
        threads, exiting
<1>19. ASSUME NEW d \in Dbs, Wait(d) PROVE HookInv'
    BY <1>19 DEF Wait, At, Lockable, HookInv, PcInv, TypeOK, Threads, handles, threads,
        exiting
<1>20. ASSUME NEW d \in Dbs, SealUnused(d) PROVE HookInv'
    BY <1>20 DEF SealUnused, At, Lockable, NextHandle, HookInv, PcInv, TypeOK, Threads,
        handles, threads, exiting
<1>21. ASSUME NEW d \in Dbs, ForceClose(d) PROVE HookInv'
    BY <1>21 DEF ForceClose, At, Lockable, NextHandle, HookInv, PcInv, TypeOK, Threads,
        handles, threads, exiting
<1>22. CASE UNCHANGED vars
    BY <1>22 DEF vars, HookInv, PcInv, TypeOK, Threads, handles, threads, exiting
<1>. QED  BY <1>1, <1>2, <1>3, <1>4, <1>5, <1>6, <1>7, <1>8, <1>9, <1>10, <1>11, <1>12,
    <1>13, <1>14, <1>15, <1>16, <1>17, <1>18, <1>19, <1>20, <1>21, <1>22 DEF Next, Thread,
    HoldsMutex, Sweep

\* Every step keeps SweepInv.
LEMMA SweepStep ==
    ASSUME TypeOK, HookInv, SweepInv, [Next]_vars
    PROVE  SweepInv'
<1>. USE DBAssumption
<1>1. ASSUME NEW t \in Threads, NEW d \in Dbs, DBHandleGet(t, d) PROVE SweepInv'
    BY <1>1 DEF DBHandleGet, Runs, Lockable, Goto, SweepInv, HookInv, TypeOK, Threads, Dbs,
        handles, threads, exiting
<1>2. ASSUME NEW t \in Threads, LockHandle(t) PROVE SweepInv'
    BY <1>2 DEF LockHandle, Runs, Lockable, Goto, SweepInv, HookInv, TypeOK, Threads, Dbs,
        handles, threads, exiting
<1>3. ASSUME NEW t \in Threads, OpenEnvironment(t) PROVE SweepInv'
    BY <1>3 DEF OpenEnvironment, Runs, Goto, SweepInv, HookInv, TypeOK, Threads, Dbs,
        handles, threads, exiting
<1>4. ASSUME NEW t \in Threads, CountUser(t) PROVE SweepInv'
    BY <1>4 DEF CountUser, Runs, Goto, SweepInv, HookInv, TypeOK, Threads, Dbs, handles,
        threads, exiting
<1>5. ASSUME NEW t \in Threads, NEW d \in Dbs, Uses(t, d) PROVE SweepInv'
    BY <1>5, UsesOnlyTxn DEF SweepInv, HookInv, TypeOK, Threads, Dbs, handles, threads,
        exiting
<1>6. ASSUME NEW t \in Threads, CloseDB(t) PROVE SweepInv'
    BY <1>6 DEF CloseDB, Runs, Goto, SweepInv, HookInv, TypeOK, Threads, Dbs, handles,
        threads, exiting
<1>7. ASSUME NEW t \in Threads, LockToClose(t) PROVE SweepInv'
    BY <1>7 DEF LockToClose, Runs, Lockable, Goto, SweepInv, HookInv, TypeOK, Threads, Dbs,
        handles, threads, exiting
<1>8. ASSUME NEW t \in Threads, Commit(t) PROVE SweepInv'
    BY <1>8 DEF Commit, Runs, Goto, SweepInv, HookInv, TypeOK, Threads, Dbs, handles,
        threads, exiting
<1>9. ASSUME NEW t \in Threads, FreeEnvironment(t) PROVE SweepInv'
    BY <1>9 DEF FreeEnvironment, Runs, Goto, SweepInv, HookInv, TypeOK, Threads, Dbs,
        handles, threads, exiting
<1>10. CASE RegisterLockCleanup
    BY <1>10 DEF RegisterLockCleanup, SweepInv, HookInv, TypeOK, Threads, Dbs, handles,
        threads, exiting
<1>11. CASE ReturnFromMain
    BY <1>11 DEF ReturnFromMain, SweepInv, HookInv, TypeOK, Threads, Dbs, handles, threads,
        exiting
<1>12. CASE Interrupt
    BY <1>12 DEF Interrupt, Goto, SweepInv, HookInv, TypeOK, Threads, Dbs, handles, threads,
        exiting
<1>13. CASE RunHook
    BY <1>13 DEF RunHook, SweepInv, HookInv, TypeOK, Threads, Dbs, handles, threads, exiting
<1>14. CASE CleanupDone
    BY <1>14 DEF CleanupDone, SweepInv, HookInv, TypeOK, Threads, Dbs, handles, threads,
        exiting
<1>15. CASE CursorAssertion
    BY <1>15 DEF CursorAssertion, Accesses, Runs, SweepInv, HookInv, TypeOK, Threads, Dbs,
        handles, threads, exiting
<1>16. CASE GrabTable
    BY <1>16 DEF GrabTable, Lockable, SweepInv, HookInv, TypeOK, Threads, Dbs, handles,
        threads, exiting
<1>17. CASE SweepDone
    BY <1>17 DEF SweepDone, SweepInv, HookInv, TypeOK, Threads, Dbs, handles, threads,
        exiting
<1>18. ASSUME NEW d \in Dbs, SkipUnnamed(d) PROVE SweepInv'
    BY <1>18 DEF SkipUnnamed, At, NextHandle, SweepInv, HookInv, TypeOK, Threads, Dbs,
        handles, threads, exiting
<1>19. ASSUME NEW d \in Dbs, Wait(d) PROVE SweepInv'
    BY <1>19 DEF Wait, At, Lockable, SweepInv, HookInv, TypeOK, Threads, Dbs, handles,
        threads, exiting
<1>20. ASSUME NEW d \in Dbs, SealUnused(d) PROVE SweepInv'
  <2>1. /\ mode = "sweep" /\ d = DbOrder[at] /\ at \in Nat /\ named' = named \ {d}
        /\ at' = at + 1 /\ UNCHANGED <<mode, table, gaps>>
      BY <1>20 DEF SealUnused, At, NextHandle, TypeOK
  <2>2. ASSUME table = Main, "forced" \notin gaps, NEW i \in 1 .. at
        PROVE  DbOrder[i] \notin named'
      BY <2>1, <2>2 DEF SweepInv
  <2>. QED  BY <2>1, <2>2 DEF SweepInv
<1>21. ASSUME NEW d \in Dbs, ForceClose(d) PROVE SweepInv'
    BY <1>21 DEF ForceClose, At, Lockable, NextHandle, SweepInv, HookInv, TypeOK, Threads,
        Dbs, handles, threads, exiting
<1>22. CASE UNCHANGED vars
    BY <1>22 DEF vars, SweepInv, HookInv, TypeOK, Threads, Dbs, handles, threads, exiting
<1>. QED  BY <1>1, <1>2, <1>3, <1>4, <1>5, <1>6, <1>7, <1>8, <1>9, <1>10, <1>11, <1>12,
    <1>13, <1>14, <1>15, <1>16, <1>17, <1>18, <1>19, <1>20, <1>21, <1>22 DEF Next, Thread,
    HoldsMutex, Sweep

-----------------------------------------------------------------------------
\* The invariant holds when the process starts.
LEMMA InvInit == Init => Inv
<1>. SUFFICES ASSUME Init PROVE Inv  OBVIOUS
<1>. USE DBAssumption
<1>1. TypeOK
  <2>1. /\ priv \in [Dbs -> {"null", "open", "gone"}] /\ ref \in [Dbs -> Nat]
        /\ owner \in [Dbs -> Threads \cup {None}]
      BY DEF Init
  <2>2. /\ pc \in [Threads -> {"run", "lock", "open", "count", "close", "commit", "free"}]
        /\ want \in [Threads -> Dbs \cup {None}] /\ uses \in [Threads -> Dbs \cup {None}]
      BY DEF Init
  <2>3. txn \in [Threads -> [Dbs -> {"none", "read", "write", "cursor"}]]
      BY DEF Init
  <2>4. /\ crew \in SUBSET Workers /\ named \in SUBSET Dbs /\ gaps \in SUBSET Gaps
        /\ once \in SUBSET {"CloseAllDBExit", "LocksCleanup"}
        /\ table = None /\ lost = None /\ mode = "work"
      BY DEF Init
  <2>5. hooks \in Seq(once)
      BY DEF Init
  <2>6. at \in 0 .. Len(DbOrder) + 1 /\ rounds \in 0 .. MaxWait
      BY DEF Init
  <2>. QED  BY <2>1, <2>2, <2>3, <2>4, <2>5, <2>6 DEF TypeOK
<1>2. CountInv
  <2>1. \A d \in Dbs : Users(d) = {} /\ lost # d
      BY DEF Init, Users
  <2>2. \A d \in Dbs : Cardinality(Users(d)) = 0 /\ ref[d] = 0
      BY <2>1, FS_EmptySet DEF Init
  <2>. QED  BY <2>1, <2>2 DEF CountInv
<1>3. PcInv /\ MutexInv /\ EnvInv
    BY DEF Init, PcInv, MutexInv, EnvInv, Holds, Threads
<1>4. NameInv
    BY DEF Init, NameInv
<1>5. HookInv /\ SweepInv
    BY DEF Init, HookInv, SweepInv, Threads
<1>. QED  BY <1>1, <1>2, <1>3, <1>4, <1>5 DEF Inv

\* The invariant behind the theorems.
THEOREM Invariance == Spec => []Inv
<1>1. Inv /\ [Next]_vars => Inv'
    BY TypeStep, CountStep, PcStep, MutexStep, NameStep, EnvStep, HookStep, SweepStep DEF Inv
<1>. QED  BY <1>1, InvInit, PTL DEF Spec

\* The types of all variables: a count of users is never negative, and
\* CloseAllDBExit stays in its rounds and in the table of handles.
THEOREM TypeCorrect == Spec => []TypeOK
<1>1. Inv => TypeOK  BY DEF Inv
<1>. QED  BY <1>1, Invariance, PTL

\* Between OpenDB and CloseDB a thread has an open environment, unless a lock
\* file could not be locked or the exit was forced.
THEOREM UsersHaveEnvironment == Spec => []EnvOpenForUsers
<1>1. Inv => EnvOpenForUsers
    BY Counted DEF Inv, EnvInv, EnvOpenForUsers, TypeOK
<1>. QED  BY <1>1, Invariance, PTL

\* LocksCleanup is registered after CloseAllDBExit, in an agent and in a
\* daemon: the locks can be removed before the databases are closed for good.
THEOREM LocksRemovedFirst == Spec => []CleanupBeforeSweep
<1>1. Inv => CleanupBeforeSweep
    BY DBAssumption DEF Inv, HookInv, CleanupBeforeSweep, Threads
<1>. QED  BY <1>1, Invariance, PTL

\* After CloseAllDBExit no thread uses a database or gets to open one, unless
\* it was forced.
THEOREM NobodyAfterSweep == Spec => []QuietAtExit
<1>1. Inv => QuietAtExit
  <2>. SUFFICES ASSUME Inv, mode = "exited", table = Main, "forced" \notin gaps, NEW t \in crew
                PROVE  uses[t] = None /\ pc[t] \in {"run", "lock"}
      BY DEF QuietAtExit
  <2>1. \A d \in Dbs : d \notin named
      BY DEF Inv, SweepInv, Dbs
  <2>2. t \in Threads /\ t # Main
      BY DBAssumption DEF Inv, TypeOK, Threads
  <2>3. uses[t] = None
      BY <2>1, <2>2, Counted DEF Inv, NameInv, TypeOK
  <2>4. ~Holds(t)
      BY <2>1, <2>2, <2>3 DEF Inv, NameInv, PcInv, MutexInv, TypeOK, Holds
  <2>. QED  BY <2>2, <2>3, <2>4 DEF Inv, PcInv, TypeOK, Holds
<1>. QED  BY <1>1, Invariance, PTL
=============================================================================
