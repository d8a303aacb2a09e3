---------------------------- MODULE ServerProofs ----------------------------
(***************************************************************************)
(* Proofs about Server: the count of threads is right, no session sees a   *)
(* reload, and SV.connectionlist neither locks a host out nor lets it in   *)
(* twice, for any number of connections, hosts and policies.               *)
(***************************************************************************)
EXTENDS Server, FiniteSetTheorems, FunctionTheorems, WellFoundedInduction, TLAPS

\* The types that matter for the count and for the policy.
Types ==
    /\ st \in [Conns -> {"none", "new", "serving", "closing"}]
    /\ session \in [Conns -> Nat \cup {None}]
    /\ valid \in Nat /\ seen \in Nat /\ policy \in Nat \cup {None}
    /\ active \in Nat

\* A reload is under way, or about to begin, only while there is no session;
\* at all other times the lists are there, and every session began with them.
\* While it serves a connection itself the main thread does nothing else.
ReloadInv ==
    /\ main \in {"clear", "load"} => Serving = {}
    /\ main \notin {"load", "exit", "stopped"} => policy \in Nat
    /\ main \notin {"exit", "stopped"} => \A c \in Serving : session[c] = policy
    /\ mine # None => main \in {"inline", "stopped"}

\* The main thread handles a host from the accept to the spawn; it has rounds
\* left until it waits for the threads; every connection has a client.
MainInv ==
    /\ main \in {"entry", "admit", "prepend", "spawn"} => from \in Hosts
    /\ main \notin {"finalclear", "exit", "stopped"} => waits >= 1
    /\ \A c \in Conns : st[c] # "none" => host[c] \in Hosts

\* The connections of a host that are open or about to be spawned.
Busy(h) == Cardinality(Open(h)) + (IF main = "spawn" /\ from = h THEN 1 ELSE 0)

\* A host has no more entries than connections, and as many unless the entry of
\* an open one was purged; with that and without allowallconnects it has one.
ListInv ==
    Running => \A h \in Hosts :
        /\ Cardinality(Listed(h)) <= Busy(h)
        /\ h \notin forgot => Cardinality(Listed(h)) = Busy(h)
        /\ h \notin Multi \cup forgot => Busy(h) <= 1
        /\ main = "prepend" /\ from = h /\ h \notin Multi => Listed(h) = {}

\* The inductive invariant.
Inv == TypeOK /\ ActiveThreadsCounts /\ ReloadInv /\ MainInv /\ ListInv

-----------------------------------------------------------------------------
(* SV.connectionlist.                                                      *)

\* A set of indexes has a least one: the one DeleteItemMatching finds first.
LEMMA LeastExists ==
    ASSUME NEW F, F \subseteq Nat, F # {}
    PROVE  \E i \in F : \A j \in F : i <= j
<1>. DEFINE R == {p \in Nat \X Nat : p[1] < p[2]}
<1>1. IsWellFoundedOn(R, Nat)
    BY NatLessThanWellFounded DEF OpToRel
<1>2. PICK i \in F : \A j \in F : ~(<<j, i>> \in R)
  <2>. HIDE DEF R
  <2>. QED  BY <1>1, WFMin, Zenon
<1>3. ASSUME NEW j \in F PROVE i <= j
  <2>1. <<j, i>> \in Nat \X Nat
      OBVIOUS
  <2>2. ~(<<j, i>>[1] < <<j, i>>[2])
      BY <1>2, <2>1, Zenon
  <2>. QED  BY <2>1, <2>2
<1>. QED  BY <1>3

\* The position of i in S.
Rank(S, i) == Cardinality({k \in S : k <= i})

\* The positions of the elements of a finite set of numbers are 1, 2, ...
LEMMA RankBijective ==
    ASSUME NEW S \in SUBSET Nat, IsFiniteSet(S)
    PROVE  [i \in S |-> Rank(S, i)] \in Bijection(S, 1 .. Cardinality(S))
<1>. DEFINE n == Cardinality(S)
            f == [i \in S |-> Rank(S, i)]
<1>1. n \in Nat /\ IsFiniteSet(1 .. n) /\ Cardinality(1 .. n) = n /\ 1 .. n \subseteq Nat
  <2>1. n \in Nat
      BY FS_CardinalityType
  <2>. HIDE DEF n
  <2>. QED  BY <2>1, FS_Interval
<1>2. ASSUME NEW i \in S
      PROVE  LET D == {k \in S : k <= i} IN
             IsFiniteSet(D) /\ Rank(S, i) = Cardinality(D) /\ Rank(S, i) \in 1 .. n
  <2>. DEFINE D == {k \in S : k <= i}
  <2>1. D \in SUBSET S /\ i \in D
      OBVIOUS
  <2>2. IsFiniteSet(D) /\ Cardinality(D) \in Nat /\ Cardinality(D) <= n
      BY <2>1, FS_Subset, FS_CardinalityType
  <2>3. Cardinality(D) # 0
      BY <2>1, <2>2, FS_EmptySet
  <2>4. Rank(S, i) = Cardinality(D)
      BY DEF Rank
  <2>. QED  BY <1>1, <2>2, <2>3, <2>4
<1>3. ASSUME NEW i \in S, NEW j \in S, i < j PROVE Rank(S, i) < Rank(S, j)
  <2>. DEFINE C == {k \in S : k <= i}
              D == {k \in S : k <= j}
  <2>1. C \in SUBSET D /\ C # D
      <3>1. \A k \in S : k <= i => k <= j
          BY <1>3
      <3>2. j \in D /\ j \notin C
          BY <1>3
      <3>. QED  BY <3>1, <3>2
  <2>2. IsFiniteSet(D) /\ IsFiniteSet(C) /\ Rank(S, i) = Cardinality(C)
            /\ Rank(S, j) = Cardinality(D)
      BY <1>2
  <2>3. Cardinality(C) <= Cardinality(D) /\ Cardinality(C) # Cardinality(D)
      BY <2>1, <2>2, FS_Subset
  <2>4. Cardinality(C) \in Nat /\ Cardinality(D) \in Nat
      BY <2>2, FS_CardinalityType
  <2>. HIDE DEF C, D
  <2>. QED  BY <2>2, <2>3, <2>4
<1>4. f \in Injection(S, 1 .. n)
  <2>1. f \in [S -> 1 .. n]
      BY <1>2
  <2>2. ASSUME NEW i \in S, NEW j \in S, f[i] = f[j] PROVE i = j
    <3>1. Rank(S, i) = Rank(S, j)
        BY <2>2
    <3>2. Rank(S, i) \in Nat /\ Rank(S, j) \in Nat
        BY <1>1, <1>2, Zenon
    <3>3. ~(i < j) /\ ~(j < i)
        BY <1>3, <3>1, <3>2
    <3>4. i \in Nat /\ j \in Nat
        OBVIOUS
    <3>. QED  BY <3>3, <3>4
  <2>. QED  BY <2>1, <2>2 DEF Injection, IsInjective
<1>5. f \in Surjection(S, 1 .. n)
    BY <1>1, <1>4, FS_Injection
<1>. QED  BY <1>4, <1>5 DEF Bijection

\* What Keep returns has the items at S, each once.
LEMMA KeepItems ==
    ASSUME NEW l \in Seq(Entry), NEW S \in SUBSET DOMAIN l
    PROVE  /\ IsFiniteSet(S)
           /\ Keep(l, S) \in Seq(Entry)
           /\ DOMAIN Keep(l, S) = 1 .. Cardinality(S)
           /\ \E m \in Bijection(DOMAIN Keep(l, S), S) :
                 \A j \in DOMAIN Keep(l, S) : Keep(l, S)[j] = l[m[j]]
<1>. DEFINE n == Cardinality(S)
            f == [i \in S |-> Rank(S, i)]
            m == [j \in 1 .. n |-> CHOOSE i \in S : Rank(S, i) = j]
<1>1. DOMAIN l = 1 .. Len(l) /\ Len(l) \in Nat
    OBVIOUS
<1>2. S \in SUBSET Nat /\ IsFiniteSet(S) /\ n \in Nat
  <2>1. IsFiniteSet(1 .. Len(l)) /\ 1 .. Len(l) \subseteq Nat
      BY <1>1, FS_Interval
  <2>2. IsFiniteSet(S)
      BY <1>1, <2>1, FS_Subset
  <2>. QED  BY <1>1, <2>1, <2>2, FS_CardinalityType
<1>3. f \in Bijection(S, 1 .. n)
    BY <1>2, RankBijective
<1>4. \A j \in 1 .. n : \E i \in S : Rank(S, i) = j
    BY <1>3 DEF Bijection, Surjection
<1>5. \A j \in 1 .. n : m[j] \in S /\ Rank(S, m[j]) = j
    BY <1>4, Zenon
<1>6. \A i \in S : Rank(S, i) \in 1 .. n /\ m[Rank(S, i)] = i
  <2>. SUFFICES ASSUME NEW i \in S
                PROVE  Rank(S, i) \in 1 .. n /\ m[Rank(S, i)] = i
      OBVIOUS
  <2>1. Rank(S, i) = f[i] /\ f[i] \in 1 .. n
      BY <1>3 DEF Bijection, Injection
  <2>2. f[m[f[i]]] = f[i] /\ m[f[i]] \in S
      BY <1>5, <2>1
  <2>3. m[f[i]] = i
      BY <1>3, <2>2 DEF Bijection, Injection, IsInjective
  <2>. QED  BY <2>1, <2>3
<1>7. m \in Bijection(1 .. n, S)
    BY <1>5, <1>6 DEF Bijection, Injection, IsInjective, Surjection
<1>8. Keep(l, S) = [j \in 1 .. n |-> l[m[j]]]
    BY DEF Keep, Rank
<1>9. Keep(l, S) \in [1 .. n -> Entry]
    BY <1>5, <1>8
<1>10. Keep(l, S) \in Seq(Entry) /\ DOMAIN Keep(l, S) = 1 .. n
  <2>. HIDE DEF n, m
  <2>. QED  BY <1>2, <1>8, <1>9
<1>11. \A j \in 1 .. n : Keep(l, S)[j] = l[m[j]]
    BY <1>8
<1>. HIDE DEF m
<1>. QED  BY <1>2, <1>7, <1>10, <1>11

\* The items of a list that are for host h.
HostItems(l, h) == {i \in DOMAIN l : l[i].host = h}

\* A list has as many items for a host after Keep as there are among those kept.
LEMMA KeepCounts ==
    ASSUME NEW l \in Seq(Entry), NEW S \in SUBSET DOMAIN l, NEW h
    PROVE  /\ IsFiniteSet(HostItems(Keep(l, S), h))
           /\ Cardinality(HostItems(Keep(l, S), h)) = Cardinality(HostItems(l, h) \cap S)
<1>. DEFINE A == HostItems(Keep(l, S), h)
            B == HostItems(l, h) \cap S
<1>1. IsFiniteSet(S) /\ B \in SUBSET S
    BY KeepItems DEF HostItems
<1>2. PICK m \in Bijection(DOMAIN Keep(l, S), S) :
          \A j \in DOMAIN Keep(l, S) : Keep(l, S)[j] = l[m[j]]
    BY KeepItems
<1>. DEFINE g == [i \in B |-> CHOOSE j \in DOMAIN Keep(l, S) : m[j] = i]
<1>3. \A i \in B : g[i] \in DOMAIN Keep(l, S) /\ m[g[i]] = i
  <2>1. \A i \in B : \E j \in DOMAIN Keep(l, S) : m[j] = i
      BY <1>2 DEF Bijection, Surjection
  <2>. QED  BY <2>1
<1>4. \A i \in B : g[i] \in A
  <2>. SUFFICES ASSUME NEW i \in B PROVE g[i] \in A
      OBVIOUS
  <2>1. l[i].host = h
      BY DEF HostItems
  <2>2. g[i] \in DOMAIN Keep(l, S) /\ m[g[i]] = i
      BY <1>3
  <2>. HIDE DEF g
  <2>. QED  BY <1>2, <2>1, <2>2 DEF HostItems
<1>5. \A j \in A : m[j] \in B /\ g[m[j]] = j
  <2>. SUFFICES ASSUME NEW j \in A PROVE m[j] \in B /\ g[m[j]] = j
      OBVIOUS
  <2>1. j \in DOMAIN Keep(l, S) /\ Keep(l, S)[j].host = h
      BY DEF HostItems
  <2>2. m[j] \in S /\ l[m[j]].host = h
      BY <1>2, <2>1 DEF Bijection, Injection
  <2>3. m[j] \in B
      BY <2>2 DEF HostItems
  <2>4. g[m[j]] \in DOMAIN Keep(l, S) /\ m[g[m[j]]] = m[j]
      BY <1>3, <2>3
  <2>. QED  BY <1>2, <2>1, <2>3, <2>4 DEF Bijection, Injection, IsInjective
<1>6. g \in Bijection(B, A)
  <2>. HIDE DEF A, B
  <2>1. g \in [B -> A]
      BY <1>4
  <2>2. \A i, j \in B : g[i] = g[j] => i = j
      BY <1>3
  <2>3. \A j \in A : \E i \in B : g[i] = j
      BY <1>5
  <2>. HIDE DEF g
  <2>. QED  BY <2>1, <2>2, <2>3 DEF Bijection, Injection, IsInjective, Surjection
<1>7. IsFiniteSet(B)
    BY <1>1, FS_Subset
<1>8. ExistsBijection(B, A)
    BY <1>6 DEF ExistsBijection
<1>. HIDE DEF A, B
<1>9. IsFiniteSet(A) /\ Cardinality(A) = Cardinality(B)
    BY <1>7, <1>8, FS_Bijection
<1>. QED  BY <1>9 DEF A, B

\* The sets that are counted are finite.
LEMMA Countable ==
    ASSUME list \in Seq(Entry), NEW h
    PROVE  /\ IsFiniteSet(Open(h)) /\ Cardinality(Open(h)) \in Nat
           /\ Cardinality(Open(h)) = 0 <=> Open(h) = {}
           /\ IsFiniteSet(Listed(h)) /\ Cardinality(Listed(h)) \in Nat
           /\ Cardinality(Listed(h)) = 0 <=> Listed(h) = {}
<1>1. Open(h) \in SUBSET Conns
    BY DEF Open
<1>2. IsFiniteSet(1 .. Len(list))
    BY FS_Interval
<1>3. Listed(h) \in SUBSET (1 .. Len(list))
    BY DEF Listed
<1>4. IsFiniteSet(Open(h)) /\ IsFiniteSet(Listed(h))
    BY <1>1, <1>2, <1>3, FS_Subset, ServerAssumption
<1>. QED  BY <1>4, FS_CardinalityType, FS_EmptySet

\* DeleteItemMatching takes one entry of the host away, if there is one.
LEMMA DeleteOne ==
    ASSUME list \in Seq(Entry), NEW h, NEW g
    PROVE  LET l == DeleteItemMatching(h) IN
           /\ l \in Seq(Entry)
           /\ Cardinality(HostItems(l, g)) =
                 Cardinality(Listed(g)) - (IF g = h /\ Listed(h) # {} THEN 1 ELSE 0)
<1>. DEFINE l == DeleteItemMatching(h)
<1>1. CASE Listed(h) = {}
  <2>1. l = list
      BY <1>1 DEF DeleteItemMatching
  <2>2. HostItems(l, g) = Listed(g) /\ Cardinality(Listed(g)) \in Nat
      BY <2>1, Countable DEF HostItems, Listed
  <2>. QED  BY <1>1, <2>1, <2>2
<1>2. CASE Listed(h) # {}
  <2>. DEFINE first == CHOOSE i \in Listed(h) : \A j \in Listed(h) : i <= j
              S == DOMAIN list \ {first}
  <2>1. Listed(h) \subseteq Nat
      BY DEF Listed
  <2>2. first \in Listed(h)
    <3>1. \E i \in Listed(h) : \A j \in Listed(h) : i <= j
        BY <1>2, <2>1, LeastExists
    <3>. QED  BY <3>1
  <2>3. l = Keep(list, S)
      BY <1>2 DEF DeleteItemMatching
  <2>. HIDE DEF first, l
  <2>4. l \in Seq(Entry)
      BY <2>3, KeepItems
  <2>5. Cardinality(HostItems(l, g)) = Cardinality(HostItems(list, g) \cap S)
      BY <2>3, KeepCounts
  <2>6. HostItems(list, g) \cap S = Listed(g) \ {first}
      BY DEF HostItems, Listed
  <2>7. first \in Listed(g) <=> g = h
      BY <2>2 DEF Listed
  <2>8. Cardinality(Listed(g) \ {first}) =
            IF first \in Listed(g) THEN Cardinality(Listed(g)) - 1 ELSE Cardinality(Listed(g))
      BY Countable, FS_RemoveElement
  <2>9. Cardinality(HostItems(l, g)) =
            Cardinality(Listed(g)) - (IF g = h /\ Listed(h) # {} THEN 1 ELSE 0)
    <3>1. Cardinality(Listed(g)) \in Nat
        BY Countable
    <3>. HIDE DEF S
    <3>2. Cardinality(HostItems(l, g)) = Cardinality(Listed(g) \ {first})
        BY <2>5, <2>6
    <3>. QED  BY <1>2, <2>7, <2>8, <3>1, <3>2
  <2>. QED  BY <2>4, <2>9 DEF l
<1>. QED  BY <1>1, <1>2

-----------------------------------------------------------------------------
\* Types is a part of TypeOK.
LEMMA TypesFollow == TypeOK => Types
BY DEF TypeOK, Types

\* There are finitely many sessions, and none exactly if the count is zero.
LEMMA ServingFinite ==
    /\ IsFiniteSet(Serving) /\ Cardinality(Serving) \in Nat
    /\ Cardinality(Serving) = 0 <=> Serving = {}
<1>1. Serving \in SUBSET Conns  BY DEF Serving
<1>2. IsFiniteSet(Serving)  BY <1>1, FS_Subset, ServerAssumption
<1>. QED  BY <1>2, FS_CardinalityType, FS_EmptySet

\* Every step keeps the types, and a session that ends was counted.
LEMMA TypeStep ==
    ASSUME TypeOK, MainInv, ActiveThreadsCounts, ReloadInv, [Next]_vars
    PROVE  TypeOK' /\ MainInv'
<1>. USE ServerAssumption
<1>1. CASE Tick
    BY <1>1 DEF Tick, TypeOK, MainInv, polVars, mainVars, connVars
<1>2. CASE Signal
    BY <1>2 DEF Signal, TypeOK, MainInv, polVars, mainVars, connVars
<1>3. CASE NewPolicy
    BY <1>3 DEF NewPolicy, TypeOK, MainInv, polVars, mainVars, connVars
<1>4. ASSUME NEW h \in Hosts \cup {None}, WaitForIncoming(h) PROVE TypeOK' /\ MainInv'
    BY <1>4 DEF WaitForIncoming, TypeOK, MainInv, polVars, mainVars, connVars
<1>5. CASE PolicyUpdateIfSafe
    BY <1>5 DEF PolicyUpdateIfSafe, Proceed, TypeOK, MainInv, polVars, mainVars, connVars
<1>6. CASE ClearAuthAndACLs
    BY <1>6 DEF ClearAuthAndACLs, TypeOK, MainInv, polVars, mainVars, connVars
<1>7. CASE LoadPolicy
    BY <1>7 DEF LoadPolicy, Proceed, TypeOK, MainInv, polVars, mainVars, connVars
<1>8. CASE AcceptDenied
    BY <1>8 DEF AcceptDenied, Refuse, TypeOK, MainInv, polVars, mainVars, connVars
<1>9. CASE PurgeOldConnections
  <2>1. list' \in Seq(Entry)
      BY <1>9, KeepItems DEF PurgeOldConnections, TypeOK
  <2>. QED  BY <1>9, <2>1 DEF PurgeOldConnections, TypeOK, MainInv, polVars, mainVars, connVars
<1>10. CASE DenyDuplicate
    BY <1>10 DEF DenyDuplicate, Refuse, TypeOK, MainInv, polVars, mainVars, connVars
<1>11. CASE Admit
    BY <1>11 DEF Admit, TypeOK, MainInv, polVars, mainVars, connVars
<1>12. CASE PrependItem
  <2>1. [host |-> from, time |-> now] \in Entry
      BY <1>12 DEF PrependItem, TypeOK, MainInv, Entry
  <2>2. list' \in Seq(Entry)
      BY <1>12, <2>1 DEF PrependItem, TypeOK
  <2>. QED  BY <1>12, <2>2 DEF PrependItem, TypeOK, MainInv, polVars, mainVars, connVars
<1>13. ASSUME NEW c \in Conns, SpawnConnection(c) PROVE TypeOK' /\ MainInv'
    BY <1>13 DEF SpawnConnection, TypeOK, MainInv, polVars, mainVars, connVars
<1>14. CASE SpawnCrashes
    BY <1>14 DEF SpawnCrashes, TypeOK, MainInv, polVars, mainVars, connVars
<1>15. CASE LeaveLoop
    BY <1>15 DEF LeaveLoop, TypeOK, MainInv, polVars, mainVars, connVars
<1>16. CASE WaitOnThreads
    BY <1>16 DEF WaitOnThreads, TypeOK, MainInv, polVars, mainVars, connVars
<1>17. CASE FinalClear
    BY <1>17 DEF FinalClear, TypeOK, MainInv, polVars, mainVars, connVars
<1>18. CASE Exit
    BY <1>18 DEF Exit, TypeOK, MainInv, polVars, mainVars, connVars
<1>19. ASSUME NEW c \in Conns, DropConnection(c) PROVE TypeOK' /\ MainInv'
    BY <1>19 DEF DropConnection, TypeOK, MainInv, polVars, mainVars, connVars
<1>20. ASSUME NEW c \in Conns, BeginSession(c) PROVE TypeOK' /\ MainInv'
    BY <1>20 DEF BeginSession, TypeOK, MainInv, polVars, mainVars, connVars
<1>21. ASSUME NEW c \in Conns, EndSession(c) PROVE TypeOK' /\ MainInv'
  <2>1. c \in Serving
      BY <1>21 DEF EndSession, Serving
  <2>2. active # 0
      BY <2>1, ServingFinite DEF ActiveThreadsCounts
  <2>3. active - 1 \in Nat
      BY <2>2 DEF TypeOK
  <2>. QED  BY <1>21, <2>3 DEF EndSession, TypeOK, MainInv, polVars, mainVars
<1>22. ASSUME NEW c \in Conns, DeleteConn(c) PROVE TypeOK' /\ MainInv'
  <2>1. list' \in Seq(Entry)
      BY <1>22, DeleteOne DEF DeleteConn, Teardown, Running, TypeOK
  <2>2. mine = c => main = "inline"
      BY <1>22 DEF DeleteConn, Teardown, Running, ReloadInv
  <2>. QED  BY <1>22, <2>1, <2>2 DEF DeleteConn, Teardown, Running, TypeOK, MainInv,
      polVars, mainVars, connVars
<1>23. CASE UNCHANGED vars
    BY <1>23 DEF vars, TypeOK, MainInv, polVars, mainVars, connVars
<1>. QED  BY <1>1, <1>2, <1>3, <1>4, <1>5, <1>6, <1>7, <1>8, <1>9, <1>10, <1>11,
    <1>12, <1>13, <1>14, <1>15, <1>16, <1>17, <1>18, <1>19, <1>20, <1>21, <1>22, <1>23
    DEF Next, Main, Thread

\* Every step keeps the count: ACTIVE_THREADS changes with the set of sessions.
LEMMA CountStep ==
    ASSUME Types, ActiveThreadsCounts, [Next]_vars PROVE ActiveThreadsCounts'
<1>1. CASE Tick
    BY <1>1, ServerAssumption DEF Tick, ActiveThreadsCounts, Serving, polVars,
        mainVars, connVars
<1>2. CASE Signal
    BY <1>2, ServerAssumption DEF Signal, ActiveThreadsCounts, Serving, polVars,
        mainVars, connVars
<1>3. CASE NewPolicy
    BY <1>3, ServerAssumption DEF NewPolicy, ActiveThreadsCounts, Serving, polVars,
        mainVars, connVars
<1>4. ASSUME NEW h \in Hosts \cup {None}, WaitForIncoming(h) PROVE ActiveThreadsCounts'
    BY <1>4, ServerAssumption DEF WaitForIncoming, ActiveThreadsCounts, Serving,
        polVars, mainVars, connVars
<1>5. CASE PolicyUpdateIfSafe
    BY <1>5, ServerAssumption DEF PolicyUpdateIfSafe, Proceed, ActiveThreadsCounts,
        Serving, polVars, mainVars, connVars
<1>6. CASE ClearAuthAndACLs
    BY <1>6, ServerAssumption DEF ClearAuthAndACLs, ActiveThreadsCounts, Serving,
        polVars, mainVars, connVars
<1>7. CASE LoadPolicy
    BY <1>7, ServerAssumption DEF LoadPolicy, Proceed, ActiveThreadsCounts, Serving,
        polVars, mainVars, connVars
<1>8. CASE AcceptDenied
    BY <1>8, ServerAssumption DEF AcceptDenied, Refuse, ActiveThreadsCounts, Serving,
        polVars, mainVars, connVars
<1>9. CASE PurgeOldConnections
    BY <1>9, ServerAssumption DEF PurgeOldConnections, ActiveThreadsCounts, Serving,
        polVars, mainVars, connVars
<1>10. CASE DenyDuplicate
    BY <1>10, ServerAssumption DEF DenyDuplicate, Refuse, ActiveThreadsCounts,
        Serving, polVars, mainVars, connVars
<1>11. CASE Admit
    BY <1>11, ServerAssumption DEF Admit, ActiveThreadsCounts, Serving, polVars,
        mainVars, connVars
<1>12. CASE PrependItem
    BY <1>12, ServerAssumption DEF PrependItem, ActiveThreadsCounts, Serving, polVars,
        mainVars, connVars
<1>13. ASSUME NEW c \in Conns, SpawnConnection(c) PROVE ActiveThreadsCounts'
    <2>1. Serving' = Serving  BY <1>13 DEF SpawnConnection, Serving, Types
    <2>. QED  BY <1>13, <2>1 DEF SpawnConnection, ActiveThreadsCounts
<1>14. CASE SpawnCrashes
    BY <1>14, ServerAssumption DEF SpawnCrashes, ActiveThreadsCounts, Serving,
        polVars, mainVars, connVars
<1>15. CASE LeaveLoop
    BY <1>15, ServerAssumption DEF LeaveLoop, ActiveThreadsCounts, Serving, polVars,
        mainVars, connVars
<1>16. CASE WaitOnThreads
    BY <1>16, ServerAssumption DEF WaitOnThreads, ActiveThreadsCounts, Serving,
        polVars, mainVars, connVars
<1>17. CASE FinalClear
    BY <1>17, ServerAssumption DEF FinalClear, ActiveThreadsCounts, Serving, polVars,
        mainVars, connVars
<1>18. CASE Exit
    BY <1>18, ServerAssumption DEF Exit, ActiveThreadsCounts, Serving, polVars,
        mainVars, connVars
<1>19. ASSUME NEW c \in Conns, DropConnection(c) PROVE ActiveThreadsCounts'
    <2>1. Serving' = Serving  BY <1>19 DEF DropConnection, Serving, Types
    <2>. QED  BY <1>19, <2>1 DEF DropConnection, ActiveThreadsCounts
<1>20. ASSUME NEW c \in Conns, BeginSession(c) PROVE ActiveThreadsCounts'
    <2>1. Serving' = Serving \cup {c} /\ c \notin Serving
        BY <1>20 DEF BeginSession, Serving, Types
    <2>2. Cardinality(Serving') = Cardinality(Serving) + 1
        BY <2>1, ServingFinite, FS_AddElement
    <2>3. active' = active + 1 /\ active <= MaxProcesses
        BY <1>20 DEF BeginSession
    <2>. QED  BY <2>2, <2>3, ServerAssumption DEF ActiveThreadsCounts, Types
<1>21. ASSUME NEW c \in Conns, EndSession(c) PROVE ActiveThreadsCounts'
    <2>1. Serving' = Serving \ {c} /\ c \in Serving
        BY <1>21 DEF EndSession, Serving, Types
    <2>2. Cardinality(Serving') = Cardinality(Serving) - 1
        BY <2>1, ServingFinite, FS_RemoveElement
    <2>. QED  BY <1>21, <2>2, ServerAssumption DEF EndSession, ActiveThreadsCounts, Types
<1>22. ASSUME NEW c \in Conns, DeleteConn(c) PROVE ActiveThreadsCounts'
    <2>1. Serving' = Serving  BY <1>22 DEF DeleteConn, Teardown, Serving, Types
    <2>. QED  BY <1>22, <2>1 DEF DeleteConn, Teardown, ActiveThreadsCounts
<1>23. CASE UNCHANGED vars
    BY <1>23 DEF vars, ActiveThreadsCounts, Serving, polVars, mainVars, connVars
<1>. QED  BY <1>1, <1>2, <1>3, <1>4, <1>5, <1>6, <1>7, <1>8, <1>9, <1>10, <1>11,
    <1>12, <1>13, <1>14, <1>15, <1>16, <1>17, <1>18, <1>19, <1>20, <1>21, <1>22, <1>23
    DEF Next, Main, Thread

\* Every step keeps ReloadInv.
LEMMA ReloadStep ==
    ASSUME Types, ActiveThreadsCounts, ReloadInv, [Next]_vars PROVE ReloadInv'
<1>1. CASE Tick
    BY <1>1, ServerAssumption DEF Tick, ReloadInv, Serving, polVars, mainVars,
        connVars
<1>2. CASE Signal
    BY <1>2, ServerAssumption DEF Signal, ReloadInv, Serving, polVars, mainVars,
        connVars
<1>3. CASE NewPolicy
    BY <1>3, ServerAssumption DEF NewPolicy, ReloadInv, Serving, polVars, mainVars,
        connVars
<1>4. ASSUME NEW h \in Hosts \cup {None}, WaitForIncoming(h) PROVE ReloadInv'
    BY <1>4, ServerAssumption DEF WaitForIncoming, ReloadInv, Serving, polVars,
        mainVars, connVars
<1>5. CASE PolicyUpdateIfSafe
    <2>1. CASE main' = "clear"
        <3>1. active = 0 \/ main' = "entry" \/ main' = "loop"
            BY <1>5 DEF PolicyUpdateIfSafe, Proceed
        <3>2. Serving = {}  BY <2>1, <3>1, ServingFinite DEF ActiveThreadsCounts
        <3>. QED  BY <1>5, <2>1, <3>2 DEF PolicyUpdateIfSafe, ReloadInv, Serving, connVars
    <2>2. CASE main' # "clear"
        <3>1. main' \in {"entry", "loop"}  BY <1>5, <2>2 DEF PolicyUpdateIfSafe, Proceed
        <3>. QED  BY <1>5, <3>1 DEF PolicyUpdateIfSafe, ReloadInv, Serving, connVars
    <2>. QED  BY <2>1, <2>2
<1>6. CASE ClearAuthAndACLs
    BY <1>6, ServerAssumption DEF ClearAuthAndACLs, ReloadInv, Serving, polVars,
        mainVars, connVars
<1>7. CASE LoadPolicy
    BY <1>7, ServerAssumption DEF LoadPolicy, Proceed, Types, ReloadInv, Serving, connVars
<1>8. CASE AcceptDenied
    BY <1>8, ServerAssumption DEF AcceptDenied, Refuse, ReloadInv, Serving, polVars,
        mainVars, connVars
<1>9. CASE PurgeOldConnections
    BY <1>9, ServerAssumption DEF PurgeOldConnections, ReloadInv, Serving, polVars,
        mainVars, connVars
<1>10. CASE DenyDuplicate
    BY <1>10, ServerAssumption DEF DenyDuplicate, Refuse, ReloadInv, Serving, polVars,
        mainVars, connVars
<1>11. CASE Admit
    BY <1>11, ServerAssumption DEF Admit, ReloadInv, Serving, polVars, mainVars,
        connVars
<1>12. CASE PrependItem
    BY <1>12, ServerAssumption DEF PrependItem, ReloadInv, Serving, polVars, mainVars,
        connVars
<1>13. ASSUME NEW c \in Conns, SpawnConnection(c) PROVE ReloadInv'
    <2>1. Serving' = Serving  BY <1>13 DEF SpawnConnection, Serving, Types
    <2>. QED  BY <1>13, <2>1 DEF SpawnConnection, ReloadInv, polVars
<1>14. CASE SpawnCrashes
    BY <1>14, ServerAssumption DEF SpawnCrashes, ReloadInv, Serving, polVars,
        mainVars, connVars
<1>15. CASE LeaveLoop
    BY <1>15, ServerAssumption DEF LeaveLoop, ReloadInv, Serving, polVars, mainVars,
        connVars
<1>16. CASE WaitOnThreads
    BY <1>16, ServerAssumption DEF WaitOnThreads, ReloadInv, Serving, polVars,
        mainVars, connVars
<1>17. CASE FinalClear
    BY <1>17, ServerAssumption DEF FinalClear, ReloadInv, Serving, polVars, mainVars,
        connVars
<1>18. CASE Exit
    BY <1>18, ServerAssumption DEF Exit, ReloadInv, Serving, polVars, mainVars,
        connVars
<1>19. ASSUME NEW c \in Conns, DropConnection(c) PROVE ReloadInv'
    <2>1. Serving' = Serving  BY <1>19 DEF DropConnection, Serving, Types
    <2>. QED  BY <1>19, <2>1 DEF DropConnection, ReloadInv, polVars
<1>20. ASSUME NEW c \in Conns, BeginSession(c) PROVE ReloadInv'
    <2>1. Serving' = Serving \cup {c}  BY <1>20 DEF BeginSession, Serving, Types
    <2>2. \A d \in Conns : session'[d] = IF d = c THEN policy ELSE session[d]
        BY <1>20 DEF BeginSession, Types
    <2>3. Serving \subseteq Conns  BY DEF Serving
    <2>. QED  BY <1>20, <2>1, <2>2, <2>3 DEF BeginSession, Unlocked, ReloadInv,
        polVars, mainVars
<1>21. ASSUME NEW c \in Conns, EndSession(c) PROVE ReloadInv'
    <2>1. Serving' = Serving \ {c}  BY <1>21 DEF EndSession, Serving, Types
    <2>2. \A d \in Conns \ {c} : session'[d] = session[d]
        BY <1>21 DEF EndSession, Types
    <2>3. Serving \subseteq Conns  BY DEF Serving
    <2>. QED  BY <1>21, <2>1, <2>2, <2>3 DEF EndSession, Unlocked, ReloadInv, polVars, mainVars
<1>22. ASSUME NEW c \in Conns, DeleteConn(c) PROVE ReloadInv'
    <2>1. Serving' = Serving  BY <1>22 DEF DeleteConn, Teardown, Serving, Types
    <2>2. CASE mine = c
        <3>1. main = "inline" /\ main' = "loop" /\ mine' = None
            BY <1>22, <2>2, ServerAssumption DEF DeleteConn, Teardown, Running, ReloadInv
        <3>. QED  BY <1>22, <2>1, <3>1 DEF DeleteConn, Teardown, ReloadInv, polVars
    <2>3. CASE mine # c
        BY <1>22, <2>1, <2>3 DEF DeleteConn, Teardown, ReloadInv, polVars
    <2>. QED  BY <2>2, <2>3
<1>23. CASE UNCHANGED vars
    BY <1>23 DEF vars, ReloadInv, Serving, polVars, mainVars, connVars
<1>. QED  BY <1>1, <1>2, <1>3, <1>4, <1>5, <1>6, <1>7, <1>8, <1>9, <1>10, <1>11,
    <1>12, <1>13, <1>14, <1>15, <1>16, <1>17, <1>18, <1>19, <1>20, <1>21, <1>22, <1>23
    DEF Next, Main, Thread

\* A step that leaves alone what is counted keeps ListInv.
LEMMA ListQuiet ==
    ASSUME ListInv, \A h : Open(h)' = Open(h), UNCHANGED <<list, forgot>>,
           \/ main' = "stopped"
           \/ Running /\ UNCHANGED <<main, from>>
           \/ Running /\ main # "spawn" /\ main' \notin {"prepend", "spawn"}
    PROVE  ListInv'
<1>1. \A h : Listed(h)' = Listed(h)
    BY DEF Listed
<1>. QED  BY <1>1 DEF ListInv, Busy, Running

\* Every step keeps ListInv.
LEMMA ListStep ==
    ASSUME TypeOK, MainInv, ReloadInv, ListInv, [Next]_vars PROVE ListInv'
<1>. USE ServerAssumption
<1>1. CASE Tick
    BY <1>1, ListQuiet DEF Tick, Open, Running, Unlocked, polVars, mainVars, connVars
<1>2. CASE Signal
    BY <1>2, ListQuiet DEF Signal, Open, Running, Unlocked, polVars, mainVars, connVars
<1>3. CASE NewPolicy
    BY <1>3, ListQuiet DEF NewPolicy, Open, Running, Unlocked, polVars, mainVars, connVars
<1>4. ASSUME NEW h \in Hosts \cup {None}, WaitForIncoming(h) PROVE ListInv'
    BY <1>4, ListQuiet DEF WaitForIncoming, Open, Running, Unlocked, polVars, mainVars,
        connVars
<1>5. CASE PolicyUpdateIfSafe
    BY <1>5, ListQuiet DEF PolicyUpdateIfSafe, Proceed, Open, Running, Unlocked,
        polVars, mainVars, connVars
<1>6. CASE ClearAuthAndACLs
    BY <1>6, ListQuiet DEF ClearAuthAndACLs, Open, Running, Unlocked, polVars,
        mainVars, connVars
<1>7. CASE LoadPolicy
    BY <1>7, ListQuiet DEF LoadPolicy, Proceed, Open, Running, Unlocked, polVars,
        mainVars, connVars
<1>8. CASE AcceptDenied
    BY <1>8, ListQuiet DEF AcceptDenied, Refuse, Open, Running, Unlocked, polVars,
        mainVars, connVars
<1>9. CASE PurgeOldConnections
  <2>. DEFINE S == {i \in DOMAIN list : clock <= list[i].time + Old}
  <2>. SUFFICES ASSUME NEW h \in Hosts
                PROVE  /\ Cardinality(Listed(h)') <= Cardinality(Open(h))
                       /\ h \notin forgot' => Cardinality(Listed(h)') = Cardinality(Open(h))
                       /\ h \notin Multi \cup forgot' => Cardinality(Open(h)) <= 1
    <3>1. \A h \in Hosts : Open(h)' = Open(h)
        BY <1>9 DEF PurgeOldConnections, connVars, Open
    <3>2. main' = "admit"
        BY <1>9 DEF PurgeOldConnections
    <3>3. \A h \in Hosts : Cardinality(Open(h)) \in Nat
        BY Countable DEF TypeOK
    <3>. QED  BY <3>1, <3>2, <3>3 DEF ListInv, Busy
  <2>1. Listed(h)' = HostItems(Keep(list, S), h)
      BY <1>9 DEF PurgeOldConnections, Listed, HostItems
  <2>2. /\ Listed(h) \cap S \in SUBSET Listed(h)
        /\ Cardinality(Listed(h)') = Cardinality(Listed(h) \cap S)
    <3>1. S \in SUBSET DOMAIN list
        OBVIOUS
    <3>2. HostItems(list, h) = Listed(h)
        BY DEF HostItems, Listed
    <3>. HIDE DEF S
    <3>. QED  BY <2>1, <3>1, <3>2, KeepCounts DEF TypeOK
  <2>3. /\ IsFiniteSet(Listed(h)) /\ Cardinality(Listed(h)) \in Nat
        /\ Cardinality(Open(h)) \in Nat /\ (Cardinality(Open(h)) = 0 <=> Open(h) = {})
      BY Countable DEF TypeOK
  <2>4. Cardinality(Listed(h) \cap S) \in Nat
        /\ Cardinality(Listed(h) \cap S) <= Cardinality(Listed(h))
    <3>. HIDE DEF S
    <3>. QED  BY <2>2, <2>3, FS_Subset, FS_CardinalityType
  <2>5. /\ Cardinality(Listed(h)) <= Cardinality(Open(h))
        /\ h \notin forgot => Cardinality(Listed(h)) = Cardinality(Open(h))
        /\ h \notin Multi \cup forgot => Cardinality(Open(h)) <= 1
      BY <1>9, <2>3 DEF PurgeOldConnections, ListInv, Busy, Running
  <2>6. h \notin forgot' => h \notin forgot /\ (Open(h) = {} \/ Listed(h) \cap S = Listed(h))
    <3>1. SUFFICES ASSUME h \notin forgot', Open(h) # {}
                   PROVE  \A i \in Listed(h) : i \in S
        BY <1>9 DEF PurgeOldConnections
    <3>2. \A i \in Listed(h) : ~(clock > list[i].time + Old)
        BY <1>9, <3>1 DEF PurgeOldConnections
    <3>3. \A i \in Listed(h) : i \in DOMAIN list /\ list[i].time \in Nat
      <4>1. \A i \in DOMAIN list : list[i] \in Entry
          BY DEF TypeOK
      <4>. QED  BY <4>1 DEF Listed, Entry
    <3>. QED  BY <3>2, <3>3 DEF TypeOK
  <2>. HIDE DEF S
  <2>. QED  BY <2>2, <2>3, <2>4, <2>5, <2>6
<1>10. CASE DenyDuplicate
    BY <1>10, ListQuiet DEF DenyDuplicate, Refuse, Open, Running, Unlocked, polVars,
        mainVars, connVars
<1>11. CASE Admit
  <2>1. \A h \in Hosts : Open(h)' = Open(h) /\ Listed(h)' = Listed(h)
      BY <1>11 DEF Admit, connVars, Open, Listed
  <2>. QED  BY <1>11, <2>1 DEF Admit, ListInv, Busy, Running
<1>12. CASE PrependItem
  <2>1. \A h \in Hosts : Open(h)' = Open(h)
      BY <1>12 DEF PrependItem, connVars, Open
  <2>2. ASSUME NEW h \in Hosts
        PROVE  Cardinality(Listed(h)') = Cardinality(Listed(h)) + (IF h = from THEN 1 ELSE 0)
    <3>. DEFINE one == IF h = from THEN {1} ELSE {}
                up  == [i \in Listed(h) |-> i + 1]
                T   == {i + 1 : i \in Listed(h)}
    <3>1. /\ Len(list') = Len(list) + 1
          /\ \A i \in DOMAIN list' : list'[i] =
                IF i = 1 THEN [host |-> from, time |-> now] ELSE list[i - 1]
        BY <1>12 DEF PrependItem, TypeOK
    <3>2. DOMAIN list = 1 .. Len(list) /\ DOMAIN list' = 1 .. Len(list) + 1 /\ Len(list) \in Nat
        BY <1>12, <3>1 DEF PrependItem, TypeOK
    <3>3. Listed(h)' = T \cup one
      <4>1. \A i \in T \cup one : i \in DOMAIN list' /\ list'[i].host = h
          BY <3>1, <3>2 DEF Listed
      <4>2. ASSUME NEW i \in DOMAIN list', list'[i].host = h PROVE i \in T \cup one
        <5>1. CASE i = 1
            BY <3>1, <4>2, <5>1
        <5>2. CASE i # 1
          <6>1. i - 1 \in Listed(h) /\ i = (i - 1) + 1
              BY <3>1, <3>2, <4>2, <5>2 DEF Listed
          <6>. QED  BY <6>1
        <5>. QED  BY <5>1, <5>2
      <4>3. Listed(h)' = {i \in DOMAIN list' : list'[i].host = h}
          BY DEF Listed
      <4>. QED  BY <4>1, <4>2, <4>3
    <3>4. IsFiniteSet(Listed(h)) /\ Cardinality(Listed(h)) \in Nat
        BY Countable DEF TypeOK
    <3>5. up \in Bijection(Listed(h), T)
      <4>1. Listed(h) \subseteq Nat
          BY <3>2 DEF Listed
      <4>. QED  BY <4>1 DEF Bijection, Injection, IsInjective, Surjection
    <3>6. IsFiniteSet(T) /\ Cardinality(T) = Cardinality(Listed(h))
      <4>1. ExistsBijection(Listed(h), T)
          BY <3>5 DEF ExistsBijection
      <4>. HIDE DEF T
      <4>. QED  BY <3>4, <4>1, FS_Bijection
    <3>7. 1 \notin T
        BY <3>2 DEF Listed
    <3>. HIDE DEF T
    <3>8. CASE h = from
      <4>1. Cardinality(T \cup {1}) = Cardinality(T) + 1
          BY <3>6, <3>7, FS_AddElement
      <4>. QED  BY <3>3, <3>6, <3>8, <4>1
    <3>9. CASE h # from
      <4>1. Listed(h)' = T
          BY <3>3, <3>9
      <4>. QED  BY <3>4, <3>6, <3>9, <4>1
    <3>. QED  BY <3>8, <3>9
  <2>3. /\ main = "prepend" /\ main' = "spawn" /\ UNCHANGED <<from, forgot>>
      BY <1>12 DEF PrependItem
  <2>4. \A h \in Hosts : Cardinality(Listed(h)) \in Nat /\ Cardinality(Open(h)) \in Nat
                         /\ (Cardinality(Listed(h)) = 0 <=> Listed(h) = {})
      BY Countable DEF TypeOK
  <2>. QED  BY <2>1, <2>2, <2>3, <2>4 DEF ListInv, Busy, Running
<1>13. ASSUME NEW c \in Conns, SpawnConnection(c) PROVE ListInv'
  <2>1. ASSUME NEW h \in Hosts
        PROVE  Cardinality(Open(h)') = Cardinality(Open(h)) + (IF h = from THEN 1 ELSE 0)
    <3>1. Open(h)' = IF h = from THEN Open(h) \cup {c} ELSE Open(h)
        BY <1>13 DEF SpawnConnection, Open, TypeOK
    <3>2. c \notin Open(h)
        BY <1>13 DEF SpawnConnection, Open
    <3>3. IsFiniteSet(Open(h)) /\ Cardinality(Open(h)) \in Nat
        BY Countable DEF TypeOK
    <3>4. Cardinality(Open(h) \cup {c}) = Cardinality(Open(h)) + 1
        BY <3>2, <3>3, FS_AddElement
    <3>. QED  BY <3>1, <3>3, <3>4
  <2>2. \A h \in Hosts : Listed(h)' = Listed(h)
      BY <1>13 DEF SpawnConnection, Listed
  <2>3. /\ main = "spawn" /\ main' \notin {"spawn", "prepend"} /\ UNCHANGED forgot
      BY <1>13 DEF SpawnConnection
  <2>4. \A h \in Hosts : Cardinality(Listed(h)) \in Nat /\ Cardinality(Open(h)) \in Nat
      BY Countable DEF TypeOK
  <2>. QED  BY <2>1, <2>2, <2>3, <2>4 DEF ListInv, Busy, Running
<1>14. CASE SpawnCrashes
    BY <1>14, ListQuiet DEF SpawnCrashes, Open, Running, Unlocked, polVars, mainVars, connVars
<1>15. CASE LeaveLoop
    BY <1>15, ListQuiet DEF LeaveLoop, Open, Running, Unlocked, polVars, mainVars, connVars
<1>16. CASE WaitOnThreads
    BY <1>16, ListQuiet DEF WaitOnThreads, Open, Running, Unlocked, polVars, mainVars, connVars
<1>17. CASE FinalClear
    BY <1>17, ListQuiet DEF FinalClear, Open, Running, Unlocked, polVars, mainVars, connVars
<1>18. CASE Exit
    BY <1>18, ListQuiet DEF Exit, Open, Running, Unlocked, polVars, mainVars, connVars
<1>19. ASSUME NEW c \in Conns, DropConnection(c) PROVE ListInv'
  <2>1. \A h : Open(h)' = Open(h)
      BY <1>19 DEF DropConnection, Open, TypeOK
  <2>. QED  BY <1>19, <2>1, ListQuiet DEF DropConnection
<1>20. ASSUME NEW c \in Conns, BeginSession(c) PROVE ListInv'
  <2>1. \A h : Open(h)' = Open(h)
      BY <1>20 DEF BeginSession, Open, TypeOK
  <2>. QED  BY <1>20, <2>1, ListQuiet DEF BeginSession, mainVars
<1>21. ASSUME NEW c \in Conns, EndSession(c) PROVE ListInv'
  <2>1. \A h : Open(h)' = Open(h)
      BY <1>21 DEF EndSession, Open, TypeOK
  <2>. QED  BY <1>21, <2>1, ListQuiet DEF EndSession, mainVars
<1>22. ASSUME NEW c \in Conns, DeleteConn(c) PROVE ListInv'
  <2>. DEFINE g == host[c]
  <2>1. /\ Running /\ st[c] = "closing" /\ g \in Hosts
        /\ list' = DeleteItemMatching(g)
        /\ forgot' = forgot \ (IF Open(g) = {c} /\ from # g THEN {g} ELSE {})
        /\ UNCHANGED from
        /\ (main' = main \/ (main = "inline" /\ main' = "loop"))
      BY <1>22 DEF DeleteConn, Teardown, MainInv, ReloadInv, Running
  <2>2. ASSUME NEW h \in Hosts
        PROVE  /\ Open(h)' = IF h = g THEN Open(h) \ {c} ELSE Open(h)
               /\ c \in Open(g)
      BY <1>22, <2>1 DEF DeleteConn, Teardown, Open, TypeOK
  <2>. HIDE DEF g
  <2>3. ASSUME NEW h \in Hosts
        PROVE  /\ Cardinality(Open(h)') = Cardinality(Open(h)) - (IF h = g THEN 1 ELSE 0)
               /\ h = g => Cardinality(Open(h)) >= 1
               /\ Cardinality(Open(h)) \in Nat
    <3>1. IsFiniteSet(Open(h)) /\ Cardinality(Open(h)) \in Nat
          /\ (Cardinality(Open(h)) = 0 <=> Open(h) = {})
        BY Countable DEF TypeOK
    <3>. QED  BY <2>1, <2>2, <3>1, FS_RemoveElement
  <2>4. ASSUME NEW h \in Hosts
        PROVE  /\ Cardinality(Listed(h)') = Cardinality(Listed(h))
                     - (IF h = g /\ Listed(g) # {} THEN 1 ELSE 0)
               /\ Cardinality(Listed(h)) \in Nat
               /\ Cardinality(Listed(h)) = 0 <=> Listed(h) = {}
               /\ Listed(h) = {} => Listed(h)' = {}
    <3>1. list' \in Seq(Entry) /\ Listed(h)' = HostItems(DeleteItemMatching(g), h)
        BY <2>1, DeleteOne DEF TypeOK, Listed, HostItems
    <3>2. Cardinality(HostItems(DeleteItemMatching(g), h)) = Cardinality(Listed(h))
                     - (IF h = g /\ Listed(g) # {} THEN 1 ELSE 0)
        BY DeleteOne DEF TypeOK
    <3>3. /\ Cardinality(Listed(h)) \in Nat
          /\ Cardinality(Listed(h)) = 0 <=> Listed(h) = {}
        BY Countable DEF TypeOK
    <3>4. IsFiniteSet(Listed(h)')
      <4>1. Listed(h)' \in SUBSET (1 .. Len(list'))
          BY <3>1 DEF Listed
      <4>2. IsFiniteSet(1 .. Len(list'))
          BY <3>1, FS_Interval
      <4>. QED  BY <4>1, <4>2, FS_Subset
    <3>5. Listed(h) = {} => Listed(h)' = {}
        BY <3>1, <3>2, <3>3, <3>4, FS_EmptySet
    <3>. QED  BY <3>1, <3>2, <3>3, <3>5
  <2>5. Open(g) = {c} => Cardinality(Open(g)) = 1
      BY FS_Singleton
  <2>6. ASSUME NEW h \in Hosts
        PROVE  /\ Cardinality(Listed(h)') <= Busy(h)'
               /\ h \notin forgot' => Cardinality(Listed(h)') = Busy(h)'
               /\ h \notin Multi \cup forgot' => Busy(h)' <= 1
               /\ main' = "prepend" /\ from' = h /\ h \notin Multi => Listed(h)' = {}
    <3>1. /\ Cardinality(Listed(h)) <= Busy(h)
          /\ h \notin forgot => Cardinality(Listed(h)) = Busy(h)
          /\ h \notin Multi \cup forgot => Busy(h) <= 1
          /\ main = "prepend" /\ from = h /\ h \notin Multi => Listed(h) = {}
        BY <2>1 DEF ListInv
    <3>2. Busy(h)' = Busy(h) - (IF h = g THEN 1 ELSE 0)
        BY <2>1, <2>3 DEF Busy
    <3>3. Busy(h) \in Nat /\ (h = g => Busy(h) >= 1)
        BY <2>3 DEF Busy
    <3>4. CASE h # g
        BY <2>1, <2>4, <3>1, <3>2, <3>3, <3>4
    <3>5. CASE h = g /\ Open(g) = {c} /\ from # g
      <4>1. Busy(h) = 1
          BY <2>5, <3>5 DEF Busy
      <4>. QED  BY <2>1, <2>4, <3>1, <3>2, <3>5, <4>1
    <3>6. CASE h = g /\ ~(Open(g) = {c} /\ from # g)
        BY <2>1, <2>4, <3>1, <3>2, <3>3, <3>6
    <3>. QED  BY <3>4, <3>5, <3>6
  <2>. QED  BY <2>6 DEF ListInv
<1>23. CASE UNCHANGED vars
    BY <1>23, ListQuiet DEF vars, mainVars, connVars, Open, ListInv, Listed, Busy, Running
<1>. QED  BY <1>1, <1>2, <1>3, <1>4, <1>5, <1>6, <1>7, <1>8, <1>9, <1>10, <1>11,
    <1>12, <1>13, <1>14, <1>15, <1>16, <1>17, <1>18, <1>19, <1>20, <1>21, <1>22, <1>23
    DEF Next, Main, Thread

-----------------------------------------------------------------------------
\* The invariant holds when the server has read its first policy.
LEMMA InvInit == Init => Inv
<1>. SUFFICES ASSUME Init PROVE Inv  OBVIOUS
<1>1. TypeOK /\ MainInv
  <2>1. <<>> \in Seq(Entry)
      OBVIOUS
  <2>2. MainInv
      BY DEF Init, MainInv
  <2>3. /\ st \in [Conns -> {"none", "new", "serving", "closing"}]
        /\ host \in [Conns -> Hosts \cup {None}]
        /\ session \in [Conns -> Nat \cup {None}]
      BY DEF Init
  <2>4. /\ clock \in Nat /\ valid \in Nat /\ seen \in Nat /\ active \in Nat
        /\ now \in Nat /\ waits \in 0 .. 2 /\ tries \in 0 .. MaxTries + 1
        /\ policy \in Nat \cup {None}
      BY ServerAssumption DEF Init
  <2>5. term \in BOOLEAN /\ forgot \in SUBSET Hosts
      BY DEF Init
  <2>6. list \in Seq(Entry)
      BY <2>1 DEF Init
  <2>7. main = "loop" /\ from = None /\ mine = None
      BY DEF Init
  <2>. QED  BY <2>2, <2>3, <2>4, <2>5, <2>6, <2>7 DEF TypeOK
<1>2. Serving = {}  BY DEF Init, Serving
<1>3. ActiveThreadsCounts
    BY <1>2, FS_EmptySet, ServerAssumption DEF Init, ActiveThreadsCounts
<1>4. \A h \in Hosts : Open(h) = {} /\ Listed(h) = {}
    BY DEF Init, Open, Listed
<1>5. ListInv
  <2>1. main = "loop" /\ \A h \in Hosts : Cardinality(Open(h)) = 0 /\ Cardinality(Listed(h)) = 0
      BY <1>4, FS_EmptySet DEF Init
  <2>. QED  BY <2>1 DEF ListInv, Busy
<1>. QED  BY <1>1, <1>2, <1>3, <1>5 DEF Init, Inv, ReloadInv

\* The invariant behind the theorems: the count, and what it tells the main loop.
THEOREM Invariance == Spec => []Inv
<1>1. Inv /\ [Next]_vars => Inv'
    BY TypeStep, CountStep, ReloadStep, ListStep, TypesFollow DEF Inv
<1>. QED  BY <1>1, InvInit, PTL DEF Spec

\* The types of all variables: TRIES and the rounds of WaitOnThreads stay in
\* their bounds, and ACTIVE_THREADS is never negative.
THEOREM TypeCorrect == Spec => []TypeOK
<1>1. Inv => TypeOK  BY DEF Inv
<1>. QED  BY <1>1, Invariance, PTL

\* ACTIVE_THREADS counts the sessions, of which there are at most one more than
\* maxconnections, for any number of connections.
THEOREM CountIsRight == Spec => []ActiveThreadsCounts
<1>1. Inv => ActiveThreadsCounts  BY DEF Inv
<1>. QED  BY <1>1, Invariance, PTL

\* No session sees a reload by CheckFileChanges.
THEOREM SessionsKeepPolicy == Spec => []SessionKeepsPolicy
<1>1. Inv => SessionKeepsPolicy
    <2>. SUFFICES ASSUME Inv, main \notin {"exit", "stopped"}, NEW c \in Serving
                  PROVE policy # None /\ session[c] = policy
        BY DEF SessionKeepsPolicy
    <2>1. main # "load"  BY DEF Inv, ReloadInv
    <2>. QED  BY <2>1, ServerAssumption DEF Inv, ReloadInv
<1>. QED  BY <1>1, Invariance, PTL

\* Entries go when their connections do, however often a host connects and in
\* whatever order: SV.connectionlist never keeps a host out that has no
\* connection.
THEOREM NobodyLockedOut == Spec => []NoStaleEntry
<1>1. Inv => NoStaleEntry
    BY DEF Inv, ListInv, Busy, NoStaleEntry
<1>. QED  BY <1>1, Invariance, PTL

\* A host outside allowallconnects has one connection, but for the purge of old
\* entries: between the look at the list and the new entry, which are two
\* sections of cft_count, no other connection of the host can come.
THEOREM OneAtATime == Spec => []OneConnectionPerHost
<1>1. Inv => OneConnectionPerHost
  <2>. SUFFICES ASSUME Inv, Running, NEW h \in Hosts \ (Multi \cup forgot)
                PROVE  Cardinality(Open(h)) <= 1
      BY DEF OneConnectionPerHost
  <2>1. Cardinality(Open(h)) \in Nat
      BY Countable DEF Inv, TypeOK
  <2>. QED  BY <2>1 DEF Inv, ListInv, Busy
<1>. QED  BY <1>1, Invariance, PTL
=============================================================================
