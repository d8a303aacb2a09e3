--------------------------- MODULE LastSeenProofs ---------------------------
(***************************************************************************)
(* Proofs about LastSeen: what the order of the writes and deletions keeps *)
(* true, for any number of processes, keys and addresses, with LMDB and    *)
(* without it.                                                             *)
(***************************************************************************)
EXTENDS LastSeen, TLAPS

\* Until an overlap, nobody works on the host that a removal has found.
NoOverlap == "overlap" \notin gaps =>
    \A p, r \in Procs : p # r /\ Removing(p) /\ pc[p] # "find" => ~Meets(r, op[p])

\* What a process does tells the kind of its operation, and what it knows of
\* the host.  With LMDB there is nothing between its reads and its writes.
OpInv ==
    \A p \in Procs :
        /\ pc[p] \in {"quality", "forward", "reverse"} => op[p].kind = "update"
        /\ pc[p] \in {"find", "check", "first", "second", "qi", "qo"} => op[p].kind # "update"
        /\ pc[p] = "find" /\ op[p].kind = "ip" => op[p].address # None
        /\ pc[p] = "find" /\ op[p].kind = "digest" => op[p].key # None
        /\ transactions => pc[p] \in {"idle", "quality", "find", "first"}

\* The quality is written before the address of a key, and removed after it.
QualityInv ==
    gaps \cap {"overlap", "unseen"} = {} =>
        /\ \A p \in Procs :
            /\ pc[p] = "forward" => q[op[p].key] # {}
            /\ pc[p] \in {"qi", "qo"} \/ (pc[p] = "second" /\ op[p].kind = "ip")
                  => k[op[p].key] = None
        /\ \A key \in Keys : k[key] # None => q[key] # {}

\* An address leads to a key with an entry, or is about to be removed.
ReverseLeads(ip) ==
    \/ k[a[ip]] # None
    \/ \E p \in Procs : pc[p] = "second" /\ op[p].kind = "ip" /\ op[p].address = ip

\* The key is written before the address that leads to it, and no other address
\* leads to a key that is removed.
ReverseInv ==
    gaps \cap {"overlap", "aliased", "keyless"} = {} =>
        /\ \A p \in Procs :
            /\ pc[p] = "reverse" => k[op[p].key] # None
            /\ pc[p] \in {"first", "second"} =>
                  \A ip \in Addresses \ {op[p].address} : a[ip] # op[p].key
            /\ pc[p] = "second" /\ op[p].kind = "digest" => a[op[p].address] = None
        /\ \A ip \in Addresses : a[ip] # None => ReverseLeads(ip)

\* A key leads to an address with an entry, or to one that is about to be
\* written, or the key is about to be removed.
ForwardLeads(key) ==
    \/ a[k[key]] # None
    \/ \E p \in Procs : pc[p] = "reverse" /\ op[p].address = k[key]
    \/ \E p \in Procs : pc[p] = "second" /\ op[p].kind = "digest" /\ op[p].key = key

\* No other key leads to an address that is removed.
ForwardInv ==
    gaps = {} =>
        /\ \A p \in Procs :
            /\ pc[p] \in {"first", "second"} =>
                  \A key \in Keys \ {op[p].key} : k[key] # op[p].address
            /\ pc[p] = "second" /\ op[p].kind = "ip" => k[op[p].key] = None
        /\ \A key \in Keys : k[key] # None => ForwardLeads(key)

\* The inductive invariant.
IInv == TypeOK /\ OpInv /\ NoOverlap /\ QualityInv /\ ReverseInv /\ ForwardInv

-----------------------------------------------------------------------------
\* Every step keeps the types, and what a process knows.
LEMMA TypeStep ==
    ASSUME TypeOK, OpInv, [Next]_vars PROVE (TypeOK /\ OpInv)'
<1>. USE LastSeenAssumption DEF Goto, db, TypeOK, Ops, Directions,
        Note, OpInv, Gaps
<1>1. ASSUME NEW p \in Procs, NEW key \in Keys, NEW ip \in Addresses, NEW dir \in Directions,
             LastSaw(p, key, ip, dir)
      PROVE  (TypeOK /\ OpInv)'
    BY <1>1 DEF LastSaw, Begin
<1>2. ASSUME NEW p \in Procs, WriteQuality(p)
      PROVE  (TypeOK /\ OpInv)'
    BY <1>2 DEF WriteQuality
<1>3. ASSUME NEW p \in Procs, WriteForward(p)
      PROVE  (TypeOK /\ OpInv)'
    BY <1>3 DEF WriteForward
<1>4. ASSUME NEW p \in Procs, WriteReverse(p)
      PROVE  (TypeOK /\ OpInv)'
    BY <1>4 DEF WriteReverse
<1>5. ASSUME NEW p \in Procs, UpdateAtOnce(p)
      PROVE  (TypeOK /\ OpInv)'
    BY <1>5 DEF UpdateAtOnce
<1>6. ASSUME NEW p \in Procs, NEW ip \in Addresses,
             DeleteIpFromLastSeen(p, ip)
      PROVE  (TypeOK /\ OpInv)'
    BY <1>6 DEF DeleteIpFromLastSeen, RemoveKeysFromLastSeen, Begin
<1>7. ASSUME NEW p \in Procs, NEW key \in Keys,
             DeleteDigestFromLastSeen(p, key)
      PROVE  (TypeOK /\ OpInv)'
    BY <1>7 DEF DeleteDigestFromLastSeen, RemoveKeysFromLastSeen, Begin
<1>8. ASSUME NEW p \in Procs, Find(p)
      PROVE  (TypeOK /\ OpInv)'
    BY <1>8 DEF Find, Found, Filled, Overlaps
<1>9. ASSUME NEW p \in Procs, Check(p)
      PROVE  (TypeOK /\ OpInv)'
    BY <1>9 DEF Check, Leads, Aliased
<1>10. ASSUME NEW p \in Procs, FindAtOnce(p)
      PROVE  (TypeOK /\ OpInv)'
  <2>. DEFINE o == Filled(op[p])
  <2>1. CASE Found(op[p]) = None \/ ~Leads(o)
    <3>1. pc[p] = "find" /\ pc' = [pc EXCEPT ![p] = "idle"] /\ UNCHANGED <<db, op, gaps>>
        BY <1>10, <2>1 DEF FindAtOnce
    <3>. HIDE DEF o
    <3>. QED  BY <3>1
  <2>2. CASE Found(op[p]) # None /\ Leads(o)
    <3>1. o \in Ops /\ o.kind = op[p].kind /\ o.key # None /\ o.address # None
        BY <1>10, <2>2 DEF FindAtOnce, Found, Filled
    <3>2. pc' = [pc EXCEPT ![p] = "first"] /\ op' = [op EXCEPT ![p] = o] /\ UNCHANGED db
        BY <1>10, <2>2 DEF FindAtOnce
    <3>3. /\ pc[p] = "find" /\ gaps \subseteq gaps'
          /\ gaps' = gaps \cup Overlaps(p) \cup Note("aliased", Aliased(o))
          /\ gaps' \subseteq Gaps
        BY <1>10, <2>2 DEF FindAtOnce, Overlaps
    <3>. HIDE DEF o
    <3>. QED  BY <3>1, <3>2, <3>3
  <2>. QED  BY <2>1, <2>2
<1>11. ASSUME NEW p \in Procs, DeleteFirst(p)
      PROVE  (TypeOK /\ OpInv)'
    BY <1>11 DEF DeleteFirst
<1>12. ASSUME NEW p \in Procs, DeleteSecond(p)
      PROVE  (TypeOK /\ OpInv)'
    BY <1>12 DEF DeleteSecond
<1>13. ASSUME NEW p \in Procs, DeleteQuality(p)
      PROVE  (TypeOK /\ OpInv)'
    BY <1>13 DEF DeleteQuality
<1>14. ASSUME NEW p \in Procs, RemoveAtOnce(p)
      PROVE  (TypeOK /\ OpInv)'
    BY <1>14 DEF RemoveAtOnce
<1>15. ASSUME NEW p \in Procs, WriteFails(p)
      PROVE  (TypeOK /\ OpInv)'
    BY <1>15 DEF WriteFails, After
<1>16. ASSUME NEW p \in Procs, Crash(p)
      PROVE  (TypeOK /\ OpInv)'
    BY <1>16 DEF Crash
<1>17. CASE UNCHANGED vars
    BY <1>17 DEF vars
<1>. HIDE DEF Goto, db, TypeOK, Ops, Directions,
        Note, OpInv, Gaps
<1>. QED  BY <1>1, <1>2, <1>3, <1>4, <1>5, <1>6, <1>7, <1>8, <1>9, <1>10,
    <1>11, <1>12, <1>13, <1>14, <1>15, <1>16, <1>17
    DEF Next, Update, Remove

\* A step that meets a removal of the same host is recorded.
LEMMA OverlapStep ==
    ASSUME TypeOK, OpInv, NoOverlap, [Next]_vars PROVE NoOverlap'
<1>. USE LastSeenAssumption DEF Goto, db, TypeOK, Ops, Directions,
        Note, OpInv, NoOverlap, Removing, Meets, Overlaps
<1>1. ASSUME NEW p \in Procs, NEW key \in Keys, NEW ip \in Addresses, NEW dir \in Directions,
             LastSaw(p, key, ip, dir)
      PROVE  NoOverlap'
    BY <1>1 DEF LastSaw, Begin
<1>2. ASSUME NEW p \in Procs, WriteQuality(p)
      PROVE  NoOverlap'
    BY <1>2 DEF WriteQuality
<1>3. ASSUME NEW p \in Procs, WriteForward(p)
      PROVE  NoOverlap'
    BY <1>3 DEF WriteForward
<1>4. ASSUME NEW p \in Procs, WriteReverse(p)
      PROVE  NoOverlap'
    BY <1>4 DEF WriteReverse
<1>5. ASSUME NEW p \in Procs, UpdateAtOnce(p)
      PROVE  NoOverlap'
    BY <1>5 DEF UpdateAtOnce
<1>6. ASSUME NEW p \in Procs, NEW ip \in Addresses,
             DeleteIpFromLastSeen(p, ip)
      PROVE  NoOverlap'
    BY <1>6 DEF DeleteIpFromLastSeen, RemoveKeysFromLastSeen, Begin
<1>7. ASSUME NEW p \in Procs, NEW key \in Keys,
             DeleteDigestFromLastSeen(p, key)
      PROVE  NoOverlap'
    BY <1>7 DEF DeleteDigestFromLastSeen, RemoveKeysFromLastSeen, Begin
<1>8. ASSUME NEW p \in Procs, Find(p)
      PROVE  NoOverlap'
    BY <1>8 DEF Find, Found, Filled, Overlaps
<1>9. ASSUME NEW p \in Procs, Check(p)
      PROVE  NoOverlap'
    BY <1>9 DEF Check, Leads, Aliased
<1>10. ASSUME NEW p \in Procs, FindAtOnce(p)
      PROVE  NoOverlap'
    BY <1>10 DEF FindAtOnce, Found, Filled, Leads, Aliased, Overlaps
<1>11. ASSUME NEW p \in Procs, DeleteFirst(p)
      PROVE  NoOverlap'
    BY <1>11 DEF DeleteFirst
<1>12. ASSUME NEW p \in Procs, DeleteSecond(p)
      PROVE  NoOverlap'
    BY <1>12 DEF DeleteSecond
<1>13. ASSUME NEW p \in Procs, DeleteQuality(p)
      PROVE  NoOverlap'
    BY <1>13 DEF DeleteQuality
<1>14. ASSUME NEW p \in Procs, RemoveAtOnce(p)
      PROVE  NoOverlap'
    BY <1>14 DEF RemoveAtOnce
<1>15. ASSUME NEW p \in Procs, WriteFails(p)
      PROVE  NoOverlap'
    BY <1>15 DEF WriteFails, After
<1>16. ASSUME NEW p \in Procs, Crash(p)
      PROVE  NoOverlap'
    BY <1>16 DEF Crash
<1>17. CASE UNCHANGED vars
    BY <1>17 DEF vars
<1>. HIDE DEF Goto, db, TypeOK, Ops, Directions,
        Note, OpInv, NoOverlap, Removing, Meets, Overlaps
<1>. QED  BY <1>1, <1>2, <1>3, <1>4, <1>5, <1>6, <1>7, <1>8, <1>9, <1>10,
    <1>11, <1>12, <1>13, <1>14, <1>15, <1>16, <1>17
    DEF Next, Update, Remove

\* Every step keeps QualityInv.
LEMMA QualityStep ==
    ASSUME TypeOK, OpInv, NoOverlap, QualityInv, [Next]_vars PROVE QualityInv'
<1>. USE LastSeenAssumption DEF Goto, db, TypeOK, Ops, Directions,
        Note, OpInv, NoOverlap, Removing, Meets, QualityInv
<1>1. ASSUME NEW p \in Procs, NEW key \in Keys, NEW ip \in Addresses, NEW dir \in Directions,
             LastSaw(p, key, ip, dir)
      PROVE  QualityInv'
    BY <1>1 DEF LastSaw, Begin
<1>2. ASSUME NEW p \in Procs, WriteQuality(p)
      PROVE  QualityInv'
  <2>1. op[p].key \in Keys /\ op[p].kind = "update" /\ op' = op /\ k' = k /\ gaps' = gaps
      BY <1>2 DEF WriteQuality
  <2>2. \A key \in Keys : q'[key] = q[key] \cup (IF key = op[p].key THEN {op[p].dir} ELSE {})
      BY <1>2 DEF WriteQuality
  <2>3. pc' = [pc EXCEPT ![p] = "forward"]
      BY <1>2 DEF WriteQuality
  <2>4. q'[op[p].key] # {} /\ \A key \in Keys : q[key] # {} => q'[key] # {}
      BY <2>1, <2>2
  <2>5. \A r \in Procs : r # p => pc'[r] = pc[r]
      BY <2>3
  <2>6. pc'[p] = "forward" /\ pc[p] = "quality"
      BY <1>2, <2>3 DEF WriteQuality
  <2>7. \A r \in Procs : pc[r] = "forward" => op[r].key \in Keys
      OBVIOUS
  <2>. QED  BY <2>1, <2>4, <2>5, <2>6, <2>7
<1>3. ASSUME NEW p \in Procs, WriteForward(p)
      PROVE  QualityInv'
    BY <1>3 DEF WriteForward
<1>4. ASSUME NEW p \in Procs, WriteReverse(p)
      PROVE  QualityInv'
    BY <1>4 DEF WriteReverse
<1>5. ASSUME NEW p \in Procs, UpdateAtOnce(p)
      PROVE  QualityInv'
  <2>1. PICK n \in 1 .. 4 :
          /\ q' = IF n > 1 THEN q ELSE [q EXCEPT ![op[p].key] = @ \cup {op[p].dir}]
          /\ k' = IF n > 2 THEN k ELSE [k EXCEPT ![op[p].key] = op[p].address]
          /\ a' = IF n > 3 THEN a ELSE [a EXCEPT ![op[p].address] = op[p].key]
          /\ gaps' = gaps \cup Note("failed", n \in 2 .. 3)
                           \cup Note("unseen", n = 2) \cup Note("keyless", n = 3)
      BY <1>5 DEF UpdateAtOnce
  <2>2. /\ transactions /\ transactions' /\ op' = op
        /\ pc[p] = "quality" /\ pc' = [pc EXCEPT ![p] = "idle"]
        /\ op[p].key \in Keys /\ op[p].address \in Addresses
      BY <1>5 DEF UpdateAtOnce
  <2>3. \A r \in Procs : pc'[r] \in {"idle", "quality", "find", "first"}
      BY <2>2
  <2>4. gaps \subseteq gaps' /\ (n = 2 => "unseen" \in gaps') /\ (n = 3 => "keyless" \in gaps')
      BY <2>1
  <2>5. gaps' \cap {"overlap", "unseen"} = {} => gaps \cap {"overlap", "unseen"} = {} /\ n # 2
      BY <2>4
  <2>6. CASE n = 1
    <3>1. q' = [q EXCEPT ![op[p].key] = @ \cup {op[p].dir}]
          /\ k' = [k EXCEPT ![op[p].key] = op[p].address]
        BY <2>1, <2>6
    <3>2. op[p].dir \in q'[op[p].key]
        BY <2>2, <3>1
    <3>3. \A key \in Keys \ {op[p].key} : q'[key] = q[key] /\ k'[key] = k[key]
        BY <2>2, <3>1
    <3>. QED  BY <2>3, <2>5, <3>2, <3>3
  <2>7. CASE n = 2
      BY <2>5, <2>7
  <2>8. CASE n > 2
    <3>1. q' = q /\ k' = k
        BY <2>1, <2>8
    <3>. QED  BY <2>3, <2>5, <3>1
  <2>. QED  BY <2>1, <2>6, <2>7, <2>8
<1>6. ASSUME NEW p \in Procs, NEW ip \in Addresses,
             DeleteIpFromLastSeen(p, ip)
      PROVE  QualityInv'
    BY <1>6 DEF DeleteIpFromLastSeen, RemoveKeysFromLastSeen, Begin
<1>7. ASSUME NEW p \in Procs, NEW key \in Keys,
             DeleteDigestFromLastSeen(p, key)
      PROVE  QualityInv'
    BY <1>7 DEF DeleteDigestFromLastSeen, RemoveKeysFromLastSeen, Begin
<1>8. ASSUME NEW p \in Procs, Find(p)
      PROVE  QualityInv'
    BY <1>8 DEF Find, Found, Filled, Overlaps
<1>9. ASSUME NEW p \in Procs, Check(p)
      PROVE  QualityInv'
    BY <1>9 DEF Check, Leads, Aliased
<1>10. ASSUME NEW p \in Procs, FindAtOnce(p)
      PROVE  QualityInv'
    BY <1>10 DEF FindAtOnce, Found, Filled, Leads, Aliased, Overlaps
<1>11. ASSUME NEW p \in Procs, DeleteFirst(p)
      PROVE  QualityInv'
    BY <1>11 DEF DeleteFirst
<1>12. ASSUME NEW p \in Procs, DeleteSecond(p)
      PROVE  QualityInv'
    BY <1>12 DEF DeleteSecond
<1>13. ASSUME NEW p \in Procs, DeleteQuality(p)
      PROVE  QualityInv'
    BY <1>13 DEF DeleteQuality
<1>14. ASSUME NEW p \in Procs, RemoveAtOnce(p)
      PROVE  QualityInv'
  <2>. DEFINE o == op[p]
  <2>1. PICK n \in 1 .. 5 :
          /\ k' = IF n <= IF o.kind = "ip" THEN 1 ELSE 2 THEN [k EXCEPT ![o.key] = None] ELSE k
          /\ a' = IF n <= IF o.kind = "ip" THEN 2 ELSE 1 THEN [a EXCEPT ![o.address] = None]
                  ELSE a
          /\ q' = [q EXCEPT ![o.key] = @ \ IF n <= 3 THEN {"in", "out"}
                                           ELSE IF n = 4 THEN {"out"} ELSE {}]
          /\ gaps' = gaps \cup Note("failed", n \in 2 .. 4)
                           \cup Note("unseen", n \in 3 .. 4 \/ (n = 2 /\ o.kind = "ip"))
                           \cup Note("keyless", n = 2 /\ o.kind = "digest")
      BY <1>14 DEF RemoveAtOnce
  <2>2. /\ transactions /\ transactions' /\ op' = op
        /\ pc[p] = "first" /\ pc' = [pc EXCEPT ![p] = "idle"]
        /\ o.key \in Keys /\ o.address \in Addresses /\ o.kind \in {"ip", "digest"}
      BY <1>14 DEF RemoveAtOnce
  <2>3. \A r \in Procs : pc'[r] \in {"idle", "quality", "find", "first"}
      BY <2>2
  <2>4. /\ gaps \subseteq gaps'
        /\ n \in 3 .. 4 \/ (n = 2 /\ o.kind = "ip") => "unseen" \in gaps'
      BY <2>1
  <2>. HIDE DEF o
  <2>5. gaps' \cap {"overlap", "unseen"} = {} =>
          /\ gaps \cap {"overlap", "unseen"} = {}
          /\ n = 1 \/ n = 5 \/ (n = 2 /\ o.kind = "digest")
      BY <2>2, <2>4
  <2>6. CASE n = 1 \/ (n = 2 /\ o.kind = "digest")
    <3>1. \A key \in Keys : k'[key] # None => k'[key] = k[key] /\ q'[key] = q[key]
        BY <2>1, <2>2, <2>6
    <3>. QED  BY <2>3, <2>5, <3>1
  <2>7. CASE n = 5
    <3>1. q' = q /\ k' = k
        BY <2>1, <2>2, <2>7
    <3>. QED  BY <2>3, <2>5, <3>1
  <2>. QED  BY <2>5, <2>6, <2>7
<1>15. ASSUME NEW p \in Procs, WriteFails(p)
      PROVE  QualityInv'
  <2>1. /\ UNCHANGED <<q, k, a, op>>
        /\ pc[p] \in {"quality", "forward", "reverse", "first", "second", "qi", "qo"}
        /\ pc' = [pc EXCEPT ![p] = After[pc[p]]]
        /\ gaps \subseteq gaps'
      BY <1>15 DEF WriteFails, After
  <2>2. \A r \in Procs \ {p} : pc'[r] = pc[r]
      BY <2>1
  <2>3. gaps' \cap {"overlap", "unseen"} = {} =>
          /\ gaps \cap {"overlap", "unseen"} = {}
          /\ pc[p] # "quality" /\ (pc[p] = "first" => op[p].kind # "ip")
          /\ pc[p] = "second" => op[p].kind = "ip"
      BY <1>15 DEF WriteFails
  <2>4. /\ pc'[p] = "forward" => pc[p] = "quality"
        /\ pc'[p] = "second" => pc[p] = "first"
        /\ pc'[p] \in {"qi", "qo"} => pc[p] \in {"second", "qi"}
      BY <2>1 DEF After
  <2>. QED  BY <2>1, <2>2, <2>3, <2>4
<1>16. ASSUME NEW p \in Procs, Crash(p)
      PROVE  QualityInv'
    BY <1>16 DEF Crash
<1>17. CASE UNCHANGED vars
    BY <1>17 DEF vars
<1>. HIDE DEF Goto, db, TypeOK, Ops, Directions,
        Note, OpInv, NoOverlap, Removing, Meets, QualityInv
<1>. QED  BY <1>1, <1>2, <1>3, <1>4, <1>5, <1>6, <1>7, <1>8, <1>9, <1>10,
    <1>11, <1>12, <1>13, <1>14, <1>15, <1>16, <1>17
    DEF Next, Update, Remove

\* Every step keeps ReverseInv.
LEMMA ReverseStep ==
    ASSUME TypeOK, OpInv, NoOverlap, ReverseInv, [Next]_vars PROVE ReverseInv'
<1>. USE LastSeenAssumption DEF Goto, db, TypeOK, Ops, Directions,
        Note, OpInv, NoOverlap, Removing, Meets, ReverseInv, ReverseLeads
<1>1. ASSUME NEW p \in Procs, NEW key \in Keys, NEW ip \in Addresses, NEW dir \in Directions,
             LastSaw(p, key, ip, dir)
      PROVE  ReverseInv'
    BY <1>1 DEF LastSaw, Begin
<1>2. ASSUME NEW p \in Procs, WriteQuality(p)
      PROVE  ReverseInv'
    BY <1>2 DEF WriteQuality
<1>3. ASSUME NEW p \in Procs, WriteForward(p)
      PROVE  ReverseInv'
    BY <1>3 DEF WriteForward
<1>4. ASSUME NEW p \in Procs, WriteReverse(p)
      PROVE  ReverseInv'
    BY <1>4 DEF WriteReverse
<1>5. ASSUME NEW p \in Procs, UpdateAtOnce(p)
      PROVE  ReverseInv'
  <2>1. PICK n \in 1 .. 4 :
          /\ q' = IF n > 1 THEN q ELSE [q EXCEPT ![op[p].key] = @ \cup {op[p].dir}]
          /\ k' = IF n > 2 THEN k ELSE [k EXCEPT ![op[p].key] = op[p].address]
          /\ a' = IF n > 3 THEN a ELSE [a EXCEPT ![op[p].address] = op[p].key]
          /\ gaps' = gaps \cup Note("failed", n \in 2 .. 3)
                           \cup Note("unseen", n = 2) \cup Note("keyless", n = 3)
      BY <1>5 DEF UpdateAtOnce
  <2>2. /\ transactions /\ transactions' /\ op' = op
        /\ pc[p] = "quality" /\ pc' = [pc EXCEPT ![p] = "idle"]
        /\ op[p].key \in Keys /\ op[p].address \in Addresses
      BY <1>5 DEF UpdateAtOnce
  <2>3. \A r \in Procs : pc'[r] \in {"idle", "quality", "find", "first"}
      BY <2>2
  <2>. SUFFICES ASSUME gaps' \cap {"overlap", "aliased", "keyless"} = {}
       PROVE  /\ \A r \in Procs : pc'[r] = "first" =>
                    \A ip \in Addresses \ {op[r].address} : a'[ip] # op[r].key
              /\ \A ip \in Addresses : a'[ip] # None => k'[a'[ip]] # None
      BY <2>2, <2>3
  <2>4. gaps \subseteq gaps' /\ (n = 2 => "unseen" \in gaps') /\ (n = 3 => "keyless" \in gaps')
      BY <2>1
  <2>5. gaps \cap {"overlap", "aliased", "keyless"} = {} /\ n # 3
      BY <2>4
  <2>6. \A ip \in Addresses : a[ip] # None => k[a[ip]] # None
      BY <2>2, <2>5
  <2>7. \A r \in Procs : pc'[r] = "first" => r # p /\ pc[r] = "first" /\ op[r].key # op[p].key
      BY <2>2, <2>5
  <2>8. CASE n <= 2
    <3>1. /\ a' = [a EXCEPT ![op[p].address] = op[p].key]
          /\ k' = [k EXCEPT ![op[p].key] = op[p].address]
        BY <2>1, <2>8
    <3>2. \A ip \in Addresses : a'[ip] # None => k'[a'[ip]] # None
        BY <2>2, <2>6, <3>1
    <3>. QED  BY <2>2, <2>5, <2>7, <3>1, <3>2
  <2>9. CASE n = 4
    <3>1. a' = a /\ k' = k
        BY <2>1, <2>9
    <3>. QED  BY <2>2, <2>5, <2>6, <2>7, <3>1
  <2>. QED  BY <2>5, <2>8, <2>9
<1>6. ASSUME NEW p \in Procs, NEW ip \in Addresses,
             DeleteIpFromLastSeen(p, ip)
      PROVE  ReverseInv'
    BY <1>6 DEF DeleteIpFromLastSeen, RemoveKeysFromLastSeen, Begin
<1>7. ASSUME NEW p \in Procs, NEW key \in Keys,
             DeleteDigestFromLastSeen(p, key)
      PROVE  ReverseInv'
    BY <1>7 DEF DeleteDigestFromLastSeen, RemoveKeysFromLastSeen, Begin
<1>8. ASSUME NEW p \in Procs, Find(p)
      PROVE  ReverseInv'
    BY <1>8 DEF Find, Found, Filled, Overlaps
<1>9. ASSUME NEW p \in Procs, Check(p)
      PROVE  ReverseInv'
  <2>1. /\ UNCHANGED <<q, k, a, op>> /\ gaps \subseteq gaps'
        /\ pc[p] = "check" /\ pc'[p] \in {"first", "idle"}
        /\ \A r \in Procs \ {p} : pc'[r] = pc[r]
      BY <1>9 DEF Check
  <2>2. pc'[p] = "first" /\ "aliased" \notin gaps' => ~Aliased(op[p])
      BY <1>9 DEF Check
  <2>3. op[p].key \in Keys /\ op[p].address \in Addresses
      BY <1>9 DEF Check
  <2>4. pc'[p] = "first" /\ "aliased" \notin gaps' =>
          \A ip \in Addresses \ {op[p].address} : a[ip] # op[p].key
      BY <2>2 DEF Aliased
  <2>. QED  BY <2>1, <2>4
<1>10. ASSUME NEW p \in Procs, FindAtOnce(p)
      PROVE  ReverseInv'
  <2>. DEFINE o == Filled(op[p])
  <2>1. CASE Found(op[p]) = None \/ ~Leads(o)
      BY <1>10, <2>1 DEF FindAtOnce
  <2>2. CASE Found(op[p]) # None /\ Leads(o)
    <3>1. o \in Ops /\ o.kind = op[p].kind /\ o.key # None /\ o.address # None
        BY <1>10, <2>2 DEF FindAtOnce, Found, Filled
    <3>2. pc' = [pc EXCEPT ![p] = "first"] /\ op' = [op EXCEPT ![p] = o] /\ UNCHANGED db
        BY <1>10, <2>2 DEF FindAtOnce
    <3>3. /\ pc[p] = "find" /\ gaps \subseteq gaps'
          /\ gaps' = gaps \cup Overlaps(p) \cup Note("aliased", Aliased(o))
        BY <1>10, <2>2 DEF FindAtOnce
    <3>4. "aliased" \notin gaps' => ~Aliased(o)
        BY <3>3
    <3>5. \A r \in Procs : pc[r] \in {"idle", "quality", "find", "first"}
        BY <1>10 DEF FindAtOnce
    <3>. HIDE DEF o
    <3>6. pc'[p] = "first" /\ op'[p] = o /\ \A r \in Procs \ {p} : pc'[r] = pc[r] /\ op'[r] = op[r]
        BY <3>2, <3>3
    <3>7. "aliased" \notin gaps' => \A ip \in Addresses \ {o.address} : a[ip] # o.key
        BY <3>4 DEF Aliased
    <3>8. \A r \in Procs : pc'[r] # "second" /\ pc'[r] # "reverse"
        BY <3>2, <3>3, <3>5
    <3>9. \A ip \in Addresses :
            gaps \cap {"overlap", "aliased", "keyless"} = {} /\ a[ip] # None => k[a[ip]] # None
        BY <3>5
    <3>10. gaps' \cap {"overlap", "aliased", "keyless"} = {} =>
             /\ gaps \cap {"overlap", "aliased", "keyless"} = {} /\ "aliased" \notin gaps'
        BY <3>3
    <3>11. gaps' \cap {"overlap", "aliased", "keyless"} = {} =>
             \A r \in Procs : pc'[r] = "first" =>
                \A ip \in Addresses \ {op'[r].address} : a'[ip] # op'[r].key
        BY <3>2, <3>6, <3>7, <3>10
    <3>12. gaps' \cap {"overlap", "aliased", "keyless"} = {} =>
             \A ip \in Addresses : a'[ip] # None => k'[a'[ip]] # None
        BY <3>2, <3>9, <3>10
    <3>. QED  BY <3>8, <3>11, <3>12
  <2>. QED  BY <2>1, <2>2
<1>11. ASSUME NEW p \in Procs, DeleteFirst(p)
      PROVE  ReverseInv'
    BY <1>11 DEF DeleteFirst
<1>12. ASSUME NEW p \in Procs, DeleteSecond(p)
      PROVE  ReverseInv'
    BY <1>12 DEF DeleteSecond
<1>13. ASSUME NEW p \in Procs, DeleteQuality(p)
      PROVE  ReverseInv'
    BY <1>13 DEF DeleteQuality
<1>14. ASSUME NEW p \in Procs, RemoveAtOnce(p)
      PROVE  ReverseInv'
  <2>. DEFINE o == op[p]
  <2>1. PICK n \in 1 .. 5 :
          /\ k' = IF n <= IF o.kind = "ip" THEN 1 ELSE 2 THEN [k EXCEPT ![o.key] = None] ELSE k
          /\ a' = IF n <= IF o.kind = "ip" THEN 2 ELSE 1 THEN [a EXCEPT ![o.address] = None]
                  ELSE a
          /\ q' = [q EXCEPT ![o.key] = @ \ IF n <= 3 THEN {"in", "out"}
                                           ELSE IF n = 4 THEN {"out"} ELSE {}]
          /\ gaps' = gaps \cup Note("failed", n \in 2 .. 4)
                           \cup Note("unseen", n \in 3 .. 4 \/ (n = 2 /\ o.kind = "ip"))
                           \cup Note("keyless", n = 2 /\ o.kind = "digest")
      BY <1>14 DEF RemoveAtOnce
  <2>2. /\ transactions /\ transactions' /\ op' = op
        /\ pc[p] = "first" /\ pc' = [pc EXCEPT ![p] = "idle"]
        /\ o.key \in Keys /\ o.address \in Addresses /\ o.kind \in {"ip", "digest"}
      BY <1>14 DEF RemoveAtOnce
  <2>3. \A r \in Procs : pc'[r] \in {"idle", "quality", "find", "first"}
      BY <2>2
  <2>. SUFFICES ASSUME gaps' \cap {"overlap", "aliased", "keyless"} = {}
       PROVE  /\ \A r \in Procs : pc'[r] = "first" =>
                    \A ip \in Addresses \ {op[r].address} : a'[ip] # op[r].key
              /\ \A ip \in Addresses : a'[ip] # None => k'[a'[ip]] # None
      BY <2>2, <2>3
  <2>4. gaps \cap {"overlap", "aliased", "keyless"} = {} /\ (n = 2 => o.kind = "ip")
      BY <2>1, <2>2
  <2>5. \A ip \in Addresses : a[ip] # None => k[a[ip]] # None
      BY <2>2, <2>4
  <2>6. \A ip \in Addresses \ {o.address} : a[ip] # o.key
      BY <2>2, <2>4
  <2>7. \A r \in Procs : pc'[r] = "first" => pc[r] = "first"
      BY <2>2
  <2>. HIDE DEF o
  <2>8. \A ip \in Addresses : a'[ip] = a[ip] \/ a'[ip] = None
      BY <2>1, <2>2
  <2>9. \A r \in Procs : pc'[r] = "first" =>
          \A ip \in Addresses \ {op[r].address} : a'[ip] # op[r].key
      BY <2>4, <2>7, <2>8
  <2>10. CASE n <= 2
    <3>1. a'[o.address] = None
        BY <2>1, <2>2, <2>4, <2>10
    <3>2. \A key \in Keys \ {o.key} : k'[key] = k[key]
        BY <2>1, <2>2
    <3>3. \A ip \in Addresses : a'[ip] # None => k'[a'[ip]] # None
        BY <2>5, <2>6, <2>8, <3>1, <3>2
    <3>. QED  BY <2>9, <3>3
  <2>11. CASE n > 2
    <3>1. a' = a /\ k' = k
        BY <2>1, <2>2, <2>11
    <3>. QED  BY <2>5, <2>9, <3>1
  <2>. QED  BY <2>1, <2>10, <2>11
<1>15. ASSUME NEW p \in Procs, WriteFails(p)
      PROVE  ReverseInv'
  <2>1. /\ UNCHANGED <<q, k, a, op>>
        /\ pc[p] \in {"quality", "forward", "reverse", "first", "second", "qi", "qo"}
        /\ pc' = [pc EXCEPT ![p] = After[pc[p]]]
        /\ gaps \subseteq gaps'
      BY <1>15 DEF WriteFails, After
  <2>2. \A r \in Procs \ {p} : pc'[r] = pc[r]
      BY <2>1
  <2>3. gaps' \cap {"overlap", "aliased", "keyless"} = {} =>
          /\ gaps \cap {"overlap", "aliased", "keyless"} = {}
          /\ pc[p] # "forward" /\ (pc[p] = "first" => op[p].kind = "ip")
          /\ pc[p] = "second" => op[p].kind # "ip"
      BY <1>15 DEF WriteFails
  <2>4. /\ pc'[p] = "reverse" => pc[p] = "forward"
        /\ pc'[p] = "second" => pc[p] = "first"
        /\ pc'[p] # "first"
      BY <2>1 DEF After
  <2>. QED  BY <2>1, <2>2, <2>3, <2>4
<1>16. ASSUME NEW p \in Procs, Crash(p)
      PROVE  ReverseInv'
  <2>1. /\ UNCHANGED <<q, k, a, op>> /\ gaps \subseteq gaps' /\ pc'[p] = "idle"
        /\ \A r \in Procs \ {p} : pc'[r] = pc[r]
      BY <1>16 DEF Crash
  <2>2. "keyless" \notin gaps' => ~(pc[p] = "second" /\ op[p].kind = "ip")
      BY <1>16 DEF Crash
  <2>. QED  BY <2>1, <2>2
<1>17. CASE UNCHANGED vars
    BY <1>17 DEF vars
<1>. HIDE DEF Goto, db, TypeOK, Ops, Directions,
        Note, OpInv, NoOverlap, Removing, Meets, ReverseInv, ReverseLeads
<1>. QED  BY <1>1, <1>2, <1>3, <1>4, <1>5, <1>6, <1>7, <1>8, <1>9, <1>10,
    <1>11, <1>12, <1>13, <1>14, <1>15, <1>16, <1>17
    DEF Next, Update, Remove

\* Every step keeps ForwardInv.
LEMMA ForwardStep ==
    ASSUME TypeOK, OpInv, NoOverlap, ForwardInv, [Next]_vars PROVE ForwardInv'
<1>. USE LastSeenAssumption DEF Goto, db, TypeOK, Ops, Directions,
        Note, OpInv, NoOverlap, Removing, Meets, ForwardInv, ForwardLeads
<1>1. ASSUME NEW p \in Procs, NEW key \in Keys, NEW ip \in Addresses, NEW dir \in Directions,
             LastSaw(p, key, ip, dir)
      PROVE  ForwardInv'
    BY <1>1 DEF LastSaw, Begin
<1>2. ASSUME NEW p \in Procs, WriteQuality(p)
      PROVE  ForwardInv'
    BY <1>2 DEF WriteQuality
<1>3. ASSUME NEW p \in Procs, WriteForward(p)
      PROVE  ForwardInv'
    BY <1>3 DEF WriteForward
<1>4. ASSUME NEW p \in Procs, WriteReverse(p)
      PROVE  ForwardInv'
    BY <1>4 DEF WriteReverse
<1>5. ASSUME NEW p \in Procs, UpdateAtOnce(p)
      PROVE  ForwardInv'
    BY <1>5 DEF UpdateAtOnce
<1>6. ASSUME NEW p \in Procs, NEW ip \in Addresses,
             DeleteIpFromLastSeen(p, ip)
      PROVE  ForwardInv'
    BY <1>6 DEF DeleteIpFromLastSeen, RemoveKeysFromLastSeen, Begin
<1>7. ASSUME NEW p \in Procs, NEW key \in Keys,
             DeleteDigestFromLastSeen(p, key)
      PROVE  ForwardInv'
    BY <1>7 DEF DeleteDigestFromLastSeen, RemoveKeysFromLastSeen, Begin
<1>8. ASSUME NEW p \in Procs, Find(p)
      PROVE  ForwardInv'
  <2>. DEFINE o == Filled(op[p])
  <2>1. CASE Found(op[p]) = None
      BY <1>8, <2>1 DEF Find
  <2>2. CASE Found(op[p]) # None
    <3>1. pc' = [pc EXCEPT ![p] = "check"] /\ op' = [op EXCEPT ![p] = o] /\ UNCHANGED db
        BY <1>8, <2>2 DEF Find
    <3>2. pc[p] = "find" /\ gaps \subseteq gaps'
        BY <1>8, <2>2 DEF Find
    <3>. HIDE DEF o
    <3>. QED  BY <3>1, <3>2
  <2>. QED  BY <2>1, <2>2
<1>9. ASSUME NEW p \in Procs, Check(p)
      PROVE  ForwardInv'
  <2>1. /\ UNCHANGED <<q, k, a, op>> /\ gaps \subseteq gaps'
        /\ pc[p] = "check" /\ pc'[p] \in {"first", "idle"}
        /\ \A r \in Procs \ {p} : pc'[r] = pc[r]
      BY <1>9 DEF Check
  <2>2. pc'[p] = "first" /\ "aliased" \notin gaps' => ~Aliased(op[p])
      BY <1>9 DEF Check
  <2>3. op[p].key \in Keys /\ op[p].address \in Addresses
      BY <1>9 DEF Check
  <2>4. gaps' = {} => gaps = {} /\ (pc'[p] = "first" => ~Aliased(op[p]))
      BY <2>1, <2>2
  <2>. SUFFICES ASSUME gaps' = {}
       PROVE  /\ \A r \in Procs :
                  /\ pc'[r] \in {"first", "second"} =>
                        \A key \in Keys \ {op'[r].key} : k'[key] # op'[r].address
                  /\ pc'[r] = "second" /\ op'[r].kind = "ip" => k'[op'[r].key] = None
              /\ \A key \in Keys : k'[key] # None => ForwardLeads(key)'
      OBVIOUS
  <2>5. pc'[p] = "first" => \A key \in Keys \ {op[p].key} : k[key] # op[p].address
      BY <2>4 DEF Aliased
  <2>6. gaps = {}
      BY <2>4
  <2>7. \A r \in Procs :
          /\ pc[r] \in {"first", "second"} => \A key \in Keys \ {op[r].key} : k[key] # op[r].address
          /\ pc[r] = "second" /\ op[r].kind = "ip" => k[op[r].key] = None
      BY <2>6
  <2>8. \A key \in Keys : k[key] # None => ForwardLeads(key)
      BY <2>6
  <2>9. ASSUME NEW key \in Keys, k'[key] # None PROVE ForwardLeads(key)'
    <3>1. k' = k /\ a' = a /\ op' = op
        BY <2>1
    <3>2. \A r \in Procs : pc[r] \in {"reverse", "second"} => pc'[r] = pc[r]
        BY <2>1
    <3>3. ForwardLeads(key)
        BY <2>8, <2>9, <3>1
    <3>. QED  BY <3>1, <3>2, <3>3
  <2>10. \A r \in Procs : pc'[r] \in {"first", "second"} =>
          \A key \in Keys \ {op'[r].key} : k'[key] # op'[r].address
      BY <2>1, <2>5, <2>7
  <2>11. \A r \in Procs : pc'[r] = "second" /\ op'[r].kind = "ip" => k'[op'[r].key] = None
      BY <2>1, <2>7
  <2>. QED  BY <2>9, <2>10, <2>11
<1>10. ASSUME NEW p \in Procs, FindAtOnce(p)
      PROVE  ForwardInv'
  <2>. SUFFICES ASSUME gaps' = {}
       PROVE  /\ \A r \in Procs :
                  /\ pc'[r] \in {"first", "second"} =>
                        \A key \in Keys \ {op'[r].key} : k'[key] # op'[r].address
                  /\ pc'[r] = "second" /\ op'[r].kind = "ip" => k'[op'[r].key] = None
              /\ \A key \in Keys : k'[key] # None => ForwardLeads(key)'
      OBVIOUS
  <2>. DEFINE o == Filled(op[p])
  <2>1. CASE Found(op[p]) = None \/ ~Leads(o)
      BY <1>10, <2>1 DEF FindAtOnce
  <2>2. CASE Found(op[p]) # None /\ Leads(o)
    <3>1. o \in Ops /\ o.kind = op[p].kind /\ o.key # None /\ o.address # None
        BY <1>10, <2>2 DEF FindAtOnce, Found, Filled
    <3>2. pc' = [pc EXCEPT ![p] = "first"] /\ op' = [op EXCEPT ![p] = o] /\ UNCHANGED db
        BY <1>10, <2>2 DEF FindAtOnce
    <3>3. /\ pc[p] = "find" /\ gaps \subseteq gaps'
          /\ gaps' = gaps \cup Overlaps(p) \cup Note("aliased", Aliased(o))
        BY <1>10, <2>2 DEF FindAtOnce
    <3>4. "aliased" \notin gaps' => ~Aliased(o)
        BY <3>3
    <3>5. \A r \in Procs : pc[r] \in {"idle", "quality", "find", "first"}
        BY <1>10 DEF FindAtOnce
    <3>. HIDE DEF o
    <3>6. pc'[p] = "first" /\ op'[p] = o /\ \A r \in Procs \ {p} : pc'[r] = pc[r] /\ op'[r] = op[r]
        BY <3>2, <3>3
    <3>7. \A key \in Keys \ {o.key} : k[key] # o.address
        BY <3>4 DEF Aliased
    <3>8. gaps = {}
        BY <3>3
    <3>9. \A r \in Procs : pc'[r] # "second" /\ pc'[r] # "reverse"
        BY <3>2, <3>3, <3>5
    <3>10. \A r \in Procs : pc'[r] \in {"first", "second"} =>
                \A key \in Keys \ {op'[r].key} : k'[key] # op'[r].address
        BY <3>2, <3>6, <3>7, <3>8
    <3>11. \A key \in Keys : k[key] # None => a[k[key]] # None
        BY <3>5, <3>8
    <3>. QED  BY <3>2, <3>9, <3>10, <3>11
  <2>. QED  BY <2>1, <2>2
<1>11. ASSUME NEW p \in Procs, DeleteFirst(p)
      PROVE  ForwardInv'
  <2>. SUFFICES ASSUME gaps' = {}
       PROVE  /\ \A r \in Procs :
                  /\ pc'[r] \in {"first", "second"} =>
                        \A key \in Keys \ {op'[r].key} : k'[key] # op'[r].address
                  /\ pc'[r] = "second" /\ op'[r].kind = "ip" => k'[op'[r].key] = None
              /\ \A key \in Keys : k'[key] # None => ForwardLeads(key)'
      OBVIOUS
  <2>. DEFINE o == op[p]
  <2>1. /\ gaps' = gaps /\ op' = op /\ q' = q /\ ~transactions
        /\ pc[p] = "first" /\ pc' = [pc EXCEPT ![p] = "second"]
        /\ o.key \in Keys /\ o.address \in Addresses /\ o.kind \in {"ip", "digest"}
      BY <1>11 DEF DeleteFirst
  <2>2. IF o.kind = "ip" THEN k' = [k EXCEPT ![o.key] = None] /\ a' = a
        ELSE a' = [a EXCEPT ![o.address] = None] /\ k' = k
      BY <1>11, <2>1 DEF DeleteFirst
  <2>3. \A r \in Procs :
          /\ pc[r] \in {"first", "second"} => \A key \in Keys \ {op[r].key} : k[key] # op[r].address
          /\ pc[r] = "second" /\ op[r].kind = "ip" => k[op[r].key] = None
      BY <2>1
  <2>4. \A key \in Keys : k[key] # None => ForwardLeads(key)
      BY <2>1
  <2>. HIDE DEF o
  <2>5. \A key \in Keys : k'[key] = k[key] \/ (k'[key] = None /\ key = o.key)
      BY <2>1, <2>2
  <2>6. \A r \in Procs : pc'[r] \in {"first", "second"} => pc[r] \in {"first", "second"}
      BY <2>1
  <2>7. \A r \in Procs : pc'[r] \in {"first", "second"} =>
          \A key \in Keys \ {op[r].key} : k'[key] # op[r].address
      BY <2>1, <2>3, <2>5, <2>6
  <2>8. \A r \in Procs : pc'[r] = "second" /\ op[r].kind = "ip" => k'[op[r].key] = None
      BY <2>1, <2>2, <2>3, <2>5 DEF o
  <2>9. ASSUME NEW key \in Keys, k'[key] # None PROVE ForwardLeads(key)'
    <3>1. k'[key] = k[key] /\ k[key] \in Addresses
        BY <2>5, <2>9
    <3>2. CASE o.kind = "ip"
        BY <2>1, <2>2, <2>4, <3>1, <3>2 DEF o
    <3>3. CASE o.kind # "ip" /\ key = o.key
        BY <2>1, <3>1, <3>3 DEF o
    <3>4. CASE o.kind # "ip" /\ key # o.key
      <4>1. k[key] # o.address
          BY <2>1, <2>3, <3>4 DEF o
      <4>2. a'[k[key]] = a[k[key]]
          BY <2>2, <3>1, <3>4, <4>1
      <4>. QED  BY <2>1, <2>4, <3>1, <4>2 DEF o
    <3>. QED  BY <3>2, <3>3, <3>4
  <2>. QED  BY <2>1, <2>7, <2>8, <2>9
<1>12. ASSUME NEW p \in Procs, DeleteSecond(p)
      PROVE  ForwardInv'
  <2>. SUFFICES ASSUME gaps' = {}
       PROVE  /\ \A r \in Procs :
                  /\ pc'[r] \in {"first", "second"} =>
                        \A key \in Keys \ {op'[r].key} : k'[key] # op'[r].address
                  /\ pc'[r] = "second" /\ op'[r].kind = "ip" => k'[op'[r].key] = None
              /\ \A key \in Keys : k'[key] # None => ForwardLeads(key)'
      OBVIOUS
  <2>. DEFINE o == op[p]
  <2>1. /\ gaps' = gaps /\ op' = op /\ q' = q /\ ~transactions
        /\ pc[p] = "second" /\ pc' = [pc EXCEPT ![p] = "qi"]
        /\ o.key \in Keys /\ o.address \in Addresses /\ o.kind \in {"ip", "digest"}
      BY <1>12 DEF DeleteSecond
  <2>2. IF o.kind = "digest" THEN k' = [k EXCEPT ![o.key] = None] /\ a' = a
        ELSE a' = [a EXCEPT ![o.address] = None] /\ k' = k
      BY <1>12, <2>1 DEF DeleteSecond
  <2>3. \A r \in Procs :
          /\ pc[r] \in {"first", "second"} => \A key \in Keys \ {op[r].key} : k[key] # op[r].address
          /\ pc[r] = "second" /\ op[r].kind = "ip" => k[op[r].key] = None
      BY <2>1
  <2>4. \A key \in Keys : k[key] # None => ForwardLeads(key)
      BY <2>1
  <2>. HIDE DEF o
  <2>5. \A key \in Keys : k'[key] = k[key] \/ (k'[key] = None /\ key = o.key)
      BY <2>1, <2>2
  <2>6. \A r \in Procs : pc'[r] \in {"first", "second"} => r # p /\ pc'[r] = pc[r]
      BY <2>1
  <2>7. \A r \in Procs : pc'[r] \in {"first", "second"} =>
          \A key \in Keys \ {op[r].key} : k'[key] # op[r].address
      BY <2>1, <2>3, <2>5, <2>6
  <2>8. \A r \in Procs : pc'[r] = "second" /\ op[r].kind = "ip" => k'[op[r].key] = None
      BY <2>1, <2>3, <2>5, <2>6
  <2>9. ASSUME NEW key \in Keys, k'[key] # None PROVE ForwardLeads(key)'
    <3>1. k'[key] = k[key] /\ k[key] \in Addresses
        BY <2>5, <2>9
    <3>2. CASE o.kind = "digest"
      <4>1. key # o.key
          BY <2>1, <2>2, <2>9, <3>2
      <4>. QED  BY <2>1, <2>2, <2>4, <3>1, <3>2, <4>1 DEF o
    <3>3. CASE o.kind # "digest"
      <4>1. k[key] # o.address
          BY <2>1, <2>3, <3>1, <3>3 DEF o
      <4>2. a'[k[key]] = a[k[key]]
          BY <2>2, <3>1, <3>3, <4>1
      <4>. QED  BY <2>1, <2>4, <3>1, <3>3, <4>2 DEF o
    <3>. QED  BY <3>2, <3>3
  <2>. QED  BY <2>1, <2>7, <2>8, <2>9
<1>13. ASSUME NEW p \in Procs, DeleteQuality(p)
      PROVE  ForwardInv'
    BY <1>13 DEF DeleteQuality
<1>14. ASSUME NEW p \in Procs, RemoveAtOnce(p)
      PROVE  ForwardInv'
  <2>. DEFINE o == op[p]
  <2>1. PICK n \in 1 .. 5 :
          /\ k' = IF n <= IF o.kind = "ip" THEN 1 ELSE 2 THEN [k EXCEPT ![o.key] = None] ELSE k
          /\ a' = IF n <= IF o.kind = "ip" THEN 2 ELSE 1 THEN [a EXCEPT ![o.address] = None]
                  ELSE a
          /\ q' = [q EXCEPT ![o.key] = @ \ IF n <= 3 THEN {"in", "out"}
                                           ELSE IF n = 4 THEN {"out"} ELSE {}]
          /\ gaps' = gaps \cup Note("failed", n \in 2 .. 4)
                           \cup Note("unseen", n \in 3 .. 4 \/ (n = 2 /\ o.kind = "ip"))
                           \cup Note("keyless", n = 2 /\ o.kind = "digest")
      BY <1>14 DEF RemoveAtOnce
  <2>2. /\ transactions /\ transactions' /\ op' = op
        /\ pc[p] = "first" /\ pc' = [pc EXCEPT ![p] = "idle"]
        /\ o.key \in Keys /\ o.address \in Addresses /\ o.kind \in {"ip", "digest"}
      BY <1>14 DEF RemoveAtOnce
  <2>3. \A r \in Procs : pc'[r] \in {"idle", "quality", "find", "first"}
      BY <2>2
  <2>4. gaps \subseteq gaps' /\ (n \in 2 .. 4 => "failed" \in gaps')
      BY <2>1
  <2>. SUFFICES ASSUME gaps' = {}
       PROVE  /\ \A r \in Procs :
                  /\ pc'[r] \in {"first", "second"} =>
                        \A key \in Keys \ {op'[r].key} : k'[key] # op'[r].address
                  /\ pc'[r] = "second" /\ op'[r].kind = "ip" => k'[op'[r].key] = None
              /\ \A key \in Keys : k'[key] # None => ForwardLeads(key)'
      OBVIOUS
  <2>5. gaps = {} /\ n \in {1, 5}
      BY <2>1, <2>4
  <2>6. \A r \in Procs :
          /\ pc[r] \in {"first", "second"} => \A key \in Keys \ {op[r].key} : k[key] # op[r].address
          /\ pc[r] = "second" /\ op[r].kind = "ip" => k[op[r].key] = None
      BY <2>5
  <2>7. \A key \in Keys : k[key] # None => ForwardLeads(key)
      BY <2>5
  <2>. HIDE DEF o
  <2>8. \A key \in Keys : k'[key] = k[key] \/ k'[key] = None
      BY <2>1, <2>2
  <2>9. \A r \in Procs : pc'[r] \in {"first", "second"} => r # p /\ pc'[r] = pc[r]
      BY <2>2
  <2>10. \A r \in Procs : pc'[r] \in {"first", "second"} =>
          \A key \in Keys \ {op[r].key} : k'[key] # op[r].address
      BY <2>2, <2>6, <2>8, <2>9
  <2>11. ASSUME NEW key \in Keys, k'[key] # None PROVE a'[k'[key]] # None
    <3>1. k'[key] = k[key] /\ a[k[key]] # None /\ k[key] \in Addresses
        BY <2>2, <2>3, <2>7, <2>8, <2>11
    <3>2. CASE n = 1
      <4>1. k' = [k EXCEPT ![o.key] = None] /\ a' = [a EXCEPT ![o.address] = None]
          BY <2>1, <2>2, <3>2
      <4>2. key # o.key
          BY <2>2, <2>11, <4>1
      <4>3. k[key] # o.address
          BY <2>2, <2>6, <4>2 DEF o
      <4>. QED  BY <3>1, <4>1, <4>3
    <3>3. CASE n = 5
      <4>1. k' = k /\ a' = a
          BY <2>1, <2>2, <3>3
      <4>. QED  BY <3>1, <4>1
    <3>. QED  BY <2>5, <3>2, <3>3
  <2>. QED  BY <2>2, <2>3, <2>10, <2>11
<1>15. ASSUME NEW p \in Procs, WriteFails(p)
      PROVE  ForwardInv'
    BY <1>15 DEF WriteFails, After
<1>16. ASSUME NEW p \in Procs, Crash(p)
      PROVE  ForwardInv'
    BY <1>16 DEF Crash
<1>17. CASE UNCHANGED vars
    BY <1>17 DEF vars
<1>. HIDE DEF Goto, db, TypeOK, Ops, Directions,
        Note, OpInv, NoOverlap, Removing, Meets, ForwardInv, ForwardLeads
<1>. QED  BY <1>1, <1>2, <1>3, <1>4, <1>5, <1>6, <1>7, <1>8, <1>9, <1>10,
    <1>11, <1>12, <1>13, <1>14, <1>15, <1>16, <1>17
    DEF Next, Update, Remove

-----------------------------------------------------------------------------
\* The invariant behind the theorems, with both kinds of database libraries.
THEOREM Invariance == Spec => []IInv
<1>1. Init => IInv
    BY LastSeenAssumption DEF Init, IInv, TypeOK, Ops, Directions, OpInv, NoOverlap,
        Removing, QualityInv, ReverseInv, ForwardInv
<1>2. IInv /\ [Next]_vars => IInv'
    BY TypeStep, OverlapStep, QualityStep, ReverseStep, ForwardStep DEF IInv
<1>. QED  BY <1>1, <1>2, PTL DEF Spec

\* The types; and an operation past Find knows both halves of the host.
THEOREM TypeCorrect == Spec => []TypeOK
<1>1. IInv => TypeOK  BY DEF IInv
<1>. QED  BY <1>1, Invariance, PTL

\* When nobody is at work IsLastSeenCoherent accepts the database, unless a removal
\* overlapped with an operation on the same host or removed an aliased host, a
\* write failed or a process crashed half way without LMDB.
THEOREM CoherenceKept == Spec => []CoherentAtRest
<1>1. IInv => CoherentAtRest
    BY LastSeenAssumption DEF IInv, TypeOK, ReverseInv, ForwardInv, ReverseLeads, ForwardLeads,
        CoherentAtRest, IsLastSeenCoherent, kIPS, aIPS, aKEYS, kKEYS
<1>. QED  BY <1>1, Invariance, PTL

\* ScanLastSeenQuality reports every host with an address, at every step and after
\* every crash, until a removal overlaps with an operation on the same host or one
\* of the two writes of "unseen" fails.
THEOREM KnownHostsReported == Spec => []KnownHostHasQuality
<1>1. IInv => KnownHostHasQuality
    BY DEF IInv, QualityInv, KnownHostHasQuality, kKEYS
<1>. QED  BY <1>1, Invariance, PTL

\* Address2HostkeyInDB finds an entry for the key of every address it finds, or a
\* removal of the address, until a removal overlaps with an operation on the same
\* host or takes an aliased host, or is cut between its two deletions.
THEOREM AddressesLead == Spec => []AddressesHaveKeys
<1>1. IInv => AddressesHaveKeys
    BY LastSeenAssumption DEF IInv, TypeOK, ReverseInv, ReverseLeads, AddressesHaveKeys,
        Removing, aIPS, kKEYS
<1>. QED  BY <1>1, Invariance, PTL
=============================================================================
