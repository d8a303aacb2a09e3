-------------------------- MODULE RemoteCopyProofs --------------------------
(***************************************************************************)
(* Proofs about copies from a server: RemoteCopy, for any files, sizes and *)
(* numbers of promises, and the cache of the connections they go over      *)
(* (ConnCache), for any number of concurrent copies.                       *)
(*                                                                         *)
(* The destination is kept by KeepInv alone.  That every answer is read by *)
(* its request rests on PlaceInv, which says for each place of the agent   *)
(* what is on the way in either direction and, during a GET, which part of *)
(* the file each record is; that files are copied whole rests on it too.   *)
(***************************************************************************)
EXTENDS RemoteCopy, SequenceTheorems, WellFoundedInduction, TLAPS

\* What is on the way to the agent and to the server.
Replies == [kind : {"bad", "link", "md5"}, file : Files, value : Nat]
           \cup [kind : {"stat"}, file : Files, value : Nat \ {0}]
Blocks  == [kind : {"data"}, units : Seq(Bytes) \ {<<>>}]
Asks    == [kind : {"stat"}, file : Files]
           \cup [kind : {"md5"}, file : Files, digest : Seq(Bytes)]
           \cup [kind : {"get"}, file : Files, size : Nat]
Records == Replies \cup Blocks

\* Where the agent is.
Places == {"idle", "stat", "link", "compare", "md5", "copy", "get",
           "backup", "aside", "check", "verify", "rename"}

\* The types of the state; a size is known once STAT is answered, and during a
\* GET the new file is not complete.
Types ==
    /\ version \in [Files -> Versions]
    /\ requests \in Seq(Asks) /\ job \in Jobs \cup {None}
    /\ stream \in Seq(Records)
    /\ cache \in [Files -> Nat] /\ error \in BOOLEAN
    /\ pc \in Places /\ cur \in Files /\ size \in Nat
    /\ new \in Seq(Bytes) \cup {None}
    /\ dest \in [Files -> Seq(Bytes) \cup {None}]
    /\ saved \in [Files -> Seq(Bytes) \cup {None}]
    /\ backupok \in BOOLEAN /\ gaps \subseteq Gaps
    /\ pc \notin {"idle", "stat"} => size > 0
    /\ pc = "get" => new # None /\ Len(new) < size

-----------------------------------------------------------------------------
(* The records, requests and jobs that the actions make.                   *)

\* Sequences that are empty.
LEMMA NotEmpty ==
    ASSUME NEW S, NEW s \in Seq(S)
    PROVE  Len(s) \in Nat /\ (s # <<>> <=> Len(s) > 0) /\ <<>> \in Seq(S) /\ Len(<<>>) = 0
<1>1. s # <<>> => Len(s) \in Nat \ {0}
    BY EmptySeq
<1>. QED  BY <1>1, LenProperties, EmptySeq

\* What a record has by its kind.
LEMMA RecordFields ==
    ASSUME NEW r \in Records
    PROVE  /\ r.kind \in {"bad", "stat", "link", "md5", "data"}
           /\ r.kind = "data" => r.units \in Seq(Bytes) /\ r.units # <<>>
           /\ r.kind # "data" => r.file \in Files /\ r.value \in Nat
           /\ r.kind = "stat" => r.value > 0
BY DEF Records, Replies, Blocks

\* A transaction is a record.
LEMMA ReplyMade ==
    ASSUME NEW k \in {"bad", "stat", "link", "md5"}, NEW f \in Files, NEW v \in Nat,
           k = "stat" => v > 0
    PROVE  /\ Reply(k, f, v) \in Records
           /\ Reply(k, f, v).kind = k /\ Reply(k, f, v).file = f /\ Reply(k, f, v).value = v
BY DEF Records, Replies, Reply

\* Bare bytes are a record.
LEMMA DataMade ==
    ASSUME NEW u \in Seq(Bytes), u # <<>>
    PROVE  /\ Data(u) \in Records
           /\ Data(u).kind = "data" /\ Data(u).units = u
BY DEF Records, Blocks, Data

\* The units that a file, a block or a message is made of.
LEMMA ByteSet ==
    /\ \A f \in Files, v \in Versions, i \in Nat : <<f, v, i>> \in Bytes
    /\ <<"old">> \in Bytes /\ <<"pad">> \in Bytes /\ <<"text">> \in Bytes
    /\ <<"failed">> \in Bytes /\ <<"changed">> \in Bytes
BY DEF Bytes, OfFiles

\* What the agent tells from a file by its first bytes is no unit of a file.
LEMMA NotOfAFile == <<"failed">> \notin OfFiles /\ <<"changed">> \notin OfFiles
BY DEF OfFiles

\* A message of CfGetFile fills a block and is recognised by its first unit.
LEMMA MessageMade ==
    ASSUME NEW t \in {"failed", "changed"}
    PROVE  /\ Message(t) \in Records /\ Message(t).kind = "data"
           /\ Len(Message(t).units) = Block /\ Message(t).units[1] = <<t>>
<1>. DEFINE u == [i \in 1 .. Block |-> <<IF i = 1 THEN t ELSE "pad">>]
<1>1. \A i \in 1 .. Block : u[i] \in Bytes
    BY ByteSet
<1>2. Block \in Nat /\ Block >= 1
    BY RemoteCopyAssumption
<1>3. u \in Seq(Bytes) /\ Len(u) = Block /\ u # <<>> /\ u[1] = <<t>>
  <2>1. u \in Seq(Bytes) /\ Len(u) = Block
      BY <1>1, <1>2
  <2>2. 1 \in 1 .. Block
      BY <1>2
  <2>3. u[1] = <<t>>
      BY <2>2
  <2>. QED  BY <1>2, <2>1, <2>3
<1>4. Message(t) = Data(u)
    BY DEF Message
<1>. HIDE DEF u
<1>. QED  BY <1>3, <1>4, DataMade

\* The three requests.
LEMMA AskMade ==
    ASSUME NEW f \in Files, NEW d \in Seq(Bytes), NEW n \in Nat
    PROVE  /\ [kind |-> "stat", file |-> f] \in Asks
           /\ [kind |-> "md5", file |-> f, digest |-> d] \in Asks
           /\ [kind |-> "get", file |-> f, size |-> n] \in Asks
BY DEF Asks

\* What a request has by its kind.
LEMMA AskFields ==
    ASSUME NEW r \in Asks
    PROVE  /\ r.kind \in {"stat", "md5", "get"} /\ r.file \in Files
           /\ r.kind = "md5" => r.digest \in Seq(Bytes)
           /\ r.kind = "get" => r.size \in Nat
BY DEF Asks

\* What a job has by its kind.
LEMMA JobFields ==
    ASSUME NEW j \in Jobs
    PROVE  /\ j # None
           /\ j.kind \in {"link", "get"} /\ j.file \in Files
           /\ j.kind = "get" => /\ j.sees \in Versions
                                /\ j.size \in Nat /\ j.total \in Nat /\ j.count \in Nat
BY RemoteCopyAssumption DEF Jobs

\* The two jobs.
LEMMA JobMade ==
    ASSUME NEW f \in Files, NEW v \in Versions, NEW n \in Nat, NEW m \in Nat, NEW c \in Nat
    PROVE  LET l == [kind |-> "link", file |-> f]
               g == [kind |-> "get", file |-> f, sees |-> v, size |-> n, total |-> m, count |-> c]
           IN  /\ l \in Jobs /\ l.kind = "link" /\ l.file = f
               /\ g \in Jobs /\ g.kind = "get" /\ g.file = f /\ g.sees = v
               /\ g.size = n /\ g.total = m
BY DEF Jobs

\* The file is rewritten while it is sent.
LEMMA JobSees ==
    ASSUME NEW j \in Jobs, j.kind = "get", NEW v \in Versions
    PROVE  LET k == [j EXCEPT !.sees = v]
           IN  /\ k \in Jobs /\ k.kind = "get" /\ k.file = j.file /\ k.sees = v
               /\ k.size = j.size /\ k.total = j.total
BY DEF Jobs

\* A block more has been sent.
LEMMA JobGoesOn ==
    ASSUME NEW j \in Jobs, j.kind = "get", NEW n \in Nat
    PROVE  LET k == [j EXCEPT !.total = @ + n, !.count = @ + 1]
           IN  /\ k \in Jobs /\ k.kind = "get" /\ k.file = j.file /\ k.sees = j.sees
               /\ k.size = j.size /\ k.total = j.total + n
<1>1. j \in [kind : {"get"}, file : Files, sees : Versions,
             size : Nat, total : Nat, count : Nat]
    BY DEF Jobs
<1>2. j.total + n \in Nat /\ j.count + 1 \in Nat
    BY <1>1
<1>3. [[j EXCEPT !.total = j.total + n] EXCEPT !.count = j.count + 1] =
         [j EXCEPT !.total = @ + n, !.count = @ + 1]
    BY <1>1
<1>. QED  BY <1>1, <1>2 DEF Jobs

\* The lesser of two numbers.
LEMMA LeastOf == \A m, n \in Int : Least(m, n) <= m /\ Least(m, n) <= n /\ Least(m, n) \in {m, n}
BY DEF Least

\* What one call of TLSRecv takes of a record, and what it leaves.
LEMMA GotAndRest ==
    ASSUME Types, pc = "get", stream # <<>>
    PROVE  /\ Units \in Seq(Bytes) /\ Units # <<>>
           /\ Got \in Seq(Bytes) /\ Rest \in Seq(Bytes)
           /\ Len(Got) = Least(Least(Block, size - Len(new)), Len(Units))
           /\ Len(Rest) = Len(Units) - Len(Got)
           /\ \A i \in 1 .. Len(Got) : Got[i] = Units[i]
           /\ \A i \in 1 .. Len(Rest) : Rest[i] = Units[Len(Got) + i]
           /\ Len(Got) <= size - Len(new) /\ Got # <<>>
<1>1. Received \in Records
    BY HeadTailProperties DEF Received, Types
<1>2. Units \in Seq(Bytes) /\ Units # <<>>
  <2>1. CASE Received.kind = "data"
      BY <1>1, <2>1, RecordFields DEF Units
  <2>2. CASE Received.kind # "data"
    <3>1. Units = [i \in 1 .. Refusal |-> <<"text">>]
        BY <2>2 DEF Units
    <3>2. Refusal \in Nat /\ Refusal >= 1 /\ <<"text">> \in Bytes
        BY RemoteCopyAssumption, ByteSet
    <3>. QED  BY <3>1, <3>2
  <2>. QED  BY <2>1, <2>2
<1>. DEFINE n == Least(Least(Block, size - Len(new)), Len(Units))
<1>3. new \in Seq(Bytes) /\ Len(new) \in Nat /\ Len(new) <= size /\ size \in Nat
    BY DEF Types
<1>4. n \in Nat /\ n <= Len(Units) /\ n <= size - Len(new) /\ Len(Units) \in Nat
    BY <1>2, <1>3, RemoteCopyAssumption DEF Least
<1>5. \A i \in 1 .. Len(Units) : Units[i] \in Bytes
    BY <1>2, ElementOfSeq
<1>. HIDE DEF n
<1>6. Got = SubSeq(Units, 1, n)
    BY DEF Got, n
<1>7. /\ Got \in Seq(Bytes) /\ Len(Got) = n
      /\ \A i \in 1 .. n : Got[i] = Units[i]
  <2>1. \A i \in 1 .. n : Units[i] \in Bytes
      BY <1>4, <1>5
  <2>. HIDE DEF Units
  <2>2. /\ SubSeq(Units, 1, n) \in Seq(Bytes)
        /\ Len(SubSeq(Units, 1, n)) = IF 1 <= n THEN n - 1 + 1 ELSE 0
        /\ \A i \in 1 .. n - 1 + 1 : SubSeq(Units, 1, n)[i] = Units[1 + i - 1]
      BY <1>4, <2>1, SubSeqProperties
  <2>. QED  BY <1>4, <1>6, <2>2
<1>8. /\ Rest \in Seq(Bytes) /\ Len(Rest) = Len(Units) - n
      /\ \A i \in 1 .. Len(Rest) : Rest[i] = Units[n + i]
  <2>1. \A i \in n + 1 .. Len(Units) : Units[i] \in Bytes
      BY <1>4, <1>5
  <2>2. /\ SubSeq(Units, n + 1, Len(Units)) \in Seq(Bytes)
        /\ Len(SubSeq(Units, n + 1, Len(Units))) =
              IF n + 1 <= Len(Units) THEN Len(Units) - (n + 1) + 1 ELSE 0
        /\ \A i \in 1 .. Len(Units) - (n + 1) + 1 :
              SubSeq(Units, n + 1, Len(Units))[i] = Units[n + 1 + i - 1]
      BY <1>4, <2>1, SubSeqProperties
  <2>3. Rest = SubSeq(Units, n + 1, Len(Units))
      BY <1>7 DEF Rest
  <2>. QED  BY <1>4, <2>2, <2>3
<1>9. Got # <<>>
  <2>1. Len(Units) > 0 /\ size - Len(new) > 0
      BY <1>2, <1>3, NotEmpty DEF Types
  <2>2. n > 0
      BY <1>3, <1>4, <2>1, RemoteCopyAssumption DEF n, Least
  <2>. QED  BY <1>7, <2>2, EmptySeq
<1>. QED  BY <1>2, <1>4, <1>7, <1>8, <1>9 DEF n

\* What is read next, and what ReceiveTransaction leaves.
LEMMA Next1 ==
    ASSUME Types, stream # <<>>
    PROVE  /\ Received \in Records /\ Received = stream[1]
           /\ Tail(stream) \in Seq(Records) /\ Len(Tail(stream)) = Len(stream) - 1
           /\ Len(stream) \in Nat /\ Len(stream) >= 1
           /\ \A i \in 1 .. Len(stream) - 1 : Tail(stream)[i] = stream[i + 1]
BY HeadTailProperties, LenProperties DEF Received, Types

\* A transaction has been received.
LEMMA ReplyReceived ==
    ASSUME Types, ReceiveReply
    PROVE  stream' \in Seq(Records) /\ Received \in Replies
BY Next1, RecordFields DEF ReceiveReply, Records, Replies, Blocks

\* None has been.
LEMMA NotAReply ==
    ASSUME Types, NoAnswer
    PROVE  stream' \in Seq(Records) /\ gaps' \subseteq Gaps
<1>1. CASE ReceiveTimesOut
    BY <1>1 DEF ReceiveTimesOut, Types, Gaps
<1>2. CASE BogusHeader /\ UNCHANGED gaps
  <2>1. Received \in Records /\ Tail(stream) \in Seq(Records)
      BY <1>2, Next1 DEF BogusHeader
  <2>2. Received.units \in Seq(Bytes) /\ Received.units # <<>>
      BY <1>2, <2>1, RecordFields DEF BogusHeader
  <2>3. Dropped(Received) \in Seq(Records)
    <3>1. CASE Len(Received.units) = 1
        BY <3>1 DEF Dropped
    <3>2. CASE Len(Received.units) # 1
      <4>. DEFINE u == Received.units
      <4>1. u \in Seq(Bytes) /\ u # <<>> /\ Len(u) # 1
          BY <2>2, <3>2
      <4>2. Dropped(Received) = <<Data(Tail(u))>>
          BY <3>2 DEF Dropped
      <4>. HIDE DEF u
      <4>3. Tail(u) \in Seq(Bytes) /\ Len(Tail(u)) = Len(u) - 1 /\ Len(u) \in Nat
          BY <4>1, HeadTailProperties, LenProperties
      <4>4. Len(u) > 0 /\ (Tail(u) # <<>> <=> Len(Tail(u)) > 0)
          BY <4>1, <4>3, NotEmpty
      <4>5. Tail(u) # <<>>
          BY <4>1, <4>3, <4>4
      <4>6. Data(Tail(u)) \in Records
          BY <4>3, <4>5, DataMade
      <4>. QED  BY <4>2, <4>6
    <3>. QED  BY <3>1, <3>2
  <2>4. Dropped(Received) \o Tail(stream) \in Seq(Records)
      BY <2>1, <2>3, ConcatProperties
  <2>. QED  BY <1>2, <2>4 DEF BogusHeader, Types
<1>. QED  BY <1>1, <1>2 DEF NoAnswer

\* What TLSRecv leaves of a record stays in the connection.
LEMMA RecordTaken ==
    ASSUME Types, pc = "get", stream # <<>>, TakeRecord
    PROVE  stream' \in Seq(Records)
<1>1. Rest \in Seq(Bytes) /\ Tail(stream) \in Seq(Records)
    BY GotAndRest, Next1
<1>2. CASE Rest = <<>>
  <2>1. stream' = <<>> \o Tail(stream)
      BY <1>2 DEF TakeRecord
  <2>. QED  BY <1>1, <2>1, ConcatProperties
<1>3. CASE Rest # <<>>
  <2>1. <<Data(Rest)>> \in Seq(Records)
      BY <1>1, <1>3, DataMade
  <2>2. stream' = <<Data(Rest)>> \o Tail(stream)
      BY <1>3 DEF TakeRecord
  <2>. QED  BY <1>1, <2>1, <2>2, ConcatProperties
<1>. QED  BY <1>2, <1>3

\* What is read of a request, and what is left.
LEMMA Request1 ==
    ASSUME Types, requests # <<>>
    PROVE  /\ Request \in Asks /\ Request = requests[1]
           /\ Tail(requests) \in Seq(Asks) /\ Len(Tail(requests)) = Len(requests) - 1
           /\ Len(requests) \in Nat
BY HeadTailProperties, LenProperties DEF Request, Types

\* The server has sent a record.
LEMMA Sent ==
    ASSUME Types, NEW r \in Records, Send(r)
    PROVE  /\ stream' \in Seq(Records) /\ stream' # <<>> /\ Len(stream') = Len(stream) + 1
           /\ \A i \in 1 .. Len(stream) : stream'[i] = stream[i]
           /\ stream'[Len(stream) + 1] = r
<1>1. stream \in Seq(Records) /\ stream' = Append(stream, r)
    BY DEF Send, Types
<1>2. stream' \in Seq(Records) /\ stream' # <<>> /\ Len(stream') = Len(stream) + 1
    BY <1>1, AppendProperties
<1>3. \A i \in 1 .. Len(stream) : stream'[i] = stream[i]
    BY <1>1, AppendProperties
<1>4. stream'[Len(stream) + 1] = r
    BY <1>1, AppendProperties
<1>. QED  BY <1>2, <1>3, <1>4

\* The agent has sent a request.
LEMMA Asked ==
    ASSUME Types, NEW r \in Asks, NEW l \in Places, Ask(r, l)
    PROVE  /\ requests' \in Seq(Asks) /\ Len(requests') = Len(requests) + 1
           /\ requests'[Len(requests) + 1] = r /\ pc' = l
BY AppendProperties DEF Ask, Types

\* The contents of a file.
LEMMA Contents ==
    ASSUME NEW f \in Files, NEW v \in Versions
    PROVE  /\ Content(f, v) \in Seq(Bytes) /\ Len(Content(f, v)) = Size[v]
           /\ \A i \in 1 .. Size[v] : Content(f, v)[i] = <<f, v, i>>
           /\ Size[v] \in Nat /\ Size[v] > 0
<1>1. Size[v] \in Nat /\ Size[v] > 0
    BY RemoteCopyAssumption
<1>2. \A i \in 1 .. Size[v] : <<f, v, i>> \in Bytes
    BY <1>1, ByteSet
<1>. QED  BY <1>1, <1>2 DEF Content

\* A block of the file as the server sends it.
LEMMA BlockMade ==
    ASSUME Types, job # None, job.kind = "get", NEW len \in Nat \ {0},
           NEW avail \in Int, avail <= Size[job.sees] - job.total,
           NEW units, units = [i \in 1 .. len |-> units[i]],
           \A i \in 1 .. len :
              units[i] = IF i <= avail THEN Content(job.file, job.sees)[job.total + i] ELSE <<"pad">>
    PROVE  /\ units \in Seq(Bytes) /\ units # <<>> /\ Len(units) = len
           /\ Data(units) \in Records
           /\ \A i \in 1 .. len : i <= avail => units[i] = <<job.file, job.sees, job.total + i>>
<1>1. job.file \in Files /\ job.sees \in Versions /\ job.total \in Nat
    BY JobFields DEF Types
<1>2. \A i \in 1 .. len : i <= avail =>
         /\ Content(job.file, job.sees)[job.total + i] = <<job.file, job.sees, job.total + i>>
         /\ <<job.file, job.sees, job.total + i>> \in Bytes
  <2>1. \A i \in 1 .. len : i <= avail => job.total + i \in 1 .. Size[job.sees] /\ job.total + i \in Nat
      BY <1>1, Contents
  <2>. QED  BY <1>1, <2>1, Contents, ByteSet
<1>3. \A i \in 1 .. len : units[i] \in Bytes
    BY <1>2, ByteSet
<1>4. units \in Seq(Bytes) /\ units # <<>> /\ Len(units) = len
    BY <1>3
<1>5. Data(units) \in Records
    BY <1>4, DataMade
<1>. QED  BY <1>2, <1>4, <1>5

-----------------------------------------------------------------------------
(* Types.                                                                  *)

\* The initial state is well typed.
LEMMA TypesInit == Init => Types
<1>. SUFFICES ASSUME Init PROVE Types
    OBVIOUS
<1>1. Old \in Seq(Bytes)
    BY ByteSet DEF Old
<1>2. dest \in [Files -> Seq(Bytes) \cup {None}]
    BY <1>1 DEF Init
<1>3. saved \in [Files -> Seq(Bytes) \cup {None}] /\ cache \in [Files -> Nat]
    BY DEF Init
<1>4. version \in [Files -> Versions]
    BY RemoteCopyAssumption DEF Init
<1>5. requests \in Seq(Asks) /\ stream \in Seq(Records)
    BY EmptySeq DEF Init
<1>. QED  BY <1>2, <1>3, <1>4, <1>5 DEF Init, Types, Places, Gaps

\* A round of the loop in CfGetFile ends it, sends a block or, of a file that has
\* grown, nothing.
LEMMA GetRound ==
    ASSUME Types, GetBlock
    PROVE  LET n_read  == Least(Block, Size[job.sees] - job.total)
               sendlen == Least(Block, job.size - job.total)
               block   == [i \in 1 .. sendlen |->
                             IF i <= n_read THEN Content(job.file, job.sees)[job.total + i]
                             ELSE <<"pad">>]
           IN  \/ job' = None /\ UNCHANGED <<stream, gaps>>
               \/ job' = None /\ Send(Message("changed")) /\ gaps' = gaps \cup {"resized"}
               \/ /\ n_read > 0 /\ sendlen > 0 /\ Send(Data(block))
                  /\ job' = [job EXCEPT !.total = @ + n_read, !.count = @ + 1]
                  /\ gaps' = IF n_read < sendlen THEN gaps \cup {"resized"} ELSE gaps
               \/ /\ n_read > 0 /\ sendlen = 0 /\ UNCHANGED <<stream, gaps>>
                  /\ job' = [job EXCEPT !.total = @ + n_read, !.count = @ + 1]
<1>. DEFINE n_read  == Least(Block, Size[job.sees] - job.total)
            sendlen == Least(Block, job.size - job.total)
            block   == [i \in 1 .. sendlen |->
                          IF i <= n_read THEN Content(job.file, job.sees)[job.total + i]
                          ELSE <<"pad">>]
<1>1. sendlen \in Int /\ n_read \in Int
  <2>1. /\ job \in Jobs /\ job.kind = "get" /\ job.sees \in Versions
        /\ job.size \in Nat /\ job.total \in Nat /\ Size[job.sees] \in Nat
      BY JobFields, Contents DEF GetBlock, Types
  <2>. QED  BY <2>1, RemoteCopyAssumption DEF Least
<1>2. \/ job' = None /\ UNCHANGED <<stream, gaps>>
      \/ job' = None /\ Send(Message("changed")) /\ gaps' = gaps \cup {"resized"}
      \/ /\ n_read > 0 /\ sendlen >= 0
         /\ IF sendlen = 0 THEN UNCHANGED stream ELSE Send(Data(block))
         /\ job' = [job EXCEPT !.total = @ + n_read, !.count = @ + 1]
         /\ gaps' = IF n_read < sendlen THEN gaps \cup {"resized"} ELSE gaps
    BY DEF GetBlock
<1>. HIDE DEF n_read, sendlen, block
<1>3. sendlen = 0 /\ n_read > 0 => ~(n_read < sendlen)
    BY <1>1
<1>4. sendlen >= 0 => sendlen = 0 \/ sendlen > 0
    BY <1>1
<1>5. sendlen > 0 => sendlen # 0
    BY <1>1
<1>6. \/ job' = None /\ UNCHANGED <<stream, gaps>>
      \/ job' = None /\ Send(Message("changed")) /\ gaps' = gaps \cup {"resized"}
      \/ /\ n_read > 0 /\ sendlen > 0 /\ Send(Data(block))
         /\ job' = [job EXCEPT !.total = @ + n_read, !.count = @ + 1]
         /\ gaps' = IF n_read < sendlen THEN gaps \cup {"resized"} ELSE gaps
      \/ /\ n_read > 0 /\ sendlen = 0 /\ UNCHANGED <<stream, gaps>>
         /\ job' = [job EXCEPT !.total = @ + n_read, !.count = @ + 1]
    BY <1>2, <1>3, <1>4, <1>5
<1>. QED  BY <1>6 DEF n_read, sendlen, block


\* Every step keeps the types.
LEMMA TypesStep == Types /\ [Next]_vars => Types'
<1>. SUFFICES ASSUME Types, [Next]_vars PROVE Types'
    OBVIOUS
<1>. USE DEF server, conn, disk, agent, Unasked
<1>1. ASSUME NEW f \in Files, SourceChanges(f) PROVE Types'
  <2>1. version' \in [Files -> Versions]
      BY <1>1 DEF SourceChanges, Types
  <2>2. job' \in Jobs \cup {None} /\ gaps' \subseteq Gaps
    <3>1. CASE UNCHANGED <<job, gaps>>
        BY <3>1 DEF Types
    <3>2. CASE /\ job # None /\ job.kind = "get"
               /\ job' = [job EXCEPT !.sees = version'[f]]
               /\ gaps' = gaps \cup {"torn"}
      <4>1. job \in Jobs /\ version'[f] \in Versions
          BY <2>1, <3>2 DEF Types
      <4>. QED  BY <3>2, <4>1, JobSees DEF Types, Gaps
    <3>. QED  BY <1>1, <3>1, <3>2 DEF SourceChanges
  <2>. QED  BY <1>1, <2>1, <2>2 DEF SourceChanges, Types
<1>2. ASSUME NEW f \in Files, BeginCopy(f) PROVE Types'
  <2>1. [kind |-> "stat", file |-> f] \in Asks
      BY AskMade, EmptySeq
  <2>2. requests' \in Seq(Asks) /\ pc' \in {"stat", "compare"}
      BY <1>2, <2>1, Asked DEF BeginCopy, Types, Places
  <2>3. size' \in Nat /\ (pc' # "stat" => size' > 0) /\ pc' \in {"stat", "compare"}
      BY <1>2, <2>2 DEF BeginCopy, Ask, Types
  <2>. QED  BY <1>2, <2>2, <2>3 DEF BeginCopy, Types, Places
<1>3. CASE ServerRefuses
  <2>1. Reply("bad", Request.file, 0) \in Records /\ Tail(requests) \in Seq(Asks)
      BY <1>3, Request1, AskFields, ReplyMade DEF ServerRefuses
  <2>2. stream' \in Seq(Records)
      BY <1>3, <2>1, Sent DEF ServerRefuses
  <2>. QED  BY <1>3, <2>1, <2>2 DEF ServerRefuses, Types, Gaps
<1>4. CASE StatFile
  <2>1. Request.file \in Files /\ Tail(requests) \in Seq(Asks)
      BY <1>4, Request1, AskFields DEF StatFile
  <2>2. Size[version[Request.file]] \in Nat /\ Size[version[Request.file]] > 0
      BY <2>1, Contents DEF Types
  <2>3. stream' \in Seq(Records)
      BY <1>4, <2>1, <2>2, ReplyMade, Sent DEF StatFile
  <2>4. job' \in Jobs
      BY <1>4, <2>1 DEF StatFile, Jobs
  <2>. QED  BY <1>4, <2>1, <2>3, <2>4 DEF StatFile, Types
<1>5. CASE SendLink
  <2>1. job.file \in Files
      BY <1>5, JobFields DEF SendLink, Types
  <2>2. stream' \in Seq(Records)
      BY <1>5, <2>1, ReplyMade, Sent DEF SendLink
  <2>. QED  BY <1>5, <2>2 DEF SendLink, Types
<1>6. CASE CompareLocalHash
  <2>1. Request.file \in Files /\ Tail(requests) \in Seq(Asks)
      BY <1>6, Request1, AskFields DEF CompareLocalHash
  <2>2. PICK n \in {0, 1} : Send(Reply("md5", Request.file, n))
      BY <1>6 DEF CompareLocalHash
  <2>3. stream' \in Seq(Records)
      BY <2>1, <2>2, ReplyMade, Sent
  <2>. QED  BY <1>6, <2>1, <2>3 DEF CompareLocalHash, Types
<1>7. CASE GetFails
  <2>1. Request.file \in Files /\ Tail(requests) \in Seq(Asks)
      BY <1>7, Request1, AskFields DEF GetFails
  <2>2. PICK refusal \in {<<>>, <<Reply("bad", Request.file, 0)>>} :
           stream' = stream \o refusal \o <<Message("failed")>>
      BY <1>7 DEF GetFails
  <2>3. refusal \in Seq(Records) /\ <<Message("failed")>> \in Seq(Records)
    <3>1. Reply("bad", Request.file, 0) \in Records /\ Message("failed") \in Records
        BY <2>1, ReplyMade, MessageMade
    <3>2. CASE refusal = <<>>
        BY <3>1, <3>2, EmptySeq
    <3>3. CASE refusal = <<Reply("bad", Request.file, 0)>>
        BY <3>1, <3>3
    <3>. QED  BY <2>2, <3>2, <3>3
  <2>4. stream \o refusal \in Seq(Records)
      BY <2>3, ConcatProperties DEF Types
  <2>5. stream' \in Seq(Records)
      BY <2>2, <2>3, <2>4, ConcatProperties
  <2>6. gaps' \subseteq Gaps
      BY <1>7 DEF GetFails, Types, Gaps
  <2>. QED  BY <1>7, <2>1, <2>5, <2>6 DEF GetFails, Types
<1>8. CASE GetStarts
  <2>1. Request.file \in Files /\ Tail(requests) \in Seq(Asks)
      BY <1>8, Request1, AskFields DEF GetStarts
  <2>2. version[Request.file] \in Versions /\ Size[version[Request.file]] \in Nat
      BY <2>1, Contents DEF Types
  <2>3. job' \in Jobs
      BY <1>8, <2>1, <2>2 DEF GetStarts, Jobs
  <2>4. gaps' \subseteq Gaps
      BY <1>8 DEF GetStarts, Types, Gaps
  <2>. QED  BY <1>8, <2>1, <2>3, <2>4 DEF GetStarts, Types
<1>9. CASE GetBlock
  <2>1. /\ job \in Jobs /\ job.kind = "get" /\ job.sees \in Versions
        /\ job.size \in Nat /\ job.total \in Nat /\ Size[job.sees] \in Nat
      BY <1>9, JobFields, Contents DEF GetBlock, Types
  <2>. DEFINE n_read  == Least(Block, Size[job.sees] - job.total)
              sendlen == Least(Block, job.size - job.total)
              block   == [i \in 1 .. sendlen |->
                            IF i <= n_read THEN Content(job.file, job.sees)[job.total + i]
                            ELSE <<"pad">>]
  <2>2. n_read \in Int /\ sendlen \in Int /\ n_read <= Size[job.sees] - job.total
      BY <2>1, RemoteCopyAssumption DEF Least
  <2>3. gaps' \subseteq Gaps
      BY <1>9 DEF GetBlock, Types, Gaps
  <2>4. CASE job' = None /\ UNCHANGED stream
      BY <1>9, <2>3, <2>4 DEF GetBlock, Types
  <2>5. CASE job' = None /\ Send(Message("changed"))
      BY <1>9, <2>3, <2>5, MessageMade, Sent DEF GetBlock, Types
  <2>6. CASE /\ n_read > 0 /\ sendlen > 0 /\ Send(Data(block))
             /\ job' = [job EXCEPT !.total = @ + n_read, !.count = @ + 1]
    <3>1. Data(block) \in Records
      <4>1. sendlen \in Nat \ {0} /\ job # None
          BY <1>9, <2>2, <2>6 DEF GetBlock
      <4>. HIDE DEF n_read, sendlen
      <4>. PICK b : b = block
          OBVIOUS
      <4>2. /\ b = [i \in 1 .. sendlen |-> b[i]]
            /\ \A i \in 1 .. sendlen : b[i] = IF i <= n_read
                  THEN Content(job.file, job.sees)[job.total + i] ELSE <<"pad">>
          OBVIOUS
      <4>. HIDE DEF block
      <4>. QED  BY <2>1, <2>2, <4>1, <4>2, BlockMade
    <3>2. stream' \in Seq(Records)
        BY <2>6, <3>1, Sent
    <3>3. job' \in Jobs
      <4>1. n_read \in Nat
          BY <2>2, <2>6
      <4>. HIDE DEF n_read, sendlen, block
      <4>. QED  BY <2>1, <2>6, <4>1, JobGoesOn
    <3>. QED  BY <1>9, <2>3, <3>2, <3>3 DEF GetBlock, Types
  <2>7. CASE /\ n_read > 0 /\ UNCHANGED stream
             /\ job' = [job EXCEPT !.total = @ + n_read, !.count = @ + 1]
    <3>1. n_read \in Nat
        BY <2>2, <2>7
    <3>. HIDE DEF n_read, sendlen, block
    <3>2. job' \in Jobs
        BY <2>1, <2>7, <3>1, JobGoesOn
    <3>. QED  BY <1>9, <2>3, <2>7, <3>2 DEF GetBlock, Types
  <2>8. \/ job' = None /\ UNCHANGED stream
        \/ job' = None /\ Send(Message("changed"))
        \/ /\ n_read > 0 /\ sendlen > 0 /\ Send(Data(block))
           /\ job' = [job EXCEPT !.total = @ + n_read, !.count = @ + 1]
        \/ /\ n_read > 0 /\ UNCHANGED stream
           /\ job' = [job EXCEPT !.total = @ + n_read, !.count = @ + 1]
      BY <1>9, GetRound
  <2>. QED  BY <2>4, <2>5, <2>6, <2>7, <2>8
<1>10. CASE ReceiveStat
  <2>1. stream' \in Seq(Records) /\ gaps' \subseteq Gaps
      BY <1>10, ReplyReceived, NotAReply DEF ReceiveStat, Types
  <2>2. CASE UNCHANGED size /\ pc' = "idle"
      BY <1>10, <2>1, <2>2 DEF ReceiveStat, Types, Places
  <2>3. CASE ReceiveReply /\ Received.kind = "stat" /\ size' = Received.value /\ pc' = "link"
    <3>1. size' \in Nat /\ size' > 0
        BY <2>3, ReplyReceived, RecordFields DEF Records
    <3>. QED  BY <1>10, <2>1, <2>3, <3>1 DEF ReceiveStat, Types, Places
  <2>. QED  BY <1>10, <2>2, <2>3 DEF ReceiveStat
<1>11. CASE ReceiveLink
  <2>1. stream' \in Seq(Records) /\ gaps' \subseteq Gaps
      BY <1>11, ReplyReceived, NotAReply DEF ReceiveLink, Types
  <2>. QED  BY <1>11, <2>1 DEF ReceiveLink, Types, Places
<1>12. CASE MustCopy
    BY <1>12 DEF MustCopy, Types, Places
<1>13. CASE UpToDate
    BY <1>13 DEF UpToDate, Types, Places
<1>14. CASE AskHash
  <2>1. [kind |-> "md5", file |-> cur, digest |-> dest[cur]] \in Asks
      BY <1>14, AskMade DEF AskHash, Types
  <2>2. requests' \in Seq(Asks) /\ pc' \in {"idle", "md5"}
      BY <1>14, <2>1, Asked DEF AskHash, Types, Places
  <2>. QED  BY <1>14, <2>2 DEF AskHash, Types, Places
<1>15. CASE ReceiveHash
  <2>1. stream' \in Seq(Records) /\ gaps' \subseteq Gaps
      BY <1>15, ReplyReceived, NotAReply DEF ReceiveHash, Mismatch, Match, Types
  <2>. QED  BY <1>15, <2>1 DEF ReceiveHash, Types, Places
<1>16. CASE BeginGet
  <2>1. [kind |-> "get", file |-> cur, size |-> size] \in Asks
      BY AskMade, EmptySeq DEF Types
  <2>2. requests' \in Seq(Asks)
      BY <1>16, <2>1, Asked DEF BeginGet, Types, Places
  <2>3. pc' = "get" => new' = <<>>
      BY <1>16 DEF BeginGet
  <2>4. <<>> \in Seq(Bytes) /\ Len(<<>>) = 0 /\ <<>> # None
      BY RemoteCopyAssumption, EmptySeq
  <2>5. pc' \in {"idle", "get"} /\ new' \in {new, <<>>}
      BY <1>16 DEF BeginGet, Ask
  <2>6. pc' = "get" => new' # None /\ Len(new') <= size'
      BY <1>16, <2>3, <2>4 DEF BeginGet, Types
  <2>. QED  BY <1>16, <2>2, <2>4, <2>5, <2>6 DEF BeginGet, Types, Places
<1>17. CASE ReadBlock
  <2>1. stream' \in Seq(Records)
      BY <1>17, RecordTaken DEF ReadBlock
  <2>2. CASE UNCHANGED new /\ pc' = "idle"
      BY <1>17, <2>1, <2>2 DEF ReadBlock, Types, Places
  <2>3. CASE new' = new \o Got
    <3>1. Got \in Seq(Bytes) /\ Len(Got) <= size - Len(new) /\ new \in Seq(Bytes)
        BY <1>17, GotAndRest DEF ReadBlock, Types
    <3>2. new' \in Seq(Bytes) /\ Len(new') = Len(new) + Len(Got)
        BY <2>3, <3>1, ConcatProperties
    <3>3. new' # None /\ Len(new') <= size /\ Len(new') \in Nat
        BY <3>1, <3>2, RemoteCopyAssumption, LenProperties DEF Types
    <3>4. CASE pc' \in {"get", "backup"} /\ (pc' = "get" => Len(new') # size)
        BY <1>17, <2>1, <3>2, <3>3, <3>4 DEF ReadBlock, Types, Places
    <3>5. CASE pc' = "idle"
        BY <1>17, <2>1, <3>2, <3>5 DEF ReadBlock, Types, Places
    <3>. QED  BY <1>17, <3>4, <3>5 DEF ReadBlock
  <2>. QED  BY <1>17, <2>2, <2>3 DEF ReadBlock
<1>18. CASE WriteFails
    BY <1>18 DEF WriteFails, Types, Places
<1>19. CASE GetTimesOut
    BY <1>19 DEF GetTimesOut, ReceiveTimesOut, Types, Places, Gaps
<1>20. CASE UnlinkBackup
    BY <1>20 DEF UnlinkBackup, Types, Places
<1>21. CASE NoBackup
    BY <1>21 DEF NoBackup, Types, Places
<1>22. CASE MoveAside
    BY <1>22 DEF MoveAside, Types, Places
<1>23. CASE CheckNew
  <2>1. requests' \in Seq(Asks) /\ pc' \in {"idle", "rename", "verify"}
    <3>1. CASE new # None /\ Ask([kind |-> "md5", file |-> cur, digest |-> new], "verify")
      <4>1. [kind |-> "md5", file |-> cur, digest |-> new] \in Asks
          BY <3>1, AskMade DEF Types
      <4>. QED  BY <3>1, <4>1, Asked DEF Places
    <3>. QED  BY <1>23, <3>1 DEF CheckNew, Types
  <2>2. /\ dest' \in [Files -> Seq(Bytes) \cup {None}]
        /\ saved' \in [Files -> Seq(Bytes) \cup {None}]
      BY <1>23 DEF CheckNew, Restore, Types
  <2>. QED  BY <1>23, <2>1, <2>2 DEF CheckNew, Types, Places
<1>24. CASE VerifyNew
  <2>1. stream' \in Seq(Records) /\ gaps' \subseteq Gaps
      BY <1>24, ReplyReceived, NotAReply DEF VerifyNew, Mismatch, Match, Types
  <2>2. /\ dest' \in [Files -> Seq(Bytes) \cup {None}]
        /\ saved' \in [Files -> Seq(Bytes) \cup {None}]
      BY <1>24 DEF VerifyNew, Restore, Types
  <2>. QED  BY <1>24, <2>1, <2>2 DEF VerifyNew, Types, Places
<1>25. CASE Install
  <2>1. /\ dest' \in [Files -> Seq(Bytes) \cup {None}]
        /\ saved' \in [Files -> Seq(Bytes) \cup {None}]
      BY <1>25 DEF Install, Restore, Types
  <2>. QED  BY <1>25, <2>1 DEF Install, Types, Places
<1>26. CASE OtherAgent
  <2>1. new' \in Seq(Bytes) \cup {None} /\ gaps' \subseteq Gaps /\ pc' # "get"
      BY <1>26, EmptySeq DEF OtherAgent, Types, Gaps
  <2>. QED  BY <1>26, <2>1 DEF OtherAgent, Types
<1>27. CASE Restart
  <2>1. requests' \in Seq(Asks) /\ stream' \in Seq(Records) /\ gaps' \subseteq Gaps
      BY <1>27, EmptySeq DEF Restart, Types, Gaps
  <2>. QED  BY <1>27, <2>1 DEF Restart, Types, Places
<1>28. CASE UNCHANGED vars
    BY <1>28 DEF vars, Types
<1>. QED  BY <1>1, <1>2, <1>3, <1>4, <1>5, <1>6, <1>7, <1>8, <1>9, <1>10, <1>11, <1>12,
             <1>13, <1>14, <1>15, <1>16, <1>17, <1>18, <1>19, <1>20, <1>21, <1>22, <1>23,
             <1>24, <1>25, <1>26, <1>27, <1>28 DEF Next

-----------------------------------------------------------------------------
(* The destination is kept.                                                *)

\* Where the agent is when the destination may be aside.
Installing == {"check", "verify", "rename"}

\* From the last block to the second rename the new file is there; a destination
\* that is not there is aside, and backupok says so.
KeepInv ==
    "halfway" \notin gaps /\ "shared" \notin gaps =>
        /\ pc \in {"backup", "aside"} \cup Installing => new # None
        /\ \A f \in Files : dest[f] = None /\ saved[f] # None
              => pc \in Installing /\ cur = f /\ backupok
        /\ pc \in {"get", "backup", "aside"} => ~backupok
        /\ pc \in Installing /\ backupok => saved[cur] # None

\* One step of KeepsDestination.
KeepStep == \A f \in Files :
    "halfway" \notin gaps' /\ "shared" \notin gaps' /\ Kept(f) => Kept(f)'

\* A step of the server or of a source, or one of the agent that waits.
LEMMA KeepElsewhere ==
    ASSUME KeepInv, UNCHANGED <<disk, pc, cur>>, gaps \subseteq gaps'
    PROVE  KeepInv' /\ KeepStep
BY DEF KeepInv, KeepStep, Kept, disk, Installing

\* A step of the agent before or after it installs.
LEMMA KeepBefore ==
    ASSUME KeepInv, UNCHANGED <<dest, saved>>, gaps \subseteq gaps',
           pc \notin Installing, pc' \notin Installing,
           pc' \in {"get", "backup", "aside"} => ~backupok',
           pc' \in {"backup", "aside"} => new' # None
    PROVE  KeepInv' /\ KeepStep
BY DEF KeepInv, KeepStep, Kept, Installing

\* Every step keeps KeepInv, and no step loses a destination.
LEMMA KeepNext == Types /\ KeepInv /\ [Next]_vars => KeepInv' /\ KeepStep
<1>. SUFFICES ASSUME Types, KeepInv, [Next]_vars PROVE KeepInv' /\ KeepStep
    OBVIOUS
<1>. USE DEF server, conn, disk, agent, Unasked
<1>0. Types'
    BY TypesStep
<1>1. ASSUME NEW f \in Files, SourceChanges(f) PROVE KeepInv' /\ KeepStep
    BY <1>1, KeepElsewhere DEF SourceChanges
<1>2. ASSUME NEW f \in Files, BeginCopy(f) PROVE KeepInv' /\ KeepStep
    BY <1>2, KeepBefore DEF BeginCopy, Ask, Installing
<1>3. CASE ServerRefuses \/ StatFile \/ SendLink \/ CompareLocalHash
    BY <1>3, KeepElsewhere DEF ServerRefuses, StatFile, SendLink, CompareLocalHash
<1>4. CASE GetFails \/ GetStarts
    BY <1>4, KeepElsewhere DEF GetFails, GetStarts
<1>5. CASE GetBlock
    BY <1>5, KeepElsewhere DEF GetBlock
<1>6. CASE ReceiveStat
    BY <1>6, KeepBefore DEF ReceiveStat, NoAnswer, ReceiveTimesOut, Installing
<1>7. CASE ReceiveLink
    BY <1>7, KeepBefore DEF ReceiveLink, ReceiveReply, NoAnswer, ReceiveTimesOut, Installing
<1>8. CASE MustCopy \/ UpToDate \/ AskHash
    BY <1>8, KeepBefore DEF MustCopy, UpToDate, AskHash, Ask, Installing
<1>9. CASE ReceiveHash
    BY <1>9, KeepBefore DEF ReceiveHash, Mismatch, Match, NoAnswer, ReceiveTimesOut, Installing
<1>10. CASE BeginGet
    BY <1>10, KeepBefore DEF BeginGet, Ask, Installing
<1>11. CASE ReadBlock
  <2>1. Got \in Seq(Bytes) /\ new \in Seq(Bytes)
      BY <1>11, GotAndRest DEF ReadBlock, Types
  <2>2. new' = new \o Got => new' # None
    <3>1. new \o Got \in Seq(Bytes)
        BY <2>1, ConcatProperties
    <3>. QED  BY <3>1, RemoteCopyAssumption
  <2>3. pc' \in {"idle", "get"} \/ (pc' = "backup" /\ new' = new \o Got)
      BY <1>11 DEF ReadBlock
  <2>4. UNCHANGED <<dest, saved, backupok>> /\ gaps \subseteq gaps' /\ pc = "get"
      BY <1>11 DEF ReadBlock
  <2>. QED  BY <2>2, <2>3, <2>4 DEF KeepInv, KeepStep, Kept, Installing
<1>12. CASE WriteFails
    BY <1>12, KeepBefore DEF WriteFails, Installing
<1>13. CASE GetTimesOut
    BY <1>13, KeepBefore DEF GetTimesOut, ReceiveTimesOut, Installing
<1>14. CASE UnlinkBackup
  <2>1. KeepInv'
      BY <1>14 DEF UnlinkBackup, Types, KeepInv, Installing
  <2>2. KeepStep
    <3>. SUFFICES ASSUME NEW f \in Files,
                         "halfway" \notin gaps', "shared" \notin gaps', Kept(f)
                  PROVE  Kept(f)'
        BY DEF KeepStep
    <3>1. dest[f] # None
        BY <1>14 DEF UnlinkBackup, KeepInv, Kept, Installing
    <3>. QED  BY <1>14, <3>1 DEF UnlinkBackup, Kept
  <2>. QED  BY <2>1, <2>2
<1>15. CASE NoBackup
    BY <1>15 DEF NoBackup, Types, KeepInv, KeepStep, Kept, Installing
<1>16. CASE MoveAside
    BY <1>16 DEF MoveAside, Types, KeepInv, KeepStep, Kept, Installing
<1>17. CASE CheckNew
    BY <1>17 DEF CheckNew, Ask, Restore, Types, KeepInv, KeepStep, Kept, Installing
<1>18. CASE VerifyNew
  <2>1. gaps \subseteq gaps'
      BY <1>18 DEF VerifyNew, Mismatch, Match, NoAnswer, ReceiveTimesOut
  <2>. QED  BY <1>18, <2>1 DEF VerifyNew, Restore, Types, KeepInv, KeepStep, Kept, Installing
<1>19. CASE Install
    BY <1>19 DEF Install, Restore, Types, KeepInv, KeepStep, Kept, Installing
<1>20. CASE OtherAgent
    BY <1>20 DEF OtherAgent, KeepInv, KeepStep, Kept, Installing
<1>21. CASE Restart
    BY <1>21 DEF Restart, Types, KeepInv, KeepStep, Kept, Installing
<1>22. CASE UNCHANGED vars
    BY <1>22, KeepElsewhere DEF vars
<1>. QED  BY <1>1, <1>2, <1>3, <1>4, <1>5, <1>6, <1>7, <1>8, <1>9, <1>10, <1>11, <1>12,
             <1>13, <1>14, <1>15, <1>16, <1>17, <1>18, <1>19, <1>20, <1>21, <1>22 DEF Next

\* Every reachable state is well typed.
THEOREM TypeCorrect == Spec => []Types
BY TypesInit, TypesStep, PTL DEF Spec

\* Whatever makes a promise fail, a destination that was there is there or aside
\* until its copy is installed, and is put back if it is not (CopyRegularFile):
\* for any sizes, versions and answers, unless the agent dies between the two
\* renames or another agent takes the new file away.
THEOREM DestinationKept == Spec => KeepsDestination
<1>1. Init => KeepInv
    BY DEF Init, KeepInv, Installing
<1>2. KeepStep => \A f \in Files : gaps' \cap {"halfway", "shared"} = {} /\ Kept(f) => Kept(f)'
    BY DEF KeepStep
<1>. QED  BY TypesInit, TypesStep, KeepNext, <1>1, <1>2, PTL DEF Spec, KeepsDestination

-----------------------------------------------------------------------------
(* What is in the connection, at each place of the agent.                  *)

\* Nothing has happened that puts the connection out of step.
InPlace == "late" \notin gaps /\ "resized" \notin gaps /\ "refused" \notin gaps /\ ~error

\* The server's thread sends nothing more.
Drained == job = None \/ (job.kind = "get" /\ job.size <= job.total)
\* The second answer to STAT is still to be sent.
Linking == job # None /\ job.kind = "link" /\ job.file = cur

\* All there is in one direction.
OneRequest(kind) == Len(requests) = 1 /\ requests[1].kind = kind /\ requests[1].file = cur
OneReply(kinds)  == Len(stream) = 1 /\ stream[1].kind \in kinds /\ stream[1].file = cur

\* Nothing is on the way; a request is; an answer is, and it is the last.
Quiet           == requests = <<>> /\ stream = <<>> /\ Drained
Unread(kind)    == OneRequest(kind) /\ stream = <<>> /\ Drained
Answered(kinds) == requests = <<>> /\ job = None /\ OneReply(kinds)

\* STAT has two answers, read one after the other.
StatPlace ==
    \/ Unread("stat") \/ Answered({"bad"})
    \/ requests = <<>> /\ Linking /\ OneReply({"stat"})
    \/ /\ requests = <<>> /\ job = None /\ Len(stream) = 2
       /\ stream[1].kind = "stat" /\ stream[1].file = cur
       /\ stream[2].kind = "link" /\ stream[2].file = cur

LinkPlace == (requests = <<>> /\ Linking /\ stream = <<>>) \/ Answered({"link"})

\* MD5 has one.
HashPlace == Unread("md5") \/ Answered({"md5", "bad"})

\* A GET is not read yet, or refused, or answered with the block that says so.
GetUnread == Unread("get") /\ requests[1].size = size /\ new = <<>>
Failed ==
    /\ requests = <<>> /\ job = None /\ new = <<>>
    /\ Len(stream) = 1 /\ stream[1].kind = "data" /\ Block <= size
    /\ Len(stream[1].units) = Block /\ stream[1].units[1] = <<"failed">>

\* The refusal that is a transaction is no longer than the file.
Refused == Answered({"bad"}) /\ new = <<>> /\ Refusal <= size

\* Or the file is on the way: off[i] is where in it the i-th record ends, and
\* off[0] how much of it the agent has.
Offsets == [0 .. Len(stream) -> 0 .. size]
Transferring(off) ==
    /\ off[0] = Len(new)
    /\ \A i \in 1 .. Len(stream) :
          /\ stream[i].kind = "data" /\ stream[i].units[1] \in OfFiles
          /\ off[i] = off[i - 1] + Len(stream[i].units) /\ Len(stream[i].units) <= Block
    /\ job # None => off[Len(stream)] = Least(job.total, size)

\* All of it is of one version of the file.
OfVersion(off, v) ==
    /\ Size[v] = size /\ (job # None => job.sees = v)
    /\ \A j \in 1 .. Len(new) : new[j] = <<cur, v, j>>
    /\ \A i \in 1 .. Len(stream) : \A j \in 1 .. Len(stream[i].units) :
          stream[i].units[j] = <<cur, v, off[i - 1] + j>>

Transfer ==
    /\ requests = <<>>
    /\ job # None => job.kind = "get" /\ job.file = cur /\ job.size = size
    /\ \E off \in Offsets : /\ Transferring(off)
                            /\ "torn" \notin gaps => \E v \in Versions : OfVersion(off, v)

\* GET has one of these.
GetPlace == GetUnread \/ Refused \/ Failed \/ Transfer

\* Where the agent waits for nothing, nothing is on the way.
AtPlace ==
    /\ pc \notin {"stat", "link", "md5", "verify", "get"} => Quiet
    /\ pc = "stat" => StatPlace
    /\ pc = "link" => LinkPlace
    /\ pc \in {"md5", "verify"} => HashPlace
    /\ pc = "get" => GetPlace

\* The connection is in step with the agent.
PlaceInv == InPlace => AtPlace

\* Sequences that are short.
LEMMA Short ==
    ASSUME Types
    PROVE  /\ Len(stream) \in Nat /\ (stream = <<>> <=> Len(stream) = 0)
           /\ Len(requests) \in Nat /\ (requests = <<>> <=> Len(requests) = 0)
<1>1. Len(stream) \in Nat /\ (stream # <<>> <=> Len(stream) > 0)
    BY NotEmpty DEF Types
<1>2. Len(requests) \in Nat /\ (requests # <<>> <=> Len(requests) > 0)
    BY NotEmpty DEF Types
<1>. QED  BY <1>1, <1>2

\* Where the agent is while the server has a request to read.
LEMMA WhoAsked ==
    ASSUME Types, AtPlace, requests # <<>>
    PROVE  /\ stream = <<>> /\ Drained /\ Len(requests) = 1 /\ Tail(requests) = <<>>
           /\ Request.file = cur
           /\ \/ pc = "stat" /\ Request.kind = "stat"
              \/ pc \in {"md5", "verify"} /\ Request.kind = "md5"
              \/ pc = "get" /\ Request.kind = "get" /\ Request.size = size /\ new = <<>>
<1>1. /\ stream = <<>> /\ Drained /\ Len(requests) = 1 /\ requests[1].file = cur
      /\ \/ pc = "stat" /\ requests[1].kind = "stat"
         \/ pc \in {"md5", "verify"} /\ requests[1].kind = "md5"
         \/ pc = "get" /\ requests[1].kind = "get" /\ requests[1].size = size /\ new = <<>>
    BY DEF AtPlace, Quiet, StatPlace, LinkPlace, HashPlace, GetPlace, GetUnread,
        Refused, Failed, Transfer,
           Unread, Answered, OneRequest, Linking
<1>2. Tail(requests) \in Seq(Asks) /\ Len(Tail(requests)) = 0 /\ Request = requests[1]
    BY <1>1, Request1
<1>3. Tail(requests) = <<>>
    BY <1>2, NotEmpty
<1>. QED  BY <1>1, <1>2, <1>3

\* And while the server sends where a link goes.
LEMMA WhoLinks ==
    ASSUME Types, AtPlace, job # None, job.kind = "link"
    PROVE  /\ requests = <<>> /\ job.file = cur
           /\ \/ pc = "stat" /\ OneReply({"stat"})
              \/ pc = "link" /\ stream = <<>>
BY DEF AtPlace, Quiet, StatPlace, LinkPlace, HashPlace, GetPlace, GetUnread, Refused,
    Failed, Transfer,
       Unread, Answered, Linking, Drained, Types, Places

\* A file that is not sent to its end is the one that the agent is copying.
LEMMA WhoGets ==
    ASSUME Types, AtPlace, job # None, job.kind = "get"
    PROVE  job.size <= job.total \/ (pc = "get" /\ Transfer)
BY DEF AtPlace, Quiet, StatPlace, LinkPlace, HashPlace, GetPlace, GetUnread, Refused, Failed,
       Unread, Answered, Linking, Drained, Types, Places

\* The record that answers the request.
LEMMA AnswerSent ==
    ASSUME Types, AtPlace, NEW k \in {"bad", "stat", "md5"}, NEW n \in Nat, k = "stat" => n > 0,
           job = None, requests # <<>>, requests' = Tail(requests),
           Send(Reply(k, Request.file, n))
    PROVE  /\ requests' = <<>> /\ Len(stream') = 1
           /\ stream'[1].kind = k /\ stream'[1].file = cur
<1>1. stream = <<>> /\ Tail(requests) = <<>> /\ Request.file = cur /\ cur \in Files
    BY WhoAsked DEF Types
<1>2. PICK r \in Records : r = Reply(k, cur, n) /\ r.kind = k /\ r.file = cur
    BY <1>1, ReplyMade
<1>3. Len(stream') = Len(stream) + 1 /\ stream'[Len(stream) + 1] = r
  <2>1. Send(r)
      BY <1>1, <1>2 DEF Send
  <2>. QED  BY <2>1, Sent
<1>4. Len(stream) = 0
    BY <1>1, Short
<1>. QED  BY <1>1, <1>2, <1>3, <1>4

\* STAT, MD5 or any refusal: one request has been answered.
LEMMA ServerAnswers ==
    ASSUME Types, AtPlace, InPlace', ServerRefuses \/ StatFile \/ CompareLocalHash
    PROVE  AtPlace'
<1>. USE DEF disk, agent
<1>1. CASE ServerRefuses
  <2>1. /\ requests' = <<>> /\ Len(stream') = 1
        /\ stream'[1].kind = "bad" /\ stream'[1].file = cur
      BY <1>1, AnswerSent DEF ServerRefuses
  <2>2. /\ pc \in {"stat", "md5", "verify", "get"}
        /\ pc = "get" => Request.kind = "get" /\ Request.size = size /\ new = <<>>
      BY <1>1, WhoAsked DEF ServerRefuses
  <2>3. Answered({"bad"})' /\ Answered({"md5", "bad"})'
      BY <1>1, <2>1 DEF ServerRefuses, Answered, OneReply
  <2>4. pc = "get" => ~(size < Refusal)
      BY <1>1, <2>2 DEF ServerRefuses, InPlace
  <2>5. pc = "get" => Refused'
    <3>1. size \in Nat /\ Refusal \in Nat
        BY RemoteCopyAssumption DEF Types
    <3>2. new' = new /\ size' = size
        BY <1>1 DEF ServerRefuses
    <3>. QED  BY <2>2, <2>3, <2>4, <3>1, <3>2 DEF Refused
  <2>. QED  BY <1>1, <2>2, <2>3, <2>5 DEF ServerRefuses, AtPlace, StatPlace, HashPlace,
      GetPlace
<1>2. CASE StatFile
  <2>1. pc = "stat" /\ Request.file = cur
      BY <1>2, WhoAsked DEF StatFile
  <2>2. Size[version[Request.file]] \in Nat /\ Size[version[Request.file]] > 0
      BY <2>1, Contents DEF Types
  <2>3. /\ requests' = <<>> /\ Len(stream') = 1
        /\ stream'[1].kind = "stat" /\ stream'[1].file = cur
      BY <1>2, <2>2, AnswerSent DEF StatFile
  <2>4. [kind |-> "link", file |-> cur] # None
      BY JobFields DEF Types, Jobs
  <2>5. Linking'
      BY <1>2, <2>1, <2>4 DEF StatFile, Linking
  <2>. QED  BY <1>2, <2>1, <2>3, <2>5 DEF StatFile, AtPlace, StatPlace, OneReply
<1>3. CASE CompareLocalHash
  <2>1. pc \in {"md5", "verify"}
      BY <1>3, WhoAsked DEF CompareLocalHash
  <2>2. PICK n \in {0, 1} : Send(Reply("md5", Request.file, n))
      BY <1>3 DEF CompareLocalHash
  <2>3. /\ requests' = <<>> /\ Len(stream') = 1
        /\ stream'[1].kind = "md5" /\ stream'[1].file = cur
      BY <1>3, <2>2, AnswerSent DEF CompareLocalHash
  <2>. QED  BY <1>3, <2>1, <2>3 DEF CompareLocalHash, AtPlace, HashPlace, Answered, OneReply
<1>. QED  BY <1>1, <1>2, <1>3

\* The second answer to STAT.
LEMMA LinkSent ==
    ASSUME Types, AtPlace, SendLink
    PROVE  AtPlace'
<1>. USE DEF disk, agent
<1>1. /\ requests = <<>> /\ job.file = cur
      /\ \/ pc = "stat" /\ OneReply({"stat"})
         \/ pc = "link" /\ stream = <<>>
    BY WhoLinks DEF SendLink
<1>2. cur \in Files
    BY DEF Types
<1>3. PICK r \in Records : r = Reply("link", cur, 0) /\ r.kind = "link" /\ r.file = cur
    BY <1>2, ReplyMade
<1>4. /\ Len(stream') = Len(stream) + 1 /\ stream'[Len(stream) + 1] = r
      /\ \A i \in 1 .. Len(stream) : stream'[i] = stream[i]
  <2>1. Send(r)
      BY <1>1, <1>3 DEF SendLink, Send
  <2>. QED  BY <2>1, Sent
<1>5. CASE pc = "stat" /\ OneReply({"stat"})
  <2>1. Len(stream') = 2 /\ stream'[1] = stream[1] /\ stream'[2] = r
      BY <1>4, <1>5 DEF OneReply
  <2>. QED  BY <1>1, <1>3, <1>5, <2>1 DEF SendLink, AtPlace, StatPlace, OneReply
<1>6. CASE pc = "link" /\ stream = <<>>
  <2>1. Len(stream') = 1 /\ stream'[1] = r
      BY <1>4, <1>6, Short
  <2>. QED  BY <1>1, <1>3, <1>6, <2>1 DEF SendLink, AtPlace, LinkPlace, Answered, OneReply
<1>. QED  BY <1>1, <1>5, <1>6

\* A GET is refused with one block.
LEMMA GetRefused ==
    ASSUME Types, AtPlace, GetFails, InPlace'
    PROVE  AtPlace'
<1>. USE DEF disk, agent
<1>1. /\ stream = <<>> /\ Tail(requests) = <<>> /\ pc = "get"
      /\ Request.size = size /\ new = <<>>
    BY WhoAsked DEF GetFails
<1>2. stream' = stream \o <<>> \o <<Message("failed")>> /\ Block <= size
  <2>1. PICK refusal \in {<<>>, <<Reply("bad", Request.file, 0)>>} :
           /\ stream' = stream \o refusal \o <<Message("failed")>>
           /\ gaps' = IF refusal # <<>> \/ Request.size < Block
                      THEN gaps \cup {"refused"} ELSE gaps
      BY DEF GetFails
  <2>2. refusal = <<>> /\ ~(Request.size < Block)
      BY <2>1 DEF InPlace
  <2>. QED  BY <1>1, <2>1, <2>2, RemoteCopyAssumption DEF Types
<1>3. stream' = <<Message("failed")>>
  <2>1. <<Message("failed")>> \in Seq(Records) /\ <<>> \in Seq(Records)
      BY MessageMade, EmptySeq
  <2>2. <<>> \o <<>> = <<>> /\ <<>> \o <<Message("failed")>> = <<Message("failed")>>
      BY <2>1, ConcatEmptySeq
  <2>. QED  BY <1>1, <1>2, <2>2
<1>4. /\ Message("failed").kind = "data"
      /\ Len(Message("failed").units) = Block /\ Message("failed").units[1] = <<"failed">>
    BY MessageMade
<1>5. Len(stream') = 1 /\ stream'[1] = Message("failed")
    BY <1>3
<1>6. Failed'
    BY <1>1, <1>2, <1>4, <1>5 DEF GetFails, Failed
<1>. QED  BY <1>1, <1>6 DEF GetFails, AtPlace, GetPlace

\* A GET begins: nothing of the file is on the way, nothing of it is read.
LEMMA GetBegun ==
    ASSUME Types, AtPlace, GetStarts, InPlace'
    PROVE  AtPlace'
<1>. USE DEF disk, agent, conn
<1>0. PICK v \in Versions : v = version[cur]
    BY DEF Types
<1>1. /\ stream = <<>> /\ Tail(requests) = <<>> /\ pc = "get"
      /\ Request.file = cur /\ Request.size = size /\ new = <<>>
    BY WhoAsked DEF GetStarts
<1>2. Size[v] \in Nat /\ size \in Nat /\ cur \in Files
    BY Contents DEF Types
<1>3. Size[v] = size
    BY <1>0, <1>1, <1>2 DEF GetStarts, InPlace
<1>4. /\ job' # None /\ job'.kind = "get" /\ job'.file = cur /\ job'.size = size
      /\ job'.sees = v /\ job'.total = 0
    BY <1>0, <1>1, <1>2, <1>3, JobMade, JobFields DEF GetStarts
<1>5. stream' = <<>> /\ Len(stream') = 0 /\ new' = <<>> /\ Len(new') = 0
      /\ size' = size /\ cur' = cur /\ pc' = pc /\ requests' = <<>>
    BY <1>1, EmptySeq DEF GetStarts
<1>6. PICK off \in Offsets' : off[0] = 0
  <2>1. [i \in 0 .. 0 |-> 0] \in Offsets'
      BY <1>2, <1>5 DEF Offsets
  <2>. QED  BY <2>1
<1>7. Transferring(off)'
    BY <1>2, <1>4, <1>5, <1>6 DEF Transferring, Least
<1>8. OfVersion(off, v)'
    BY <1>2, <1>3, <1>4, <1>5 DEF OfVersion
<1>9. Transfer'
    BY <1>4, <1>5, <1>6, <1>7, <1>8 DEF Transfer
<1>. QED  BY <1>1, <1>5, <1>9 DEF AtPlace, GetPlace

\* The thread ends with what it was sending.
LEMMA GetEnds ==
    ASSUME Types, AtPlace, job # None, job.kind = "get", job' = None,
           UNCHANGED <<stream, requests, pc, cur, size, new, gaps>>
    PROVE  AtPlace'
<1>1. Transfer => Transfer'
  <2>. SUFFICES ASSUME Transfer PROVE Transfer'
      OBVIOUS
  <2>1. PICK off \in Offsets : /\ Transferring(off)
                               /\ "torn" \notin gaps => \E v \in Versions : OfVersion(off, v)
      BY DEF Transfer
  <2>2. off \in Offsets' /\ Transferring(off)'
      BY <2>1 DEF Offsets, Transferring
  <2>3. ASSUME NEW v \in Versions, OfVersion(off, v) PROVE OfVersion(off, v)'
      BY <2>3 DEF OfVersion
  <2>4. "torn" \notin gaps' => \E v \in Versions : OfVersion(off, v)'
      BY <2>1, <2>3
  <2>5. requests' = <<>>
      BY DEF Transfer
  <2>. QED  BY <2>2, <2>4, <2>5 DEF Transfer
<1>. QED  BY <1>1 DEF AtPlace, Quiet, StatPlace, LinkPlace, HashPlace, GetPlace, GetUnread,
                      Refused, Failed, Unread, OneRequest, Answered, Linking, Drained

\* It reads on where there is nothing more to send.
LEMMA NothingSent ==
    ASSUME Types, AtPlace, job # None, job.kind = "get", job.size <= job.total,
           job' # None, job'.kind = "get", job'.file = job.file, job'.size = job.size,
           job'.sees = job.sees, job'.total \in Nat, job.total <= job'.total,
           UNCHANGED <<stream, requests, pc, cur, size, new, gaps>>
    PROVE  AtPlace'
<1>1. job.size \in Nat /\ job.total \in Nat
    BY JobFields DEF Types
<1>2. job'.size <= job'.total
    BY <1>1
<1>3. Transfer => Transfer'
  <2>. SUFFICES ASSUME Transfer PROVE Transfer'
      OBVIOUS
  <2>1. PICK off \in Offsets : /\ Transferring(off)
                               /\ "torn" \notin gaps => \E v \in Versions : OfVersion(off, v)
      BY DEF Transfer
  <2>2. job.size = size /\ job.file = cur /\ requests = <<>>
      BY DEF Transfer
  <2>3. Least(job'.total, size) = Least(job.total, size)
      BY <1>1, <1>2, <2>2 DEF Least
  <2>4. off \in Offsets' /\ Transferring(off)'
      BY <2>1, <2>3 DEF Offsets, Transferring
  <2>5. ASSUME NEW v \in Versions, OfVersion(off, v) PROVE OfVersion(off, v)'
      BY <2>5 DEF OfVersion
  <2>6. "torn" \notin gaps' => \E v \in Versions : OfVersion(off, v)'
      BY <2>1, <2>5
  <2>. QED  BY <2>2, <2>4, <2>6 DEF Transfer
<1>. QED  BY <1>2, <1>3 DEF AtPlace, Quiet, StatPlace, LinkPlace, HashPlace, GetPlace,
                      GetUnread, Refused, Failed, Unread, OneRequest, Answered,
                          Linking, Drained

\* One more block is on its way.
LEMMA BlockSent ==
    ASSUME Types, AtPlace, GetBlock, InPlace', job' # None, job.total < job.size
    PROVE  AtPlace'
<1>. USE DEF disk, agent
<1>1. /\ job \in Jobs /\ job.kind = "get" /\ job.sees \in Versions /\ job.file \in Files
      /\ job.size \in Nat /\ job.total \in Nat /\ Size[job.sees] \in Nat
    BY JobFields, Contents DEF GetBlock, Types
<1>. DEFINE n == Least(Block, Size[job.sees] - job.total)
            l == Least(Block, job.size - job.total)
            block == [i \in 1 .. l |-> IF i <= n THEN Content(job.file, job.sees)[job.total + i]
                                       ELSE <<"pad">>]
<1>2. /\ n > 0 /\ l > 0 /\ Send(Data(block))
      /\ job' = [job EXCEPT !.total = @ + n, !.count = @ + 1]
      /\ gaps' = IF n < l THEN gaps \cup {"resized"} ELSE gaps
      /\ UNCHANGED <<version, requests, cache, error, disk, agent>>
  <2>1. l # 0
      BY <1>1, RemoteCopyAssumption DEF Least
  <2>. QED  BY <2>1, GetRound DEF GetBlock
<1>3. n \in Nat /\ l \in Nat \ {0} /\ n <= Size[job.sees] - job.total
    BY <1>1, <1>2, RemoteCopyAssumption DEF Least
<1>4. n >= l /\ gaps' = gaps
    BY <1>2, <1>3 DEF InPlace
<1>5. pc = "get" /\ Transfer
  <2>1. ~(job.size <= job.total)
      BY <1>1, <1>2, RemoteCopyAssumption DEF Least
  <2>. QED  BY <1>1, <2>1, WhoGets DEF GetBlock
<1>6. requests = <<>> /\ job.file = cur /\ job.size = size
    BY <1>5 DEF Transfer, GetBlock
<1>7. PICK off \in Offsets : /\ Transferring(off)
                             /\ "torn" \notin gaps => \E v \in Versions : OfVersion(off, v)
    BY <1>5 DEF Transfer
<1>. DEFINE m == Len(stream)
<1>8. m \in Nat /\ size \in Nat /\ job # None
    BY Short DEF Types, GetBlock
<1>9. off[m] = job.total /\ job.total + l <= size /\ Least(job.total + n, size) = job.total + l
  <2>1. off[m] = Least(job.total, size)
      BY <1>7, <1>8 DEF Transferring
  <2>2. l <= size - job.total /\ l <= Block /\ n <= Block /\ l \in {Block, size - job.total}
      BY <1>1, <1>6, <1>8, RemoteCopyAssumption DEF Least
  <2>. HIDE DEF n, l
  <2>. QED  BY <1>1, <1>3, <1>4, <1>8, <2>1, <2>2, RemoteCopyAssumption DEF Least
<1>10. l <= Block
    BY <1>1, RemoteCopyAssumption DEF Least
<1>11. PICK r \in Records :
          /\ r = Data(block) /\ r.kind = "data" /\ Len(r.units) = l
          /\ \A j \in 1 .. l : r.units[j] = <<cur, job.sees, job.total + j>>
  <2>. HIDE DEF n, l
  <2>1. n \in Int
      BY <1>3
  <2>. PICK b : b = block
      OBVIOUS
  <2>2. /\ b = [i \in 1 .. l |-> b[i]]
        /\ \A i \in 1 .. l :
              b[i] = IF i <= n THEN Content(job.file, job.sees)[job.total + i] ELSE <<"pad">>
      OBVIOUS
  <2>. HIDE DEF block
  <2>3. /\ job # None /\ job.kind = "get" /\ l \in Nat \ {0}
        /\ n \in Int /\ n <= Size[job.sees] - job.total
      BY <1>1, <1>3, <1>8, <2>1
  <2>4. b \in Seq(Bytes) /\ b # <<>>
      BY <2>3, <2>2, BlockMade
  <2>5. Len(b) = l
      BY <2>3, <2>2, BlockMade
  <2>6. Data(b) \in Records
      BY <2>3, <2>2, BlockMade
  <2>7. \A j \in 1 .. l : j <= n => b[j] = <<job.file, job.sees, job.total + j>>
      BY <2>3, <2>2, BlockMade
  <2>8. /\ b \in Seq(Bytes) /\ b # <<>> /\ Len(b) = l /\ Data(b) \in Records
        /\ \A j \in 1 .. l : j <= n => b[j] = <<job.file, job.sees, job.total + j>>
      BY <2>4, <2>5, <2>6, <2>7
  <2>9. Data(b).kind = "data" /\ Data(b).units = b
      BY <2>8, DataMade
  <2>10. \A j \in 1 .. l : j <= n
      BY <1>3, <1>4
  <2>. HIDE DEF block
  <2>. QED  BY <1>6, <2>8, <2>9, <2>10
<1>12. /\ job' # None /\ job'.kind = "get" /\ job'.file = cur /\ job'.sees = job.sees
       /\ job'.size = size /\ job'.total = job.total + n
  <2>. HIDE DEF n, l
  <2>. QED  BY <1>1, <1>2, <1>3, <1>6, JobGoesOn
<1>13. /\ Len(stream') = m + 1 /\ stream'[m + 1] = r
       /\ \A i \in 1 .. m : stream'[i] = stream[i]
  <2>1. Send(r)
      BY <1>2, <1>11
  <2>. QED  BY <2>1, Sent
<1>14. UNCHANGED <<requests, pc, cur, size, new, gaps>>
    BY <1>2, <1>4
<1>15. off \in [0 .. m -> 0 .. size]
    BY <1>7 DEF Offsets
<1>. HIDE DEF n, l, block, m
<1>16. PICK next \in [0 .. m + 1 -> 0 .. size] :
          (\A i \in 0 .. m : next[i] = off[i]) /\ next[m + 1] = job.total + l
  <2>. DEFINE g == [i \in 0 .. m + 1 |-> IF i <= m THEN off[i] ELSE job.total + l]
  <2>1. g \in [0 .. m + 1 -> 0 .. size]
      BY <1>1, <1>3, <1>8, <1>9, <1>15
  <2>2. (\A i \in 0 .. m : g[i] = off[i]) /\ g[m + 1] = job.total + l
      BY <1>8
  <2>. QED  BY <2>1, <2>2
<1>17. next \in Offsets'
    BY <1>13, <1>14, <1>16 DEF Offsets
<1>18. Transferring(next)'
  <2>1. next[0] = Len(new)
    <3>1. off[0] = Len(new)
        BY <1>7 DEF Transferring
    <3>. QED  BY <1>8, <1>16, <3>1
  <2>2. ASSUME NEW i \in 1 .. m
        PROVE  /\ stream'[i].kind = "data" /\ stream'[i].units[1] \in OfFiles
               /\ next[i] = next[i - 1] + Len(stream'[i].units)
               /\ Len(stream'[i].units) <= Block
    <3>1. stream'[i] = stream[i] /\ next[i] = off[i] /\ next[i - 1] = off[i - 1]
        BY <1>8, <1>13, <1>16, <2>2
    <3>2. /\ stream[i].kind = "data" /\ stream[i].units[1] \in OfFiles
          /\ off[i] = off[i - 1] + Len(stream[i].units) /\ Len(stream[i].units) <= Block
        BY <1>7, <2>2 DEF Transferring, m
    <3>. QED  BY <3>1, <3>2
  <2>3. /\ r.units[1] \in OfFiles /\ next[m + 1] = next[m] + Len(r.units)
        /\ Len(r.units) <= Block
    <3>1. r.units[1] = <<cur, job.sees, job.total + 1>>
        BY <1>3, <1>11
    <3>2. r.units[1] \in OfFiles
        BY <1>1, <1>6, <3>1 DEF OfFiles
    <3>3. next[m] = job.total
        BY <1>8, <1>9, <1>16
    <3>. QED  BY <1>10, <1>11, <1>16, <3>2, <3>3
  <2>4. \A i \in 1 .. m + 1 :
           /\ stream'[i].kind = "data" /\ stream'[i].units[1] \in OfFiles
           /\ next[i] = next[i - 1] + Len(stream'[i].units)
           /\ Len(stream'[i].units) <= Block
    <3>. TAKE i \in 1 .. m + 1
    <3>1. CASE i \in 1 .. m
        BY <2>2, <3>1
    <3>2. CASE i = m + 1
        BY <1>8, <1>11, <1>13, <2>3, <3>2
    <3>. QED  BY <1>8, <3>1, <3>2
  <2>5. next[m + 1] = Least(job'.total, size)
      BY <1>9, <1>12, <1>16
  <2>. QED  BY <1>13, <1>14, <2>1, <2>4, <2>5 DEF Transferring
<1>19. ASSUME NEW v \in Versions, OfVersion(off, v) PROVE OfVersion(next, v)'
  <2>1. Size[v] = size /\ job.sees = v /\ job'.sees = v
      BY <1>8, <1>12, <1>19 DEF OfVersion
  <2>2. \A j \in 1 .. Len(new) : new[j] = <<cur, v, j>>
      BY <1>19 DEF OfVersion
  <2>3. \A i \in 1 .. m + 1 : \A j \in 1 .. Len(stream'[i].units) :
           stream'[i].units[j] = <<cur, v, next[i - 1] + j>>
    <3>. TAKE i \in 1 .. m + 1
    <3>1. CASE i \in 1 .. m
      <4>1. stream'[i] = stream[i] /\ next[i - 1] = off[i - 1]
          BY <1>8, <1>13, <1>16, <3>1
      <4>. QED  BY <1>19, <3>1, <4>1 DEF OfVersion, m
    <3>2. CASE i = m + 1
      <4>1. stream'[i] = r /\ next[i - 1] = job.total
          BY <1>8, <1>9, <1>13, <1>16, <3>2
      <4>. QED  BY <1>11, <2>1, <4>1
    <3>. QED  BY <1>8, <3>1, <3>2
  <2>4. /\ (job' # None => job'.sees = v) /\ Size[v] = size'
        /\ \A j \in 1 .. Len(new') : new'[j] = <<cur', v, j>>
      BY <1>14, <2>1, <2>2
  <2>5. \A i \in 1 .. Len(stream') : \A j \in 1 .. Len(stream'[i].units) :
           stream'[i].units[j] = <<cur', v, next[i - 1] + j>>
      BY <1>13, <1>14, <2>3
  <2>. QED  BY <2>4, <2>5 DEF OfVersion
<1>20. Transfer'
    BY <1>6, <1>7, <1>12, <1>14, <1>17, <1>18, <1>19 DEF Transfer
<1>. QED  BY <1>5, <1>14, <1>20 DEF AtPlace, GetPlace

\* A round of the loop in CfGetFile.
LEMMA GetGoesOn ==
    ASSUME Types, AtPlace, GetBlock, InPlace'
    PROVE  AtPlace'
<1>. USE DEF disk, agent
<1>1. CASE job' # None
  <2>1. /\ job \in Jobs /\ job.kind = "get" /\ job # None /\ job.sees \in Versions
        /\ job.size \in Nat /\ job.total \in Nat /\ Size[job.sees] \in Nat
      BY JobFields, Contents DEF GetBlock, Types
  <2>. DEFINE n == Least(Block, Size[job.sees] - job.total)
              l == Least(Block, job.size - job.total)
  <2>2. CASE job.total < job.size
      BY <1>1, <2>2, BlockSent
  <2>3. CASE ~(job.total < job.size)
    <3>1. ~(l > 0)
        BY <2>1, <2>3, RemoteCopyAssumption DEF Least
    <3>2. /\ n > 0 /\ UNCHANGED <<stream, gaps>>
          /\ job' = [job EXCEPT !.total = @ + n, !.count = @ + 1]
        BY <1>1, <3>1, GetRound
    <3>3. n \in Nat
        BY <2>1, <3>2, RemoteCopyAssumption DEF Least
    <3>4. UNCHANGED <<requests, pc, cur, size, new>>
        BY DEF GetBlock
    <3>. HIDE DEF n, l
    <3>5. /\ job'.kind = "get" /\ job'.file = job.file /\ job'.size = job.size
          /\ job'.sees = job.sees /\ job'.total = job.total + n
        BY <2>1, <3>2, <3>3, JobGoesOn
    <3>. QED  BY <1>1, <2>1, <2>3, <3>2, <3>3, <3>4, <3>5, NothingSent
  <2>. QED  BY <2>2, <2>3
<1>2. CASE job' = None
  <2>1. UNCHANGED <<stream, gaps>>
    <3>1. ~(gaps' = gaps \cup {"resized"})
        BY DEF InPlace
    <3>2. job \in Jobs /\ job.kind = "get"
        BY DEF GetBlock, Types
    <3>. DEFINE n == Least(Block, Size[job.sees] - job.total)
    <3>3. ~(job' = [job EXCEPT !.total = @ + n, !.count = @ + 1] /\ n > 0)
      <4>1. job.sees \in Versions /\ job.total \in Nat
          BY <3>2, JobFields
      <4>2. Size[job.sees] \in Nat
          BY <4>1, RemoteCopyAssumption
      <4>3. n \in Int
          BY <4>1, <4>2, RemoteCopyAssumption DEF Least
      <4>. HIDE DEF n
      <4>4. ASSUME n > 0 PROVE [job EXCEPT !.total = @ + n, !.count = @ + 1] \in Jobs
        <5>1. n \in Nat
            BY <4>3, <4>4
        <5>. QED  BY <3>2, <5>1, JobGoesOn
      <4>. QED  BY <1>2, <4>4, JobFields
    <3>. QED  BY <3>1, <3>3 DEF GetBlock
  <2>. QED  BY <1>2, <2>1, GetEnds DEF GetBlock
<1>. QED  BY <1>1, <1>2

\* A source is written or replaced; what is in the connection stays.
LEMMA SourceChanged ==
    ASSUME Types, AtPlace, NEW f \in Files, SourceChanges(f)
    PROVE  AtPlace'
<1>. USE DEF disk, agent, conn
<1>1. UNCHANGED <<stream, requests, pc, cur, size, new>>
    BY DEF SourceChanges
<1>2. CASE UNCHANGED <<job, gaps>>
  <2>1. Transfer => Transfer'
    <3>. SUFFICES ASSUME Transfer PROVE Transfer'
        OBVIOUS
    <3>1. PICK off \in Offsets : /\ Transferring(off)
                                 /\ "torn" \notin gaps => \E v \in Versions : OfVersion(off, v)
        BY DEF Transfer
    <3>2. off \in Offsets' /\ Transferring(off)'
        BY <1>1, <1>2, <3>1 DEF Offsets, Transferring
    <3>3. ASSUME NEW v \in Versions, OfVersion(off, v) PROVE OfVersion(off, v)'
        BY <1>1, <1>2, <3>3 DEF OfVersion
    <3>4. "torn" \notin gaps' => \E v \in Versions : OfVersion(off, v)'
        BY <1>2, <3>1, <3>3
    <3>5. /\ requests' = <<>>
          /\ job' # None => job'.kind = "get" /\ job'.file = cur' /\ job'.size = size'
        BY <1>1, <1>2 DEF Transfer
    <3>. QED  BY <3>2, <3>4, <3>5 DEF Transfer
  <2>. QED  BY <1>1, <1>2, <2>1 DEF AtPlace, Quiet, StatPlace, LinkPlace, HashPlace, GetPlace,
                                    GetUnread, Refused, Failed, Unread, OneRequest,
                                        Answered, OneReply,
                                    Linking, Drained
<1>3. CASE /\ job # None /\ job.kind = "get"
           /\ job' = [job EXCEPT !.sees = version'[f]] /\ gaps' = gaps \cup {"torn"}
  <2>1. version'[f] \in Versions /\ job \in Jobs
      BY <1>3 DEF SourceChanges, Types
  <2>2. /\ job' # None /\ job'.kind = "get" /\ job'.file = job.file
        /\ job'.size = job.size /\ job'.total = job.total
      BY <1>3, <2>1, JobSees, JobFields
  <2>3. Transfer => Transfer'
    <3>. SUFFICES ASSUME Transfer PROVE Transfer'
        OBVIOUS
    <3>1. PICK off \in Offsets : Transferring(off)
        BY DEF Transfer
    <3>2. off \in Offsets' /\ Transferring(off)'
        BY <1>1, <1>3, <2>2, <3>1 DEF Offsets, Transferring
    <3>3. "torn" \in gaps'
        BY <1>3
    <3>4. /\ requests' = <<>>
          /\ job'.kind = "get" /\ job'.file = cur' /\ job'.size = size'
        BY <1>1, <1>3, <2>2 DEF Transfer
    <3>. QED  BY <3>2, <3>3, <3>4 DEF Transfer
  <2>. QED  BY <1>1, <1>3, <2>2, <2>3 DEF AtPlace, Quiet, StatPlace, LinkPlace, HashPlace,
                                    GetPlace, GetUnread, Refused, Failed, Unread,
                                        OneRequest, Answered,
                                    OneReply, Linking, Drained
<1>. QED  BY <1>2, <1>3 DEF SourceChanges

\* A request is sent from a place where the connection is quiet.
LEMMA RequestSent ==
    ASSUME Types, Quiet, NEW r \in Asks, NEW l \in Places, Ask(r, l), UNCHANGED <<stream, job>>,
           r.file = cur'
    PROVE  Unread(r.kind)' /\ requests'[1] = r /\ pc' = l
<1>1. requests = <<>> /\ Len(requests) = 0
    BY Short DEF Quiet
<1>2. Len(requests') = 1 /\ requests'[1] = r /\ pc' = l
    BY <1>1, Asked
<1>. QED  BY <1>2 DEF Unread, OneRequest, Quiet, Drained

\* A promise begins, with or without a STAT.
LEMMA CopyBegun ==
    ASSUME Types, AtPlace, NEW f \in Files, BeginCopy(f)
    PROVE  AtPlace'
<1>. USE DEF conn, disk
<1>1. Quiet
    BY DEF BeginCopy, AtPlace
<1>2. CASE pc' = "compare" /\ UNCHANGED requests
    BY <1>1, <1>2 DEF BeginCopy, AtPlace, Quiet, Drained
<1>3. CASE Ask([kind |-> "stat", file |-> f], "stat")
  <2>1. PICK r \in Asks : r = [kind |-> "stat", file |-> f] /\ r.kind = "stat" /\ r.file = f
      BY AskMade, EmptySeq
  <2>2. Ask(r, "stat") /\ cur' = f /\ UNCHANGED <<stream, job>>
      BY <1>3, <2>1 DEF BeginCopy
  <2>3. Unread("stat")' /\ pc' = "stat"
      BY <1>1, <2>1, <2>2, RequestSent DEF Places
  <2>. QED  BY <2>3 DEF AtPlace, StatPlace
<1>. QED  BY <1>2, <1>3 DEF BeginCopy

\* What is read is an answer to the request, and nothing is left of it.
LEMMA OneAnswer ==
    ASSUME Types, NEW S, Answered(S), stream # <<>>
    PROVE  Received.kind \in S /\ Tail(stream) = <<>>
<1>1. Received = stream[1] /\ Len(Tail(stream)) = 0 /\ Tail(stream) \in Seq(Records)
    BY Next1 DEF Answered, OneReply
<1>. QED  BY <1>1, NotEmpty DEF Answered, OneReply

\* Who still waits for an answer does not stop waiting.
LEMMA StillWaiting ==
    ASSUME Types, InPlace', NoAnswer, Outstanding \/ stream # <<>>,
           stream # <<>> => Received.kind # "data"
    PROVE  FALSE
BY DEF NoAnswer, ReceiveTimesOut, BogusHeader, InPlace

\* The first answer to STAT is read.
LEMMA StatReceived ==
    ASSUME Types, AtPlace, InPlace', ReceiveStat
    PROVE  AtPlace'
<1>. USE DEF server, disk
<1>1. pc = "stat" /\ StatPlace
    BY DEF ReceiveStat, AtPlace
<1>2. /\ Outstanding \/ stream # <<>>
      /\ stream # <<>> => Received.kind # "data"
  <2>1. Outstanding \/ stream # <<>>
      BY <1>1, Short DEF StatPlace, Unread, OneRequest, Answered, OneReply, Linking,
          Outstanding
  <2>2. ASSUME stream # <<>> PROVE Received.kind # "data"
      BY <1>1, <2>2, Next1 DEF StatPlace, Unread, Answered, OneReply
  <2>. QED  BY <2>1, <2>2
<1>3. ReceiveReply
    BY <1>2, StillWaiting DEF ReceiveStat
<1>4. stream # <<>> /\ stream' = Tail(stream) /\ UNCHANGED <<requests, job, cur>>
    BY <1>3 DEF ReceiveReply, ReceiveStat
<1>5. CASE Answered({"bad"})
  <2>1. Received.kind = "bad" /\ stream' = <<>>
      BY <1>4, <1>5, OneAnswer
  <2>2. pc' = "idle"
      BY <1>3, <1>2, <2>1, StillWaiting DEF ReceiveStat
  <2>. QED  BY <1>4, <1>5, <2>1, <2>2 DEF AtPlace, Quiet, Answered, Drained
<1>6. CASE requests = <<>> /\ Linking /\ OneReply({"stat"})
  <2>1. Received.kind = "stat" /\ Len(Tail(stream)) = 0 /\ Tail(stream) \in Seq(Records)
      BY <1>4, <1>6, Next1 DEF OneReply
  <2>2. stream' = <<>>
      BY <1>4, <2>1, NotEmpty
  <2>3. pc' = "link"
      BY <1>2, <2>1, StillWaiting DEF ReceiveStat
  <2>. QED  BY <1>4, <1>6, <2>2, <2>3 DEF AtPlace, LinkPlace, Linking
<1>7. CASE /\ requests = <<>> /\ job = None /\ Len(stream) = 2
           /\ stream[1].kind = "stat" /\ stream[1].file = cur
           /\ stream[2].kind = "link" /\ stream[2].file = cur
  <2>1. Received.kind = "stat" /\ Len(Tail(stream)) = 1
      BY <1>4, <1>7, Next1
  <2>3. Tail(stream)[1] = stream[2]
    <3>1. \A i \in 1 .. Len(stream) - 1 : Tail(stream)[i] = stream[i + 1]
        BY <1>4, Next1
    <3>2. 1 \in 1 .. Len(stream) - 1
        BY <1>7
    <3>3. Tail(stream)[1] = stream[1 + 1]
        BY <3>1, <3>2
    <3>4. 1 + 1 = 2
        OBVIOUS
    <3>. QED  BY <3>3, <3>4, Zenon
  <2>2. pc' = "link"
      BY <1>2, <2>1, StillWaiting DEF ReceiveStat
  <2>. QED  BY <1>4, <1>7, <2>1, <2>2, <2>3 DEF AtPlace, LinkPlace, Answered, OneReply
<1>. QED  BY <1>1, <1>4, <1>5, <1>6, <1>7 DEF StatPlace, Unread

\* The second one is.
LEMMA LinkReceived ==
    ASSUME Types, AtPlace, InPlace', ReceiveLink
    PROVE  AtPlace'
<1>. USE DEF server, disk
<1>1. pc = "link" /\ LinkPlace
    BY DEF ReceiveLink, AtPlace
<1>2. /\ Outstanding \/ stream # <<>>
      /\ stream # <<>> => Received.kind # "data"
  <2>1. Outstanding \/ stream # <<>>
      BY <1>1, Short DEF LinkPlace, Answered, OneReply, Linking, Outstanding
  <2>2. ASSUME stream # <<>> PROVE Received.kind # "data"
      BY <1>1, <2>2, Next1 DEF LinkPlace, Answered, OneReply
  <2>. QED  BY <2>1, <2>2
<1>3. ReceiveReply /\ pc' = "compare"
    BY <1>2, StillWaiting DEF ReceiveLink
<1>4. stream # <<>> /\ stream' = Tail(stream) /\ UNCHANGED <<requests, job>>
    BY <1>3 DEF ReceiveReply, ReceiveLink
<1>5. Answered({"link"})
    BY <1>1, <1>4 DEF LinkPlace
<1>6. stream' = <<>>
    BY <1>4, <1>5, OneAnswer
<1>. QED  BY <1>3, <1>4, <1>5, <1>6 DEF AtPlace, Quiet, Answered, Drained

\* The answer to an MD5 is read; both answers leave the connection quiet.
LEMMA HashReceived ==
    ASSUME Types, AtPlace, InPlace', pc \in {"md5", "verify"}, Mismatch \/ Match,
           UNCHANGED <<requests, job>>
    PROVE  Quiet'
<1>1. HashPlace
    BY DEF AtPlace
<1>2. /\ Outstanding \/ stream # <<>>
      /\ stream # <<>> => Received.kind # "data"
  <2>1. Outstanding \/ stream # <<>>
      BY <1>1, Short DEF HashPlace, Unread, OneRequest, Answered, OneReply, Outstanding
  <2>2. ASSUME stream # <<>> PROVE Received.kind # "data"
      BY <1>1, <2>2, Next1 DEF HashPlace, Unread, Answered, OneReply
  <2>. QED  BY <2>1, <2>2
<1>3. ReceiveReply
    BY <1>2, StillWaiting DEF Mismatch, Match
<1>4. stream # <<>> /\ stream' = Tail(stream)
    BY <1>3 DEF ReceiveReply
<1>5. Answered({"md5", "bad"})
    BY <1>1, <1>4 DEF HashPlace, Unread
<1>6. stream' = <<>>
    BY <1>4, <1>5, OneAnswer
<1>. QED  BY <1>5, <1>6 DEF Quiet, Answered, Drained

\* What TLSRecv reads of a refusal: all of it.
LEMMA RefusalRead ==
    ASSUME Types, ReadBlock, InPlace', Refused \/ Failed
    PROVE  pc' = "idle" /\ Quiet'
<1>. USE DEF server
<1>1. pc = "get" /\ stream # <<>> /\ Len(stream) = 1 /\ requests = <<>> /\ job = None
    BY DEF ReadBlock, Refused, Answered, Failed, OneReply
<1>2. Received = stream[1] /\ Tail(stream) = <<>>
  <2>1. Received = stream[1] /\ Len(Tail(stream)) = 0 /\ Tail(stream) \in Seq(Records)
      BY <1>1, Next1
  <2>. QED  BY <2>1, NotEmpty
<1>3. size \in Nat /\ Len(new) \in Nat /\ Len(new) < size /\ new \in Seq(Bytes)
    BY <1>1, LenProperties DEF Types
<1>4. Block \in Nat /\ Refusal \in Nat /\ 1 <= Refusal /\ Refusal <= Block
    BY RemoteCopyAssumption
<1>5. SaysNo /\ Len(Got) = Len(Units) /\ ~Unseen
  <2>1. Len(Got) = Least(Least(Block, size - Len(new)), Len(Units)) /\ Units \in Seq(Bytes)
      BY <1>1, GotAndRest
  <2>2. CASE Refused
    <3>1. Received.kind = "bad" /\ new = <<>> /\ Len(new) = 0 /\ Refusal <= size
        BY <1>2, <2>2, EmptySeq DEF Refused, Answered, OneReply
    <3>2. Len(Units) = Refusal
        BY <1>4, <3>1 DEF Units
    <3>3. Len(Got) = Refusal
        BY <1>3, <1>4, <2>1, <3>1, <3>2 DEF Least
    <3>. QED  BY <1>4, <3>1, <3>2, <3>3 DEF SaysNo, Unseen
  <2>3. CASE Failed
    <3>1. Units = stream[1].units /\ new = <<>> /\ Len(new) = 0
        BY <1>2, <2>3, EmptySeq DEF Failed, Units
    <3>2. Len(Units) = Block /\ Block <= size /\ Units[1] = <<"failed">>
        BY <2>3, <3>1 DEF Failed
    <3>3. Len(Got) = Block
        BY <1>3, <1>4, <2>1, <3>1, <3>2 DEF Least
    <3>4. Got[1] = Units[1]
      <4>1. 1 \in 1 .. Len(Got)
          BY <1>4, <3>3
      <4>2. \A i \in 1 .. Len(Got) : Got[i] = Units[i]
          BY <1>1, GotAndRest
      <4>. QED  BY <4>1, <4>2
    <3>. QED  BY <1>4, <3>1, <3>2, <3>3, <3>4 DEF SaysNo, Unseen
  <2>. QED  BY <2>2, <2>3
<1>6. Rest = <<>>
  <2>1. Rest \in Seq(Bytes) /\ Len(Rest) = Len(Units) - Len(Got) /\ Units \in Seq(Bytes)
      BY <1>1, GotAndRest
  <2>2. Len(Rest) = 0
      BY <1>5, <2>1, LenProperties
  <2>. QED  BY <2>1, <2>2, NotEmpty
<1>7. stream' = <<>>
  <2>1. stream' = <<>> \o Tail(stream)
      BY <1>6 DEF ReadBlock, TakeRecord
  <2>2. Tail(stream) \in Seq(Records)
      BY <1>1, Next1
  <2>. QED  BY <1>2, <2>1, <2>2, ConcatEmptySeq
<1>8. pc' = "idle"
    BY <1>5 DEF ReadBlock
<1>. QED  BY <1>1, <1>7, <1>8 DEF ReadBlock, Quiet, Drained

\* And of the file: a record, which is where the agent is in the file, whether
\* it is the last one or not.
LEMMA UnitsRead ==
    ASSUME Types, ReadBlock, InPlace', Transfer
    PROVE  /\ pc' = "get" => Transfer'
           /\ pc' = "backup" => Quiet'
           /\ pc' = "backup" /\ "torn" \notin gaps =>
                 \E v \in Versions : new' = Content(cur, v)
           /\ pc' \in {"get", "backup"}
<1>. USE DEF server
<1>1. PICK off \in Offsets : /\ Transferring(off)
                             /\ "torn" \notin gaps => \E v \in Versions : OfVersion(off, v)
    BY DEF Transfer
<1>2. pc = "get" /\ stream # <<>> /\ requests = <<>>
    BY DEF ReadBlock, Transfer
<1>. DEFINE m == Len(stream)
            u == stream[1].units
<1>3. m \in Nat /\ m >= 1 /\ Received = stream[1] /\ Received \in Records
    BY <1>2, Next1
<1>4. /\ stream[1].kind = "data" /\ u[1] \in OfFiles
      /\ off[1] = off[0] + Len(u) /\ Len(u) <= Block /\ off[0] = Len(new)
  <2>1. 1 \in 1 .. Len(stream)
      BY <1>3
  <2>2. /\ stream[1].kind = "data" /\ stream[1].units[1] \in OfFiles
        /\ off[1] = off[1 - 1] + Len(stream[1].units) /\ Len(stream[1].units) <= Block
      BY <1>1, <2>1, Zenon DEF Transferring
  <2>3. 1 - 1 = 0 /\ off[0] = Len(new)
      BY <1>1 DEF Transferring
  <2>. QED  BY <2>2, <2>3
<1>5. Units = u /\ u \in Seq(Bytes) /\ u # <<>>
    BY <1>3, <1>4, RecordFields DEF Units
<1>6. /\ size \in Nat /\ Len(new) \in Nat /\ Len(new) < size /\ new \in Seq(Bytes)
      /\ off[1] \in 0 .. size /\ Len(u) \in Nat /\ Len(u) > 0
    BY <1>1, <1>2, <1>3, <1>5, NotEmpty DEF Types, Offsets
<1>. HIDE DEF u
<1>7. Len(Got) = Len(u)
  <2>1. Len(Got) = Least(Least(Block, size - Len(new)), Len(u))
      BY <1>2, <1>5, GotAndRest
  <2>2. Block \in Nat
      BY RemoteCopyAssumption
  <2>. QED  BY <1>4, <1>6, <2>1, <2>2 DEF Least
<1>8. Got \in Seq(Bytes) /\ \A i \in 1 .. Len(u) : Got[i] = u[i]
    BY <1>2, <1>5, <1>7, GotAndRest
<1>9. Rest = <<>>
  <2>1. Rest \in Seq(Bytes) /\ Len(Rest) = Len(u) - Len(Got)
      BY <1>2, <1>5, GotAndRest
  <2>2. Len(Rest) = 0
      BY <1>6, <1>7, <2>1
  <2>. QED  BY <2>1, <2>2, NotEmpty
<1>10. ~SaysNo
  <2>1. Got[1] = u[1]
      BY <1>6, <1>8
  <2>2. Got[1] # <<"failed">> /\ Got[1] # <<"changed">>
      BY <1>4, <2>1, NotOfAFile
  <2>. QED  BY <1>3, <1>4, <2>2 DEF SaysNo
<1>11. /\ new' = new \o Got /\ pc' = IF Len(new') = size THEN "backup" ELSE "get"
       /\ UNCHANGED <<requests, job, cur, size, gaps>>
    BY <1>10 DEF ReadBlock, Unasked
<1>12. /\ Len(new') = off[1]
       /\ \A i \in 1 .. Len(new) : new'[i] = new[i]
       /\ \A i \in 1 .. Len(u) : new'[Len(new) + i] = u[i]
       /\ new' \in Seq(Bytes)
  <2>1. /\ new \o Got \in Seq(Bytes) /\ Len(new \o Got) = Len(new) + Len(Got)
        /\ \A i \in 1 .. Len(new) + Len(Got) : (new \o Got)[i] =
              IF i <= Len(new) THEN new[i] ELSE Got[i - Len(new)]
      BY <1>6, <1>8, ConcatProperties
  <2>2. \A i \in 1 .. Len(new) : new'[i] = new[i]
      BY <1>6, <1>7, <1>11, <2>1
  <2>3. ASSUME NEW i \in 1 .. Len(u) PROVE new'[Len(new) + i] = u[i]
    <3>1. /\ Len(new) + i \in 1 .. Len(new) + Len(Got) /\ ~(Len(new) + i <= Len(new))
          /\ Len(new) + i - Len(new) = i
        BY <1>6, <1>7
    <3>2. (new \o Got)[Len(new) + i] = Got[i]
        BY <2>1, <3>1
    <3>. QED  BY <1>8, <1>11, <3>2
  <2>. QED  BY <1>4, <1>6, <1>7, <1>11, <2>1, <2>2, <2>3
<1>13. /\ stream' \in Seq(Records) /\ Len(stream') = m - 1
       /\ \A i \in 1 .. m - 1 : stream'[i] = stream[i + 1]
  <2>1. /\ Tail(stream) \in Seq(Records) /\ Len(Tail(stream)) = m - 1
        /\ \A i \in 1 .. m - 1 : Tail(stream)[i] = stream[i + 1]
      BY <1>2, Next1
  <2>2. stream' = <<>> \o Tail(stream)
      BY <1>9 DEF ReadBlock, TakeRecord
  <2>3. stream' = Tail(stream)
      BY <2>1, <2>2, ConcatEmptySeq
  <2>. QED  BY <2>1, <2>3
<1>14. \A i \in 1 .. m : /\ stream[i].kind = "data" /\ stream[i].units[1] \in OfFiles
                         /\ off[i] = off[i - 1] + Len(stream[i].units)
                         /\ Len(stream[i].units) <= Block
    BY <1>1 DEF Transferring
<1>15. off \in [0 .. m -> 0 .. size] /\ (job # None => off[m] = Least(job.total, size))
    BY <1>1 DEF Offsets, Transferring
<1>16. job # None => job.kind = "get" /\ job.file = cur /\ job.size = size
    BY DEF Transfer
<1>. HIDE DEF m
<1>. PICK next \in [0 .. m - 1 -> 0 .. size] : \A i \in 0 .. m - 1 : next[i] = off[i + 1]
  <2>. DEFINE g == [i \in 0 .. m - 1 |-> off[i + 1]]
  <2>1. g \in [0 .. m - 1 -> 0 .. size]
      BY <1>3, <1>15
  <2>. QED  BY <2>1
<1>17. next \in Offsets'
    BY <1>11, <1>13 DEF Offsets
<1>18. Transferring(next)'
  <2>1. next[0] = Len(new')
      BY <1>3, <1>12
  <2>2. ASSUME NEW i \in 1 .. m - 1
        PROVE  /\ stream'[i].kind = "data" /\ stream'[i].units[1] \in OfFiles
               /\ next[i] = next[i - 1] + Len(stream'[i].units)
               /\ Len(stream'[i].units) <= Block
    <3>1. i + 1 \in 1 .. m /\ i \in 0 .. m - 1 /\ i - 1 \in 0 .. m - 1
          /\ (i - 1) + 1 = i /\ (i + 1) - 1 = i
        BY <1>3
    <3>2. stream'[i] = stream[i + 1] /\ next[i] = off[i + 1] /\ next[i - 1] = off[i]
        BY <1>13, <3>1
    <3>3. /\ stream[i + 1].kind = "data" /\ stream[i + 1].units[1] \in OfFiles
          /\ off[i + 1] = off[(i + 1) - 1] + Len(stream[i + 1].units)
          /\ Len(stream[i + 1].units) <= Block
        BY <1>14, <3>1
    <3>. QED  BY <3>1, <3>2, <3>3
  <2>3. job' # None => next[m - 1] = Least(job'.total, size)
    <3>1. next[m - 1] = off[m]
        BY <1>3
    <3>. QED  BY <1>11, <1>15, <3>1
  <2>. QED  BY <1>11, <1>13, <2>1, <2>2, <2>3 DEF Transferring
<1>19. ASSUME NEW v \in Versions, OfVersion(off, v)
       PROVE  OfVersion(next, v)' /\ (Len(new') = size => new' = Content(cur, v))
  <2>1. /\ Size[v] = size /\ (job # None => job.sees = v)
        /\ \A j \in 1 .. Len(new) : new[j] = <<cur, v, j>>
        /\ \A i \in 1 .. m : \A j \in 1 .. Len(stream[i].units) :
              stream[i].units[j] = <<cur, v, off[i - 1] + j>>
      BY <1>19 DEF OfVersion, m
  <2>2. \A j \in 1 .. Len(u) : u[j] = <<cur, v, Len(new) + j>>
    <3>1. 1 \in 1 .. m /\ 1 - 1 = 0
        BY <1>3
    <3>. QED  BY <1>4, <2>1, <3>1 DEF u
  <2>3. ASSUME NEW j \in 1 .. Len(new') PROVE new'[j] = <<cur, v, j>>
    <3>1. CASE j <= Len(new)
        BY <1>6, <1>12, <2>1, <3>1
    <3>2. CASE j > Len(new)
      <4>1. PICK k \in 1 .. Len(u) : j = Len(new) + k
        <5>1. j - Len(new) \in 1 .. Len(u) /\ j = Len(new) + (j - Len(new))
            BY <1>4, <1>6, <1>12, <3>2
        <5>. QED  BY <5>1
      <4>2. new'[j] = u[k] /\ u[k] = <<cur, v, Len(new) + k>>
          BY <1>12, <2>2, <4>1
      <4>. QED  BY <4>1, <4>2
    <3>. QED  BY <1>6, <1>12, <3>1, <3>2
  <2>4. ASSUME NEW i \in 1 .. m - 1, NEW j \in 1 .. Len(stream'[i].units)
        PROVE  stream'[i].units[j] = <<cur, v, next[i - 1] + j>>
    <3>1. i + 1 \in 1 .. m /\ i - 1 \in 0 .. m - 1
          /\ (i - 1) + 1 = i /\ (i + 1) - 1 = i
        BY <1>3
    <3>2. stream'[i] = stream[i + 1] /\ next[i - 1] = off[i]
        BY <1>13, <3>1
    <3>. QED  BY <2>1, <3>1, <3>2
  <2>5. OfVersion(next, v)'
    <3>1. (job' # None => job'.sees = v) /\ Size[v] = size'
        BY <1>11, <2>1
    <3>2. \A j \in 1 .. Len(new') : new'[j] = <<cur', v, j>>
        BY <1>11, <2>3
    <3>3. \A i \in 1 .. Len(stream') : \A j \in 1 .. Len(stream'[i].units) :
             stream'[i].units[j] = <<cur', v, next[i - 1] + j>>
        BY <1>11, <1>13, <2>4
    <3>. QED  BY <3>1, <3>2, <3>3 DEF OfVersion
  <2>6. ASSUME Len(new') = size PROVE new' = Content(cur, v)
    <3>1. /\ Content(cur, v) \in Seq(Bytes) /\ Len(Content(cur, v)) = size
          /\ \A i \in 1 .. size : Content(cur, v)[i] = <<cur, v, i>>
        BY <2>1, Contents DEF Types
    <3>2. \A i \in 1 .. Len(new') : new'[i] = Content(cur, v)[i]
        BY <2>3, <2>6, <3>1
    <3>3. new' \in Seq(Bytes) /\ Len(new') = Len(Content(cur, v))
        BY <1>12, <2>6, <3>1
    <3>. QED  BY <3>1, <3>2, <3>3, SeqEqual
  <2>. QED  BY <2>5, <2>6
<1>20. Transfer'
  <2>1. "torn" \notin gaps' => \E v \in Versions : OfVersion(next, v)'
      BY <1>1, <1>11, <1>19
  <2>2. requests' = <<>> /\
        (job' # None => job'.kind = "get" /\ job'.file = cur' /\ job'.size = size')
      BY <1>2, <1>11, <1>16
  <2>. QED  BY <1>17, <1>18, <2>1, <2>2 DEF Transfer
<1>21. ASSUME pc' = "backup" PROVE Quiet'
  <2>1. off[1] = size
      BY <1>11, <1>12, <1>21
  <2>2. m = 1
    <3>. SUFFICES ASSUME m # 1 PROVE FALSE
        OBVIOUS
    <3>1. 2 \in 1 .. m /\ 2 - 1 = 1 /\ 2 \in 0 .. m
        BY <1>3
    <3>2. off[2] = off[1] + Len(stream[2].units) /\ stream[2].kind = "data"
        BY <1>14, <3>1
    <3>3. stream[2] \in Records
        BY <3>1, ElementOfSeq DEF Types, m
    <3>4. Len(stream[2].units) \in Nat /\ Len(stream[2].units) > 0
        BY <3>2, <3>3, RecordFields, NotEmpty
    <3>5. off[2] \in 0 .. size
        BY <1>15, <3>1
    <3>. QED  BY <1>6, <2>1, <3>2, <3>4, <3>5
  <2>3. stream' = <<>>
      BY <1>13, <2>2, NotEmpty
  <2>4. job # None => job.size <= job.total
    <3>. SUFFICES ASSUME job # None PROVE job.size <= job.total
        OBVIOUS
    <3>1. Least(job.total, size) = size
        BY <1>15, <2>1, <2>2
    <3>2. job.total \in Nat
        BY <1>16, JobFields DEF Types
    <3>. QED  BY <1>6, <1>16, <3>1, <3>2 DEF Least
  <2>. QED  BY <1>2, <1>11, <1>16, <2>3, <2>4 DEF Quiet, Drained
<1>22. ASSUME pc' = "backup", "torn" \notin gaps
       PROVE  \E v \in Versions : new' = Content(cur, v)
    BY <1>1, <1>11, <1>19, <1>22
<1>. QED  BY <1>11, <1>20, <1>21, <1>22

\* Steps of the agent that have nothing to do with the connection.
LEMMA QuietStep ==
    ASSUME AtPlace, pc \notin {"stat", "link", "md5", "verify", "get"},
           pc' \notin {"stat", "link", "md5", "verify", "get"},
           UNCHANGED <<requests, job, stream>>
    PROVE  AtPlace'
BY DEF AtPlace, Quiet, Drained

\* A digest is sent to be compared.
LEMMA HashAsked ==
    ASSUME Types, AtPlace, NEW d \in Seq(Bytes), NEW l \in {"md5", "verify"},
           pc \notin {"stat", "link", "md5", "verify", "get"},
           Ask([kind |-> "md5", file |-> cur, digest |-> d], l), UNCHANGED <<stream, job, cur>>
    PROVE  AtPlace'
<1>1. PICK r \in Asks : r = [kind |-> "md5", file |-> cur, digest |-> d]
                        /\ r.kind = "md5" /\ r.file = cur
  <2>1. cur \in Files
      BY DEF Types
  <2>. QED  BY <2>1, AskMade
<1>2. Quiet
    BY DEF AtPlace
<1>3. Unread("md5")' /\ pc' = l
    BY <1>1, <1>2, RequestSent DEF Places
<1>. QED  BY <1>3 DEF AtPlace, HashPlace

\* A GET is sent.
LEMMA GetAsked ==
    ASSUME Types, AtPlace, InPlace', BeginGet
    PROVE  AtPlace'
<1>. USE DEF conn
<1>1. Quiet /\ pc = "copy"
    BY DEF BeginGet, AtPlace
<1>2. Ask([kind |-> "get", file |-> cur, size |-> size], "get") /\ new' = <<>>
    BY DEF BeginGet, InPlace
<1>3. PICK r \in Asks : /\ r = [kind |-> "get", file |-> cur, size |-> size]
                        /\ r.kind = "get" /\ r.file = cur /\ r.size = size
    BY AskMade, EmptySeq DEF Types
<1>4. UNCHANGED <<stream, job, cur, size>>
    BY DEF BeginGet, Unasked
<1>5. Ask(r, "get") /\ r.file = cur'
    BY <1>2, <1>3, <1>4
<1>6. Unread("get")' /\ requests'[1] = r /\ pc' = "get"
    BY <1>1, <1>3, <1>4, <1>5, RequestSent DEF Places
<1>. QED  BY <1>2, <1>3, <1>4, <1>6 DEF AtPlace, GetPlace, GetUnread

\* A round of the loop in CopyRegularFileNet.
LEMMA BlockRead ==
    ASSUME Types, AtPlace, InPlace', ReadBlock
    PROVE  AtPlace'
<1>1. pc = "get" /\ stream # <<>> /\ GetPlace
    BY DEF ReadBlock, AtPlace
<1>2. CASE Refused \/ Failed
  <2>1. pc' = "idle" /\ Quiet'
      BY <1>2, RefusalRead
  <2>. QED  BY <2>1 DEF AtPlace
<1>3. CASE Transfer
  <2>1. /\ pc' = "get" => Transfer'
        /\ pc' = "backup" => Quiet'
        /\ pc' \in {"get", "backup"}
      BY <1>3, UnitsRead
  <2>. QED  BY <2>1 DEF AtPlace, GetPlace
<1>. QED  BY <1>1, <1>2, <1>3 DEF GetPlace, GetUnread, Unread

\* One that waits for a block in vain.
LEMMA GetGivenUp ==
    ASSUME Types, AtPlace, InPlace', GetTimesOut
    PROVE  AtPlace'
BY DEF GetTimesOut, ReceiveTimesOut, Outstanding, InPlace, AtPlace, Quiet, Drained,
    server, conn

\* Every step keeps the connection in step.
LEMMA PlaceNext == Types /\ PlaceInv /\ [Next]_vars => PlaceInv'
<1>. SUFFICES ASSUME Types, PlaceInv, [Next]_vars, InPlace' PROVE AtPlace'
    BY DEF PlaceInv
<1>. USE DEF server, conn, disk, agent, Unasked
<1>1. CASE Restart
    BY <1>1 DEF Restart, AtPlace, Quiet, Drained
<1>2. ASSUME ~Restart PROVE AtPlace
  <2>1. gaps \subseteq gaps' /\ (error => error')
    <3>1. CASE \E f \in Files : SourceChanges(f) \/ BeginCopy(f)
        BY <3>1 DEF SourceChanges, BeginCopy
    <3>2. CASE ServerRefuses \/ StatFile \/ SendLink \/ CompareLocalHash \/ GetFails \/ GetStarts
        BY <3>2 DEF ServerRefuses, StatFile, SendLink, CompareLocalHash, GetFails, GetStarts
    <3>3. CASE GetBlock
        BY <3>3 DEF GetBlock
    <3>4. CASE ReceiveStat \/ ReceiveLink
        BY <3>4 DEF ReceiveStat, ReceiveLink, NoAnswer, ReceiveTimesOut
    <3>5. CASE ReceiveHash \/ VerifyNew
        BY <3>5 DEF ReceiveHash, VerifyNew, Mismatch, Match, NoAnswer, ReceiveTimesOut
    <3>6. CASE MustCopy \/ UpToDate \/ AskHash \/ BeginGet
        BY <3>6 DEF MustCopy, UpToDate, AskHash, BeginGet
    <3>7. CASE ReadBlock \/ WriteFails \/ GetTimesOut
        BY <3>7 DEF ReadBlock, WriteFails, GetTimesOut, ReceiveTimesOut
    <3>8. CASE UnlinkBackup \/ NoBackup \/ MoveAside \/ CheckNew \/ Install \/ OtherAgent
        BY <3>8 DEF UnlinkBackup, NoBackup, MoveAside, CheckNew, Install, OtherAgent
    <3>9. CASE UNCHANGED vars
        BY <3>9 DEF vars
    <3>. QED  BY <1>2, <3>1, <3>2, <3>3, <3>4, <3>5, <3>6, <3>7, <3>8, <3>9 DEF Next
  <2>2. InPlace
      BY <2>1 DEF InPlace, Types
  <2>. QED  BY <2>2 DEF PlaceInv
<1>. SUFFICES ASSUME AtPlace, ~Restart PROVE AtPlace'
    BY <1>1, <1>2
<1>3. ASSUME NEW f \in Files, SourceChanges(f) PROVE AtPlace'
    BY <1>3, SourceChanged
<1>4. ASSUME NEW f \in Files, BeginCopy(f) PROVE AtPlace'
    BY <1>4, CopyBegun
<1>5. CASE ServerRefuses \/ StatFile \/ CompareLocalHash
    BY <1>5, ServerAnswers
<1>6. CASE SendLink \/ GetFails \/ GetStarts \/ GetBlock
    BY <1>6, LinkSent, GetRefused, GetBegun, GetGoesOn
<1>7. CASE ReceiveStat \/ ReceiveLink
    BY <1>7, StatReceived, LinkReceived
<1>8. CASE MustCopy \/ UpToDate
    BY <1>8, QuietStep DEF MustCopy, UpToDate
<1>9. CASE AskHash
  <2>1. Ask([kind |-> "md5", file |-> cur, digest |-> dest[cur]], "md5")
      BY <1>9 DEF AskHash, InPlace
  <2>2. dest[cur] \in Seq(Bytes) /\ pc = "compare" /\ UNCHANGED <<stream, job, cur>>
      BY <1>9 DEF AskHash, Types
  <2>. QED  BY <2>1, <2>2, HashAsked
<1>10. CASE ReceiveHash
  <2>1. Quiet'
      BY <1>10, HashReceived DEF ReceiveHash
  <2>. QED  BY <1>10, <2>1 DEF ReceiveHash, AtPlace
<1>11. CASE BeginGet \/ ReadBlock \/ GetTimesOut
    BY <1>11, GetAsked, BlockRead, GetGivenUp
<1>12. CASE WriteFails
    BY <1>12 DEF WriteFails, InPlace
<1>13. CASE UnlinkBackup \/ NoBackup \/ MoveAside
    BY <1>13, QuietStep DEF UnlinkBackup, NoBackup, MoveAside
<1>14. CASE CheckNew
  <2>1. CASE UNCHANGED requests /\ pc' \in {"idle", "rename"}
      BY <1>14, <2>1, QuietStep DEF CheckNew
  <2>2. CASE new # None /\ Ask([kind |-> "md5", file |-> cur, digest |-> new], "verify")
    <3>1. new \in Seq(Bytes) /\ pc = "check" /\ UNCHANGED <<stream, job, cur>>
        BY <1>14, <2>2 DEF CheckNew, Types
    <3>. QED  BY <2>2, <3>1, HashAsked
  <2>. QED  BY <1>14, <2>1, <2>2 DEF CheckNew
<1>15. CASE VerifyNew
  <2>1. Quiet'
      BY <1>15, HashReceived DEF VerifyNew
  <2>. QED  BY <1>15, <2>1 DEF VerifyNew, AtPlace
<1>16. CASE Install
    BY <1>16, QuietStep DEF Install
<1>17. CASE OtherAgent
    BY <1>17 DEF OtherAgent, AtPlace, Quiet, HashPlace, Unread, OneRequest, Answered, OneReply,
                 Drained
<1>18. CASE UNCHANGED vars
  <2>1. UNCHANGED <<requests, job, stream, pc, cur, size, new, gaps>>
      BY <1>18 DEF vars
  <2>2. Transfer => Transfer'
    <3>. SUFFICES ASSUME Transfer PROVE Transfer'
        OBVIOUS
    <3>1. PICK off \in Offsets : /\ Transferring(off)
                                 /\ "torn" \notin gaps => \E v \in Versions : OfVersion(off, v)
        BY DEF Transfer
    <3>2. off \in Offsets' /\ Transferring(off)'
        BY <2>1, <3>1 DEF Offsets, Transferring
    <3>3. ASSUME NEW v \in Versions, OfVersion(off, v) PROVE OfVersion(off, v)'
        BY <2>1, <3>3 DEF OfVersion
    <3>4. "torn" \notin gaps' => \E v \in Versions : OfVersion(off, v)'
        BY <2>1, <3>1, <3>3
    <3>5. /\ requests' = <<>>
          /\ job' # None => job'.kind = "get" /\ job'.file = cur' /\ job'.size = size'
        BY <2>1 DEF Transfer
    <3>. QED  BY <3>2, <3>4, <3>5 DEF Transfer
  <2>. QED  BY <2>1, <2>2 DEF AtPlace, Quiet, StatPlace, LinkPlace, HashPlace, GetPlace,
                              GetUnread, Refused, Failed, Unread, OneRequest, Answered,
                                  OneReply,
                              Linking, Drained
<1>. QED  BY <1>3, <1>4, <1>5, <1>6, <1>7, <1>8, <1>9, <1>10, <1>11, <1>12, <1>13, <1>14,
             <1>15, <1>16, <1>17, <1>18 DEF Next

\* An answer is what the request that is waited for expects.
LEMMA PlaceIsRight == Types /\ PlaceInv => AnswersMatch
<1>. SUFFICES ASSUME Types, PlaceInv, InPlace, NEW i \in DOMAIN stream
              PROVE  Expected(stream[i])
    BY DEF AnswersMatch, InPlace
<1>1. AtPlace
    BY DEF PlaceInv
<1>2. i \in 1 .. Len(stream) /\ Len(stream) \in Nat /\ stream # <<>>
    BY LenProperties, Short DEF Types
<1>3. CASE pc = "stat"
    BY <1>1, <1>2, <1>3 DEF AtPlace, StatPlace, Unread, Answered, OneReply, Expected
<1>4. CASE pc = "link"
    BY <1>1, <1>2, <1>4 DEF AtPlace, LinkPlace, Answered, OneReply, Expected
<1>5. CASE pc \in {"md5", "verify"}
    BY <1>1, <1>2, <1>5 DEF AtPlace, HashPlace, Unread, Answered, OneReply, Expected
<1>6. CASE pc = "get"
  <2>1. CASE Transfer
      BY <1>2, <1>6, <2>1 DEF Transfer, Transferring, Expected
  <2>2. CASE GetUnread \/ Refused \/ Failed
      BY <1>2, <1>6, <2>2 DEF GetUnread, Unread, Refused, Answered, OneReply, Failed, Expected
  <2>. QED  BY <1>1, <1>6, <2>1, <2>2 DEF AtPlace, GetPlace
<1>7. CASE pc \notin {"stat", "link", "md5", "verify", "get"}
    BY <1>1, <1>2, <1>7 DEF AtPlace, Quiet
<1>. QED  BY <1>3, <1>4, <1>5, <1>6, <1>7

\* An answer is read by the request it belongs to and by no other, and nothing of
\* it is left, for any files, sizes, block and length of a refusal (cf_remote_stat,
\* CompareHashNet, CopyRegularFileNet, CfGetFile), until an answer is late, a size
\* has changed after STAT, a GET is refused in more bytes than the agent reads, or a
\* write of the new file fails: requests carry no number, so this rests on the agent
\* reading exactly as many bytes as the server sends.
THEOREM AnswersToTheirRequests == Spec => []AnswersMatch
<1>1. Init => PlaceInv
    BY DEF Init, PlaceInv, AtPlace, Quiet, Drained
<1>. QED  BY TypesInit, TypesStep, PlaceNext, PlaceIsRight, <1>1, PTL DEF Spec

-----------------------------------------------------------------------------
(* What is copied is whole.                                                *)

\* With a session that is unusable, nothing is read or installed any more.
ErrorInv == error => pc \in {"idle", "compare", "copy"}

\* None of the gaps of CopiedWhole.
InOrder == /\ "late" \notin gaps /\ "resized" \notin gaps /\ "refused" \notin gaps
           /\ "torn" \notin gaps /\ "shared" \notin gaps

\* The old files, the backups and a new file that is complete are whole.
WholeFiles == \A f \in Files : dest[f] \in Whole(f) /\ saved[f] \in Whole(f)
WholeNew   == pc \in {"backup", "aside"} \cup Installing =>
                 \E v \in Versions : new = Content(cur, v)

WholeInv == InOrder => WholeFiles /\ WholeNew

\* Every step keeps ErrorInv.
LEMMA ErrorStep == Types /\ ErrorInv /\ [Next]_vars => ErrorInv'
<1>. SUFFICES ASSUME ErrorInv, [Next]_vars PROVE ErrorInv'
    OBVIOUS
<1>. USE DEF ErrorInv, server, conn, disk, agent, Unasked
<1>1. CASE \E f \in Files : SourceChanges(f) \/ BeginCopy(f)
    BY <1>1 DEF SourceChanges, BeginCopy, Ask
<1>2. CASE ServerRefuses \/ StatFile \/ SendLink \/ CompareLocalHash \/ GetFails \/ GetStarts
    BY <1>2 DEF ServerRefuses, StatFile, SendLink, CompareLocalHash, GetFails, GetStarts
<1>3. CASE GetBlock
    BY <1>3 DEF GetBlock
<1>4. CASE ReceiveStat \/ ReceiveLink
    BY <1>4 DEF ReceiveStat, ReceiveLink
<1>5. CASE ReceiveHash \/ VerifyNew
    BY <1>5 DEF ReceiveHash, VerifyNew
<1>6. CASE MustCopy \/ UpToDate \/ AskHash \/ BeginGet
    BY <1>6 DEF MustCopy, UpToDate, AskHash, BeginGet, Ask
<1>7. CASE ReadBlock \/ WriteFails \/ GetTimesOut
    BY <1>7 DEF ReadBlock, WriteFails, GetTimesOut
<1>8. CASE UnlinkBackup \/ NoBackup \/ MoveAside \/ CheckNew \/ Install \/ OtherAgent
    BY <1>8 DEF UnlinkBackup, NoBackup, MoveAside, CheckNew, Install, OtherAgent, Ask
<1>9. CASE Restart
    BY <1>9 DEF Restart
<1>10. CASE UNCHANGED vars
    BY <1>10 DEF vars
<1>. QED  BY <1>1, <1>2, <1>3, <1>4, <1>5, <1>6, <1>7, <1>8, <1>9, <1>10 DEF Next

\* A step that does not touch the files, and one that ends a copy.
LEMMA WholeElsewhere ==
    ASSUME WholeInv, gaps \subseteq gaps', UNCHANGED <<dest, saved>>,
           \/ UNCHANGED <<pc, cur, new>>
           \/ pc' \notin {"backup", "aside"} \cup Installing
           \/ pc \in {"backup", "aside"} \cup Installing /\ UNCHANGED <<cur, new>>
    PROVE  WholeInv'
BY DEF WholeInv, InOrder, WholeFiles, WholeNew, Whole

\* Every step keeps what is whole.
LEMMA WholeNext == Types /\ PlaceInv /\ ErrorInv /\ WholeInv /\ [Next]_vars => WholeInv'
<1>. SUFFICES ASSUME Types, PlaceInv, ErrorInv, WholeInv, [Next]_vars PROVE WholeInv'
    OBVIOUS
<1>. USE DEF server, conn, disk, agent, Unasked
<1>1. CASE \E f \in Files : SourceChanges(f) \/ BeginCopy(f)
    BY <1>1, WholeElsewhere DEF SourceChanges, BeginCopy, Ask, Installing
<1>2. CASE ServerRefuses \/ StatFile \/ SendLink \/ CompareLocalHash \/ GetFails \/ GetStarts
    BY <1>2, WholeElsewhere DEF ServerRefuses, StatFile, SendLink, CompareLocalHash, GetFails,
                                GetStarts
<1>3. CASE GetBlock
    BY <1>3, WholeElsewhere DEF GetBlock
<1>4. CASE ReceiveStat \/ ReceiveLink
    BY <1>4, WholeElsewhere DEF ReceiveStat, ReceiveLink, NoAnswer, ReceiveTimesOut,
        Installing,
                                ReceiveReply
<1>5. CASE ReceiveHash
    BY <1>5, WholeElsewhere DEF ReceiveHash, Mismatch, Match, NoAnswer, ReceiveTimesOut,
                                Installing
<1>6. CASE MustCopy \/ UpToDate \/ AskHash \/ BeginGet
    BY <1>6, WholeElsewhere DEF MustCopy, UpToDate, AskHash, BeginGet, Ask, Installing
<1>7. CASE WriteFails \/ GetTimesOut
    BY <1>7, WholeElsewhere DEF WriteFails, GetTimesOut, ReceiveTimesOut, Installing
<1>8. CASE ReadBlock
  <2>1. UNCHANGED <<dest, saved, cur, gaps>> /\ pc = "get" /\ ~error
      BY <1>8 DEF ReadBlock, ErrorInv
  <2>2. CASE pc' \in {"idle", "get"}
      BY <2>1, <2>2, WholeElsewhere DEF Installing
  <2>3. CASE pc' = "backup"
    <3>. SUFFICES ASSUME InOrder PROVE WholeFiles' /\ WholeNew'
        BY <2>1 DEF WholeInv, InOrder
    <3>1. InPlace /\ AtPlace
        BY <2>1 DEF InOrder, InPlace, PlaceInv
    <3>2. InPlace'
        BY <1>8, <2>1, <2>3, <3>1 DEF ReadBlock, InPlace
    <3>3. Transfer
      <4>1. Refused \/ Failed => pc' = "idle"
          BY <1>8, <3>2, RefusalRead
      <4>2. stream # <<>>
          BY <1>8 DEF ReadBlock
      <4>. QED  BY <2>1, <2>3, <3>1, <4>1, <4>2 DEF AtPlace, GetPlace, GetUnread, Unread
    <3>4. \E v \in Versions : new' = Content(cur, v)
        BY <1>8, <2>3, <3>2, <3>3, UnitsRead DEF InOrder
    <3>. QED  BY <2>1, <3>4 DEF WholeInv, WholeFiles, WholeNew, Whole
  <2>. QED  BY <1>8, <2>2, <2>3 DEF ReadBlock
<1>9. CASE UnlinkBackup \/ NoBackup \/ MoveAside
  <2>1. gaps' = gaps /\ pc \in {"backup", "aside"} /\ UNCHANGED <<cur, new>>
      BY <1>9 DEF UnlinkBackup, NoBackup, MoveAside
  <2>. SUFFICES ASSUME InOrder PROVE WholeFiles' /\ WholeNew'
      BY <2>1 DEF WholeInv, InOrder
  <2>2. WholeFiles /\ WholeNew
      BY DEF WholeInv
  <2>3. WholeFiles'
      BY <1>9, <2>2 DEF UnlinkBackup, NoBackup, MoveAside, WholeFiles, Whole, Types
  <2>. QED  BY <2>1, <2>2, <2>3 DEF WholeNew
<1>10. CASE CheckNew \/ VerifyNew
  <2>1. /\ gaps \subseteq gaps' /\ pc \in Installing /\ UNCHANGED <<cur, new>>
        /\ Restore \/ UNCHANGED <<dest, saved>>
      BY <1>10 DEF CheckNew, VerifyNew, Mismatch, Match, NoAnswer, ReceiveTimesOut, Installing
  <2>. SUFFICES ASSUME InOrder PROVE WholeFiles' /\ WholeNew'
      BY <2>1 DEF WholeInv, InOrder
  <2>2. WholeFiles /\ WholeNew
      BY DEF WholeInv
  <2>3. WholeFiles'
      BY <2>1, <2>2 DEF Restore, WholeFiles, Whole, Types
  <2>. QED  BY <2>1, <2>2, <2>3 DEF WholeNew
<1>11. CASE Install
  <2>1. gaps' = gaps /\ pc = "rename" /\ pc' = "idle" /\ cur' = cur
      BY <1>11 DEF Install
  <2>. SUFFICES ASSUME InOrder PROVE WholeFiles' /\ WholeNew'
      BY <2>1 DEF WholeInv, InOrder
  <2>2. WholeFiles /\ WholeNew
      BY DEF WholeInv
  <2>3. new \in Whole(cur) /\ new # None
    <3>1. PICK v \in Versions : new = Content(cur, v)
        BY <2>1, <2>2 DEF WholeNew, Installing
    <3>2. new \in Seq(Bytes)
        BY <3>1, Contents DEF Types
    <3>. QED  BY <3>1, <3>2, RemoteCopyAssumption DEF Whole
  <2>4. WholeFiles'
      BY <1>11, <2>2, <2>3 DEF Install, Restore, WholeFiles, Whole, Types
  <2>. QED  BY <2>1, <2>4 DEF WholeNew, Installing
<1>12. CASE OtherAgent
    BY <1>12 DEF OtherAgent, WholeInv, InOrder
<1>13. CASE Restart
  <2>1. gaps \subseteq gaps' /\ UNCHANGED <<dest, saved>> /\ pc' = "idle"
      BY <1>13 DEF Restart
  <2>. QED  BY <2>1, WholeElsewhere DEF Installing
<1>14. CASE UNCHANGED vars
    BY <1>14, WholeElsewhere DEF vars
<1>. QED  BY <1>1, <1>2, <1>3, <1>4, <1>5, <1>6, <1>7, <1>8, <1>9, <1>10, <1>11, <1>12,
             <1>13, <1>14 DEF Next

\* What is installed is one version of its source from end to end, with or
\* without verification (CopyRegularFile), for any sizes, block and promises, until
\* one of late, resized, refused, torn and shared.
THEOREM CopiesWhole == Spec => []CopiedWhole
<1>1. Init => PlaceInv /\ ErrorInv /\ WholeInv
    BY DEF Init, PlaceInv, AtPlace, Quiet, Drained, ErrorInv, WholeInv, WholeFiles, WholeNew,
           Whole, Installing
<1>2. WholeInv => CopiedWhole
    BY DEF WholeInv, InOrder, WholeFiles, CopiedWhole
<1>. QED  BY TypesInit, TypesStep, PlaceNext, ErrorStep, WholeNext, <1>1, <1>2, PTL DEF Spec

-----------------------------------------------------------------------------
(* The cache of the connections that copies are made over: pool is the      *)
(* sequence conn_cache, place the pc of a copy, given the connection it has. *)

CONSTANTS Users, Servers, Flags, MaxConns
VARIABLES pool, place, want, given

\* ConnCache, whose names are partly those of RemoteCopy.
Cache == INSTANCE ConnCache WITH cache <- pool, pc <- place, conn <- given

\* The types of the state.
CacheTypes ==
    /\ pool \in Seq(Cache!Entries)
    /\ place \in [Users -> {"start", "find", "connect", "copy"}]
    /\ want \in [Users -> Cache!Requests]
    /\ given \in [Users -> Nat \cup {None}]

\* A copy has a connection of the cache exactly while it copies.
CopyHasConn ==
    \A u \in Users :
        /\ place[u] = "copy" => given[u] \in DOMAIN pool
        /\ place[u] # "copy" => given[u] = None

\* The inductive invariant.
CacheInv == CacheTypes /\ CopyHasConn /\ Cache!BusyMeansOneUser

\* A set of indexes has a least one: the one the loop of FindIdleMarkBusy
\* stops at.
LEMMA LeastExists ==
    ASSUME NEW F, F \subseteq Nat, F # {}
    PROVE  \E i \in F : \A j \in F : i <= j
<1>. DEFINE R == {p \in Nat \X Nat : p[1] < p[2]}
<1>1. IsWellFoundedOn(R, Nat)
    BY NatLessThanWellFounded DEF OpToRel
<1>2. PICK i \in F : \A j \in F : ~(<<j, i>> \in R)
  <2>. HIDE DEF R
  <2>. QED  BY <1>1, WFMin, Zenon
<1>3. ASSUME NEW j \in F PROVE i <= j
  <2>1. <<j, i>> \in Nat \X Nat
      OBVIOUS
  <2>2. ~(<<j, i>>[1] < <<j, i>>[2])
      BY <1>2, <2>1, Zenon
  <2>. QED  BY <2>1, <2>2
<1>. QED  BY <1>3

\* The index that FindIdleMarkBusy takes is one of those it found.
LEMMA FirstIsFound ==
    ASSUME CacheTypes, NEW r \in Cache!Requests, Cache!Found(r) # {}
    PROVE  LET i == CHOOSE i \in Cache!Found(r) : \A j \in Cache!Found(r) : i <= j IN
           /\ i \in 1 .. Len(pool)
           /\ Cache!Matches(pool[i], r)
           /\ pool[i].status = "idle"
<1>. DEFINE F == Cache!Found(r)
<1>1. F \subseteq 1 .. Len(pool) /\ Len(pool) \in Nat
    BY DEF Cache!Found, CacheTypes
<1>2. F \subseteq Nat /\ F # {}
    BY <1>1
<1>3. \E i \in F : \A j \in F : i <= j
  <2>. HIDE DEF F
  <2>. QED  BY <1>2, LeastExists
<1>4. (CHOOSE i \in F : \A j \in F : i <= j) \in F
  <2>. HIDE DEF F
  <2>. QED  BY <1>3
<1>. QED  BY <1>1, <1>4 DEF Cache!Found

\* The invariant holds at the start and every operation keeps it.
LEMMA CacheInductive ==
    ASSUME None \notin Nat
    PROVE  /\ Cache!Init => CacheInv
           /\ CacheInv /\ [Cache!Next]_(Cache!vars) => CacheInv'
<1>1. Cache!Init => CacheInv
    BY DEF Cache!Init, CacheInv, CacheTypes, CopyHasConn, Cache!BusyMeansOneUser
<1>2. ASSUME CacheInv, [Cache!Next]_(Cache!vars) PROVE CacheInv'
  <2>. USE <1>2 DEF CacheInv, Cache!Goto
  <2>0. Len(pool) \in Nat /\ DOMAIN pool = 1 .. Len(pool)
      BY DEF CacheTypes
  <2>1. CASE Cache!DestroyInit
    <3>1. CacheTypes' /\ CopyHasConn'
        BY <2>1 DEF Cache!DestroyInit, CacheTypes, CopyHasConn
    <3>2. Cache!BusyMeansOneUser'
        BY <2>1 DEF Cache!DestroyInit, Cache!BusyMeansOneUser
    <3>. QED  BY <3>1, <3>2
  <2>2. ASSUME NEW u \in Users, NEW r \in Cache!Requests, Cache!Open(u, r)
        PROVE  CacheInv'
    <3>1. CacheTypes' /\ CopyHasConn'
        BY <2>2 DEF Cache!Open, CacheTypes, CopyHasConn
    <3>2. Cache!BusyMeansOneUser'
        BY <2>2 DEF Cache!Open, Cache!BusyMeansOneUser
    <3>. QED  BY <3>1, <3>2
  <2>3. ASSUME NEW u \in Users, Cache!FindIdleMarkBusy(u)
        PROVE  CacheInv'
    <3>1. CASE Cache!Found(want[u]) = {}
      <4>1. CacheTypes' /\ CopyHasConn'
          BY <2>3, <3>1 DEF Cache!FindIdleMarkBusy, CacheTypes, CopyHasConn
      <4>2. Cache!BusyMeansOneUser'
          BY <2>3, <3>1 DEF Cache!FindIdleMarkBusy, Cache!BusyMeansOneUser
      <4>. QED  BY <4>1, <4>2
    <3>2. CASE Cache!Found(want[u]) # {}
      <4>. DEFINE k == CHOOSE i \in Cache!Found(want[u]) : \A j \in Cache!Found(want[u]) : i <= j
      <4>1. want[u] \in Cache!Requests
          BY DEF CacheTypes
      <4>2. k \in 1 .. Len(pool) /\ pool[k].status = "idle"
          BY <4>1, <3>2, FirstIsFound
      <4>3. /\ pool' = [pool EXCEPT ![k].status = "busy"]
            /\ given' = [given EXCEPT ![u] = k]
            /\ place' = [place EXCEPT ![u] = "copy"]
            /\ want' = want
            /\ place[u] = "find"
          BY <2>3, <3>2 DEF Cache!FindIdleMarkBusy
      <4>. HIDE DEF k
      <4>4. pool[k] \in Cache!Entries
          BY <4>2 DEF CacheTypes
      <4>5. [pool[k] EXCEPT !.status = "busy"] \in Cache!Entries
          BY <4>4 DEF Cache!Entries
      <4>6. pool' \in Seq(Cache!Entries) /\ DOMAIN pool' = DOMAIN pool
          BY <4>2, <4>3, <4>5 DEF CacheTypes
      <4>7. CacheTypes'
          BY <4>2, <4>3, <4>6 DEF CacheTypes
      <4>8. CopyHasConn'
          BY <2>0, <4>2, <4>3, <4>6 DEF CacheTypes, CopyHasConn
      <4>9. given[u] = None /\ \A v \in Users : given[v] # k
          BY <2>0, <4>2, <4>3 DEF CopyHasConn, Cache!BusyMeansOneUser
      <4>10. /\ pool'[k].status = "busy"
             /\ \A i \in DOMAIN pool : i # k => pool'[i] = pool[i]
          BY <2>0, <4>2, <4>3, <4>4 DEF Cache!Entries, CacheTypes
      <4>11. \A v \in Users : given'[v] = IF v = u THEN k ELSE given[v]
          BY <4>3 DEF CacheTypes
      <4>12. \A i \in DOMAIN pool : i # None
          BY <2>0
      <4>13. Cache!BusyMeansOneUser'
          BY <2>0, <4>2, <4>6, <4>9, <4>10, <4>11, <4>12 DEF Cache!BusyMeansOneUser
      <4>. QED  BY <4>7, <4>8, <4>13
    <3>. QED  BY <3>1, <3>2
  <2>4. ASSUME NEW u \in Users, NEW s \in {"busy", "offline"},
               place[u] = "connect", Cache!Add(want[u], s)
        PROVE  /\ pool' \in Seq(Cache!Entries)
               /\ DOMAIN pool' = 1 .. Len(pool) + 1
               /\ pool'[Len(pool) + 1].status = s
               /\ \A i \in DOMAIN pool : pool'[i] = pool[i]
               /\ given[u] = None
               /\ \A v \in Users : given[v] # Len(pool) + 1
    <3>1. want[u] \in Cache!Requests
        BY DEF CacheTypes
    <3>2. [server |-> want[u].server, flags |-> want[u].flags, status |-> s] \in Cache!Entries
        BY <3>1 DEF Cache!Requests, Cache!Entries
    <3>3. given[u] = None /\ \A v \in Users : given[v] \in 1 .. Len(pool) \/ given[v] = None
        BY <2>0, <2>4 DEF CopyHasConn
    <3>. QED  BY <2>0, <2>4, <3>2, <3>3 DEF Cache!Add, CacheTypes
  <2>5. ASSUME NEW u \in Users, Cache!Connect(u)
        PROVE  CacheInv'
    <3>1. /\ pool' \in Seq(Cache!Entries)
          /\ DOMAIN pool' = 1 .. Len(pool) + 1
          /\ pool'[Len(pool) + 1].status = "busy"
          /\ \A i \in DOMAIN pool : pool'[i] = pool[i]
          /\ given[u] = None
          /\ \A v \in Users : given[v] # Len(pool) + 1
        BY <2>4, <2>5 DEF Cache!Connect
    <3>2. CacheTypes'
        BY <2>0, <2>5, <3>1 DEF Cache!Connect, CacheTypes
    <3>3. \A v \in Users : given'[v] = IF v = u THEN Len(pool) + 1 ELSE given[v]
        BY <2>5 DEF Cache!Connect, CacheTypes
    <3>4. CopyHasConn'
        BY <2>0, <2>5, <3>1 DEF Cache!Connect, CacheTypes, CopyHasConn
    <3>5. \A i \in DOMAIN pool' : i = Len(pool) + 1 \/ (i \in DOMAIN pool /\ i # Len(pool) + 1)
        BY <2>0, <3>1
    <3>6. \A i \in DOMAIN pool' : i # None
        BY <2>0, <3>1
    <3>7. Cache!BusyMeansOneUser'
        BY <3>1, <3>3, <3>5, <3>6 DEF Cache!BusyMeansOneUser
    <3>. QED  BY <3>2, <3>4, <3>7
  <2>6. ASSUME NEW u \in Users, Cache!ConnectFails(u)
        PROVE  CacheInv'
    <3>1. /\ pool' \in Seq(Cache!Entries)
          /\ DOMAIN pool' = 1 .. Len(pool) + 1
          /\ pool'[Len(pool) + 1].status = "offline"
          /\ \A i \in DOMAIN pool : pool'[i] = pool[i]
          /\ \A v \in Users : given[v] # Len(pool) + 1
        BY <2>4, <2>6 DEF Cache!ConnectFails
    <3>2. CacheTypes'
        BY <2>0, <2>6, <3>1 DEF Cache!ConnectFails, CacheTypes
    <3>3. CopyHasConn'
        BY <2>0, <2>6, <3>1 DEF Cache!ConnectFails, CacheTypes, CopyHasConn
    <3>4. \A i \in DOMAIN pool' : i = Len(pool) + 1 \/ i \in DOMAIN pool
        BY <2>0, <3>1
    <3>5. given' = given
        BY <2>6 DEF Cache!ConnectFails
    <3>6. Cache!BusyMeansOneUser'
        BY <3>1, <3>4, <3>5 DEF Cache!BusyMeansOneUser
    <3>. QED  BY <3>2, <3>3, <3>6
  <2>7. ASSUME NEW u \in Users, Cache!MarkNotBusy(u)
        PROVE  CacheInv'
    <3>. DEFINE k == given[u]
    <3>1. k \in 1 .. Len(pool)
        BY <2>0, <2>7 DEF Cache!MarkNotBusy, CopyHasConn
    <3>2. /\ pool' = [pool EXCEPT ![k].status = "idle"]
          /\ given' = [given EXCEPT ![u] = None]
          /\ place' = [place EXCEPT ![u] = "start"]
          /\ want' = want
        BY <2>7 DEF Cache!MarkNotBusy
    <3>3. pool[k] \in Cache!Entries
        BY <3>1 DEF CacheTypes
    <3>4. [pool[k] EXCEPT !.status = "idle"] \in Cache!Entries
        BY <3>3 DEF Cache!Entries
    <3>5. pool' \in Seq(Cache!Entries) /\ DOMAIN pool' = DOMAIN pool
        BY <3>1, <3>2, <3>4 DEF CacheTypes
    <3>6. CacheTypes'
        BY <3>2, <3>5 DEF CacheTypes
    <3>7. CopyHasConn'
        BY <2>0, <3>2, <3>5 DEF CacheTypes, CopyHasConn
    <3>8. /\ pool'[k].status = "idle"
          /\ \A i \in DOMAIN pool : i # k => pool'[i] = pool[i]
        BY <2>0, <3>1, <3>2, <3>3 DEF Cache!Entries, CacheTypes
    <3>9. \A v \in Users : given'[v] = IF v = u THEN None ELSE given[v]
        BY <3>2 DEF CacheTypes
    <3>10. \A v \in Users : v # u => given[v] # k
        BY <2>0, <3>1 DEF Cache!BusyMeansOneUser
    <3>11. \A i \in DOMAIN pool : i # None
        BY <2>0
    <3>12. k = given[u]
        OBVIOUS
    <3>. HIDE DEF k
    <3>13. Cache!BusyMeansOneUser'
        BY <2>0, <3>1, <3>5, <3>8, <3>9, <3>10, <3>11, <3>12 DEF Cache!BusyMeansOneUser
    <3>. QED  BY <3>6, <3>7, <3>13
  <2>8. CASE UNCHANGED Cache!vars
      BY <2>8 DEF Cache!vars, CacheTypes, CopyHasConn, Cache!BusyMeansOneUser
  <2>. QED  BY <1>2, <2>1, <2>2, <2>3, <2>5, <2>6, <2>7, <2>8 DEF Cache!Next
<1>. QED  BY <1>1, <1>2

\* No two copies ever have one connection, and none stays busy after its copy:
\* what the mutex and the status of the entries (conn_cache.c) are for.
THEOREM OneUser ==
    ASSUME None \notin Nat
    PROVE  Cache!Spec => []Cache!BusyMeansOneUser
<1>1. Cache!Init => CacheInv
    BY CacheInductive
<1>2. CacheInv /\ [Cache!Next]_(Cache!vars) => CacheInv'
    BY CacheInductive
<1>3. CacheInv => Cache!BusyMeansOneUser
    BY DEF CacheInv
<1>. QED  BY <1>1, <1>2, <1>3, PTL DEF Cache!Spec

\* One step of RightServer: an entry taken by a copy was idle, or is new.
RightServerStep ==
    \A i \in DOMAIN pool : i \in DOMAIN pool' =>
        /\ pool[i].status = "offline" => pool'[i] = pool[i]
        /\ \A u \in Users : given[u] # i /\ given'[u] = i
              => pool[i].server = want[u].server

\* Every step is one of RightServer.
LEMMA TakesRightServer ==
    ASSUME None \notin Nat, CacheInv, [Cache!Next]_(Cache!vars)
    PROVE  RightServerStep
<1>. USE DEF CacheInv, Cache!Goto
<1>0. Len(pool) \in Nat /\ DOMAIN pool = 1 .. Len(pool)
    BY DEF CacheTypes
<1>1. CASE Cache!DestroyInit
    BY <1>1 DEF Cache!DestroyInit, RightServerStep
<1>2. ASSUME NEW u \in Users, NEW r \in Cache!Requests, Cache!Open(u, r)
      PROVE  RightServerStep
    BY <1>2 DEF Cache!Open, RightServerStep
<1>3. ASSUME NEW u \in Users, Cache!FindIdleMarkBusy(u)
      PROVE  RightServerStep
  <2>1. CASE Cache!Found(want[u]) = {}
      BY <1>3, <2>1 DEF Cache!FindIdleMarkBusy, RightServerStep
  <2>2. CASE Cache!Found(want[u]) # {}
    <3>. DEFINE k == CHOOSE i \in Cache!Found(want[u]) : \A j \in Cache!Found(want[u]) : i <= j
    <3>1. want[u] \in Cache!Requests
        BY DEF CacheTypes
    <3>2. k \in 1 .. Len(pool) /\ Cache!Matches(pool[k], want[u]) /\ pool[k].status = "idle"
        BY <3>1, <2>2, FirstIsFound
    <3>3. /\ pool' = [pool EXCEPT ![k].status = "busy"]
          /\ given' = [given EXCEPT ![u] = k]
        BY <1>3, <2>2 DEF Cache!FindIdleMarkBusy
    <3>. HIDE DEF k
    <3>4. \A i \in DOMAIN pool : i # k => pool'[i] = pool[i]
        BY <1>0, <3>2, <3>3 DEF CacheTypes
    <3>5. \A v \in Users : given'[v] = IF v = u THEN k ELSE given[v]
        BY <3>3 DEF CacheTypes
    <3>. QED  BY <3>2, <3>4, <3>5 DEF RightServerStep, Cache!Matches
  <2>. QED  BY <2>1, <2>2
<1>4. ASSUME NEW u \in Users, NEW s, Cache!Add(want[u], s)
      PROVE  \A i \in DOMAIN pool : pool'[i] = pool[i] /\ i # Len(pool) + 1
    BY <1>0, <1>4 DEF Cache!Add, CacheTypes
<1>5. ASSUME NEW u \in Users, Cache!Connect(u)
      PROVE  RightServerStep
  <2>1. \A i \in DOMAIN pool : pool'[i] = pool[i] /\ i # Len(pool) + 1
      BY <1>4, <1>5 DEF Cache!Connect
  <2>2. \A v \in Users : given'[v] = IF v = u THEN Len(pool) + 1 ELSE given[v]
      BY <1>5 DEF Cache!Connect, CacheTypes
  <2>. QED  BY <2>1, <2>2 DEF RightServerStep
<1>6. ASSUME NEW u \in Users, Cache!ConnectFails(u)
      PROVE  RightServerStep
  <2>1. \A i \in DOMAIN pool : pool'[i] = pool[i]
      BY <1>4, <1>6 DEF Cache!ConnectFails
  <2>. QED  BY <1>6, <2>1 DEF Cache!ConnectFails, RightServerStep
<1>7. ASSUME NEW u \in Users, Cache!MarkNotBusy(u)
      PROVE  RightServerStep
  <2>. DEFINE k == given[u]
  <2>1. k \in 1 .. Len(pool) /\ pool[k].status = "busy"
      BY <1>0, <1>7 DEF Cache!MarkNotBusy, CopyHasConn, Cache!BusyMeansOneUser
  <2>2. \A i \in DOMAIN pool : i # k => pool'[i] = pool[i]
      BY <1>0, <1>7, <2>1 DEF Cache!MarkNotBusy, CacheTypes
  <2>3. \A v \in Users : given'[v] = IF v = u THEN None ELSE given[v]
      BY <1>7 DEF Cache!MarkNotBusy, CacheTypes
  <2>4. \A i \in DOMAIN pool : i # None
      BY <1>0
  <2>. HIDE DEF k
  <2>. QED  BY <2>1, <2>2, <2>3, <2>4 DEF RightServerStep
<1>8. CASE UNCHANGED Cache!vars
    BY <1>8 DEF Cache!vars, RightServerStep
<1>. QED  BY <1>1, <1>2, <1>3, <1>5, <1>6, <1>7, <1>8 DEF Cache!Next

\* A copy is never given a connection of another host, nor one that could not
\* be made: what FindIdleMarkBusy compares, and what ConnCache_Add with the
\* status OFFLINE is for.
THEOREM RightConnection ==
    ASSUME None \notin Nat
    PROVE  Cache!Spec => Cache!RightServer
<1>1. Cache!Init => CacheInv
    BY CacheInductive
<1>2. CacheInv /\ [Cache!Next]_(Cache!vars) => CacheInv'
    BY CacheInductive
<1>3. CacheInv /\ [Cache!Next]_(Cache!vars) => [RightServerStep]_(Cache!vars)
    BY TakesRightServer
<1>4. Cache!Spec => [][RightServerStep]_(Cache!vars)
    BY <1>1, <1>2, <1>3, PTL DEF Cache!Spec
<1>. QED  BY <1>4, PTL DEF Cache!RightServer, RightServerStep
=============================================================================
