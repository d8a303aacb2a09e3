----------------------------- MODULE RemoteCopy -----------------------------
(***************************************************************************)
(* copy_from promises of cgn-agent over one connection to cgn-serverd:     *)
(* CfCopyFile and CopyRegularFile (cgn-agent/verify_files_utils.c), the    *)
(* requests STAT, MD5 and GET (libcfnet) and the thread of the server that *)
(* answers them (CfGetFile, StatFile in cgn-serverd/server_common.c).      *)
(*                                                                         *)
(* Requests carry no number: an answer is what is read next.  A GET is     *)
(* answered with the bare bytes of the file, as many as STAT had said, so  *)
(* a byte too few or too many is taken for a part of what comes after.     *)
(* Sizes are in units, some of which make a block of 2048 bytes; the       *)
(* protocol is TLS, where a read stays inside one record.                  *)
(***************************************************************************)
EXTENDS Integers, Sequences

CONSTANTS
    Files,         \* source files; each has one destination
    Versions,      \* the contents a source has had so far, 1..
    Size,          \* the units of a version
    Block,         \* the units of a block
    Refusal,       \* the units of a transaction that refuses, with its header
    MaxCopies,     \* promises in the life of a connection
    None

\* A unit of a file, of the padding of a block, or of a message in one.
OfFiles == Files \X Versions \X Nat
Bytes  == OfFiles \cup {<<"old">>, <<"pad">>, <<"text">>, <<"failed">>, <<"changed">>}

\* What the server's thread does after it has read a request (ServerFileGetState).
Jobs == [kind : {"link"}, file : Files]
        \cup [kind : {"get"}, file : Files, sees : Versions,
              size : Nat, total : Nat, count : Nat]

ASSUME RemoteCopyAssumption ==
    /\ Versions \subseteq Nat /\ 1 \in Versions /\ Size \in [Versions -> Nat \ {0}]
    /\ Block \in Nat \ {0} /\ Refusal \in 1 .. Block /\ MaxCopies \in Nat
    /\ None \notin Jobs /\ None \notin Seq(Bytes)

VARIABLES
    version,       \* of each source file
    requests,      \* on the way to the server
    job,           \* what the server is sending
    stream,        \* records on the way to the agent
    cache,         \* conn->cache: the size of a file, or 0
    error,         \* conn->error
    pc, cur, size, \* the agent: where it is, its file, what STAT said
    new,           \* <dest>.cfnew of the current file
    dest, saved,   \* <dest> and <dest>.cfsaved of each file
    backupok,
    copies,        \* promises so far
    gaps           \* history: what happened that the code does not survive

server == <<requests, job>>
conn   == <<stream, cache, error>>
disk   == <<new, dest, saved, backupok>>
agent  == <<pc, cur, size, copies>>
vars   == <<version, server, conn, disk, agent, gaps>>

\* "late"     the agent stopped waiting for an answer that was still to come
\* "resized"  a file had not the size any more that STAT had said
\* "refused"  a GET was refused and the agent, who counts the bytes of the file, did
\*            not read all of the refusal, or read one of two
\* "torn"     a file was written in place while the server read it
\* "halfway"  the agent died with the old file aside and the new one not in place
\* "shared"   another agent took the new file away, or wrote to it
Gaps == {"late", "resized", "refused", "torn", "halfway", "shared"}

-----------------------------------------------------------------------------
(* Data.                                                                   *)

Content(f, v) == [i \in 1 .. Size[v] |-> <<f, v, i>>]
Old           == <<<<"old">>>>          \* what the agent's host had before

\* What comes through the connection: a transaction, or bare bytes.
Reply(kind, f, value) == [kind |-> kind, file |-> f, value |-> value]
Data(units)           == [kind |-> "data", units |-> units]

\* A message that CfGetFile sends as a block of bare bytes.
Message(text) == Data([i \in 1 .. Block |-> <<IF i = 1 THEN text ELSE "pad">>])

Least(m, n) == IF m <= n THEN m ELSE n

Init ==
    /\ version = [f \in Files |-> 1]
    /\ requests = <<>> /\ job = None
    /\ stream = <<>> /\ cache = [f \in Files |-> 0] /\ error = FALSE
    /\ pc = "idle" /\ cur \in Files /\ size = 0 /\ copies = 0
    /\ new = None /\ dest \in [Files -> {Old, None}]
    /\ saved = [f \in Files |-> None] /\ backupok = FALSE
    /\ gaps = {}

-----------------------------------------------------------------------------
(* The source files.                                                       *)

\* A file is written in place, or replaced by another while the server still
\* reads the one it had opened.
SourceChanges(f) ==
    /\ version[f] + 1 \in Versions
    /\ version' = [version EXCEPT ![f] = @ + 1]
    /\ \/ job # None /\ job.kind = "get" /\ job.file = f
          /\ job' = [job EXCEPT !.sees = version'[f]]
          /\ gaps' = gaps \cup {"torn"}
       \/ UNCHANGED <<job, gaps>>
    /\ UNCHANGED <<requests, conn, disk, agent>>

-----------------------------------------------------------------------------
(* The server's thread.  What a request makes it send goes to the agent    *)
(* record by record.                                                       *)

Send(r) == stream' = Append(stream, r)

Request == Head(requests)

\* Denied by the access rules, or there is no such file.  To a GET this is not the
\* bare bytes that the agent counts: of a file that is shorter it reads no more.
ServerRefuses ==
    /\ job = None /\ requests # <<>>
    /\ requests' = Tail(requests)
    /\ Send(Reply("bad", Request.file, 0))
    /\ gaps' = IF Request.kind = "get" /\ Request.size < Refusal
               THEN gaps \cup {"refused"} ELSE gaps
    /\ UNCHANGED <<version, job, cache, error, disk, agent>>

\* Two transactions: the numbers, and where a link goes.
StatFile ==
    /\ job = None /\ requests # <<>> /\ Request.kind = "stat"
    /\ requests' = Tail(requests)
    /\ Send(Reply("stat", Request.file, Size[version[Request.file]]))
    /\ job' = [kind |-> "link", file |-> Request.file]
    /\ UNCHANGED <<version, cache, error, disk, agent, gaps>>

SendLink ==
    /\ job # None /\ job.kind = "link"
    /\ Send(Reply("link", job.file, 0))
    /\ job' = None
    /\ UNCHANGED <<version, requests, cache, error, disk, agent, gaps>>

CompareLocalHash ==
    /\ job = None /\ requests # <<>> /\ Request.kind = "md5"
    /\ requests' = Tail(requests)
    /\ LET differs == Content(Request.file, version[Request.file]) # Request.digest
       IN  Send(Reply("md5", Request.file, IF differs THEN 1 ELSE 0))
    /\ UNCHANGED <<version, job, cache, error, disk, agent, gaps>>

\* The file cannot be opened, or TransferRights refuses: RefuseAccess has then
\* sent a transaction already when the block comes.
GetFails ==
    /\ job = None /\ requests # <<>> /\ Request.kind = "get"
    /\ requests' = Tail(requests)
    /\ \E refusal \in {<<>>, <<Reply("bad", Request.file, 0)>>} :
          /\ stream' = stream \o refusal \o <<Message("failed")>>
          /\ gaps' = IF refusal # <<>> \/ Request.size < Block
                     THEN gaps \cup {"refused"} ELSE gaps
    /\ UNCHANGED <<version, job, cache, error, disk, agent>>

GetStarts ==
    /\ job = None /\ requests # <<>> /\ Request.kind = "get"
    /\ requests' = Tail(requests)
    /\ LET f == Request.file  v == version[f]
       IN  /\ job' = [kind |-> "get", file |-> f, sees |-> v, size |-> Size[v],
                      total |-> 0, count |-> 0]
           /\ gaps' = IF Size[v] # Request.size THEN gaps \cup {"resized"} ELSE gaps
    /\ UNCHANGED <<version, conn, disk, agent>>

\* One round of the loop in CfGetFile.  When the file has grown nothing more is
\* sent of it, but the loop reads on: a negative length, not an empty one, is an
\* error of TLSSend.
Div == 3

GetBlock ==
    /\ job # None /\ job.kind = "get"
    /\ LET content == Content(job.file, job.sees)
           n_read  == Least(Block, Size[job.sees] - job.total)
           now     == IF job.count % Div = 0 THEN Size[version[job.file]] ELSE job.size
           sendlen == Least(Block, job.size - job.total)
           block   == [i \in 1 .. sendlen |->
                          IF i <= n_read THEN content[job.total + i] ELSE <<"pad">>]
       IN  \/ n_read <= 0
              /\ job' = None /\ UNCHANGED <<stream, gaps>>
           \/ n_read > 0 /\ now # job.size
              /\ Send(Message("changed"))
              /\ job' = None /\ gaps' = gaps \cup {"resized"}
           \/ n_read > 0 /\ now = job.size /\ sendlen < 0
              /\ job' = None /\ UNCHANGED <<stream, gaps>>
           \/ n_read > 0 /\ now = job.size /\ sendlen >= 0
              /\ (IF sendlen = 0 THEN UNCHANGED stream ELSE Send(Data(block)))
              /\ job' = [job EXCEPT !.total = @ + n_read, !.count = @ + 1]
              /\ gaps' = IF n_read < sendlen THEN gaps \cup {"resized"} ELSE gaps
    /\ UNCHANGED <<version, requests, cache, error, disk, agent>>

-----------------------------------------------------------------------------
(* The agent: requests.                                                    *)

Ask(request, l) == requests' = Append(requests, request) /\ pc' = l

\* What the next ReceiveTransaction is given.  Of bare bytes it takes eight,
\* which are no header: that may be all there is of a unit, or not.
Received == Head(stream)

ReceiveReply == stream # <<>> /\ Received.kind # "data" /\ stream' = Tail(stream)

Dropped(r) == IF Len(r.units) = 1 THEN <<>> ELSE <<Data(Tail(r.units))>>

BogusHeader ==
    /\ stream # <<>> /\ Received.kind = "data"
    /\ stream' \in {stream, Dropped(Received) \o Tail(stream)}

\* The server has more to say about what was asked.
Outstanding == requests # <<>> \/ job # None

ReceiveTimesOut ==
    /\ stream = <<>>
    /\ gaps' = IF Outstanding THEN gaps \cup {"late"} ELSE gaps
    /\ UNCHANGED stream

\* No answer: a time-out, or something that is none.
NoAnswer == ReceiveTimesOut \/ (BogusHeader /\ UNCHANGED gaps)

Unasked == UNCHANGED <<cur, size, copies>>

\* VerifyCopy: cf_remote_stat, with the answer of the cache if it has one.
BeginCopy(f) ==
    /\ pc = "idle" /\ copies < MaxCopies
    /\ cur' = f /\ copies' = copies + 1
    /\ \/ cache[f] # 0 /\ size' = cache[f] /\ pc' = "compare" /\ UNCHANGED requests
       \/ cache[f] = 0 /\ ~error /\ UNCHANGED size
          /\ Ask([kind |-> "stat", file |-> f], "stat")
    /\ UNCHANGED <<version, job, conn, disk, gaps>>

\* Mutant: the second transaction is left in the connection.
ReceiveNumbers ==
    /\ pc = "stat"
    /\ \/ /\ ReceiveReply /\ UNCHANGED gaps
          /\ IF Received.kind = "stat"
             THEN size' = Received.value /\ pc' = "compare"
             ELSE UNCHANGED size /\ pc' = "idle"
       \/ NoAnswer /\ pc' = "idle" /\ UNCHANGED size
    /\ UNCHANGED <<version, server, cache, error, disk, cur, copies>>

ReceiveStat ==
    /\ pc = "stat"
    /\ \/ /\ ReceiveReply /\ UNCHANGED gaps
          /\ IF Received.kind = "stat"
             THEN size' = Received.value /\ pc' = "link"
             ELSE UNCHANGED size /\ pc' = "idle"
       \/ NoAnswer /\ pc' = "idle" /\ UNCHANGED size
    /\ UNCHANGED <<version, server, cache, error, disk, cur, copies>>

ReceiveLink ==
    /\ pc = "link"
    /\ \/ /\ ReceiveReply /\ UNCHANGED gaps
          /\ cache' = [cache EXCEPT ![cur] = size] /\ pc' = "compare"
       \/ NoAnswer /\ pc' = "idle" /\ UNCHANGED cache
    /\ UNCHANGED <<version, server, error, disk, cur, size, copies>>

-----------------------------------------------------------------------------
(* The agent: CfCopyFile.                                                  *)

\* There is no destination, or sizes or times differ, or the policy says so.
MustCopy ==
    /\ pc = "compare" /\ pc' = "copy"
    /\ Unasked /\ UNCHANGED <<version, server, conn, disk, gaps>>

UpToDate ==
    /\ pc = "compare" /\ dest[cur] # None /\ pc' = "idle"
    /\ Unasked /\ UNCHANGED <<version, server, conn, disk, gaps>>

\* CompareHashNet, whose answer ReceiveHash waits for.
AskHash ==
    /\ pc = "compare" /\ dest[cur] # None /\ Len(dest[cur]) = size
    /\ IF error THEN pc' = "idle" /\ UNCHANGED requests
       ELSE Ask([kind |-> "md5", file |-> cur, digest |-> dest[cur]], "md5")
    /\ Unasked /\ UNCHANGED <<version, job, conn, disk, gaps>>

\* Anything but CFD_TRUE says that the files are equal.
Mismatch == ReceiveReply /\ Received.kind = "md5" /\ Received.value = 1 /\ UNCHANGED gaps
Match    == \/ ReceiveReply /\ ~(Received.kind = "md5" /\ Received.value = 1)
               /\ UNCHANGED gaps
            \/ NoAnswer

ReceiveHash ==
    /\ pc = "md5"
    /\ \/ Mismatch /\ pc' = "copy"
       \/ Match /\ pc' = "idle"
    /\ Unasked /\ UNCHANGED <<version, server, cache, error, disk>>

-----------------------------------------------------------------------------
(* The agent: CopyRegularFile.                                             *)

BeginGet ==
    /\ pc = "copy" /\ backupok' = FALSE
    /\ IF error THEN pc' = "idle" /\ UNCHANGED <<requests, new>>
       ELSE /\ Ask([kind |-> "get", file |-> cur, size |-> size], "get")
            /\ new' = <<>>
    /\ Unasked /\ UNCHANGED <<version, job, conn, dest, saved, gaps>>

\* TLSRecv takes what is asked from one record, at most.
Units == IF Received.kind = "data" THEN Received.units
         ELSE [i \in 1 .. Refusal |-> <<"text">>]
Got   == SubSeq(Units, 1, Least(Least(Block, size - Len(new)), Len(Units)))
Rest  == SubSeq(Units, Len(Got) + 1, Len(Units))

TakeRecord ==
    stream' = (IF Rest = <<>> THEN <<>> ELSE <<Data(Rest)>>) \o Tail(stream)

\* Mutant: a refusal that has a header is taken for the file.
SaysNoInBlock == Got[1] = <<"changed">> \/ (Got[1] = <<"failed">> /\ new = <<>>)

\* What makes CopyRegularFileNet give up, leaving what it has got ...
SaysNo ==
    \/ Received.kind = "bad"
    \/ Got[1] = <<"failed">> /\ new = <<>>
    \/ Got[1] = <<"changed">>

\* ... if it has read enough to see the text: less than a refusal is perhaps not.
Unseen == Len(Got) < Refusal

ReadBlock ==
    /\ pc = "get" /\ stream # <<>> /\ new # None
    /\ TakeRecord
    /\ \/ SaysNo /\ pc' = "idle" /\ UNCHANGED <<new, error>>
       \/ (SaysNo => Unseen) /\ new' = new \o Got /\ UNCHANGED error
          /\ pc' = IF Len(new') = size THEN "backup" ELSE "get"
    /\ Unasked /\ UNCHANGED <<version, server, cache, dest, saved, backupok, gaps>>

\* FSWrite fails; FlushFileStream leaves the session unusable.
WriteFails ==
    /\ pc = "get" /\ stream # <<>> /\ (SaysNo => Unseen)
    /\ error' = TRUE /\ new' = None /\ pc' = "idle"
    /\ Unasked /\ UNCHANGED <<version, server, stream, cache, dest, saved, backupok, gaps>>

GetTimesOut ==
    /\ pc = "get" /\ ReceiveTimesOut /\ pc' = "idle"
    /\ Unasked /\ UNCHANGED <<version, server, cache, error, disk>>

\* An older backup goes before the old file is put in its place.
UnlinkBackup ==
    /\ pc = "backup" /\ pc' = "aside"
    /\ saved' = [saved EXCEPT ![cur] = None]
    /\ Unasked /\ UNCHANGED <<version, server, conn, new, dest, backupok, gaps>>

NoBackup ==
    /\ pc = "backup" /\ pc' = "check"
    /\ Unasked /\ UNCHANGED <<version, server, conn, disk, gaps>>

MoveAside ==
    /\ pc = "aside" /\ pc' = "check"
    /\ saved' = [saved EXCEPT ![cur] = dest[cur]]
    /\ dest' = [dest EXCEPT ![cur] = None]
    /\ backupok' = (dest[cur] # None)
    /\ Unasked /\ UNCHANGED <<version, server, conn, new, gaps>>

\* Mutant: whoever gives up leaves the old file aside.
RestoreForgotten == UNCHANGED <<dest, saved>>

Restore ==
    IF backupok
    THEN dest' = [dest EXCEPT ![cur] = saved[cur]] /\ saved' = [saved EXCEPT ![cur] = None]
    ELSE UNCHANGED <<dest, saved>>

\* "another agent has picked it up?"
CheckNew ==
    /\ pc = "check"
    /\ \/ new = None /\ pc' = "idle" /\ UNCHANGED <<requests, dest, saved>>
       \/ new # None /\ Len(new) # size /\ pc' = "idle" /\ Restore /\ UNCHANGED requests
       \/ new # None /\ Len(new) = size /\ pc' = "rename"
          /\ UNCHANGED <<requests, dest, saved>>
       \/ new # None /\ Len(new) = size /\ UNCHANGED <<dest, saved>>
          /\ Ask([kind |-> "md5", file |-> cur, digest |-> new], "verify")
    /\ Unasked /\ UNCHANGED <<version, job, conn, new, backupok, gaps>>

VerifyNew ==
    /\ pc = "verify"
    /\ \/ Mismatch /\ pc' = "idle" /\ Restore
       \/ Match /\ pc' = "rename" /\ UNCHANGED <<dest, saved>>
    /\ Unasked /\ UNCHANGED <<version, server, cache, error, new, backupok>>

\* The backup may go to the repository.
Install ==
    /\ pc = "rename" /\ pc' = "idle"
    /\ IF new = None THEN Restore
       ELSE /\ dest' = [dest EXCEPT ![cur] = new]
            /\ saved' \in {saved, [saved EXCEPT ![cur] = None]}
    /\ new' = None
    /\ Unasked /\ UNCHANGED <<version, server, conn, backupok, gaps>>

-----------------------------------------------------------------------------
(* The environment.                                                        *)

\* Another agent that copies to the same destination, under another lock, has
\* unlinked the new file and perhaps begun to write its own.
OtherAgent ==
    /\ pc \in {"check", "verify", "rename"} /\ new # None
    /\ new' \in {None, <<>>} /\ gaps' = gaps \cup {"shared"}
    /\ UNCHANGED <<version, server, conn, dest, saved, backupok, agent>>

\* The agent ends, or is killed; the next one has another connection.
Restart ==
    /\ pc' = "idle" /\ stream' = <<>> /\ requests' = <<>> /\ job' = None
    /\ cache' = [f \in Files |-> 0] /\ error' = FALSE
    /\ new' = None /\ backupok' = FALSE
    /\ gaps' = IF pc \in {"check", "verify", "rename"} /\ dest[cur] = None
               THEN gaps \cup {"halfway"} ELSE gaps
    /\ Unasked /\ UNCHANGED <<version, dest, saved>>

Next ==
    \/ \E f \in Files : SourceChanges(f) \/ BeginCopy(f)
    \/ ServerRefuses \/ StatFile \/ SendLink \/ CompareLocalHash
    \/ GetFails \/ GetStarts \/ GetBlock
    \/ ReceiveStat \/ ReceiveLink \/ MustCopy \/ UpToDate \/ AskHash \/ ReceiveHash
    \/ BeginGet \/ ReadBlock \/ WriteFails \/ GetTimesOut
    \/ UnlinkBackup \/ NoBackup \/ MoveAside \/ CheckNew \/ VerifyNew \/ Install
    \/ OtherAgent \/ Restart

Spec == Init /\ [][Next]_vars

-----------------------------------------------------------------------------
(* Properties.                                                             *)

\* What the request that is waited for is answered with.
Expected(r) ==
    CASE pc = "stat" -> r.kind \in {"stat", "link", "bad"} /\ r.file = cur
      [] pc = "link" -> r.kind = "link" /\ r.file = cur
      [] pc \in {"md5", "verify"} -> r.kind \in {"md5", "bad"} /\ r.file = cur
      [] pc = "get" -> r.kind \in {"data", "bad"}
      [] OTHER -> FALSE

\* An answer is read by the request it belongs to and by no other one, and nothing
\* of it is left in the connection (cf_remote_stat, CompareHashNet,
\* CopyRegularFileNet, CfGetFile): until an answer comes after the agent has stopped
\* waiting ("late"), the size of a file changes after STAT ("resized"), a GET is
\* refused in more bytes than the agent reads ("refused"), or the new file cannot be
\* written (conn->error).
AnswersMatch ==
    gaps \cap {"late", "resized", "refused"} = {} /\ ~error =>
       \A i \in DOMAIN stream : Expected(stream[i])

Whole(f) == {Old, None} \cup {Content(f, v) : v \in Versions}

\* What is installed, with or without verification, is what the source was at
\* one time, from end to end: not a part of it, not a message of the server's
\* and nothing of another file (CopyRegularFile, CopyRegularFileNet); until the
\* file is rewritten while the server reads it ("torn"), another agent touches the
\* new file ("shared"), or the connection has lost its place: "late", "resized" or
\* "refused", where the beginning of a refusal may be all that is installed.
CopiedWhole ==
    gaps \cap {"late", "resized", "refused", "torn", "shared"} = {} =>
       \A f \in Files : dest[f] \in Whole(f)

\* A file is there, or aside for as long as its copy is being installed.
Kept(f) == dest[f] # None \/ (saved[f] # None /\ pc # "idle" /\ cur = f)

\* A promise that fails half-way leaves the destination it found: it is lost only
\* if the agent dies between the two renames, or another agent takes the new file
\* away in between (CopyRegularFile).
KeepsDestination ==
    [][\A f \in Files : gaps' \cap {"halfway", "shared"} = {} /\ Kept(f) => Kept(f)']_vars
=============================================================================
