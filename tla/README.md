# Verification of CGNgine (Cellibrium)

TLA+ models of the parts of `src/RobIoTs/CGNgine` in which several processes,
threads, signals, crashes or reboots meet, model-checked with TLC on small
instances, and theorems about them checked by TLAPS for every instance.

Cellibrium is a set of programs around CGNgine, a fork of CFEngine: an agent that
keeps promises about a host (`cgn-agent`), the scheduler that runs it
(`cgn-execd`), a server that hands out files and policy (`cgn-serverd`), a
monitor, some command-line tools, and the libraries they share (`libpromises`,
`libcfnet`, `libutils`, `libenv`). Beside it are small single-threaded tools
(`Percolibrium`, `AnthropIoHs`, `REST-CGI`).

## Inventory

| component | state | operations | meets | what makes it correct |
|---|---|---|---|---|
| promise locks, `libpromises/locks.c` | a shared database: `lock.<p>`, `last.<p>`, `CF_CRITICAL_SECTION`, `lock_horizon`; per process `LOCK_STACK` and the promise lock cache | AcquireLock, YieldCurrentLock, WaitFor/ReleaseCriticalSection, KillLockHolder, LocksCleanup, PurgeLocks | all agents of a host, the server, signals, crashes | one process at a time works on a promise; nobody is killed that does not hold an expired lock; nobody waits for ever |
| backup and restore of the lock database, `locks.c` | files, temporary files, modification times | BackupLockDatabase, VerifyThatDatabaseIsNotCorrupt, RestoreLockDatabase | other agents, reboots | a backup is whole; a restore undoes nothing |
| termination of processes, `process_unix.c`, `process_linux.c` | pid, start time, state of a process | GracefulTerminate, SafeKill | the kernel: late stops, exits, reuse of pids | only the target is signalled; nobody is left stopped; it returns |
| connection cache, `libcfnet/conn_cache.c` | a list of connections and their status | FindIdleMarkBusy, MarkNotBusy, Add, Init, Destroy | remote copies of the agent | one user per connection; the connection is the one asked for |
| server, `cgn-serverd/server.c`, `cf-serverd-functions.c` | `ACTIVE_THREADS`, `TRIES`, `SV.connectionlist`, the access control lists, pending termination | the main loop, ServerEntryPoint, HandleConnection, PolicyUpdateIfSafe, WaitOnThreads | threads, clients, signals, new policy | a session sees one policy; nobody is locked out; counts are right; a termination terminates |
| last-seen database, `lastseen.c` | `q`, `k` and `a` entries | LastSaw, the two removals, the coherence check | server threads, agents, `cgn-key` | the entries lead to each other |
| signals, `signals.c` | `PENDING_TERMINATION` | the two handlers | agents, daemons | part of the above |
| database handles, `dbm_api.c`, `dbm_lmdb.c` | per database a mutex, `refcount`, `priv`, filename; per thread a transaction and a cursor; the list of exit handlers | OpenDB, CloseDB, read, write, cursor, CloseAllDBExit | threads, exit handlers, signals inside any of them | not closed under a user; quiet after the exit; the exit ends |
| scheduler, `cgn-execd`, `pipes_unix.c` | `CHILDREN`, `MAX_FD`, pipes, processes, cft_count | LocalExec, cf_popen_sh, PipeToPid, cf_pclose | fork with other threads running, agents that hang, fall silent or leave processes behind | a thread signals and waits for its own child; it returns |
| remote file copy, `verify_files_utils.c`, `client_code.c`, `stat_cache.c`, `server_common.c` | requests and answers in a connection, the cache of STAT, `<dest>`, `<dest>.cfnew`, `<dest>.cfsaved` | STAT, MD5, GET; CopyRegularFile with backup and verification | sources that change, refusals, timeouts, other agents, crashes | an answer belongs to its request; what is installed is whole; the old file is not lost |
| policy validation, `generic_agent.c`, `loading.c` | the policy and its times, the mark `cf_promises_validated`; per daemon `last_validated_at` | GenericAgentCheckPolicy, WritePolicyValidatedFile, LoadPolicy, CheckFileChanges, CheckNewPromises | agents and daemons at once, whoever edits the policy, a clock that is set back | the mark is true; loading does not end a process; daemons follow |
| agent, evaluation, parser, handshake, access lists, monitor, tools | | | | see "Not modelled" |

What is hard in this code, with its line and the properties aimed at it, is the
list `hazards` of `PROJECT.json`.

## Modules

Each action is one access to shared state (a database access, a system call, a
step under one mutex); everything else a function does is folded into the access
it belongs to.

**Locks** (`locks.c`, `signals.c`). `lock`, `last`, `section`, `horizon` are the
database; `pc`, `cur`, `cache`, `stack`, `hooked`, `victim` belong to a process.
AcquireLock is the sequence `AcquireLock` (cache, dummy lock) →
`WaitForCriticalSection` → `EnterSection` (its WriteLock) → `FindLast`/`PutLast` (the
ifelapsed test; FindLock writes an absent record) → `FindLock`/`PutLock` (expiry) →
`KillLockHolder` (the second read), `GracefulTerminate` (the first signal),
`HolderExited`, `ForceKill`, `KillFails` → `WriteLock` → `LeaveSection` or `Refuse`.
YieldCurrentLock is `YieldRemove`, `YieldLast`. `Exit` is exit() by itself or from a
signal, at any point, and runs `ExitRemove`, `ExitLast`, `ExitDone`; `Crash` leaves the
database as it is. A promise is a model value: the hash that names it is not computed.
The outcome of GracefulTerminate is abstracted to what that module shows it can be.

The code does not give mutual exclusion unconditionally. The history variable
`breach` records each use of one of six gaps. Four can cost exclusion: `overlap` (two
agents pass WaitForCriticalSection together, line 287), `survivor` (the holder of an
expired lock could not be killed and its lock is taken, 726-750), `reyield` (a signal
hits YieldCurrentLock between RemoveLock and the removal from LOCK_STACK, 786-829) and
`purge` (PurgeLocks deletes a live lock, 1037). Two cannot: `raced` (YieldCurrentLock
writes last after another agent judged it, 786-795), which lets a promise run again too
early, and `late` (the holder yields between the read of its record, 468, and the
signal, 480), by which an agent is terminated that has given the lock back. The
properties say that there is no seventh, and what holds in spite of all six.

**PromiseLock** is the abstract specification: for each promise the set of agents
that have its lock, taken only when it is empty until the promise is broken once
and for all. `PL` in Locks (INSTANCE ... WITH) maps the detailed state to it: the agents that
have a lock are those of which `Holds` is true, and `broken` is the use of any gap
other than `raced` and `late`. ImplementsPromiseLock is its specification under that mapping.

**CriticalSection** (`locks.c` 240–293): the same section by itself, with the age
of the record instead of a clock, so that "eventually" has a meaning.

**LockBackup** (`locks.c` 880–984, 1070–1112): names, inodes and chunks of files;
`OpenSource`, `CreateTemp`, `CopyChunk`, `Fsync`, `Rename`, `Unlink` are the calls
of CopyLockDatabaseAtomically, `CopyFails` its error exits, `Reboot` a loss of
power after which files that were not synced may be empty. A clean shutdown is the
case in which nothing is lost. `section` is the record of the critical section, absent,
fresh or more than a minute old (`SectionAges`): `WaitForCriticalSection` is the last
look at it, `BackupLockDatabase` the write that follows (287), so that any number of
agents may come out of the wait together, or one beside a backup that takes more than a
minute, and whoever ends first removes the record of all. Gaps: `clash` (an agent
restores that is not the only one past the check), `overlap` (a copy begins while
another one fills the same temporary file, which it truncates), `torn` (a copy dies or
fails while another has its file, or copies from a file that is being written).

**GracefulTerminate** (`process_unix.c`, `process_linux.c`): the life of one pid
(`StopTakesEffect`, `ProcessExits`, `ProcessReaped`, `PidReused`: the kernel,
modelled from how the code uses it) and killers that execute `CheckStart`,
`SendStop`, `PollStopped`, `Recheck`, `SendSignal`, `SendCont`, `AwaitExit`, or
`PlainKill` when the start time is unknown. `killing` is the place of a killer,
`condition` what GetProcessState would say.

**Server** (`server.c`, `cf-serverd-functions.c`): `main` walks through the loop
of StartServer (`WaitForIncoming`, `PolicyUpdateIfSafe`, `ClearAuthAndACLs`,
`LoadPolicy`, `PurgeOldConnections`, `Admit`/`DenyDuplicate`, `PrependItem`,
`SpawnConnection`) and its end (`LeaveLoop`, `WaitOnThreads`, `FinalClear`,
`Exit`); a connection's thread executes `DropConnection` or `BeginSession`,
`EndSession`, `DeleteConn`. cft_server_children is held in `clear` and `load`.

**ConnCache** (`conn_cache.c` and FileCopyConnectionOpen/Close in
`verify_files_utils.c`). Copies run one after the other in today's agent; the
model allows two at a time, which the mutex and the comment at
`verify_files_utils.c:2697` provide for. That the cache gives a connection to one copy
at a time and never one with another host is proved (RemoteCopyProofs); its run is about
the flags, which it gets wrong.

**LastSeen** (`lastseen.c`): the operations as sequences of reads, writes and
deletions. `transactions` is the library CGNgine was built with: LMDB makes one
transaction of each operation (`UpdateAtOnce`, `FindAtOnce`, `RemoveAtOnce`), with
the others each access is by itself (`WriteQuality`, `WriteForward`, ...).
`WriteFails` and the bound of the quantifier in the AtOnce actions are writes that
fail unnoticed. Gaps: `overlap` (a removal and another operation work on one key or
address), `aliased` (a host is removed that has two addresses, or an address with two
keys), `crash` (a process dies between its accesses, without LMDB), `failed` (a write or
deletion fails, or a commit), and two kinds of the latter that some properties depend
on: `unseen` (quality before key, or key before quality) and `keyless` (key before
address, or a removal cut between its two deletions).

**DBHandles** (`dbm_api.c`, `dbm_lmdb.c`, `locks.c` 750-760, `signals.c`,
`atexit.c`): one process, an agent with only `Main` or a daemon with `Workers`.
OpenDB is `DBHandleGet`, `LockHandle`, `OpenEnvironment`, `CountUser`; CloseDB is
`CloseDB`, `LockToClose`, `Commit`, `FreeEnvironment`; the calls in between are
`DBPrivRead`, `DBPrivWrite` and the two of the cursor. `ReturnFromMain` and
`Interrupt` (the agent's signal handler, anywhere) lead to exit(), whose `RunHook`
calls LocksCleanup and CloseAllDBExit (`GrabTable`, then for each handle
`SkipUnnamed`, `Wait`, `SealUnused` or `ForceClose`). The mutexes are
error-checking: a thread that locks its own goes on (`Lockable`). Gaps: `stale`
(priv of a closed environment is taken for an open one when DBPathLock fails,
247), `forced` (closed under a user after ten seconds, 181), `abort` (the
assertion on an open cursor in LocksCleanup, `dbm_lmdb.c` 434).

**Execd** (`cf-execd-runner.c`, `pipes_unix.c`): threads that execute `Pipe`,
`Fork`, `CloseWriteEnd`, `SetChildFD` (cf_popen_sh), the loop of LocalExec
(`ReadBlocks`, `ReadLine`, `EndOfFile`, `Timeout`, `StopReading`), `PipeToPid`,
`ProcessSignalTerminate`, and `ClearEntry`, `Fclose`, `PWait` (cf_pclose). The
processes are the environment: they write lines or half lines, close their
output, leave others behind that have it, and end. A child forked while another
thread has cft_count is `stuck`. `pending` is a termination that a thread has
seen; `shrunk` records that the table was cut short by SetChildFD, after which
nothing is claimed.

**RemoteCopy** (`verify_files_utils.c`, `client_code.c`, `stat_cache.c`, `net.c`,
`server_common.c`): one agent, one connection and the thread of the server behind
it. `BeginCopy`, `ReceiveStat`, `ReceiveLink` are cf_remote_stat; `MustCopy`,
`UpToDate`, `AskHash`, `ReceiveHash` the comparison; `BeginGet`, `ReadBlock`,
`WriteFails`, `GetTimesOut` CopyRegularFileNet; `UnlinkBackup`, `MoveAside`,
`CheckNew`, `VerifyNew`, `Install` the rest of CopyRegularFile. On the other side
`StatFile`, `SendLink`, `CompareLocalHash`, `GetStarts`, `GetBlock`, `GetFails`,
`ServerRefuses`. A file is a sequence of units tagged with its name and version, so
that a byte in the wrong place is seen. Gaps: `late` (an answer after the receive
timeout), `resized` (the size changed after STAT), `refused` (a refused GET, answered
with more than the agent reads: a block, a transaction and a block, or a transaction
of 27 or 67 bytes when the file is shorter; the agent that reads less than a refusal
may not recognise it, `Unseen`, installs its beginning and leaves the rest in the
connection), `torn` (the file was rewritten while the server
read it), `halfway` (the agent died between the two renames), `shared` (another
agent wrote to or took the same new file).

**PolicyReload** (`generic_agent.c` 219-450 and 862-1041, `loading.c` 455-501,
`files_names.c` 41-120, `cf-serverd-functions.c` 353-424, `cgn-execd.c` 471-559):
agents and daemons around one policy. `Begin`, `ReadMark`, `Compare`,
`ArePromisesValid` are GenericAgentCheckPolicy; `Creat`, `TakeTime`, `Write` and
`MarkFails` WritePolicyValidatedFile; `Failsafe` and `LoadPolicy` what follows;
`CheckNewPromises` and `Revalidate` the reload of a daemon. A policy is a version
that can be loaded or not; `Edit` replaces it, and `mtime` is the newest time
IsNewerFileTree sees, which a file written in place does not change. The mark of an
empty file is its modification time, as ReadPolicyValidatedFile has it. Gaps:
`unseen` (a change not newer than the mark), `overtaken` (the policy changed between
check and mark), `touched` (the mark was in the future and is replaced, 998),
`backward` (a mark replaced by an older one), `jumped` (the clock was set back).
`changed` holds the processes whose judgement the policy has outlived.

`MCLocks`, `MCLockBackup`, `MCConnCache`, `MCLastSeen`, `MCDBHandles`, `MCRemoteCopy`
and `MCPolicyReload` add symmetry, bounds and values of constants. The `...Proofs`
modules hold theorems.

## Runs

| run | bounds | shows |
|---|---|---|
| `locks` | 2 agents, 2 promises (the one with ignoreProcesses only in the first second and until the first gap), clock 1..3, minute = 1 tick, expireafter 0, horizon 1; all six gaps | LockExclusive, YieldsOwnLock, LockNamesItsHolder, NeverStopsItself, KillsOnlyExpired, IfElapsedKept, ImplementsPromiseLock |
| `critical_section` | 3 agents, 2 crashes, fairness | WaitersMoveOn |
| `lock_backup` | 2 agents, 2 boots, 2 chunks, 2 writes, 9 inodes; all gaps | BackupComplete, RestoreKeepsLocks |
| `terminate` | 1 killer, 3 holders of the pid, 2 polls, fairness | HitsOnlyTarget, NotLeftStopped, TrueMeansSignalled, KillReturns |
| `server` | 3 connections, 2 hosts (one in allowallconnects), limit 1, 1 new policy, clock 0..2, fairness | ActiveThreadsCounts, SessionKeepsPolicy, NoStaleEntry, OneConnectionPerHost, Stops |
| `last_seen` | 2 processes, 2 keys, 2 addresses, both kinds of library; up to the gaps after which no property claims anything | CoherentAtRest, KnownHostHasQuality, AddressesHaveKeys |
| `db_handles` | Main alone or with 2 workers, 2 databases, 2 rounds of waiting, fairness | EnvOpenForUsers, CleanupBeforeSweep, QuietAtExit, SweepEnds |
| `execd` | Main and 1 worker, 2 pids, 4 descriptors of which 1 is in the first table, growth by 1, fairness; until the table is cut short or main ends | SignalsOwnChild, ChildrenWaitedFor, Returns |
| `remote_copy` | 2 files, 4 versions of 1, 4, 3 and 2 units, 3 changes in all, blocks and refusals of 2, 3 promises (2 after the connection lost its place) | AnswersMatch, CopiedWhole, KeepsDestination |
| `policy_reload` | 1 agent, 1 daemon, 3 versions, 2 seconds, the clock set back once, fairness; up to `unseen` | MarkMeansAccepted, SurvivesLoading, NoMissedUpdate, DaemonsFollow |

Why these bounds: a minute is one tick, so every comparison of times is met from
both sides; two agents suffice for each gap and for a takeover followed by a late
yield, and crashes and restarts under the same pid give any number of successive
agents; three holders of a pid let it be reused twice within one SafeKill; three
connections with a limit of one fill the server (maxconnections + 1) and drop one;
a horizon of one tick lets the lock of a live agent be purged; two chunks are the
fewest that can disagree, and two writes let each of two agents begin a backup, with
the wait for the section passed by both; two workers and the main thread are
the fewest with a second user while a first closes and the exit waits; two threads
that fork at the same time are the fewest for a stuck child and for a table cut
short, and two pids make each pid be used again by the other thread; a file of one
unit is less than a block and one of four more, so that both ends of a transfer
are met, one of three cuts a block of the one before it short, one of two is as long
as a refusal, which is longer than the file of one, and the third promise reads what
the second left behind; two seconds make a
mark older than a change, as old, and in the future, and what two agents do to each
other's marks is covered by the proofs. Where a run stops
at a gap its properties claim nothing beyond it. Deadlock is not checked where
the bounds on clocks, connections or writes end behaviours, or where the program
ends.

Two runs expect a violation; each disagrees with a sentence in the repository
(`findings` in `PROJECT.json` quotes it):

- `conn_cache_flags`: `conn_cache.c:109` reuses only connections whose flags differ.
- `server_clear`: at shutdown the access lists are freed after the mutex is
  released, and a thread not yet counted begins its session without them.

Seven more things the models show, about which the repository says less:

- A restore that overlaps with another one (`locks.c:972-975`: "Worst case someone
  else will just copy the same file to the same location") can put the backup over
  locks taken since the first, so RestoreKeepsLocks is about a restore by itself.
- A host that changed its key, or a key with two addresses, can be seen without
  harm, but its removal follows one link only and leaves the other entries without
  a partner (`lastseen.c:440-559`); cgn-key then refuses every removal that is not
  forced. CoherentAtRest is therefore claimed until such a removal.
- A comparison of hashes that gets no answer counts as a match
  (`client_code.c:466-471`), also when it is the verification of a copy: "verify"
  then promises no more than a copy without it, and CopiedWhole is the same for both.
- A file that is rewritten while the server sends it is noticed by its size only in
  every third round (`server_common.c`, CfGetFile): a file that shrinks ends in a
  block which is padded, or in a transfer that ends early, and in either case the
  agent takes what is sent next for a part of the file. AnswersMatch and CopiedWhole
  are claimed until the size changes (`resized`).
- A mark in the future is replaced before the policy is checked
  (`generic_agent.c:998`), although "a contained timestamp to mark a policy file as
  validated" is what it is (343): a policy that is then rejected counts as validated
  for the next process, which exits in LoadPolicy instead of falling back to
  failsafe.cf. MarkMeansAccepted and SurvivesLoading are claimed until then (`touched`).
- `alwaysvalidate` ("whether configurations will always be checked before executing",
  `mod_common.c:275`) is read from the policy after its only use (`cgn-agent.c:230`,
  794) and has no effect; PolicyReload takes the flag as false.
- A daemon that fell to failsafe.cf when it started keeps it as its input file
  (`cgn-serverd.c:60`, `cgn-execd.c:146`): a newer mark makes it check and load
  failsafe.cf again, and the policy only after a restart. DaemonsFollow and
  NoMissedUpdate exclude it by name. (The note at `generic_agent.c:984` that
  GenericAgentIsPolicyReloadNeeded updates `last_validated_at` is out of date:
  GenericAgentCheckPolicy does, before.)

Fairness. `critical_section`: time passes and a process that polls is scheduled;
nothing is assumed of a process inside the section. `terminate`: the killer's own
steps; nothing is assumed of the process. `server`: the main thread only, whose
select, sleeps and counted rounds all end; nothing is assumed of clients and their
threads. A connection served by the main thread itself (no thread could be made)
is excluded from `Stops` by name. `db_handles`: whoever holds a mutex is scheduled,
CloseAllDBExit gets a mutex that is free again and again (nanosleep lets the others
run), and exit() calls its handlers; nothing is assumed of users of a database.
`execd`: the threads are scheduled and get cft_count when it is free again and
again; nothing is assumed of the agents, which may run, hang or be silent for ever.
`Returns` excludes by name the two ways the code has of waiting without a timeout
(half a line, and an agent that closed its output but goes on) and a pending
termination, after which cf_pclose waits for the agent without signalling it.
`policy_reload`: time goes on, daemons wake up and cgn-execd starts agents again and
again (its loop does both every minute); agents may be killed and marks fail, but not
every time. A daemon that ends or is in failsafe.cf is excluded by name.

## Theorems

Proved for every value of the constants under the named assumptions of the modules:

- `LocksAssumption`, `PolicyAssumption`, `KillAssumption`, `LastSeenAssumption`: types
  of the constants, `None` differs from all values, agents are not daemons;
- `ServerAssumption`, `DBAssumption`, `ExecdAssumption`: the same, and the sets that the
  code counts or searches (connections, workers, descriptors) are finite; the handles
  are a sequence (`DbOrder`), the order in which CloseAllDBExit meets them;
- `LockBackupAssumption`: a file system has room for the temporary and open files of
  all processes: more inodes than names and twice the number of processes;
- `RemoteCopyAssumption`: a file, a block and a refusal are not empty, and a refusal is
  no longer than a block.

Every safety invariant and action property that a passing run checks is stated by
one of these theorems. Where it is not inductive, the invariant that is follows.

**LocksProofs.** `Inv` is TypeOK and: `Bookkeeping` (what a process at each pc
knows of its promise, stack and cache; without it LeaveSection could push None),
`StartsInPast` (no record is younger than the process that now has its pid, so a
new process is never taken for the writer), `Yielded` (after RemoveLock the
process does not own the record again), `RecordInv` (a record that names a live process
names one at work on the promise), `VictimInv` (so does the record that an agent at
"signal" has read, until `late`), NeverStopsItself,
`SectionInv` (until an overlap: one process inside; the record is absent at
"putlock" and still expired at "kill") and `HolderInv` (until any gap: a holder
owns the record; whoever is about to write excludes every holder; at "signal" and in
"killwait" any holder is the victim). "Until any gap" is `Intact`: `raced` and `late` do
not count.
LockExclusive and YieldsOwnLock follow from `HolderInv`, KillsOnlyExpired from
`SectionInv`. ElapsedHonoured: IfElapsedKept is inductive together with `Inv`, one case
for each action (until an overlap, only the agent that judged a `last` record writes
it inside the section). Refinement: Locks implements PromiseLock. Its invariant is
`Inv`; the proof maps each action of Locks to a Take (WriteLock, whose guard
`holders = {}` is HolderInv), a Release (a yield, an end, a kill), a Break or Regain (a
gap), or a stutter.

**LockBackupProofs.** BackupWhole, RestoreUndoesNothing. Always: what descriptors a
process has at each step (`FdInv`), that two names are two files and that nobody
reads a file that has a temporary name (`NamesInv`), that a backup
follows a write since the boot (`JobInv`), and which file the descriptor of a copy can
be (`ToInv`). Until `clash`: who restores is alone and nothing was written since the boot
(`SoleInv`), and the database is what was written last (`NewestInv`). Until `overlap`: a
copy has its temporary file for itself, with every chunk it is past, and on disk before
it is renamed (`AloneInv`), so the backup is whole. After an overlap and until `torn`:
every file a copy is at work on will be completed by some copy (`TempInv`), what is
copied from is whole or was (`SourceInv`), and so is the backup (`BackupInv`). That a new
file never is one that is still in use is a count of the inodes in use
(FiniteSetTheorems).

**ProcessProofs**, of GracefulTerminate. KillTypeCorrect; NoneLeftStopped for any
number of killers (a stop that is pending or in effect has a killer that will send
SIGCONT); OnlyTargetHit for a single killer: between Recheck and the signal the target
is stopped, or a process that cannot be continued by anyone else. With two killers
it is false. TrueIsEarned: whoever returned true, waits for the exit or has a second
signal to send has signalled the target, or found it ended (`TrueInv`), and nothing
brings a target back.

**ProcessProofs**, of Execd. OwnChildSignalled rests on what a thread has at each place
of LocalExec (`PcInv`), on a descriptor being open for one thread only (`FdInv`, from
pipe() taking the lowest that are free), on a pid belonging to one thread until it is
waited for (`ChildInv`) and on the entry of a thread's descriptor being its child from
SetChildFD until cf_pclose (`TableInv`), the last two until the table is cut short.
EveryChildWaitedFor is a part of `ChildInv`, TypeCorrect of the first two.

**ServerProofs.** CountIsRight and SessionsKeepPolicy, from the invariant that a
reload is under way only while there is no session and that every session began
with the policy in force (`ReloadInv`). NobodyLockedOut and OneAtATime are about the
list: a host has no more entries than connections, and as many unless one was purged
(`ListInv`). DeleteItemMatching removes the first entry of the host, which is the least
of a set of indexes (WellFoundedInduction), and the removal keeps the others, each once
(KeepItems).

**LastSeenProofs.** CoherenceKept, KnownHostsReported and AddressesLead, each until the
gaps its property names, from `OpInv` (what the place of a process tells of its
operation), `NoOverlap` (whoever removes `Meets` no other operation: no key and no
address is common to the two), `QualityInv` (the quality is written before the key and
removed after it), `ReverseInv` (an address leads to a key with an entry, or is about to
be removed; a removal past its checks knows that no other address leads to its key) and
`ForwardInv` (the same from the keys to the addresses, where the address may also be about
to be written).

**DBHandlesProofs.** UsersHaveEnvironment: the reference count is the number of users,
and one more for a user that exit() interrupted (`CountInv`, with the lemmas on the
cardinality of `Users`), whoever is past LockHandle has the mutex (`MutexInv`), and a
positive count means an open environment (`EnvInv`). NobodyAfterSweep: a handle that is
not initialised has no user and is locked by the thread that exits (`NameInv`), and
CloseAllDBExit leaves no other one behind (`SweepInv`). LocksRemovedFirst: `HookInv`,
the order of registration.

**PolicyReloadProofs.** TypeCorrect, MarkIsTrue, LoadingSurvived, NothingMissed. None
of the properties is inductive alone. The mark is true because a process that writes
it has had the policy checked that is there, or is in `changed` (CheckedIsThere), and
only such a process says so (NotYetOk). Loading is survived because of that and, for
a process that trusts the mark it read, TrustedIsGood. No policy is missed because a
daemon never notes a mark that is still to come (NotedIsPast), so that one with
another policy than the one there has last noted a mark from before the change
(BehindIsOlder).

**RemoteCopyProofs**, of RemoteCopy. DestinationKept: from the last block to the second
rename the new file is there, and a destination that is not is aside, with `backupok`
set (`KeepInv`). AnswersToTheirRequests rests on `PlaceInv`, which says what is in the
connection at each place of the agent: nothing where it waits for nothing, both answers
to STAT or the second, one for MD5, and for GET the request, a refusal that is no
longer than the file (`Refused`), or records of which each ends at a position of the
file (`Transfer`), the last one where the server is or at the size that STAT gave. The
step that reads a part of a record moves all these positions. CopiesWhole adds that the
records and what was read are of one version (`OfVersion`) and that the old and new
files are whole (`WholeInv`).

**RemoteCopyProofs**, of ConnCache. OneUser and RightConnection, under the hypothesis
`None \notin Nat`. The invariant adds to BusyMeansOneUser that a copy has a connection of
the cache exactly while it copies; that a least index exists among those found is the
well-foundedness of Nat (WellFoundedInduction). ConnCache is an instance there because
its run is about the flags only.

Only model-checked: everything under fairness (WaitersMoveOn, KillReturns, Returns,
Stops, SweepEnds, DaemonsFollow), since TLAPS proves neither liveness under fairness
nor ENABLED; with it CriticalSection, whose only property is one of these. The gaps at
which the properties stop are part of the theorems: nothing is proved beyond them.

## Not modelled

- A lock database that cannot be opened or written (`locks.c:1056`: reads then say
  "no record", so every lock is granted); in DBHandles OpenDB may fail, but Locks
  does not follow it.
- Names of locks, the run log, values of the last-seen quality.
- Of a session: the handshake, authentication, access lists, and every request but
  STAT, MD5 and GET; the classic protocol with its encryption.
- Of a copy: directories, links, hard links, timestamped backups, dry runs.
- Of cgn-execd: the schedule, mailing, and fdopen failing in cf_popen_sh (which leaves the
  descriptor and the child).
- Of the policy: a file given with -f (its mark is written to `cf_promises_validated`
  but read from `validated_<file>`, `generic_agent.c:435` and 867), bootstrap, which
  goes on with an invalid policy, release ids; IsNewerFileTree returning "not newer" when a
  directory cannot be opened or a path is too long (`files_names.c:66-69`, 82-87).
- Call collect, which is empty in this edition; a mutex that cannot be locked.
- The parser, the evaluator and the promise types: sequential, mostly calls on the
  operating system; the monitor: floating-point arithmetic; the tools.

Behaviour that is visible in the models but no property speaks of, because nothing
in the repository promises otherwise or the code makes no attempt at it: a backup of
the lock database mixes two versions when an agent yields during the copy
(`locks.c:903`); start times count from boot, so a record that survives a reboot can
match a new process (`process_linux.c:128`; a boot is not part of Locks); with
overlapping sessions a new policy is never loaded (`cf-serverd-functions.c:763`; it
would take clients that leave); the assertion that SV.connectionlist is empty can
fail in a debug build (`cf-serverd-functions.c:330`); a connection served by the
main thread blocks everything else (`server.c:253`); SpawnConnection writes to NULL
when getsockname fails (`server.c:206`, the action SpawnCrashes); the server forks
after AcquireServerLock, so that its record names a process that is gone
(`cf-serverd-functions.c:834`).

## Plan

Done: Locks, PromiseLock, CriticalSection, LockBackup, GracefulTerminate, Server,
ConnCache, LastSeen, DBHandles, Execd, RemoteCopy, PolicyReload and the proofs above.
Left, in this order:

1. Abstract specifications of what LastSeen, DBHandles and the connection of RemoteCopy
   promise, with the refinements proved from the invariants above.
2. GracefulTerminate as the refinement of the kill in Locks; the server's fork after
   AcquireServerLock, a lock database that cannot be opened, and boots in Locks, where
   start times are relative to the boot.
3. The schedule loop of cgn-execd; persistent classes; the
   protocol handshake; encrypted copies of the classic protocol.
4. The copy-on-write list and the ring buffer against reference definitions.
