# FlashBackup Pro in TLA+

FlashBackup Pro copies a profile's source tree to a USB volume with an embedded
rsync, hashes both sides, and in move mode deletes the sources once every copy
is verified. Everything it does is recorded on the volume under `.flashbackup/`.
This directory holds TLA+ specifications of its core, TLC configurations that
check them on small instances, and TLAPS proofs of the main results for every
instance. Paths below are relative to the repository (`src/` is its root).

- [1. The system](#1-the-system): components, state, interaction, hard behaviour
- [2. The modules](#2-the-modules): how state and actions correspond to the code
- [3. The runs](#3-the-runs): questions, bounds, fairness, what they show
- [4. The proofs](#4-the-proofs)
- [5. Where code and comments disagree](#5-where-code-and-comments-disagree)
- [6. What is not modelled](#6-what-is-not-modelled)
- [7. The plan](#7-the-plan)

To check: `tlc -workers 2 -config BackupCrash.cfg MCBackupRun.tla`, and likewise
for each row of section 3; `tlapm BackupRunProofs.tla` and the other `*Proofs`.

## 1. The system

One binary, one process per command. Nothing is a server: processes meet only
on the volume (`.flashbackup/` and the copied files) and in the source tree.

| component | code | state it keeps | operations |
|---|---|---|---|
| run orchestration | `internal/runner` | phase results in memory: candidates, baseline signatures, per-file status and the counter of verified files, exit status | T0 preflight, T0+ enumerate, T1 transfer, T2 hash and compare, T3 delete sources, T4 finalize; the deferred Gzip and Release |
| audit stores | `internal/state` | `events.ndjson` (buffered, checkpointed once per phase), `manifest.ndjson.tmp.gz` then `manifest.ndjson.gz`, `runs.ndjson`, `deletion-log.ndjson` (fsync per line) | Append, Checkpoint, Gzip |
| command line | `cmd/flashbackup` | context, signal counter | DELETE prompt, signal handlers, exit codes |
| destination lock | `internal/preflight/lock` | `.flashbackup/lock`: a JSON file naming host, PID, start time, nonce | Acquire, Release |
| preflight gates | `internal/preflight` | none (an opened volume descriptor) | seven gates in order, VerifyVolumeUnchanged between phases |
| selection, paths | `internal/selection`, `internal/paths` | none | walk, NFC collision check, namespacing |
| rsync | `internal/rsync` | the extracted binary, a child process | Run, progress parser, EnsureExtracted |
| hash | `internal/hash` | none | StreamSHA256 under a context |
| verify | `internal/verify` | aggregate counters; `verifications/<id>/summary.json` and `results.ndjson` | resolveRunIDs, Load, Rehash, countExtras, writeSummaryFile |
| retention, status | `runner/t5_finalize.go`, `cmd/flashbackup/status.go` | `runs/` | pruneOldRunDirs; reading runs.ndjson |
| init, keys | `cmd/flashbackup/init.go`, `state/version.go`, `state/atomic.go` | `version.json` with the HMAC key | init, `--reset-keys`, WriteTmpThenRename |
| profiles | `internal/profiles` | `.flashbackup/profiles.json` | List, Get, Upsert, Delete |
| renderer, drives, help | `internal/plain`, `internal/drives`, `cmd/flashbackup/help.go` | none | output only |

Interaction. `runBackup` prompts, then calls `runner.Run`, which opens the
stores, calls `Preflight` (last gate: `lock.Acquire`), and runs the phases in
order on one goroutine. Phases hand each other results (T1Result to T2, T3Result
to T4), append to the stores, and call the renderer, whose errors are ignored.
`verify.Verify` takes the same lock. `init` and `profiles` take none. A context
is cancelled by the first SIGINT or SIGTERM; a second one calls `os.Exit`.

What is hard about it, and what makes each part correct:

- *A run against the world.* The operator edits or deletes sources while the run
  walks, copies, hashes and unlinks them; copies decay. A content must not be
  lost, and a source may go only when **every** copy is verified.
- *A run against its end.* Each append, checkpoint and system call may fail; the
  context may be cancelled at any step and then fails every later append; a
  second signal or a power loss ends the process between any two system calls.
  Every way out must give the lock back; what the audit files say must be true
  of the sources, in the order in which the files become durable.
- *Two processes.* Calls of Acquire interleave in the steps of opening, judging,
  removing and writing one small file; stale files of every kind exist.
- *A verification against partial failure.* Some runs, lines and files fail, the
  rest go on; the exit code and the records it leaves must not claim more than
  was seen, nor damage that is not there.
- *The exit code.* Scripts act on 0.
- *Long histories.* Run ids by host clock and random suffix; torn tails of an
  append-only log that later runs append to; directories of refused and crashed
  runs that count for retention; a destination that later runs overwrite. What
  `status` and `verify` conclude from all this must still be so.
- *No lock at all.* `init` and `profiles` replace whole files under a temporary
  name that every process shares, and may lose power at any point. Acknowledged
  changes must stay; manifests must verify under the key in the file.
- *Streams.* The source changes while it is walked; the list for rsync and its
  output go through two bounded pipes; the output is cut anywhere.

`PROJECT.json` lists every hazard at its line, with the properties that cover it.

## 2. The modules

| module | what it is |
|---|---|
| `AtomicMove` | abstract: what a move promises about source files. Choose, Validate, Commit (all or nothing), Unlink |
| `BackupRun` | one `backup` process, statement by statement where it matters, with its operator, volume and ends |
| `MCBackupRun` | sets of faults and symmetry for TLC |
| `BackupRunProofs` | RunInv, the gate, no loss, and that BackupRun implements AtomicMove |
| `BackupAuditProofs` | AuditInv: the lock, the log, the manifest, durable order, exit code 0 |
| `DestLock` | Acquire and Release of several invocations |
| `MCDestLock`, `DestLockProofs` | its instances and proofs |
| `VerifyRun` | one `verify` process |
| `MCVerifyRun`, `VerifyRunProofs` | its instances and proofs |
| `RunHistory` | many runs of one volume: directories, `runs.ndjson`, retention, `status`, `verify` |
| `MCRunHistory`, `RunHistoryProofs` | its instance and proofs |
| `Selection` | the walk of the source and the collision collector |
| `RsyncPipe` | one rsync: list, child process, output, progress parser |
| `Transfer`, `MCTransfer` | T0+ and T1 composed of the two, and their instance |
| `TransferProofs` | the proofs of the three |
| `AtomicWrite` | `WriteTmpThenRename` and its twin, over names, inodes and a disk; used by the next two |
| `ProfileStore`, `MCProfileStore`, `ProfileStoreProofs` | `profiles new`, `edit`, `delete`, their instance and proofs |
| `RsyncExtract` | `EnsureExtracted`, over names, inodes, the immutable flag and a disk |
| `VolumeInit`, `MCVolumeInit`, `VolumeInitProofs` | `init`, `--reset-keys` and the gates of runs, composed of AtomicWrite and RsyncExtract, with instance and proofs |

How they fit. `BackupRun` is the inside of one run. `RunHistory` keeps of a run
the steps that other runs can see, and takes the lock as excluding, which is
`DestLock`'s subject (section 5 says when it does not). `Transfer` is below
BackupRun: what is one step there (`Enumerate`) or three (rsync) is here an
action per entry, read or write. `VolumeInit` is before BackupRun: the gates that
need a key and a binary. A reader of a whole story goes VolumeInit, DestLock,
BackupRun with Transfer below it, RunHistory, VerifyRun.

### BackupRun

`pc` names the next step of the single goroutine: `t0…` T0, `t0p…` T0+, `t1…`
rsync, `t2…` hashing, `t3…` deletion, `t4…` finalize, then `unwind` (deferred
Gzip), `release` (deferred Release) and `exit`. A step ends where another actor,
a failure or a crash could make a difference: before each system call on a
source, a copy or an audit file. Loop bodies that touch two files (hash source,
hash copy, record; lstat, remove, log) are separate actions.

| variables | code |
|---|---|
| `candidates`, `baseline` | `T1Result.Candidates`, `Signatures` (size, mtime_ns) |
| `status`, `filesVerified` | `T3Result.PerFileStatus` and the counter the gate compares |
| `present`, `data`, `sig` | source tree: existence, content, signature |
| `dst`, `copied` | files in this machine's namespace on the volume |
| `lock` | held or free: what DestLock promises, without company |
| `manifest`, `entries` | absent, open, broken, renamed (promoted without fsync of the directory), sealed |
| `events`/`eventsSynced`, `runlog`/`runlogSynced` | lines written, and those that survive a power loss |
| `logFile`, `delLog` | the deletion log; each line is fsynced |
| `unlinked`, `lost`, `excused` | history variables only |

A content is a version number and its own SHA-256. An edit changes content and
signature, a stealth edit (size kept, mtime restored) only the content. `Rot`
turns a copy into `Garbage`. Every append may fail under `"io"`; under a
cancelled context it does fail, except where the code uses a fresh context
(`EmitAborted`: the abort records). `ReleaseLock` always removes the file: that
`os.Remove` may fail is in DestLock only.

Audit events are kept as a set of (phase, kind), since no property depends on
repetition; ordering is kept by `pc` and by the synced prefix. rsync is three
actions: it copies any file at any time until it exits or fails, and may have
copied some files when it fails. `Enumerate` is one step: a later edit is seen as
drift, an earlier one is part of the initial state; Transfer opens it up. Lines
cut short by a crash and what is appended behind them are RunHistory's.

### DestLock

One action per system call of `Acquire`. Files are named by who created them;
removal goes by path, reading and writing by the open file, which is what the
races turn on. `lag` is the recorded start time minus the one `ps` will report:
the code records the time of the *call of Acquire*, after codesign checks and the
prompt, and compares with five seconds of tolerance. `overlaps`, `alone` and
`faulted` are history variables that let properties say under what conditions
the lock excludes.

### VerifyRun

A manifest line is the content it records, or tampered, malformed or absent.
`load.Load` sets apart bad lines (`Tampered`, `Malformed`) and fails on an
unreadable manifest; `Rehash` goes through the entries one action per file, with
the context read where the code reads it; `CountExtras` keeps the code's reuse of
the variable `err`, which decides whether a cancelled run is reported as such.
`aggregate` is the `VerifyResult`, `summaries` the records on the volume.
`namespace` says whether this machine has its directory on the volume: a run makes
it before it copies, but the volume may come from another machine, or the operator
may have removed it, and then the walk for extras fails. The volume does not change while the process runs: it holds the lock (section 5 says
when that fails), and the operator's files are arbitrary to begin with.

### RunHistory

A run is its id, a number; ids are ordered as `sort.Strings` orders them. Under
the fault `"clock"` a later run may get a lower id: ids are minutes with a random
suffix, and clocks differ between machines. `pc[r]` is between two steps that
another run can see: the directory (made before the lock is taken), the lock, the
two lines of `runs.ndjson` with their checkpoints, what the destination holds
(`dst`), what the manifest attests (`hashed`), `pruneOldRunDirs` directory by
directory.

| variables | code |
|---|---|
| `log`, `torn`, `synced` | `runs.ndjson`: whole or unreadable lines, whether the last has no line feed, the fsynced prefix |
| `dirs`, `manifest`, `verifiedAt` | `runs/<RunID>`, its manifest, its newest `summary.json` |
| `doomed` | the slice `pruneOldRunDirs` works through |
| `saved`, `endAt`, `pruned`, `tears`, ... | history variables only |

`Written` is where O_APPEND matters: a line appended behind a torn one becomes
part of it, and the reader (`Entries`) drops both. `IsLastRun`, `IsLastVerify`
are what `status` picks. Simplifications: ids are unique, a verification is one
step and its time stamp larger than the last, directories and renamed manifests
survive a power loss (BackupRun has the latter in detail).

### Selection, RsyncPipe, Transfer

`Selection` is `filepath.WalkDir` with the callback of `selection.Walk`. `todo` has
the entries read and not yet handled, each with the type its directory was read
with; the next is the first in the order of the walk, a directory before what is in
it. Meanwhile programs create, remove and replace what is at a path. `Add` is
`candidateCollector.add`. What the patterns match, and which path is whose normal
form, are constants. A directory changes only while it is empty, and no symbolic link
takes its place between the callback and the reading, which `os.ReadDir` would follow.

`RsyncPipe` is one invocation: `Feed` is the goroutine that writes the list,
`Drain` one read of os/exec's goroutine with the parser's `Write`, of any number
of pieces. A line is two pieces and a terminator, so a cut may fall within a line
and before its end. `Looks` and `Shape` are the classification of `handleLine`; a
name may be plain, look like a line of the summary, like progress or like the last
line of a file, or begin with a blank otherwise. `DrainFails` is a `Write` whose
`PassThrough`, `rsync.log`, returns an error: the chunk is parsed, and then os/exec
stops reading and closes the pipe (`copying`). What rsync prints from then on stays
in `stdout` for the books, though nobody will read it; rsync may go on or give up, and
`Return` yields -1 where it would have yielded 0. rsync itself is external; it is one
thread that does not read while it waits to print, which is the worst for deadlock.

`Transfer` starts the second with the candidates of the first, under one context.

### AtomicWrite, ProfileStore

`AtomicWrite` is open with `O_TRUNC`, write, fsync and close, rename, fsync of the
directory, over two names and the inodes they stand for: a second writer opens,
truncates and renames the file of the first. `onDisk` is what the path may stand
for after a power loss. `ProfileStore` uses it for `profiles.json`: load, change in
memory, save; `new` and `edit` have looked the profile up before the operator's
editor, so any time may pass. The text of a profile is the invocation that wrote
it. `raced` is history: two invocations have been between load and rename at
once. What each property promises, it promises until then; that it is lost
afterwards is section 5.

### RsyncExtract, VolumeInit

`RsyncExtract` has the steps of `EnsureExtracted`: compare the hash in place, remove
the temporary file, create, write, hash once more by name, rename, `chflags uchg`.
`VolumeInit` puts it together with `version.json` (AtomicWrite again) in the order
of `runInit` and of preflight gates 7 to 9. A key is the init that drew it. `era`
counts resets (and keys a power loss took back), so that "verifies under the key
in the file" can be said of the manifests of this era only. `raced`, `binRaced`:
two saves, two extractions have overlapped.

## 3. The runs

| run | configuration | bounds | shows |
|---|---|---|---|
| interference | `BackupInterference` | 2 files, 1 edit each, faults edit, stealth, rot, cancel | the gate, no loss but in named windows, exit 0 means verified, implements AtomicMove |
| crash | `BackupCrash` | 2 files, faults io, cancel, kill, power; fairness | log and tree agree but for one file, durable order of the audit files, writes under the lock, lock given back |
| lock | `DestLock` | 3 invocations, all leftovers, lags 5 and 6 s, all faults | exclusion without overlap and lateness, a lone invocation always gets in, no orphan after an orderly exit |
| verify | `Verify` | 2 runs, 2 files, 3 contents of which 2 have the same size, all line kinds, the namespace there or not, faults io, cancel, kill | true records, believable 0, without a fault the exact exit code, whole batch |
| history | `RunHistory` | 3 runs, limit 1, 1 tear or power loss, 2 verifications, all faults; fairness | durable lines stay, a tear costs one record, `status` tells the last run and verification, retention spares the young and the current, a manifest attests its own run, lock given back |
| transfer | `Transfer` | 7 paths (three twins, a directory, an excluded file that stays, one each like a summary, like progress and like a last line), 2 changes, pipes of 2, all faults, that of `rsync.log` among them; fairness | the selection is exact, progress goes to the right file, the count is never too high and after a success exact, the phase returns |
| profiles | `ProfileStore` | 3 invocations, 2 profiles, 5 inodes, all faults | whole document, no lost update, an acknowledged change stays, until two saves overlap |
| init | `VolumeInit` | 3 processes, 1 or 2 of them runs, at most 1 reset, 5 and 4 inodes, all faults | manifests verify, an init that succeeded can be used, only the embedded binary runs, until two saves or extractions overlap |
| exit_zero | `BackupExitZero` | as above, one kind of fault | section 5 |
| lock_race, lock_start_time | `DestLock*` | as above | section 5 |
| verify_exit_zero | `VerifyExitZero` | as verify | section 5 |

Why the bounds are enough to be interesting:

- *Two files.* The gate is about all against some, the loops about the current,
  the earlier and the later file, the log about one unlogged file among others.
  Two distinguish all of them. Files are interchangeable (symmetry, where no
  liveness is checked). Contents of the volume before the run are arbitrary:
  absent, garbage or already equal, so that a copy may be right by accident.
- *MaxVersion = 1* allows one edit of each file at every point of the run: each
  drift check compares two values, so a second edit repeats the first. In the
  crash run it is 0: there the audit files are at stake, not the contents, and
  the interference run keeps `io` and `kill` out for the same reason.
  `NoUnexcusedLoss` under power loss and I/O errors is covered by the proof.
- *Three invocations*: a holder, one that judges, and a third that acquires in
  between; the races that need two are there as well. Lags 5 and 6 are the two
  sides of the tolerance.
- *Two runs*: latest against earlier, one failing before or after a clean one.
  `OneContent` lets all sound lines record the same content, while the volume may
  hold any: the four ways in which a file can differ remain.
- *Three runs of one volume* with limit 1: one to remove, one that removes, one
  that begins, is refused or dies in between. Limits above 1 only shift the count,
  and the proofs are for any limit. One tear: the property counts what each costs.
- *Three twins* tell "a second takes the first back" from every rule that counts to
  two. Two changes: a path that goes and comes, or a directory made a file after
  its entry was read. Pipes of 2 are smaller than one line (3 pieces) and than the
  list (up to 3 names), so both fill up.
- *Three invocations of profiles*, one editing while two others save; five inodes are
  more than names and writers can hold, and the choice of a free one is immaterial.
- `MCSpec` of VolumeInit leaves out histories without a run (nothing to verify) and
  with a second reset (another era like the first). `AtStake` stops at states in
  which both kinds of save have overlapped: the properties promise nothing there.

Views. `MCProfileStore` and `MCVolumeInit` leave out of a state what no later step
and no property reads (a document that was saved, the content of a free inode, the
code of an ended process except whether it is 0); `MCTransfer` what the walk has
left beside the candidates, once the transfer begins, the parser's events that carry
the right name, and all of the two counts but their difference. Two states with the same view
have the same continuations, up to such differences.

Fairness. Where only safety is at stake there is none. `LockReleased` of BackupRun needs
it: `FairSpec` assumes weak fairness of
`Runner`, the single goroutine of a run. It never waits for a lock or a channel,
only for system calls and for rsync, which is assumed to exit (it is killed by the
context on cancellation). Nothing is assumed of the environment; in particular
the DELETE prompt, which may wait for ever, is an environment step before the
lock is taken. `LockGivenBack` of RunHistory assumes the same of each run once it
has the lock. `TransferReturns` assumes weak fairness of the walk, of each of the
two goroutines (the Go scheduler and the operating system go on with a thread that
can go on), of rsync as long as it can read or print, and of `Return`; nothing of
`RsyncStops` or `DrainFails`, so that the phase ends without a kill and without an
error too. The deadlock it excludes is the one that `wrapper.go:106-109` names as the
reason for the goroutine. Deadlock is not checked, because each
model ends: processes exit.

## 4. The proofs

What is assumed of the constants is named in the modules and evaluated by TLC on
every instance. It only says what the constants stand for:

- sets of files and of runs are finite where something is counted; bounds are
  naturals, lags integers, sizes and run ids naturals; `Faults` are kinds of fault;
- markers (`NoFile`, `NoPath`, `Root`, `Garbled`, `NoInode`, `Torn`, ...) are none of
  the values they stand beside;
- `Limit` is at least 1 (the default is used for less), and a pipe holds something;
- a volume has a free inode to begin with (`Inodes # {}`, `BinInodes # {}`);
- the walk has an `Order` that lists each path once and a directory before what is
  in it, as `filepath.WalkDir` goes; `Parent` and `NFC` are functions on paths, with
  no other condition: `NFC` need not even be idempotent.

Everything below holds for every such instance, with all faults together.

**BackupRun.** `AtomicGate` and `NoUnexcusedLoss` are not inductive. `RunInv` adds

- `LoopOK`: T2 and T3 work on a candidate, and the verdict recorded has the kind
  of the phase; types depend on it;
- `GateOK`: the counter equals the number of verified candidates at every step
  (finite cardinality, `RecordCounts`), and the deletion log exists only behind an
  open gate; the statuses do not change after that;
- `CopyOK`: a verified file that has not drifted since the walk equals its copy or
  is excused. This is the argument that carries the comparison made in T2 across
  an arbitrary time to the unlink in T3, through the Lstat of T3.

Each part is preserved by each action given the parts before it (`TypeStep`,
`LoopStep`, `GateStep`, `CopyStep`). From `RunInv`: `GateCorrect`,
`NothingLost`, `TypeCorrect`; and `MoveImplemented`: with `chosen <- candidates`,
`validated <- Verified`, `committed <- logFile = "open"`, every step of BackupRun
is a step of AtomicMove or a stutter (`MoveStep`).

**The audit of a run.** The crash run's properties are about the order of things, and
`pc` alone does not say what is behind it. `AuditInv` says so, in parts: `LockOK` (the
lock is held from the last gate to the last defer), `DeletionLogOK` (between two files
the log and the tree agree; within one, they differ by the current file),
`ManifestOK` (a line for each file with a status, sealed before "finished"),
`RunlogOK` ("finished" is on the medium before the run is announced as finished),
`PhasesOK` (a phase's completion is checkpointed before the next begins) and `ExitOK`
(the status is what the gate said). The run has 57 actions, of which each part is
touched by two or three: `StepEffects` and `EventEffects` say once what a step may do
to the files and how a run comes to each place, and the parts are proved from those.
Theorems: `AuditCorrect`, `DeletionsLogged`, `FinishedCorrect`, `FinishDurable`,
`PhasesDurable`, `ExitZeroCorrect`, and the action property `LockCoversWrites`.

**DestLock.** `LockInv` consists of `OneInside` (without overlap one invocation is
inside Acquire), `FileIsHolders` (then the file at the path is the holder's and
complete, and whoever judges a file judges another one), `CallOK`, `AloneOK` and
`LockFileHasOwner`. Theorems: `ExclusionCorrect`, `AloneCorrect`, `OwnerCorrect`.

**VerifyRun.** `VerifyInv` consists of `RunOK` (the results so far are those of
entries of the run at hand, a good one matches, a bad one does not unless a
cancellation or a fault intervened), `BatchOK` (as long as the aggregate is ok,
every run that is done is intact, or the process was cancelled), `SummaryIsTrue`, a
property of its own, `ExactOK` (undisturbed, the aggregate is ok exactly as long as
every run that is done is `Sound`, and at the end it is `ExpectedStatus`;
`StatusIsExact` is the step from the results to the run, both ways) and `ReachOK`
(with `--all`, each run that can be loaded has its record or is still to come).
`StillMeans` says once that no step changes what the properties say of the volume.
Theorems: `VerifyInvariantCorrect`, `OkCorrect`, `ExitCodeCorrect`,
`BatchReachesAllCorrect`.

**RunHistory.** The invariant `HistoryInv` has seven parts: `TypeOK`; `LockOK` (who is
between Lock and Unlock holds the lock, who has begun has left `idle`); `LogOK` (a
torn line is never an fsynced one, no writer is between append and checkpoint while
the log is torn, and readable "finished" lines are in the order in which their runs
finished); `PruneOK` (whatever is doomed or pruned has `Limit` younger ids);
`ContentOK` (from T1 on the destination is the holder's, so what T2 hashes is its
own); `VerifyOK`; `TearsOK` (each tear has cost one record, or will cost the one that
joins the torn line). Each is preserved given those before it. Three arguments carry
it: what a write does to the log is said once (`WrittenFact`, `CutFact`, then
`WritersOfLog`, `LinesStep`), and retention by counting (`OlderFact`: a set with
`Limit` younger directories has `Limit` younger runs; `BegunStep`, `OlderStays`: runs
only ever begin), and the price of a tear, again by counting (`RecordSteps`: how a
record is begun, saved and lost; `CountFact`: one more element, one more tear;
`LostStep`). Theorems: `HistoryIsInvariant`, `ManifestsAreTheirOwn`,
`YoungestAreSpared`, `LastVerifyIsTheNewest`, `LastRunIsTheLastToFinish`, `TornLinesCostOneEach`, and two
action properties, `HolderHasItsDirectory` and `DurableLinesDoStay`.

**Selection.** `SelectionInv` is the types, `CollectorOK` (a normal form has a
candidate exactly if one raw path of it was seen) and `WalkOK`, which is what the
walk still owes: there is a set `below` of paths whose directories are not yet read
(`Covered`), and whatever was left alone is handled, is among the entries in `todo`,
or is in `below`. An entry read passes from `below` to `todo`; a change takes only
what it changes out of `Alone` (`ChangeFact`). At the end `todo` is empty, so the
parent of every path in `below` is in it too, and `TreeFact` (directories come first
in `Order`; take the first of the set) leaves nothing. Theorems: `SelectionCorrect`,
`SelectionIsExactCorrect`.

**The pipe.** `PipeInv` is about one stream: what the parser has buffered, what is in
the pipe and what rsync has yet to print. `StreamOK` says that the stream is made of
whole lines, begun at a line's beginning, that progress stands behind the name of its
file, and that the files counted so far and the last lines in the stream are together
the files completed, plus the names printed that look like such a line (`Countable`,
`Adds`). After an error of `rsync.log` the stream goes on beyond what will be read, so
that the count can only be too low (`BoundFact`), and T1 cannot succeed. It does not matter where the stream is cut, since only
its beginning moves: one piece more for the parser (`ScanFact`, with `NextLineFact` for
what is left behind a line, and `HandleFact` for what `handleLine` makes of it), many
pieces at once (`WriteFact`), printing (`PrintedFact`, `PrintsFact`), the end
(`FlushFact`: at most the beginning of one line is left, and nothing if rsync was not
stopped). Together with the walk this is `TransferCorrect`, and from it
`ProgressIsExactCorrect`: for any list, any names (the kinds of names may even
overlap, only a plain one is of no other kind), any size of the pipes.
`drainLines` and `candidates` are loops; the models have them as recursive functions.
That such a function exists, and what holds of each of its values, is proved by the
least place where it would fail (`LeastFact`, `DrainFact`, `CandidatesFact`), which
needs no induction theorem.

**ProfileStore.** `StoreInv`: `TypeOK`, `WritersAreOpen`, and until two saves overlap
`SavesAreApart` (who saves is alone; the temporary file has what its step says, and
is not what a power loss may bring back), `DiskIsWhole` (every file that a power loss
may leave is one of the documents the renames have gone through) and `AcksAreSafe`
(every such document has what was acknowledged, or what another change of the same
profile made of it). `LoadedIsSaved` joins path and history; `ApartStep`, `AcksStep`
are the steps, `AckEffects` says which of them make, acknowledge or undo a change.
Theorems: `StoreCorrect`, `DocumentAlwaysWhole`, `NoUpdateLost`, `AcknowledgedCorrect`.

**VolumeInit.** `VolumeInv`: types and roles, and until two saves overlap
`SavesAreApart`, `KeysAreSafe` (no one has another key of this era than the file, on
the medium too), until two extractions overlap `BinaryIsSafe` (what is at the binary's
path or immutable was hashed). `KeysQuiet` and `BinaryQuiet` dispose of the steps that
touch neither; `KeysStep` and `BinaryStep` go through the others. Theorems:
`VolumeCorrect`, `ManifestsAlwaysVerify`, `InitLeavesUsable`, `EmbeddedBinaryRuns`.

Only model-checked: `LockReleased`, `LockGivenBack` and `TransferReturns`, since
liveness under fairness is beyond the prover, and the four counterexamples of
section 5, which are no theorems. Every other property of the runs is one.

## 5. Where code and comments disagree

The first four are runs that end in a counterexample.

- `exit_zero` (`internal/runner/runner.go:358`): the exit status is `ok` before
  finalize begins and is returned although finalize fails, so exit code 0 does not
  mean that the run is on record as finished.
- `lock_race` (`preflight/lock/lock.go:157`): a contender that reads the lock file
  before its JSON is written judges it corrupt and removes a live lock.
- `lock_start_time` (`lock.go:112`): a holder that reached Acquire more than five
  seconds after its start is taken for a recycled PID by every later invocation.
  `OrderlyExclusion` states what remains true, and is proved.
- `verify_exit_zero` (`internal/verify/verify.go:258`): a verification cancelled
  before its first run returns `ok`, hence exit code 0, with nothing read. A second
  way to the same end: with `--check-extras`, `verify.go:390` overwrites the error
  of a cancelled rehash, and the partial run counts as complete. `OkIsIntact`
  states what remains true (0 is believable without a cancellation), and is proved.

Met while modelling, and not stated as runs:

- `runner.go:348`: failed deletions do not affect the exit status. After a power
  loss between an unlink and its log line the deletion log lacks that file, one at
  most (`AtMostOneUnlogged`). A file whose hashing Ctrl-C interrupts is neither
  recorded nor followed by `phase_aborted` (`t3_hash_compare.go:244`).
- Orphan finalization is promised by the design document and not implemented; the
  repository's README names it as a gap. A crashed run has a "started" line alone,
  and not even that if it was appended to a torn tail.
- `t5_finalize.go:412-414` and `status_helpers.go:85-89` take the order of ids for
  the order of runs. Within a minute, after a slow preflight or with two clocks it is
  not: `status` follows the log, retention and `verify` follow the ids.
- `verify` without an id takes the lexically last directory. It may be of a refused
  run, which has no manifest, or not of the newest run.
- Retention counts the directories of refused and crashed runs. Because the current
  run is skipped, `Limit` + 1 directories may remain (comment: `t5_finalize.go:421`).
- A verification of an old run after a newer one has written finds damage, truly:
  `ManifestsAreOwn` says that nothing else makes it do so.
- Two overlapping `profiles` saves lose one change, or leave a document that does not
  parse (both write one temporary file). `new` takes an unreadable store for "no such
  profile" until it saves (`profiles.go:218`); `delete` reports every error of the
  store as usage, which its comment grants.
- Two overlapping plain `init`s both find no `version.json`, and the second replaces
  the key of the first without `--reset-keys`. A reset while a run holds the old key
  leaves a manifest that will not verify. Overlapping extractions can rename an
  unverified file into place and make it immutable.
- `T1Result.CollidingPaths` and `Skipped` are "for the run summary"
  (`t1_enumerate.go:66`), and nothing reads them: files with colliding names are not
  backed up, nobody is told, and the exit code is 0.
- With `--check-extras`, a walk that fails makes an intact run end in an error: exit
  code 2, or 1 with `--all`. The comments call this failure "non-fatal" and a
  "soft-fail" (`verify.go:391-396`, `733-736`), but `err` keeps it (`verify.go:390`,
  `445`). No I/O error is needed: it is enough that the volume has no directory of this
  host and user. `ExitCodeIsExact` says what comes out, not what is promised. That a run
  directory without a manifest makes `--all` exit with 1 is intended (`verify.go:286-288`).
- An error of `rsync.log` ends the parsing with the chunk at hand: os/exec stops at the
  error `Write` returns, although `progress.go:107-109` says that it "does NOT stop
  parsing". rsync's own success becomes exit code -1, so T1 aborts; after 23 files may
  be uncounted.
- A name that begins with `sent ` or `total size `, or that looks like a progress line,
  is not taken for a name: its progress goes under the previous one, or none. One that
  looks like the *last* line of a file (blank-led, with the `xfr#` tail; it is tried
  first, `progress.go:182`) is counted as a file. Apart from those names the count is
  right (`ProgressIsExact`).

## 6. What is not modelled

- Finalizing runs that an earlier crash left open: the repository's README names it
  as a known gap, and no code does it.
- The single preflight gates (statfs, diskutil, codesign, symlink checks): read-only
  system I/O with two outcomes, which are modelled.
- Renderer, drives, help: they change no state. Fault-injection hooks exist in test
  builds only.
- The five-second window in which a second signal counts: any later signal may kill
  in the model, which allows more than the code does.
- The HMAC and its canonical encoding: in VerifyRun a line is sound or tampered.
- The numbers of a progress line (bytes, speed, time left): they are displayed. So are
  the sizes and names that `status`, `profiles list` and `validate` print.
- `DeletionStatus` of a manifest entry: no code fills it in.
- Two machines that share a volume: their lock files name another host and are
  judged stale by design (`"foreign"` in DestLock); their namespaces are disjoint.

## 7. The plan

In this order; all but the last row are done.

1. `AtomicMove`, `BackupRun` and its proofs: the operator's files are at stake.
2. `DestLock` and its proofs: every other argument assumes the lock.
3. `VerifyRun` and its proofs: what the operator learns afterwards.
4. `RunHistory` and its proofs: many runs of one volume.
5. `AtomicWrite` with `ProfileStore`; `RsyncExtract` with `VolumeInit`: files that are
   replaced without a lock.
6. `Selection`, `RsyncPipe`, `Transfer`: the streams below T0+ and T1.
7. Left: the canonical encoding under the HMAC as an injection; the five-second window
   of the second signal, with a clock; BackupRun, VerifyRun and DestLock on one volume.

Every safety property of the runs has its theorem. Still worth proving: that
BackupRun implements what RunHistory assumes of a run, once the two share their
variables; and that `Transfer` implements the step `Enumerate` of BackupRun.
