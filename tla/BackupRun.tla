----------------------------- MODULE BackupRun ------------------------------
(***************************************************************************)
(* One `flashbackup backup` process, from the DELETE prompt to its exit    *)
(* code: runner.Run and its phases T0, T0+, T1, T2, T3 and T4.  Beside the *)
(* process the model has its operator (who presses Ctrl-C, and edits or    *)
(* removes sources while the run works on them), the USB volume (whose     *)
(* files may rot), and the ways a process ends early: it is killed (the    *)
(* second Ctrl-C calls os.Exit), or the machine loses power.               *)
(*                                                                         *)
(* A file's content is a version number.  Its (size, mtime_ns) signature   *)
(* is another: an edit changes both, a stealth edit (same size, mtime      *)
(* restored) only the first.  SHA-256 digests are the contents themselves. *)
(*                                                                         *)
(* Every append to an audit file and every system call may fail once "io"  *)
(* is among the Faults (volume unplugged, disk full); once the context is  *)
(* cancelled every append and checkpoint under that context does fail.     *)
(***************************************************************************)
EXTENDS Integers, FiniteSets

CONSTANTS
  Files,        \* the files of the profile's source tree
  NoFile,       \* "no current file"
  MaxVersion,   \* bound: how often the operator edits one file
  Faults        \* what the environment may do

FaultKinds ==
  {"io", "edit", "stealth", "rot", "cancel", "kill", "power"}

ASSUME FilesAssumption == IsFiniteSet(Files) /\ NoFile \notin Files
ASSUME BoundAssumption == MaxVersion \in Nat
ASSUME FaultsAssumption == Faults \subseteq FaultKinds

Version == 0..MaxVersion
Nothing == -1                      \* no file at the destination
Garbage == -2                      \* a destination file with other content

Phase == {"T0", "T0+", "T1", "T2", "T3", "T4"}
EventKind == {"phase_started", "phase_completed", "phase_aborted",
              "atomic_gate_blocked", "run_finished"}
FileStatus == {"verified", "hash_mismatch", "source_mutated",
               "not_transferred", "source_unreadable", "dest_unreadable"}
DeletionStatus == {"deleted", "skipped_mutated",
                   "failed_immutable", "failed_permission"}
ExitStatus == {"ok", "partial", "copy_only_aborted_delete",
               "preflight_failed"}
None == "none"                     \* the empty string of the code

VARIABLES
  \* the process
  pc, mode, cancelled,
  candidates, baseline,            \* T1Result: Candidates and Signatures
  cur, verdict, digest,            \* the file T2 or T3 is working on
  status, filesVerified,           \* T3Result: PerFileStatus, FilesVerified
  exitStatus, exitCode,
  \* the source tree
  present, data, sig,
  \* the USB volume
  dst, copied,                     \* file contents; files rsync wrote
  lock,
  manifest, entries,               \* manifest.ndjson(.tmp).gz and its lines
  events, eventsSynced,            \* events.ndjson, and what is fsynced of it
  runlog, runlogSynced,            \* runs.ndjson, likewise
  logFile, delLog,                 \* deletion-log.ndjson, fsynced per line
  \* history
  unlinked,                        \* files os.Remove removed
  lost,                            \* the content each of them had
  excused                          \* files changed where no check can see it

walkVars   == <<candidates, baseline>>
loopVars   == <<cur, verdict, digest>>
resultVars == <<status, filesVerified>>
outVars    == <<exitStatus, exitCode>>
worldVars  == <<present, data, sig, dst, copied, unlinked, lost,
                excused>>
maniVars   == <<manifest, entries>>
eventVars  == <<events, eventsSynced>>
runlogVars == <<runlog, runlogSynced>>
delVars    == <<logFile, delLog>>
vars == <<pc, mode, cancelled, walkVars, loopVars, resultVars, outVars,
          worldVars, lock, maniVars, eventVars, runlogVars, delVars>>

Ended == {"exited", "dead"}
BeforeWalk == {"prompt", "run", "t0", "t0_gates", "t0_locked", "t0_started",
  "t0_sync", "setup", "t0p", "t0p_walk"}
Phases == {"t0p_sync", "t1", "t1_rsync", "t1_close", "t1_sync", "t2",
  "t2_loop", "t2_source", "t2_dest", "t2_record", "t2_sync", "t3", "t3_gate",
  "t3_blocked", "t3_loop", "t3_unlink", "t3_log", "t3_sync", "resolve", "t4",
  "t4_gzip", "t4_finished", "t4_checkpoint", "t4_close", "t4_last", "t4_sync"}
Unwinding == {"unwind", "release", "exit"}
PC == Ended \cup BeforeWalk \cup Phases \cup Unwinding

Init ==
  /\ pc \in {"prompt", "run"}      \* with and without --move
  /\ mode = "copy" /\ cancelled = FALSE
  /\ candidates = {} /\ baseline = [f \in Files |-> 0]
  /\ cur = NoFile /\ verdict = None /\ digest = 0
  /\ status = [f \in Files |-> None] /\ filesVerified = 0
  /\ exitStatus = None /\ exitCode = -1
  /\ present \in SUBSET Files
  /\ data = [f \in Files |-> 0] /\ sig = [f \in Files |-> 0]
  /\ dst \in [Files -> {Nothing, Garbage, 0}] /\ copied = {}
  /\ lock = "free"
  /\ manifest = "absent" /\ entries = {}
  /\ events = {} /\ eventsSynced = {}
  /\ runlog = {} /\ runlogSynced = {}
  /\ logFile = "absent" /\ delLog = [f \in Files |-> None]
  /\ unlinked = {} /\ lost = [f \in Files |-> 0]
  /\ excused = {}

-----------------------------------------------------------------------------
(* The audit store, and the ways a phase returns an error.                 *)

Live == ~cancelled                       \* ctx.Err() = nil
MayFail == cancelled \/ "io" \in Faults

Goto(from, to) == pc = from /\ pc' = to

Emit(p, kind) == events' = events \cup {<<p, kind>>}

\* phase_aborted and a checkpoint, both best-effort, under a context of their
\* own when ctx is cancelled.
EmitAborted(p) ==
  /\ \/ Emit(p, "phase_aborted")
     \/ "io" \in Faults /\ UNCHANGED events
  /\ \/ eventsSynced' = events'
     \/ "io" \in Faults /\ UNCHANGED eventsSynced

\* An error return without phase_aborted: an Append or a Checkpoint of the
\* phase itself failed, and at most a checkpoint is still tried.
ReturnError ==
  /\ pc' = "unwind"
  /\ eventsSynced' \in {events, eventsSynced}
  /\ UNCHANGED <<events, exitStatus, exitCode>>

\* runT1Abort and its siblings.
AbortPhase(p) ==
  /\ pc' = "unwind"
  /\ EmitAborted(p)
  /\ UNCHANGED <<exitStatus, exitCode>>

\* EventStore.Append; without it the phase does not go on.
AppendEvent(p, kind, next) ==
  \/ /\ Live /\ pc' = next
     /\ Emit(p, kind)
     /\ UNCHANGED <<eventsSynced, outVars>>
  \/ MayFail /\ ReturnError

-----------------------------------------------------------------------------
(* cmd/flashbackup: the DELETE prompt of --move, shown before runner.Run.  *)

ConfirmDelete ==
  /\ Goto("prompt", "run")
  /\ mode' = "move"
  /\ UNCHANGED <<cancelled, walkVars, loopVars, resultVars, outVars,
       worldVars, lock, maniVars, eventVars, runlogVars, delVars>>

\* Anything but DELETE exits 2; a closed stdin or a context that is already
\* cancelled exits 1.
DeclineDelete ==
  /\ Goto("prompt", "exited")
  /\ exitCode' \in {1, 2}
  /\ UNCHANGED <<mode, cancelled, walkVars, loopVars, resultVars, exitStatus,
       worldVars, lock, maniVars, eventVars, runlogVars, delVars>>

-----------------------------------------------------------------------------
(* runner.Run up to T0, and phase T0: preflight.                           *)

\* Every error up to the end of T0 is preflight_failed; what T0 acquired it
\* has released, and runner.Run has only its two log files to close.
FailPreflight ==
  /\ pc' = "exit"
  /\ exitStatus' = "preflight_failed"
  /\ lock' = "free"
  /\ UNCHANGED <<mode, cancelled, walkVars, loopVars, resultVars, exitCode,
       worldVars, maniVars, delVars>>

\* Make the run's directory and open events.ndjson and runs.ndjson.
OpenStores ==
  /\ pc = "run"
  /\ \/ /\ pc' = "t0"
        /\ UNCHANGED <<outVars, mode, cancelled, walkVars, loopVars,
             resultVars, worldVars, lock, maniVars, delVars>>
     \/ "io" \in Faults /\ FailPreflight
  /\ UNCHANGED <<eventVars, runlogVars>>

PreflightBegin ==
  /\ pc = "t0"
  /\ \/ /\ Live /\ pc' = "t0_gates"
        /\ Emit("T0", "phase_started")
        /\ UNCHANGED <<outVars, mode, cancelled, walkVars, loopVars,
             resultVars, worldVars, lock, maniVars, delVars>>
     \/ MayFail /\ FailPreflight /\ UNCHANGED events
  /\ UNCHANGED <<eventsSynced, runlogVars>>

\* All nine gates pass, and this process holds the destination's lock.
PreflightPass ==
  /\ Goto("t0_gates", "t0_locked")
  /\ lock' = "held"
  /\ UNCHANGED <<mode, cancelled, walkVars, loopVars, resultVars, outVars,
       worldVars, maniVars, eventVars, runlogVars, delVars>>

\* Some gate refuses (lock held elsewhere, wrong filesystem, no init, ...).
PreflightRefuse ==
  /\ pc = "t0_gates"
  /\ FailPreflight
  /\ EmitAborted("T0")
  /\ UNCHANGED runlogVars

\* The run's "started" line in runs.ndjson.
AppendStarted ==
  /\ pc = "t0_locked"
  /\ \/ /\ Live /\ pc' = "t0_started"
        /\ runlog' = runlog \cup {"started"}
        /\ UNCHANGED <<outVars, mode, cancelled, walkVars, loopVars,
             resultVars, worldVars, lock, maniVars, delVars>>
     \/ MayFail /\ FailPreflight /\ UNCHANGED runlog
  /\ UNCHANGED <<eventVars, runlogSynced>>

PreflightComplete ==
  /\ pc = "t0_started"
  /\ \/ /\ Live /\ pc' = "t0_sync"
        /\ Emit("T0", "phase_completed")
        /\ UNCHANGED <<outVars, mode, cancelled, walkVars, loopVars,
             resultVars, worldVars, lock, maniVars, delVars>>
     \/ MayFail /\ FailPreflight /\ UNCHANGED events
  /\ UNCHANGED <<eventsSynced, runlogVars>>

\* Checkpoint events.ndjson, then runs.ndjson.
PreflightCheckpoint ==
  /\ pc = "t0_sync"
  /\ \/ /\ Live /\ pc' = "setup"
        /\ eventsSynced' = events /\ runlogSynced' = runlog
        /\ UNCHANGED <<outVars, mode, cancelled, walkVars, loopVars,
             resultVars, worldVars, lock, maniVars, delVars>>
     \/ /\ MayFail /\ FailPreflight
        /\ eventsSynced' \in {events, eventsSynced}
        /\ UNCHANGED runlogSynced
  /\ UNCHANGED <<events, runlog>>

\* Open the manifest and make the namespaced destination directory.
OpenManifest ==
  /\ pc = "setup"
  /\ \/ pc' = "t0p" /\ manifest' = "open" /\ UNCHANGED outVars
     \/ /\ "io" \in Faults
        /\ pc' = "unwind"
        /\ manifest' \in {"absent", "open"}
        /\ UNCHANGED <<exitStatus, exitCode>>
  /\ UNCHANGED <<mode, cancelled, walkVars, loopVars, resultVars, worldVars,
       lock, entries, eventVars, runlogVars, delVars>>

-----------------------------------------------------------------------------
(* Phase boundaries.  runner.Run re-checks the volume, and the phase checks *)
(* its context and appends phase_started; any failure returns at once.     *)

BeginPhase(at, p, next) ==
  /\ pc = at
  /\ AppendEvent(p, "phase_started", next)
  /\ UNCHANGED <<mode, cancelled, walkVars, loopVars, resultVars, worldVars,
       lock, maniVars, runlogVars, delVars>>

EnumerateBegin == BeginPhase("t0p", "T0+", "t0p_walk")
TransferBegin  == BeginPhase("t1", "T1", "t1_rsync")
HashBegin      == BeginPhase("t2", "T2", "t2_loop")
DeleteBegin    == BeginPhase("t3", "T3", "t3_gate")
FinalizeBegin  == BeginPhase("t4", "T4", "t4_gzip")

\* Mutant: the end of a phase does not fsync.
CheckpointSkipped(at, next) ==
  /\ Goto(at, next)
  /\ UNCHANGED <<eventVars, outVars, mode, cancelled, walkVars, loopVars,
       resultVars, worldVars, lock, maniVars, runlogVars, delVars>>

\* EventStore.Checkpoint at the end of a phase.
Checkpoint(at, next) ==
  /\ pc = at
  /\ \/ /\ Live /\ pc' = next
        /\ eventsSynced' = events
        /\ UNCHANGED <<events, outVars>>
     \/ MayFail /\ ReturnError
  /\ UNCHANGED <<mode, cancelled, walkVars, loopVars, resultVars, worldVars,
       lock, maniVars, runlogVars, delVars>>

EnumerateCheckpoint == Checkpoint("t0p_sync", "t1")
TransferCheckpoint  == Checkpoint("t1_sync", "t2")
HashCheckpoint      == Checkpoint("t2_sync", "t3")
DeleteCheckpoint    == Checkpoint("t3_sync", "resolve")
FinalizeCheckpoint  == Checkpoint("t4_sync", "unwind")

-----------------------------------------------------------------------------
(* Phase T0+: the candidates and the signatures they have at this moment.  *)

Enumerate ==
  /\ pc = "t0p_walk"
  /\ \/ /\ Live /\ pc' = "t0p_sync"
        /\ candidates' = present
        /\ baseline' = [f \in Files |-> IF f \in present THEN sig[f] ELSE 0]
        /\ Emit("T0+", "phase_completed")
        /\ UNCHANGED <<eventsSynced, outVars>>
     \/ /\ MayFail
        /\ AbortPhase("T0+") \/ ReturnError
        /\ UNCHANGED walkVars
  /\ UNCHANGED <<mode, cancelled, loopVars, resultVars, worldVars, lock,
       maniVars, runlogVars, delVars>>

-----------------------------------------------------------------------------
(* Phase T1: one rsync over all candidates.                                *)

\* rsync writes one file; it sends each at most once and may skip it.
CopyFile(f) ==
  /\ pc = "t1_rsync"
  /\ f \in (candidates \cap present) \ copied
  /\ dst' = [dst EXCEPT ![f] = data[f]]
  /\ copied' = copied \cup {f}
  /\ UNCHANGED <<pc, mode, cancelled, walkVars, loopVars, resultVars, outVars,
       present, data, sig, unlinked, lost, excused, lock,
       maniVars, eventVars, runlogVars, delVars>>

\* rsync exits 0; with no candidates it is not run at all.
RsyncExit ==
  /\ Goto("t1_rsync", "t1_close")
  /\ UNCHANGED <<mode, cancelled, walkVars, loopVars, resultVars, outVars,
       worldVars, lock, maniVars, eventVars, runlogVars, delVars>>

\* Any other exit status (it could not write, a source file vanished), or the
\* cancelled context killing it, ends the run.
RsyncFail ==
  /\ pc = "t1_rsync"
  /\ MayFail \/ ~(candidates \subseteq present)
  /\ AbortPhase("T1") \/ ReturnError
  /\ UNCHANGED <<mode, cancelled, walkVars, loopVars, resultVars, worldVars,
       lock, maniVars, runlogVars, delVars>>

TransferClose ==
  /\ pc = "t1_close"
  /\ AppendEvent("T1", "phase_completed", "t1_sync")
  /\ UNCHANGED <<mode, cancelled, walkVars, loopVars, resultVars, worldVars,
       lock, maniVars, runlogVars, delVars>>

-----------------------------------------------------------------------------
(* Phase T2: hash and compare, one candidate at a time.  The code visits    *)
(* the candidates in the order of the walk; here any order will do.         *)

\* The mutation gate of T2 and T3: (size, mtime_ns) against the baseline.
DriftedNeverChecked(f) == FALSE          \* mutant
Drifted(f) == sig[f] # baseline[f]

Undone == {f \in candidates : status[f] = None}

Classified(v) == pc' = "t2_record" /\ verdict' = v

\* Top of the loop, and t3ClassifyFile up to its mutation gate.
HashFile(f) ==
  /\ pc = "t2_loop" /\ Live
  /\ f \in Undone
  /\ cur' = f
  /\ IF f \notin present
     THEN Classified("source_unreadable")
     ELSE IF Drifted(f)
     THEN Classified("source_mutated")
     ELSE pc' = "t2_source" /\ UNCHANGED verdict
  /\ UNCHANGED <<mode, cancelled, walkVars, digest, resultVars, outVars,
       worldVars, lock, maniVars, eventVars, runlogVars, delVars>>

HashAbort ==
  /\ pc = "t2_loop" /\ cancelled
  /\ Undone # {}
  /\ AbortPhase("T2")
  /\ UNCHANGED <<mode, cancelled, walkVars, loopVars, resultVars, worldVars,
       lock, maniVars, runlogVars, delVars>>

\* Open and stream-hash the source; a cancelled context makes it unreadable.
HashSource ==
  /\ pc = "t2_source"
  /\ \/ /\ Live /\ cur \in present
        /\ digest' = data[cur]
        /\ pc' = "t2_dest" /\ UNCHANGED verdict
     \/ /\ MayFail \/ cur \notin present
        /\ Classified("source_unreadable") /\ UNCHANGED digest
  /\ UNCHANGED <<mode, cancelled, walkVars, cur, resultVars, outVars,
       worldVars, lock, maniVars, eventVars, runlogVars, delVars>>

\* Stat, open and stream-hash the destination, then compare.
HashDest ==
  /\ pc = "t2_dest"
  /\ \/ dst[cur] = Nothing /\ Classified("not_transferred")
     \/ dst[cur] # Nothing /\ MayFail /\ Classified("dest_unreadable")
     \/ /\ dst[cur] # Nothing /\ Live
        /\ Classified(IF dst[cur] = digest THEN "verified"
                                           ELSE "hash_mismatch")
  /\ UNCHANGED <<mode, cancelled, walkVars, cur, digest, resultVars,
       outVars, worldVars, lock, maniVars, eventVars, runlogVars, delVars>>

\* The per-file event, the manifest entry, PerFileStatus and the counters.
RecordFile ==
  /\ pc = "t2_record"
  /\ \/ /\ Live /\ pc' = "t2_loop"
        /\ entries' = entries \cup {cur}
        /\ status' = [status EXCEPT ![cur] = verdict]
        /\ filesVerified' = IF verdict = "verified" THEN filesVerified + 1
                                                    ELSE filesVerified
        /\ cur' = NoFile /\ verdict' = None /\ digest' = 0
        /\ UNCHANGED <<eventVars, outVars>>
     \/ MayFail /\ ReturnError /\ UNCHANGED <<entries, resultVars, cur,
                                              verdict, digest>>
  /\ UNCHANGED <<mode, cancelled, walkVars, worldVars, lock, manifest,
       runlogVars, delVars>>

HashComplete ==
  /\ pc = "t2_loop"
  /\ Undone = {}
  /\ AppendEvent("T2", "phase_completed", "t2_sync")
  /\ UNCHANGED <<mode, cancelled, walkVars, loopVars, resultVars, worldVars,
       lock, maniVars, runlogVars, delVars>>

-----------------------------------------------------------------------------
(* Phase T3: delete the sources, behind the atomic gate.                    *)

GateOpenSomeVerified == candidates # {} => filesVerified > 0    \* mutant
GateOpen == filesVerified = Cardinality(candidates)

\* Copy mode: the phase is closed without touching the source.
DeleteSkipped ==
  /\ pc = "t3_gate" /\ mode = "copy"
  /\ AppendEvent("T3", "phase_completed", "t3_sync")
  /\ UNCHANGED <<mode, cancelled, walkVars, loopVars, resultVars, worldVars,
       lock, maniVars, runlogVars, delVars>>

GateBlocked ==
  /\ pc = "t3_gate" /\ mode = "move" /\ ~GateOpen
  /\ AppendEvent("T3", "atomic_gate_blocked", "t3_blocked")
  /\ UNCHANGED <<mode, cancelled, walkVars, loopVars, resultVars, worldVars,
       lock, maniVars, runlogVars, delVars>>

GateBlockedComplete ==
  /\ pc = "t3_blocked"
  /\ AppendEvent("T3", "phase_completed", "t3_sync")
  /\ UNCHANGED <<mode, cancelled, walkVars, loopVars, resultVars, worldVars,
       lock, maniVars, runlogVars, delVars>>

OpenDeletionLog ==
  /\ pc = "t3_gate" /\ mode = "move" /\ GateOpen
  /\ \/ /\ pc' = "t3_loop" /\ logFile' = "open"
        /\ UNCHANGED <<eventVars, outVars>>
     \/ "io" \in Faults /\ AbortPhase("T3") /\ UNCHANGED logFile
  /\ UNCHANGED <<mode, cancelled, walkVars, loopVars, resultVars, worldVars,
       lock, maniVars, runlogVars, delLog>>

Undecided ==
  {f \in candidates : status[f] = "verified" /\ delLog[f] = None}

\* Top of the loop, and t4AttemptDelete up to its mutation gate.
DeleteFile(f) ==
  /\ pc = "t3_loop" /\ Live
  /\ f \in Undecided
  /\ cur' = f
  /\ \/ /\ f \in present /\ ~Drifted(f)
        /\ pc' = "t3_unlink" /\ UNCHANGED verdict
     \/ /\ f \in present /\ Drifted(f)
        /\ pc' = "t3_log" /\ verdict' = "skipped_mutated"
     \/ /\ f \notin present \/ "io" \in Faults
        /\ pc' = "t3_log" /\ verdict' = "failed_permission"
  /\ UNCHANGED <<mode, cancelled, walkVars, digest, resultVars, outVars,
       worldVars, lock, maniVars, eventVars, runlogVars, delVars>>

DeleteAbort ==
  /\ pc = "t3_loop" /\ cancelled
  /\ Undecided # {}
  /\ AbortPhase("T3")
  /\ UNCHANGED <<mode, cancelled, walkVars, loopVars, resultVars, worldVars,
       lock, maniVars, runlogVars, delVars>>

RemoveErrorIgnored == {"deleted"}        \* mutant
RemoveError == {"failed_permission", "failed_immutable"}

\* os.Remove, in a directory that may be read-only or changed meanwhile.
Unlink ==
  /\ Goto("t3_unlink", "t3_log")
  /\ \/ /\ cur \in present
        /\ verdict' = "deleted"
        /\ present' = present \ {cur}
        /\ unlinked' = unlinked \cup {cur}
        /\ lost' = [lost EXCEPT ![cur] = data[cur]]
     \/ /\ verdict' \in RemoveError
        /\ UNCHANGED <<present, unlinked, lost>>
  /\ UNCHANGED <<mode, cancelled, walkVars, cur, digest, resultVars, outVars,
       data, sig, dst, copied, excused, lock, maniVars, eventVars, runlogVars,
       delVars>>

\* The fsynced line of the deletion log, then the per-file event.  A log
\* error aborts the phase, and may leave the line behind or not.
LogDeletion ==
  /\ pc = "t3_log"
  /\ \/ /\ delLog' = [delLog EXCEPT ![cur] = verdict]
        /\ \/ /\ Live /\ pc' = "t3_loop"
              /\ cur' = NoFile /\ verdict' = None
              /\ UNCHANGED <<eventVars, outVars>>
           \/ MayFail /\ ReturnError /\ UNCHANGED <<cur, verdict>>
     \/ /\ "io" \in Faults
        /\ delLog' \in {delLog, [delLog EXCEPT ![cur] = verdict]}
        /\ AbortPhase("T3")
        /\ UNCHANGED <<cur, verdict>>
  /\ UNCHANGED <<mode, cancelled, walkVars, digest, resultVars, worldVars,
       lock, maniVars, runlogVars, logFile>>

DeleteComplete ==
  /\ pc = "t3_loop"
  /\ Undecided = {}
  /\ AppendEvent("T3", "phase_completed", "t3_sync")
  /\ UNCHANGED <<mode, cancelled, walkVars, loopVars, resultVars, worldVars,
       lock, maniVars, runlogVars, delVars>>

ResolvedSomeVerified ==                  \* mutant
  IF GateOpen \/ filesVerified > 0 THEN "ok" ELSE "partial"
Resolved ==
  IF GateOpen THEN "ok"
  ELSE IF mode = "move" THEN "copy_only_aborted_delete" ELSE "partial"

\* runner.Run, step 11.
ResolveStatus ==
  /\ Goto("resolve", "t4")
  /\ exitStatus' = Resolved
  /\ UNCHANGED <<mode, cancelled, walkVars, loopVars, resultVars, exitCode,
       worldVars, lock, maniVars, eventVars, runlogVars, delVars>>

-----------------------------------------------------------------------------
(* Phase T4: finalize.                                                     *)

\* ManifestStore.Gzip when it fails: still open when the flush or the fsync
\* failed, "broken" (closed under its temporary name) when the rename failed,
\* "renamed" when the rename was made but its directory is not fsynced.
GzipFailed == manifest' \in {"open", "broken", "renamed"}

\* Mutant: the error of Gzip is logged and the phase goes on.
SealManifestErrorIgnored ==
  /\ Goto("t4_gzip", "t4_finished")
  /\ manifest' = "sealed" \/ ("io" \in Faults /\ GzipFailed)
  /\ UNCHANGED <<eventVars, outVars, mode, cancelled, walkVars, loopVars,
       resultVars, worldVars, lock, entries, runlogVars, delVars>>

SealManifest ==
  /\ pc = "t4_gzip"
  /\ \/ /\ Live /\ manifest' = "sealed" /\ pc' = "t4_finished"
        /\ UNCHANGED <<eventVars, outVars>>
     \/ cancelled /\ AbortPhase("T4") /\ UNCHANGED manifest
     \/ "io" \in Faults /\ AbortPhase("T4") /\ GzipFailed
  /\ UNCHANGED <<mode, cancelled, walkVars, loopVars, resultVars, worldVars,
       lock, entries, runlogVars, delVars>>

\* The manifest_finalized event, then the "finished" line of runs.ndjson.
AppendFinished ==
  /\ pc = "t4_finished"
  /\ \/ /\ Live /\ pc' = "t4_checkpoint"
        /\ runlog' = runlog \cup {"finished"}
        /\ UNCHANGED <<eventVars, outVars>>
     \/ /\ MayFail
        /\ ReturnError \/ AbortPhase("T4")
        /\ UNCHANGED runlog
  /\ UNCHANGED <<mode, cancelled, walkVars, loopVars, resultVars, worldVars,
       lock, maniVars, runlogSynced, delVars>>

\* Mutant: the error of the checkpoint is ignored.
CheckpointRunlogErrorIgnored ==
  /\ Goto("t4_checkpoint", "t4_close")
  /\ runlogSynced' \in {runlog, runlogSynced}
  /\ UNCHANGED <<eventVars, outVars, mode, cancelled, walkVars, loopVars,
       resultVars, worldVars, lock, maniVars, runlog, delVars>>

\* The checkpoint of runs.ndjson; old run directories are pruned after it.
CheckpointRunlog ==
  /\ pc = "t4_checkpoint"
  /\ \/ /\ Live /\ pc' = "t4_close"
        /\ runlogSynced' = runlog
        /\ UNCHANGED <<eventVars, outVars>>
     \/ MayFail /\ AbortPhase("T4") /\ UNCHANGED runlogSynced
  /\ UNCHANGED <<mode, cancelled, walkVars, loopVars, resultVars, worldVars,
       lock, maniVars, runlog, delVars>>

FinalizeComplete ==
  /\ pc = "t4_close"
  /\ AppendEvent("T4", "phase_completed", "t4_last")
  /\ UNCHANGED <<mode, cancelled, walkVars, loopVars, resultVars, worldVars,
       lock, maniVars, runlogVars, delVars>>

AnnounceFinish ==
  /\ pc = "t4_last"
  /\ AppendEvent("T4", "run_finished", "t4_sync")
  /\ UNCHANGED <<mode, cancelled, walkVars, loopVars, resultVars, worldVars,
       lock, maniVars, runlogVars, delVars>>

-----------------------------------------------------------------------------
(* The defers of runner.Run, last in first out, and the exit code.         *)

\* Mutant: the two defers in the other order, the lock goes first.
DeferredGzipLast ==
  /\ \/ /\ pc = "unwind" /\ lock = "held"
        /\ lock' = "free" /\ UNCHANGED <<pc, manifest>>
     \/ Goto("unwind", "release") /\ manifest' = "sealed" /\ UNCHANGED lock
  /\ UNCHANGED <<mode, cancelled, walkVars, loopVars, resultVars, outVars,
       worldVars, entries, eventVars, runlogVars, delVars>>

\* Gzip again, under context.Background(): a no-op on a sealed manifest; on
\* one that is still open it seals what T2 has appended so far.
DeferredGzip ==
  /\ Goto("unwind", "release")
  /\ \/ manifest = "open" /\ manifest' = "sealed"
     \/ manifest = "open" /\ "io" \in Faults /\ GzipFailed
     \/ manifest # "open" /\ UNCHANGED manifest
  /\ UNCHANGED <<mode, cancelled, walkVars, loopVars, resultVars, outVars,
       worldVars, lock, entries, eventVars, runlogVars, delVars>>

ReleaseLockForgotten ==                  \* mutant
  /\ Goto("release", "exit")
  /\ UNCHANGED <<mode, cancelled, walkVars, loopVars, resultVars, outVars,
       worldVars, lock, maniVars, eventVars, runlogVars, delVars>>

ReleaseLock ==
  /\ Goto("release", "exit")
  /\ lock' = "free"
  /\ UNCHANGED <<mode, cancelled, walkVars, loopVars, resultVars, outVars,
       worldVars, maniVars, eventVars, runlogVars, delVars>>

\* backupExitCode.
Exit ==
  /\ Goto("exit", "exited")
  /\ exitCode' = CASE exitStatus = "ok" -> 0
                   [] exitStatus = "preflight_failed" -> 2
                   [] OTHER -> 1
  /\ UNCHANGED <<mode, cancelled, walkVars, loopVars, resultVars, exitStatus,
       worldVars, lock, maniVars, eventVars, runlogVars, delVars>>

-----------------------------------------------------------------------------
(* The environment.  What it does before the walk is in Init; what it does *)
(* after the process has ended no longer concerns the run.                 *)

\* The first SIGINT or SIGTERM.
Cancel ==
  /\ "cancel" \in Faults
  /\ pc \notin Ended /\ ~cancelled
  /\ cancelled' = TRUE
  /\ UNCHANGED <<pc, mode, walkVars, loopVars, resultVars, outVars, worldVars,
       lock, maniVars, eventVars, runlogVars, delVars>>

Changing == pc \in Phases
Hashed(f) == status[f] = "verified" \/ (cur = f /\ pc = "t2_record")

\* Content and signature change.  Only between the Lstat and the os.Remove of
\* T3 can no check see it.
UserEdit(f) ==
  /\ "edit" \in Faults /\ Changing
  /\ f \in present /\ data[f] < MaxVersion
  /\ data' = [data EXCEPT ![f] = @ + 1]
  /\ sig' = [sig EXCEPT ![f] = @ + 1]
  /\ excused' = IF cur = f /\ pc = "t3_unlink" THEN excused \cup {f}
                                               ELSE excused
  /\ UNCHANGED <<pc, mode, cancelled, walkVars, loopVars, resultVars, outVars,
       present, dst, copied, unlinked, lost, lock, maniVars,
       eventVars, runlogVars, delVars>>

\* Content changes, size and mtime do not.  Only a change before the source
\* is hashed is seen.
StealthEdit(f) ==
  /\ "stealth" \in Faults /\ Changing
  /\ f \in present /\ data[f] < MaxVersion
  /\ data' = [data EXCEPT ![f] = @ + 1]
  /\ excused' = IF Hashed(f) \/ (cur = f /\ pc = "t2_dest")
                THEN excused \cup {f} ELSE excused
  /\ UNCHANGED <<pc, mode, cancelled, walkVars, loopVars, resultVars, outVars,
       present, sig, dst, copied, unlinked, lost, lock, maniVars,
       eventVars, runlogVars, delVars>>

UserDelete(f) ==
  /\ "edit" \in Faults /\ Changing
  /\ f \in present
  /\ present' = present \ {f}
  /\ UNCHANGED <<pc, mode, cancelled, walkVars, loopVars, resultVars, outVars,
       data, sig, dst, copied, unlinked, lost, excused, lock,
       maniVars, eventVars, runlogVars, delVars>>

\* A destination file decays, or another program overwrites it.  Nothing
\* looks at it again once T2 has hashed it.
Rot(f) ==
  /\ "rot" \in Faults /\ Changing
  /\ dst[f] >= 0
  /\ dst' = [dst EXCEPT ![f] = Garbage]
  /\ excused' = IF Hashed(f) THEN excused \cup {f} ELSE excused
  /\ UNCHANGED <<pc, mode, cancelled, walkVars, loopVars, resultVars, outVars,
       present, data, sig, copied, unlinked, lost, lock, maniVars,
       eventVars, runlogVars, delVars>>

\* A second signal within five seconds of the first: os.Exit runs no defer.
SecondSignal ==
  /\ "kill" \in Faults
  /\ pc \notin Ended /\ cancelled
  /\ pc' = "dead" /\ exitCode' = 130
  /\ UNCHANGED <<mode, cancelled, walkVars, loopVars, resultVars, exitStatus,
       worldVars, lock, maniVars, eventVars, runlogVars, delVars>>

\* Power fails, or the volume is pulled: of what is not fsynced any part may
\* be gone, and rsync runs without --fsync.
PowerLoss ==
  /\ "power" \in Faults
  /\ pc \notin Ended
  /\ pc' = "dead"
  /\ events' \in SUBSET events /\ eventsSynced \subseteq events'
  /\ runlog' \in SUBSET runlog /\ runlogSynced \subseteq runlog'
  /\ manifest' \in (IF manifest = "renamed" THEN {"renamed", "broken"}
                                            ELSE {manifest})
  /\ \E torn \in SUBSET copied :
       /\ dst' = [f \in Files |-> IF f \in torn THEN Garbage ELSE dst[f]]
       /\ excused' = excused \cup torn
  /\ UNCHANGED <<mode, cancelled, walkVars, loopVars, resultVars, outVars,
       present, data, sig, copied, unlinked, lost, lock, entries,
       eventsSynced, runlogSynced, delVars>>

-----------------------------------------------------------------------------
Runner ==
  \/ OpenStores \/ PreflightBegin \/ PreflightPass \/ PreflightRefuse
  \/ AppendStarted \/ PreflightComplete \/ PreflightCheckpoint \/ OpenManifest
  \/ EnumerateBegin \/ Enumerate \/ EnumerateCheckpoint
  \/ TransferBegin \/ RsyncExit \/ RsyncFail \/ TransferClose
  \/ TransferCheckpoint
  \/ HashBegin \/ HashAbort \/ HashSource \/ HashDest \/ RecordFile
  \/ HashComplete \/ HashCheckpoint
  \/ DeleteBegin \/ DeleteSkipped \/ GateBlocked \/ GateBlockedComplete
  \/ OpenDeletionLog \/ DeleteAbort \/ Unlink \/ LogDeletion \/ DeleteComplete
  \/ DeleteCheckpoint \/ ResolveStatus
  \/ FinalizeBegin \/ SealManifest \/ AppendFinished \/ CheckpointRunlog
  \/ FinalizeComplete \/ AnnounceFinish \/ FinalizeCheckpoint
  \/ DeferredGzip \/ ReleaseLock \/ Exit
  \/ \E f \in Files : CopyFile(f) \/ HashFile(f) \/ DeleteFile(f)

Environment ==
  \/ ConfirmDelete \/ DeclineDelete
  \/ Cancel \/ SecondSignal \/ PowerLoss
  \/ \E f \in Files : UserEdit(f) \/ StealthEdit(f) \/ UserDelete(f) \/ Rot(f)

Next == Runner \/ Environment

Spec == Init /\ [][Next]_vars

\* Nothing makes the process wait but rsync, which is assumed to exit.
FairSpec == Spec /\ WF_vars(Runner)

-----------------------------------------------------------------------------
(* Properties.                                                             *)

ProcessOK ==
  /\ pc \in PC /\ mode \in {"copy", "move"} /\ cancelled \in BOOLEAN
  /\ candidates \subseteq Files /\ baseline \in [Files -> Version]
  /\ cur \in Files \cup {NoFile} /\ digest \in Version
  /\ verdict \in FileStatus \cup DeletionStatus \cup {None}
  /\ status \in [Files -> FileStatus \cup {None}] /\ filesVerified \in Nat
  /\ exitStatus \in ExitStatus \cup {None}
  /\ exitCode \in {-1, 0, 1, 2, 130}

WorldOK ==
  /\ present \subseteq Files
  /\ data \in [Files -> Version] /\ sig \in [Files -> Version]
  /\ \A f \in Files : sig[f] <= data[f]
  /\ dst \in [Files -> Version \cup {Nothing, Garbage}]
  /\ copied \subseteq Files /\ lock \in {"free", "held"}
  /\ unlinked \subseteq Files
  /\ lost \in [Files -> Version] /\ excused \subseteq Files

AuditOK ==
  /\ manifest \in {"absent", "open", "broken", "renamed", "sealed"}
  /\ entries \subseteq Files
  /\ events \subseteq Phase \X EventKind
  /\ eventsSynced \subseteq events
  /\ runlog \subseteq {"started", "finished"} /\ runlogSynced \subseteq runlog
  /\ logFile \in {"absent", "open"}
  /\ delLog \in [Files -> DeletionStatus \cup {None}]

\* Every variable has its type, and what is fsynced of a file is part of it.
TypeOK == ProcessOK /\ WorldOK /\ AuditOK

Verified == {f \in candidates : status[f] = "verified"}

\* The atomic gate (runner.go, t4_delete_source.go "invariant #1"): a source is
\* unlinked only in move mode and only once every candidate's copy has been
\* hashed and is equal, and a run that recorded a blocked gate unlinks nothing.
AtomicGate ==
  /\ unlinked # {} => mode = "move" /\ Verified = candidates
  /\ <<"T3", "atomic_gate_blocked">> \in events => unlinked = {}

\* No content is lost.  The content a source had when it was unlinked is the
\* content of its copy, except where no check of the code can look: an edit
\* between T3's Lstat and its os.Remove, an edit after hashing that restores
\* size and mtime, a copy that decays after it was hashed, a power loss before
\* the copies reach the medium.
NoUnexcusedLoss == \A f \in unlinked : lost[f] = dst[f] \/ f \in excused

\* The deletion log and the source tree agree after any abort or crash, but
\* for one file at most: every unlinked file but the last is on record, and
\* the log says "deleted" of no file that was not unlinked.
AtMostOneUnlogged ==
  /\ Cardinality({f \in unlinked : delLog[f] # "deleted"}) <= 1
  /\ \A f \in Files : delLog[f] = "deleted" => f \in unlinked

\* A script that sees exit code 0 has a verified copy of every candidate.
ExitZeroMeansVerified == exitCode = 0 => Verified = candidates

\* A run that runs.ndjson calls finished has a sealed manifest with a line for
\* every candidate, also when power is lost right after.
FinishedImpliesSealed ==
  "finished" \in runlog => manifest = "sealed" /\ entries = candidates

\* events.ndjson cannot claim the end of a run that runs.ndjson lost.
RunFinishedIsDurable ==
  <<"T4", "run_finished">> \in events => "finished" \in runlogSynced

Before(p) ==
  CASE p = "T0" -> {} [] p = "T0+" -> {"T0"} [] p = "T1" -> {"T0+"}
    [] p = "T2" -> {"T1"} [] p = "T3" -> {"T2"} [] p = "T4" -> {"T3"}

\* A crash loses the events of at most one phase ("invariant #17"): when a
\* phase has begun, the completion of the phase before it is on the medium.
EarlierPhasesDurable ==
  \A p \in Phase, q \in Phase :
    <<p, "phase_started">> \in events /\ q \in Before(p) =>
      <<q, "phase_completed">> \in eventsSynced

\* What runs on one volume share, and the source, change under the lock only,
\* on the way out of an aborted run too.  (A power loss is no write.)
WritesUnderLock ==
  [][pc' # "dead" /\ <<copied, unlinked, manifest, entries, runlog>>' #
                     <<copied, unlinked, manifest, entries, runlog>>
       => lock = "held"]_vars

-----------------------------------------------------------------------------
(* Why the gate holds and nothing is lost: an inductive invariant.         *)

BeforeHash == BeforeWalk \cup
  {"t0p_sync", "t1", "t1_rsync", "t1_close", "t1_sync", "t2"}
BeforeGate == BeforeHash \cup {"t2_loop", "t2_source", "t2_dest",
  "t2_record", "t2_sync", "t3", "t3_gate"}

\* The loops of T2 and T3 work on a candidate, and on one nobody has judged.
LoopOK ==
  /\ pc \in {"t2_source", "t2_dest", "t2_record"} =>
       cur \in candidates /\ status[cur] = None
  /\ pc = "t2_record" => verdict \in FileStatus
  /\ pc \in {"t3_unlink", "t3_log"} => cur \in candidates
  /\ pc = "t3_log" => verdict \in DeletionStatus

Blocked == <<"T3", "atomic_gate_blocked">> \in events

\* The counter the gate reads counts the verified files; the deletion log is
\* opened behind the gate, and what it was opened on does not change again.
GateOK ==
  /\ filesVerified = Cardinality(Verified)
  /\ pc \in BeforeHash => status = [f \in Files |-> None]
  /\ pc \in BeforeGate => logFile = "absent" /\ ~Blocked
  /\ pc \in {"t3_loop", "t3_unlink", "t3_log"} => logFile = "open"
  /\ logFile = "open" => mode = "move" /\ Verified = candidates /\ ~Blocked
  /\ unlinked # {} => logFile = "open"
  /\ unlinked \subseteq candidates \ present

\* A verified file that has not drifted since the walk still equals its copy.
SafeCopy(f) == f \in excused \/ Drifted(f) \/ dst[f] = data[f]
CopyOK ==
  /\ \A f \in Files : baseline[f] <= sig[f]
  /\ pc = "t2_dest" => cur \in excused \/ Drifted(cur) \/ digest = data[cur]
  /\ pc = "t2_record" /\ verdict = "verified" => SafeCopy(cur)
  /\ \A f \in Files : status[f] = "verified" => SafeCopy(f)
  /\ pc = "t3_unlink" => cur \in excused \/ dst[cur] = data[cur]
  /\ NoUnexcusedLoss

\* Every part is preserved by every step, given the parts before it.
RunInv == TypeOK /\ LoopOK /\ GateOK /\ CopyOK

-----------------------------------------------------------------------------
(* What the comments of the code say of a run, and its code does not do.   *)

\* backup_helpers.go:90-92, "ExitStatusOK is only set after T4 finalize
\* succeeded": exit code 0 means that the run is on record as finished.
ExitZeroMeansFinished == exitCode = 0 => "finished" \in runlog

-----------------------------------------------------------------------------
(* Liveness and refinement.                                                *)

\* The lock is given back, or its holder is dead and the lock is stale.
LockReleased == lock = "held" ~> (lock = "free" \/ pc = "dead")

\* A move promises copy, validate all, delete: AtomicMove.
Move == INSTANCE AtomicMove WITH chosen <- candidates, validated <- Verified,
                                 committed <- (logFile = "open")
ImplementsAtomicMove == Move!Spec
=============================================================================
