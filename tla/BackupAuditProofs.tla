-------------------------- MODULE BackupAuditProofs --------------------------
(***************************************************************************)
(* What a crash, an abort and the exit code leave on record: the audit     *)
(* properties of BackupRun, for every set of files and every choice of     *)
(* faults.                                                                 *)
(*                                                                         *)
(* AuditInv says what the run has behind it at every point of its way: it  *)
(* holds the lock; the completion of a phase is in events.ndjson, and on   *)
(* the medium before the next one begins; the manifest has a line for      *)
(* every file that has a status; a "finished" line stands on a sealed      *)
(* manifest.  Most of the 57 actions touch little of that.  What each may  *)
(* do is stated once, in StepEffects, and the parts of AuditInv look only  *)
(* at the actions it names.                                                *)
(***************************************************************************)
EXTENDS BackupRunProofs

-----------------------------------------------------------------------------
(* The inductive invariant.                                                *)

\* From the last gate of T0 until the last defer.
Locked == Phases \cup {"t0_locked", "t0_started", "t0_sync", "setup", "t0p",
                       "t0p_walk", "unwind", "release"}
LockOK == pc \in Locked => lock = "held"

\* The deletion log lags behind the source tree by the current file at most,
\* and between two files not at all.
Unlogged == {f \in unlinked : delLog[f] # "deleted"}
DeletionLogOK ==
  /\ \A f \in Files : delLog[f] = "deleted" => f \in unlinked
  /\ Unlogged \subseteq {cur}
  /\ pc \in {"t3_loop", "t3_unlink"} => Unlogged = {}
  /\ pc = "t3_unlink" => cur \notin unlinked
  /\ pc = "t3_log" => (verdict = "deleted" <=> cur \in unlinked)

\* The manifest has the files that have a status, and by the end of T2 that
\* is every candidate; nothing is called finished before it is sealed.
Finalized == {"t4_finished", "t4_checkpoint", "t4_close", "t4_last", "t4_sync"}
AfterHash == Finalized \cup {"t2_sync", "t3", "t3_gate", "t3_blocked",
  "t3_loop", "t3_unlink", "t3_log", "t3_sync", "resolve", "t4", "t4_gzip"}
AfterFinish == (Finalized \ {"t4_finished"}) \cup Unwinding \cup Ended
ManifestOK ==
  /\ entries = candidates \ Undone
  /\ pc \in AfterHash => Undone = {}
  /\ pc \in Finalized => manifest = "sealed"
  /\ "finished" \in runlog =>
       manifest = "sealed" /\ Undone = {} /\ pc \in AfterFinish

\* What runs.ndjson has on the medium when the run is announced as finished.
RunlogOK ==
  /\ pc = "t4_checkpoint" => "finished" \in runlog
  /\ pc \in {"t4_close", "t4_last", "t4_sync"} => "finished" \in runlogSynced
  /\ RunFinishedIsDurable

\* What events.ndjson has at the end of a phase, and before the next begins.
Completed(p) == <<p, "phase_completed">>
Began(p) == <<p, "phase_started">>
PhasesOK ==
  /\ pc = "t0_sync"  => Completed("T0") \in events
  /\ pc = "t0p_sync" => Completed("T0+") \in events
  /\ pc = "t1_sync"  => Completed("T1") \in events
  /\ pc = "t2_sync"  => Completed("T2") \in events
  /\ pc = "t3_sync"  => Completed("T3") \in events
  /\ (pc \in {"setup", "t0p"} \/ Began("T0+") \in events) =>
       Completed("T0") \in eventsSynced
  /\ (pc = "t1" \/ Began("T1") \in events) => Completed("T0+") \in eventsSynced
  /\ (pc = "t2" \/ Began("T2") \in events) => Completed("T1") \in eventsSynced
  /\ (pc = "t3" \/ Began("T3") \in events) => Completed("T2") \in eventsSynced
  /\ (pc \in {"resolve", "t4"} \/ Began("T4") \in events) =>
       Completed("T3") \in eventsSynced

\* The exit status is what the gate said, and the exit code the status.
AfterResolve == Finalized \cup {"t4", "t4_gzip"} \cup Unwinding \cup Ended
ExitOK ==
  /\ exitStatus = "ok" => Verified = candidates /\ pc \in AfterResolve
  /\ exitCode = 0 => exitStatus = "ok"

AuditInv == LockOK /\ DeletionLogOK /\ ManifestOK /\ RunlogOK /\ PhasesOK
            /\ ExitOK

-----------------------------------------------------------------------------
(* What a step can do.                                                     *)

\* Who changes what the audit rests on, and how a run comes to each place on
\* its way.  What is on the medium stays there, and events.ndjson forgets
\* only when the power fails.
LEMMA StepEffects ==
  ASSUME TypeOK, [Next]_vars
  PROVE  /\ pc' \in Locked => lock' = "held" \/ (pc \in Locked /\ lock' = lock)
         /\ pc \in AfterFinish => pc' \in AfterFinish
         /\ pc \in AfterResolve => pc' \in AfterResolve
         /\ pc' \in AfterHash => pc \in AfterHash \/ HashComplete
         /\ pc' \in Finalized => pc \in Finalized \/ SealManifest
         /\ pc' = "t4_checkpoint" => pc = "t4_checkpoint" \/ AppendFinished
         /\ pc' \in {"t4_close", "t4_last", "t4_sync"} =>
              pc \in {"t4_close", "t4_last", "t4_sync"} \/ CheckpointRunlog
         /\ pc' = "t3_loop" => pc = "t3_loop" \/ OpenDeletionLog \/ LogDeletion
         /\ pc' = "t3_unlink" =>
              pc = "t3_unlink" \/ \E f \in Files : DeleteFile(f)
         /\ pc' = "t3_log" =>
              \/ pc = "t3_log" /\ UNCHANGED <<cur, verdict>>
              \/ Unlink \/ \E f \in Files : DeleteFile(f)
         /\ unlinked' = unlinked \/ Unlink
         /\ delLog' = delLog \/ LogDeletion
         /\ \/ cur' = cur \/ RecordFile \/ LogDeletion
            \/ \E f \in Files : HashFile(f) \/ DeleteFile(f)
         /\ UNCHANGED <<entries, status>> \/ RecordFile
         /\ \/ UNCHANGED <<copied, unlinked, manifest, entries, runlog>>
            \/ pc \in Locked \/ pc' = "dead"
         /\ candidates' = candidates \/ Enumerate
         /\ \/ manifest' = manifest
            \/ pc = "setup" \/ SealManifest
            \/ manifest # "sealed"
         /\ "finished" \in runlog' => "finished" \in runlog \/ AppendFinished
         /\ "finished" \in runlog => "finished" \in runlog' \/ PowerLoss
         /\ runlogSynced \subseteq runlogSynced'
         /\ \/ UNCHANGED exitStatus \/ ResolveStatus
            \/ pc \in BeforeWalk /\ exitStatus' = "preflight_failed"
         /\ UNCHANGED exitCode \/ Exit \/ exitCode' # 0
<1> USE DEF TypeOK, ProcessOK, AuditOK, Locked, Finalized, AfterHash,
  AfterFinish, AfterResolve,
  Phases, Unwinding, Ended, BeforeWalk, walkVars, loopVars, resultVars,
  outVars,
  worldVars, maniVars, eventVars, runlogVars, delVars, Goto
<1>1. CASE OpenStores BY <1>1 DEF OpenStores, FailPreflight
<1>2. CASE PreflightBegin BY <1>2 DEF PreflightBegin, FailPreflight, Emit
<1>3. CASE PreflightPass BY <1>3 DEF PreflightPass
<1>4. CASE PreflightRefuse
  BY <1>4 DEF PreflightRefuse, FailPreflight, EmitAborted, Emit
<1>5. CASE AppendStarted BY <1>5 DEF AppendStarted, FailPreflight
<1>6. CASE PreflightComplete
  BY <1>6 DEF PreflightComplete, FailPreflight, Emit
<1>7. CASE PreflightCheckpoint BY <1>7 DEF PreflightCheckpoint, FailPreflight
<1>8. CASE OpenManifest BY <1>8 DEF OpenManifest
<1>9. CASE EnumerateBegin
  BY <1>9 DEF EnumerateBegin, BeginPhase, AppendEvent, ReturnError, Emit
<1>10. CASE Enumerate
  BY <1>10 DEF Enumerate, Emit, AbortPhase, EmitAborted, ReturnError
<1>11. CASE EnumerateCheckpoint
  BY <1>11 DEF EnumerateCheckpoint, Checkpoint, ReturnError
<1>12. CASE TransferBegin
  BY <1>12 DEF TransferBegin, BeginPhase, AppendEvent, ReturnError, Emit
<1>13. CASE RsyncExit BY <1>13 DEF RsyncExit
<1>14. CASE RsyncFail
  BY <1>14 DEF RsyncFail, AbortPhase, EmitAborted, Emit, ReturnError
<1>15. CASE TransferClose
  BY <1>15 DEF TransferClose, AppendEvent, ReturnError, Emit
<1>16. CASE TransferCheckpoint
  BY <1>16 DEF TransferCheckpoint, Checkpoint, ReturnError
<1>17. CASE HashBegin
  BY <1>17 DEF HashBegin, BeginPhase, AppendEvent, ReturnError, Emit
<1>18. CASE HashAbort BY <1>18 DEF HashAbort, AbortPhase, EmitAborted, Emit
<1>19. CASE HashSource BY <1>19 DEF HashSource, Classified
<1>20. CASE HashDest BY <1>20 DEF HashDest, Classified
<1>21. CASE RecordFile BY <1>21 DEF RecordFile, ReturnError
<1>22. CASE HashComplete
  BY <1>22 DEF HashComplete, AppendEvent, ReturnError, Emit
<1>23. CASE HashCheckpoint
  BY <1>23 DEF HashCheckpoint, Checkpoint, ReturnError
<1>24. CASE DeleteBegin
  BY <1>24 DEF DeleteBegin, BeginPhase, AppendEvent, ReturnError, Emit
<1>25. CASE DeleteSkipped
  BY <1>25 DEF DeleteSkipped, AppendEvent, ReturnError, Emit
<1>26. CASE GateBlocked
  BY <1>26 DEF GateBlocked, GateOpen, AppendEvent, ReturnError, Emit
<1>27. CASE GateBlockedComplete
  BY <1>27 DEF GateBlockedComplete, AppendEvent, ReturnError, Emit
<1>28. CASE OpenDeletionLog
  BY <1>28 DEF OpenDeletionLog, GateOpen, AbortPhase, EmitAborted, Emit
<1>29. CASE DeleteAbort
  BY <1>29 DEF DeleteAbort, AbortPhase, EmitAborted, Emit
<1>30. CASE Unlink BY <1>30 DEF Unlink, RemoveError
<1>31. CASE LogDeletion
  BY <1>31 DEF LogDeletion, ReturnError, AbortPhase, EmitAborted, Emit
<1>32. CASE DeleteComplete
  BY <1>32 DEF DeleteComplete, AppendEvent, ReturnError, Emit
<1>33. CASE DeleteCheckpoint
  BY <1>33 DEF DeleteCheckpoint, Checkpoint, ReturnError
<1>34. CASE ResolveStatus BY <1>34 DEF ResolveStatus, Resolved
<1>35. CASE FinalizeBegin
  BY <1>35 DEF FinalizeBegin, BeginPhase, AppendEvent, ReturnError, Emit
<1>36. CASE SealManifest
  BY <1>36 DEF SealManifest, GzipFailed, AbortPhase, EmitAborted, Emit
<1>37. CASE AppendFinished
  BY <1>37 DEF AppendFinished, ReturnError, AbortPhase, EmitAborted, Emit
<1>38. CASE CheckpointRunlog
  BY <1>38 DEF CheckpointRunlog, AbortPhase, EmitAborted, Emit
<1>39. CASE FinalizeComplete
  BY <1>39 DEF FinalizeComplete, AppendEvent, ReturnError, Emit
<1>40. CASE AnnounceFinish
  BY <1>40 DEF AnnounceFinish, AppendEvent, ReturnError, Emit
<1>41. CASE FinalizeCheckpoint
  BY <1>41 DEF FinalizeCheckpoint, Checkpoint, ReturnError
<1>42. CASE DeferredGzip BY <1>42 DEF DeferredGzip, GzipFailed
<1>43. CASE ReleaseLock BY <1>43 DEF ReleaseLock
<1>44. CASE Exit BY <1>44 DEF Exit
<1>45. CASE \E f \in Files : CopyFile(f) BY <1>45 DEF CopyFile
<1>46. CASE \E f \in Files : HashFile(f)
  BY <1>46 DEF HashFile, Classified, Undone, Drifted
<1>47. CASE \E f \in Files : DeleteFile(f)
  BY <1>47 DEF DeleteFile, Undecided, Drifted
<1>48. CASE ConfirmDelete BY <1>48 DEF ConfirmDelete
<1>49. CASE DeclineDelete BY <1>49 DEF DeclineDelete
<1>50. CASE Cancel BY <1>50 DEF Cancel
<1>51. CASE SecondSignal BY <1>51 DEF SecondSignal
<1>52. CASE PowerLoss BY <1>52 DEF PowerLoss
<1>53. CASE \E f \in Files : UserEdit(f) BY <1>53 DEF UserEdit
<1>54. CASE \E f \in Files : StealthEdit(f) BY <1>54 DEF StealthEdit
<1>55. CASE \E f \in Files : UserDelete(f) BY <1>55 DEF UserDelete
<1>56. CASE \E f \in Files : Rot(f) BY <1>56 DEF Rot
<1>57. CASE UNCHANGED vars BY <1>57 DEF vars
<1> HIDE DEF TypeOK, ProcessOK, AuditOK, Locked, Finalized, AfterHash,
    AfterFinish, AfterResolve,
    Phases, Unwinding, Ended, BeforeWalk, walkVars, loopVars, resultVars,
    outVars,
    worldVars, maniVars, eventVars, runlogVars, delVars, Goto
<1> QED
  BY ZenonT(60),
         <1>1, <1>2, <1>3, <1>4, <1>5, <1>6, <1>7, <1>8, <1>9, <1>10,
         <1>11, <1>12, <1>13, <1>14, <1>15, <1>16, <1>17, <1>18, <1>19,
         <1>20, <1>21, <1>22, <1>23, <1>24, <1>25, <1>26, <1>27, <1>28,
         <1>29, <1>30, <1>31, <1>32, <1>33, <1>34, <1>35, <1>36, <1>37,
         <1>38, <1>39, <1>40, <1>41, <1>42, <1>43, <1>44, <1>45, <1>46,
         <1>47, <1>48, <1>49, <1>50, <1>51, <1>52, <1>53, <1>54, <1>55,
         <1>56, <1>57 DEF Next, Runner, Environment


\* Likewise for events.ndjson: what a step appends, and what is in the file
\* when the run arrives at the checkpoint of a phase and leaves it.
LEMMA EventEffects ==
  ASSUME TypeOK, [Next]_vars
  PROVE  /\ events \subseteq events' \/ pc' = "dead"
         /\ eventsSynced \subseteq eventsSynced'
         /\ <<"T4", "run_finished">> \in events' =>
              <<"T4", "run_finished">> \in events \/ pc = "t4_last"
         /\ Began("T0+") \in events' => Began("T0+") \in events \/ pc = "t0p"
         /\ Began("T1") \in events' => Began("T1") \in events \/ pc = "t1"
         /\ Began("T2") \in events' => Began("T2") \in events \/ pc = "t2"
         /\ Began("T3") \in events' => Began("T3") \in events \/ pc = "t3"
         /\ Began("T4") \in events' => Began("T4") \in events \/ pc = "t4"
         /\ pc' = "t0_sync" => pc = "t0_sync" \/ Completed("T0") \in events'
         /\ pc' = "t0p_sync" => pc = "t0p_sync" \/ Completed("T0+") \in events'
         /\ pc' = "t1_sync" => pc = "t1_sync" \/ Completed("T1") \in events'
         /\ pc' = "t2_sync" => pc = "t2_sync" \/ Completed("T2") \in events'
         /\ pc' = "t3_sync" => pc = "t3_sync" \/ Completed("T3") \in events'
         /\ pc' \in {"setup", "t0p"} =>
              \/ pc \in {"setup", "t0p"}
              \/ pc = "t0_sync" /\ eventsSynced' = events
         /\ pc' = "t1" =>
              pc = "t1" \/ (pc = "t0p_sync" /\ eventsSynced' = events)
         /\ pc' = "t2" =>
              pc = "t2" \/ (pc = "t1_sync" /\ eventsSynced' = events)
         /\ pc' = "t3" =>
              pc = "t3" \/ (pc = "t2_sync" /\ eventsSynced' = events)
         /\ pc' \in {"resolve", "t4"} =>
              \/ pc \in {"resolve", "t4"}
              \/ pc = "t3_sync" /\ eventsSynced' = events
<1> USE DEF TypeOK, AuditOK, Began, Completed, walkVars, loopVars,
  resultVars, outVars, worldVars, maniVars, eventVars, runlogVars, delVars,
  Goto
<1>1. CASE OpenStores BY <1>1 DEF OpenStores, FailPreflight
<1>2. CASE PreflightBegin BY <1>2 DEF PreflightBegin, FailPreflight, Emit
<1>3. CASE PreflightPass BY <1>3 DEF PreflightPass
<1>4. CASE PreflightRefuse
  BY <1>4 DEF PreflightRefuse, FailPreflight, EmitAborted, Emit
<1>5. CASE AppendStarted BY <1>5 DEF AppendStarted, FailPreflight
<1>6. CASE PreflightComplete
  BY <1>6 DEF PreflightComplete, FailPreflight, Emit
<1>7. CASE PreflightCheckpoint BY <1>7 DEF PreflightCheckpoint, FailPreflight
<1>8. CASE OpenManifest BY <1>8 DEF OpenManifest
<1>9. CASE EnumerateBegin
  BY <1>9 DEF EnumerateBegin, BeginPhase, AppendEvent, ReturnError, Emit
<1>10. CASE Enumerate
  BY <1>10 DEF Enumerate, Emit, AbortPhase, EmitAborted, ReturnError
<1>11. CASE EnumerateCheckpoint
  BY <1>11 DEF EnumerateCheckpoint, Checkpoint, ReturnError
<1>12. CASE TransferBegin
  BY <1>12 DEF TransferBegin, BeginPhase, AppendEvent, ReturnError, Emit
<1>13. CASE RsyncExit BY <1>13 DEF RsyncExit
<1>14. CASE RsyncFail
  BY <1>14 DEF RsyncFail, AbortPhase, EmitAborted, Emit, ReturnError
<1>15. CASE TransferClose
  BY <1>15 DEF TransferClose, AppendEvent, ReturnError, Emit
<1>16. CASE TransferCheckpoint
  BY <1>16 DEF TransferCheckpoint, Checkpoint, ReturnError
<1>17. CASE HashBegin
  BY <1>17 DEF HashBegin, BeginPhase, AppendEvent, ReturnError, Emit
<1>18. CASE HashAbort BY <1>18 DEF HashAbort, AbortPhase, EmitAborted, Emit
<1>19. CASE HashSource BY <1>19 DEF HashSource, Classified
<1>20. CASE HashDest BY <1>20 DEF HashDest, Classified
<1>21. CASE RecordFile BY <1>21 DEF RecordFile, ReturnError
<1>22. CASE HashComplete
  BY <1>22 DEF HashComplete, AppendEvent, ReturnError, Emit
<1>23. CASE HashCheckpoint
  BY <1>23 DEF HashCheckpoint, Checkpoint, ReturnError
<1>24. CASE DeleteBegin
  BY <1>24 DEF DeleteBegin, BeginPhase, AppendEvent, ReturnError, Emit
<1>25. CASE DeleteSkipped
  BY <1>25 DEF DeleteSkipped, AppendEvent, ReturnError, Emit
<1>26. CASE GateBlocked
  BY <1>26 DEF GateBlocked, GateOpen, AppendEvent, ReturnError, Emit
<1>27. CASE GateBlockedComplete
  BY <1>27 DEF GateBlockedComplete, AppendEvent, ReturnError, Emit
<1>28. CASE OpenDeletionLog
  BY <1>28 DEF OpenDeletionLog, GateOpen, AbortPhase, EmitAborted, Emit
<1>29. CASE DeleteAbort
  BY <1>29 DEF DeleteAbort, AbortPhase, EmitAborted, Emit
<1>30. CASE Unlink BY <1>30 DEF Unlink, RemoveError
<1>31. CASE LogDeletion
  BY <1>31 DEF LogDeletion, ReturnError, AbortPhase, EmitAborted, Emit
<1>32. CASE DeleteComplete
  BY <1>32 DEF DeleteComplete, AppendEvent, ReturnError, Emit
<1>33. CASE DeleteCheckpoint
  BY <1>33 DEF DeleteCheckpoint, Checkpoint, ReturnError
<1>34. CASE ResolveStatus BY <1>34 DEF ResolveStatus, Resolved
<1>35. CASE FinalizeBegin
  BY <1>35 DEF FinalizeBegin, BeginPhase, AppendEvent, ReturnError, Emit
<1>36. CASE SealManifest
  BY <1>36 DEF SealManifest, GzipFailed, AbortPhase, EmitAborted, Emit
<1>37. CASE AppendFinished
  BY <1>37 DEF AppendFinished, ReturnError, AbortPhase, EmitAborted, Emit
<1>38. CASE CheckpointRunlog
  BY <1>38 DEF CheckpointRunlog, AbortPhase, EmitAborted, Emit
<1>39. CASE FinalizeComplete
  BY <1>39 DEF FinalizeComplete, AppendEvent, ReturnError, Emit
<1>40. CASE AnnounceFinish
  BY <1>40 DEF AnnounceFinish, AppendEvent, ReturnError, Emit
<1>41. CASE FinalizeCheckpoint
  BY <1>41 DEF FinalizeCheckpoint, Checkpoint, ReturnError
<1>42. CASE DeferredGzip BY <1>42 DEF DeferredGzip, GzipFailed
<1>43. CASE ReleaseLock BY <1>43 DEF ReleaseLock
<1>44. CASE Exit BY <1>44 DEF Exit
<1>45. CASE \E f \in Files : CopyFile(f) BY <1>45 DEF CopyFile
<1>46. CASE \E f \in Files : HashFile(f)
  BY <1>46 DEF HashFile, Classified, Undone, Drifted
<1>47. CASE \E f \in Files : DeleteFile(f)
  BY <1>47 DEF DeleteFile, Undecided, Drifted
<1>48. CASE ConfirmDelete BY <1>48 DEF ConfirmDelete
<1>49. CASE DeclineDelete BY <1>49 DEF DeclineDelete
<1>50. CASE Cancel BY <1>50 DEF Cancel
<1>51. CASE SecondSignal BY <1>51 DEF SecondSignal
<1>52. CASE PowerLoss BY <1>52 DEF PowerLoss
<1>53. CASE \E f \in Files : UserEdit(f) BY <1>53 DEF UserEdit
<1>54. CASE \E f \in Files : StealthEdit(f) BY <1>54 DEF StealthEdit
<1>55. CASE \E f \in Files : UserDelete(f) BY <1>55 DEF UserDelete
<1>56. CASE \E f \in Files : Rot(f) BY <1>56 DEF Rot
<1>57. CASE UNCHANGED vars BY <1>57 DEF vars
<1> HIDE DEF TypeOK, AuditOK, Began, Completed, walkVars, loopVars,
    resultVars, outVars, worldVars, maniVars, eventVars, runlogVars, delVars,
    Goto
<1> QED
  BY ZenonT(60),
         <1>1, <1>2, <1>3, <1>4, <1>5, <1>6, <1>7, <1>8, <1>9, <1>10,
         <1>11, <1>12, <1>13, <1>14, <1>15, <1>16, <1>17, <1>18, <1>19,
         <1>20, <1>21, <1>22, <1>23, <1>24, <1>25, <1>26, <1>27, <1>28,
         <1>29, <1>30, <1>31, <1>32, <1>33, <1>34, <1>35, <1>36, <1>37,
         <1>38, <1>39, <1>40, <1>41, <1>42, <1>43, <1>44, <1>45, <1>46,
         <1>47, <1>48, <1>49, <1>50, <1>51, <1>52, <1>53, <1>54, <1>55,
         <1>56, <1>57 DEF Next, Runner, Environment


-----------------------------------------------------------------------------
(* Each part of AuditInv.                                                  *)

\* A run starts with nothing on record.
LEMMA AuditInit == ASSUME Init PROVE AuditInv
<1> USE DEF Init, None
<1>1. LockOK BY DEF LockOK, Locked, Phases
<1>2. DeletionLogOK BY DEF DeletionLogOK, Unlogged
<1>3. ManifestOK
  BY DEF ManifestOK, Undone, Finalized, AfterHash
<1>4. RunlogOK BY DEF RunlogOK, RunFinishedIsDurable
<1>5. PhasesOK BY DEF PhasesOK
<1>6. ExitOK BY DEF ExitOK
<1> QED BY <1>1, <1>2, <1>3, <1>4, <1>5, <1>6 DEF AuditInv

\* The lock is not given back before the last defer.
LEMMA LockStep == ASSUME TypeOK, LockOK, [Next]_vars PROVE LockOK'
BY StepEffects DEF LockOK

\* The deletion log falls behind by one file and catches up before the next.
LEMMA DeletionLogStep ==
  ASSUME RunInv, DeletionLogOK, [Next]_vars
  PROVE  DeletionLogOK'
<1> USE DEF RunInv, TypeOK, WorldOK, AuditOK, DeletionLogOK, Unlogged
<1>1. CASE Unlink
  BY <1>1 DEF Unlink, RemoveError, Goto, delVars, LoopOK, ProcessOK
<1>2. CASE LogDeletion
  BY <1>2 DEF LogDeletion, delVars, worldVars, AbortPhase, ReturnError,
      LoopOK, ProcessOK
<1>3. CASE \E f \in Files : HashFile(f)
  BY <1>3 DEF HashFile, Classified, GateOK, BeforeGate, delVars, worldVars
<1>4. CASE RecordFile
  BY <1>4 DEF RecordFile, ReturnError, GateOK, BeforeGate, delVars, worldVars
<1>5. CASE \E f \in Files : DeleteFile(f)
  BY <1>5 DEF DeleteFile, Undecided, delVars, worldVars, None
<1>6. CASE OpenDeletionLog
  BY <1>6 DEF OpenDeletionLog, AbortPhase, GateOK, BeforeGate, delVars,
      worldVars, loopVars
<1>7. CASE ~ \/ Unlink \/ LogDeletion \/ RecordFile \/ OpenDeletionLog
             \/ \E f \in Files : HashFile(f) \/ DeleteFile(f)
  <2>1. UNCHANGED <<unlinked, delLog, cur>> BY <1>7, StepEffects
  <2>2. pc' \in {"t3_loop", "t3_unlink"} => pc' = pc BY <1>7, StepEffects
  <2>3. pc' = "t3_log" => pc' = pc /\ verdict' = verdict
    BY <1>7, StepEffects
  <2> QED BY <2>1, <2>2, <2>3
<1> QED BY <1>1, <1>2, <1>3, <1>4, <1>5, <1>6, <1>7

\* The manifest keeps up with the statuses, and stays sealed.
LEMMA ManifestStep ==
  ASSUME RunInv, ManifestOK, [Next]_vars
  PROVE  ManifestOK'
<1> USE DEF RunInv, TypeOK, ManifestOK, Undone
<1>1. CASE RecordFile
  <2> USE DEF RecordFile, walkVars, runlogVars
  <2>1. /\ pc = "t2_record" /\ pc' \in {"t2_loop", "unwind"}
        /\ UNCHANGED <<candidates, manifest, runlog>>
    BY <1>1 DEF ReturnError
  <2>2. "finished" \notin runlog
    BY <2>1 DEF AfterFinish, Finalized, Unwinding, Ended
  <2>3. pc' \notin AfterHash /\ pc' \notin Finalized
    BY <2>1 DEF AfterHash, Finalized
  <2>4. entries' = candidates' \ Undone'
    <3>1. CASE UNCHANGED <<entries, status>> BY <2>1, <3>1
    <3>2. CASE ~UNCHANGED <<entries, status>>
      <4>1. /\ entries' = entries \cup {cur}
            /\ status' = [status EXCEPT ![cur] = verdict]
        BY <1>1, <3>2 DEF resultVars
      <4>2. cur \in candidates /\ cur \in Files /\ verdict # None
        BY <2>1 DEF LoopOK, ProcessOK, FileStatus, None
      <4>3. Undone' = Undone \ {cur} BY <2>1, <4>1, <4>2 DEF ProcessOK
      <4> QED BY <2>1, <4>1, <4>2, <4>3
    <3> QED BY <3>1, <3>2
  <2> QED BY <2>1, <2>2, <2>3, <2>4
<1>2. CASE Enumerate
  <2> USE DEF Enumerate, runlogVars, resultVars, maniVars
  <2>1. /\ pc = "t0p_walk" /\ pc' \in {"t0p_sync", "unwind"}
        /\ UNCHANGED <<entries, status, runlog>>
    BY <1>2 DEF AbortPhase, ReturnError
  <2>2. "finished" \notin runlog
    BY <2>1 DEF AfterFinish, Finalized, Unwinding, Ended
  <2>3. pc' \notin AfterHash /\ pc' \notin Finalized
    BY <2>1 DEF AfterHash, Finalized
  <2>4. status = [f \in Files |-> None]
    BY <2>1 DEF GateOK, BeforeHash, BeforeWalk
  <2>5. candidates \subseteq Files /\ candidates' \subseteq Files
    BY <1>2 DEF ProcessOK, WorldOK, walkVars
  <2>6. Undone = candidates /\ Undone' = candidates' BY <2>1, <2>4, <2>5
  <2> QED BY <2>1, <2>2, <2>3, <2>6
<1>3. CASE ~(RecordFile \/ Enumerate)
  <2>1. UNCHANGED <<entries, status, candidates>> BY <1>3, StepEffects
  <2>2. UNCHANGED Undone BY <2>1
  <2>3. pc' \in AfterHash => Undone = {} BY StepEffects DEF HashComplete
  <2>4. manifest = "sealed" /\ pc \notin {"setup", "t4_gzip"} =>
          manifest' = "sealed"
    BY StepEffects DEF SealManifest
  <2>5. pc' \in Finalized => manifest' = "sealed"
    <3>1. CASE SealManifest
      BY <3>1 DEF SealManifest, AbortPhase, Finalized
    <3>2. CASE pc \in Finalized BY <2>4, <3>2 DEF Finalized
    <3> QED BY <3>1, <3>2, StepEffects
  <2>6. ASSUME "finished" \in runlog'
        PROVE  manifest' = "sealed" /\ Undone' = {} /\ pc' \in AfterFinish
    <3>1. CASE "finished" \in runlog
      BY <2>2, <2>4, <3>1, StepEffects
      DEF AfterFinish, Finalized, Unwinding, Ended
    <3>2. CASE AppendFinished
      BY <2>2, <2>4, <3>2
      DEF AppendFinished, AbortPhase, ReturnError, maniVars, AfterFinish,
        AfterHash, Finalized, Unwinding
    <3> QED BY <2>6, <3>1, <3>2, StepEffects
  <2> QED BY <2>1, <2>2, <2>3, <2>5, <2>6
<1> QED BY <1>1, <1>2, <1>3

\* The checkpoint of runs.ndjson is behind every run_finished event.
LEMMA RunlogStep ==
  ASSUME TypeOK, RunlogOK, [Next]_vars
  PROVE  RunlogOK'
<1> USE DEF RunlogOK, RunFinishedIsDurable
<1>1. (pc = "t4_checkpoint" => "finished" \in runlog)'
  <2>1. CASE AppendFinished
    BY <2>1 DEF AppendFinished, ReturnError, AbortPhase
  <2>2. CASE pc = "t4_checkpoint" /\ pc' = pc
    BY <2>2, StepEffects DEF PowerLoss
  <2> QED BY <2>1, <2>2, StepEffects
<1>2. (pc \in {"t4_close", "t4_last", "t4_sync"} =>
         "finished" \in runlogSynced)'
  <2>1. CASE CheckpointRunlog
    BY <2>1 DEF CheckpointRunlog, AbortPhase
  <2> QED BY <2>1, StepEffects
<1>3. (<<"T4", "run_finished">> \in events => "finished" \in runlogSynced)'
  BY StepEffects, EventEffects
<1> QED BY <1>1, <1>2, <1>3

\* A phase is checkpointed before the next one begins.
LEMMA PhasesStep ==
  ASSUME TypeOK, PhasesOK, [Next]_vars
  PROVE  PhasesOK'
BY EventEffects DEF PhasesOK

\* After the gate nothing changes any more what the status was resolved on.
LEMMA ExitStep ==
  ASSUME RunInv, ExitOK, [Next]_vars
  PROVE  ExitOK'
<1> USE DEF RunInv, ExitOK
<1>1. ASSUME exitStatus' = "ok"
      PROVE  Verified' = candidates' /\ pc' \in AfterResolve
  <2>1. CASE ResolveStatus
    <3>1. GateOpen /\ pc' = "t4" /\ UNCHANGED <<status, candidates>>
      BY <1>1, <2>1 DEF ResolveStatus, Resolved, resultVars, walkVars, Goto
    <3>2. Verified = candidates BY <3>1, GateOpenMeansVerified
    <3> QED BY <3>1, <3>2 DEF Verified, AfterResolve
  <2>2. CASE exitStatus = "ok"
    <3>1. pc \in AfterResolve /\ Verified = candidates BY <2>2
    <3>2. UNCHANGED <<status, candidates>>
      BY <3>1, StepEffects DEF RecordFile, Enumerate, AfterResolve, Finalized,
        Unwinding, Ended
    <3> QED BY <3>1, <3>2, StepEffects DEF Verified
  <2> QED BY <1>1, <2>1, <2>2, StepEffects
<1>2. ASSUME exitCode' = 0 PROVE exitStatus' = "ok"
  <2>1. CASE Exit BY <1>2, <2>1 DEF Exit, Goto
  <2>2. CASE exitCode = 0
    <3>1. exitStatus = "ok" /\ pc \in AfterResolve BY <2>2
    <3> QED
      BY <3>1, StepEffects DEF ResolveStatus, Goto, AfterResolve, Finalized,
          Unwinding, Ended, BeforeWalk
  <2> QED BY <1>2, <2>1, <2>2, StepEffects
<1> QED BY <1>1, <1>2

\* AuditInv is preserved by every step.
LEMMA AuditStep ==
  ASSUME RunInv, AuditInv, [Next]_vars
  PROVE  AuditInv'
BY LockStep, DeletionLogStep, ManifestStep, RunlogStep, PhasesStep, ExitStep
   DEF AuditInv, RunInv

\* AuditInv holds of every run.
THEOREM AuditCorrect == Spec => []AuditInv
<1>1. Init => AuditInv BY AuditInit
<1>2. RunInv /\ AuditInv /\ [Next]_vars => AuditInv' BY AuditStep
<1> QED BY <1>1, <1>2, InvariantCorrect, PTL DEF Spec

-----------------------------------------------------------------------------
(* The properties the runs check.                                          *)

\* After any abort or crash the deletion log and the source tree differ in
\* one file at most (the fsynced line of t4_delete_source.go comes after the
\* os.Remove), and the log claims no deletion that was not made.
THEOREM DeletionsLogged == Spec => []AtMostOneUnlogged
<1>1. ASSUME DeletionLogOK PROVE AtMostOneUnlogged
  <2>1. Unlogged \subseteq {cur} BY <1>1 DEF DeletionLogOK
  <2>2. Cardinality(Unlogged) <= 1
    <3>1. IsFiniteSet({cur}) /\ Cardinality({cur}) = 1 BY FS_Singleton
    <3>2. Cardinality(Unlogged) <= Cardinality({cur})
      BY <2>1, <3>1, FS_Subset
    <3> QED BY <3>1, <3>2
  <2> QED BY <1>1, <2>2 DEF AtMostOneUnlogged, DeletionLogOK, Unlogged
<1> QED BY <1>1, AuditCorrect, PTL DEF AuditInv

\* A run that runs.ndjson calls finished has a sealed manifest with a line for
\* every candidate.
THEOREM FinishedCorrect == Spec => []FinishedImpliesSealed
<1>1. ManifestOK => FinishedImpliesSealed
  BY DEF ManifestOK, FinishedImpliesSealed
<1> QED BY <1>1, AuditCorrect, PTL DEF AuditInv

\* events.ndjson never announces the end of a run whose "finished" line is not
\* on the medium.
THEOREM FinishDurable == Spec => []RunFinishedIsDurable
BY AuditCorrect, PTL DEF AuditInv, RunlogOK

\* When a phase has begun, the completion of the one before it is on the
\* medium: a crash loses the events of one phase at most.
THEOREM PhasesDurable == Spec => []EarlierPhasesDurable
<1>1. ASSUME PhasesOK PROVE EarlierPhasesDurable
  <2>1. SUFFICES ASSUME NEW p \in Phase, NEW q \in Phase,
                        Began(p) \in events, q \in Before(p)
                 PROVE  Completed(q) \in eventsSynced
    BY DEF EarlierPhasesDurable, Began, Completed
  <2>2. CASE p = "T0" BY <2>1, <2>2 DEF Before
  <2>3. CASE p = "T0+" BY <1>1, <2>1, <2>3 DEF Before, PhasesOK
  <2>4. CASE p = "T1" BY <1>1, <2>1, <2>4 DEF Before, PhasesOK
  <2>5. CASE p = "T2" BY <1>1, <2>1, <2>5 DEF Before, PhasesOK
  <2>6. CASE p = "T3" BY <1>1, <2>1, <2>6 DEF Before, PhasesOK
  <2>7. CASE p = "T4" BY <1>1, <2>1, <2>7 DEF Before, PhasesOK
  <2> QED BY <2>2, <2>3, <2>4, <2>5, <2>6, <2>7 DEF Phase
<1> QED BY <1>1, AuditCorrect, PTL DEF AuditInv

\* Exit code 0 means a verified copy of every candidate.
THEOREM ExitZeroCorrect == Spec => []ExitZeroMeansVerified
<1>1. ExitOK => ExitZeroMeansVerified BY DEF ExitOK, ExitZeroMeansVerified
<1> QED BY <1>1, AuditCorrect, PTL DEF AuditInv

\* What the runs on one volume share, and the source, change under the lock
\* only, on the way out of an aborted run too.
THEOREM LockCoversWrites == Spec => WritesUnderLock
<1> DEFINE Shared == <<copied, unlinked, manifest, entries, runlog>>
<1>1. ASSUME TypeOK, LockOK, [Next]_vars, pc' # "dead", Shared' # Shared
      PROVE  lock = "held"
  <2>1. pc \in Locked BY <1>1, StepEffects
  <2> QED BY <1>1, <2>1 DEF LockOK
<1>2. TypeOK /\ LockOK /\ [Next]_vars =>
        [pc' # "dead" /\ Shared' # Shared => lock = "held"]_vars
  BY <1>1
<1> QED BY <1>2, InvariantCorrect, AuditCorrect, PTL
    DEF Spec, WritesUnderLock, AuditInv, RunInv
=============================================================================
