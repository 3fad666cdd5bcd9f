--------------------------- MODULE BackupRunProofs ---------------------------
(***************************************************************************)
(* What is proved of BackupRun for every set of files, every bound and     *)
(* every choice of faults.                                                 *)
(*                                                                         *)
(* The gate's counter is a number kept beside the map it counts, and the   *)
(* deletion log is opened on what the counter said: GateOK ties both to    *)
(* the files' statuses.  CopyOK carries what T2 saw of a copy to the       *)
(* unlink of its source.  Each part of RunInv is preserved by every action *)
(* given the parts before it (TypeStep, LoopStep, GateStep, CopyStep);     *)
(* AtomicGate, NoUnexcusedLoss and the refinement of AtomicMove follow.    *)
(***************************************************************************)
EXTENDS BackupRun, TLAPS, FiniteSetTheorems

-----------------------------------------------------------------------------
(* Types.                                                                  *)

\* A run starts with every variable in its type.
LEMMA TypeInit == ASSUME Init PROVE TypeOK
<1> USE DEF Init, Version, None, Nothing, Garbage
<1>1. ProcessOK
  <2>1. pc \in PC BY DEF PC, BeforeWalk
  <2>2. 0 \in Version BY BoundAssumption
  <2> QED BY <2>1, <2>2 DEF ProcessOK
<1>2. WorldOK BY BoundAssumption DEF WorldOK
<1>3. AuditOK BY DEF AuditOK
<1> QED BY <1>1, <1>2, <1>3 DEF TypeOK

\* No step takes a variable out of its type.  LoopOK is what says that the
\* verdict T2 records is a file status and the one T3 logs a deletion status.
LEMMA TypeStep == ASSUME TypeOK, LoopOK, [Next]_vars PROVE TypeOK'
<1> USE FilesAssumption, BoundAssumption
<1> USE DEF TypeOK, ProcessOK, WorldOK, AuditOK, LoopOK, PC, Ended, BeforeWalk, Phases, Unwinding,
  Phase, EventKind, FileStatus, DeletionStatus, ExitStatus, None, Version,
  Nothing, Garbage, walkVars, loopVars, resultVars, outVars, worldVars, maniVars,
  eventVars, runlogVars, delVars, Goto
<1>1. CASE OpenStores BY <1>1 DEF OpenStores, FailPreflight
<1>2. CASE PreflightBegin BY <1>2 DEF PreflightBegin, FailPreflight, Emit
<1>3. CASE PreflightPass BY <1>3 DEF PreflightPass
<1>4. CASE PreflightRefuse
  BY <1>4 DEF PreflightRefuse, FailPreflight, EmitAborted, Emit
<1>5. CASE AppendStarted
  <2>1. ProcessOK' /\ WorldOK' BY <1>5 DEF AppendStarted, FailPreflight
  <2>2. AuditOK'
    BY <1>5, runlog \subseteq runlog' DEF AppendStarted, FailPreflight
  <2> QED BY <2>1, <2>2
<1>6. CASE PreflightComplete
  BY <1>6 DEF PreflightComplete, FailPreflight, Emit
<1>7. CASE PreflightCheckpoint
  <2>1. ProcessOK' /\ WorldOK'
    BY <1>7 DEF PreflightCheckpoint, FailPreflight
  <2>2. AuditOK'
    <3>1. runlog' \subseteq {"started", "finished"} /\ runlogSynced' \subseteq runlog'
      BY <1>7 DEF PreflightCheckpoint
    <3> QED BY <1>7, <3>1 DEF PreflightCheckpoint, FailPreflight
  <2> QED BY <2>1, <2>2
<1>8. CASE OpenManifest BY <1>8 DEF OpenManifest
<1>9. CASE EnumerateBegin
  BY <1>9 DEF EnumerateBegin, BeginPhase, AppendEvent, ReturnError, Emit
<1>10. CASE Enumerate
  BY <1>10 DEF Enumerate, Emit, AbortPhase, EmitAborted, ReturnError
<1>11. CASE EnumerateCheckpoint
  BY <1>11 DEF EnumerateCheckpoint, Checkpoint, ReturnError
<1>12. CASE TransferBegin
  BY <1>12 DEF TransferBegin, BeginPhase, AppendEvent, ReturnError, Emit
<1>13. CASE RsyncExit BY <1>13 DEF RsyncExit
<1>14. CASE RsyncFail
  BY <1>14 DEF RsyncFail, AbortPhase, EmitAborted, Emit, ReturnError
<1>15. CASE TransferClose
  BY <1>15 DEF TransferClose, AppendEvent, ReturnError, Emit
<1>16. CASE TransferCheckpoint
  BY <1>16 DEF TransferCheckpoint, Checkpoint, ReturnError
<1>17. CASE HashBegin
  BY <1>17 DEF HashBegin, BeginPhase, AppendEvent, ReturnError, Emit
<1>18. CASE HashAbort BY <1>18 DEF HashAbort, AbortPhase, EmitAborted, Emit
<1>19. CASE HashSource BY <1>19 DEF HashSource, Classified
<1>20. CASE HashDest BY <1>20 DEF HashDest, Classified
<1>21. CASE RecordFile BY <1>21 DEF RecordFile, ReturnError
<1>22. CASE HashComplete
  BY <1>22 DEF HashComplete, AppendEvent, ReturnError, Emit
<1>23. CASE HashCheckpoint
  BY <1>23 DEF HashCheckpoint, Checkpoint, ReturnError
<1>24. CASE DeleteBegin
  BY <1>24 DEF DeleteBegin, BeginPhase, AppendEvent, ReturnError, Emit
<1>25. CASE DeleteSkipped
  BY <1>25 DEF DeleteSkipped, AppendEvent, ReturnError, Emit
<1>26. CASE GateBlocked
  BY <1>26 DEF GateBlocked, GateOpen, AppendEvent, ReturnError, Emit
<1>27. CASE GateBlockedComplete
  BY <1>27 DEF GateBlockedComplete, AppendEvent, ReturnError, Emit
<1>28. CASE OpenDeletionLog
  BY <1>28 DEF OpenDeletionLog, GateOpen, AbortPhase, EmitAborted, Emit
<1>29. CASE DeleteAbort
  BY <1>29 DEF DeleteAbort, AbortPhase, EmitAborted, Emit
<1>30. CASE Unlink BY <1>30 DEF Unlink, RemoveError
<1>31. CASE LogDeletion
  BY <1>31 DEF LogDeletion, ReturnError, AbortPhase, EmitAborted, Emit
<1>32. CASE DeleteComplete
  BY <1>32 DEF DeleteComplete, AppendEvent, ReturnError, Emit
<1>33. CASE DeleteCheckpoint
  BY <1>33 DEF DeleteCheckpoint, Checkpoint, ReturnError
<1>34. CASE ResolveStatus BY <1>34 DEF ResolveStatus, Resolved
<1>35. CASE FinalizeBegin
  BY <1>35 DEF FinalizeBegin, BeginPhase, AppendEvent, ReturnError, Emit
<1>36. CASE SealManifest
  BY <1>36 DEF SealManifest, GzipFailed, AbortPhase, EmitAborted, Emit
<1>37. CASE AppendFinished
  <2>1. ProcessOK' /\ WorldOK'
    BY <1>37 DEF AppendFinished, ReturnError, AbortPhase,
       EmitAborted, Emit
  <2>2. AuditOK'
    <3>1. runlog' \subseteq {"started", "finished"} /\ runlogSynced' \subseteq runlog'
      BY <1>37 DEF AppendFinished
    <3> QED BY <1>37, <3>1 DEF AppendFinished, ReturnError, AbortPhase,
       EmitAborted, Emit
  <2> QED BY <2>1, <2>2
<1>38. CASE CheckpointRunlog
  <2>1. ProcessOK' /\ WorldOK'
    BY <1>38 DEF CheckpointRunlog, AbortPhase, EmitAborted, Emit
  <2>2. AuditOK'
    <3>1. runlog' \subseteq {"started", "finished"} /\ runlogSynced' \subseteq runlog'
      BY <1>38 DEF CheckpointRunlog
    <3> QED BY <1>38, <3>1 DEF CheckpointRunlog, AbortPhase, EmitAborted, Emit
  <2> QED BY <2>1, <2>2
<1>39. CASE FinalizeComplete
  BY <1>39 DEF FinalizeComplete, AppendEvent, ReturnError, Emit
<1>40. CASE AnnounceFinish
  BY <1>40 DEF AnnounceFinish, AppendEvent, ReturnError, Emit
<1>41. CASE FinalizeCheckpoint
  BY <1>41 DEF FinalizeCheckpoint, Checkpoint, ReturnError
<1>42. CASE DeferredGzip BY <1>42 DEF DeferredGzip, GzipFailed
<1>43. CASE ReleaseLock BY <1>43 DEF ReleaseLock
<1>44. CASE Exit BY <1>44 DEF Exit
<1>45. CASE \E f \in Files : CopyFile(f) BY <1>45 DEF CopyFile
<1>46. CASE \E f \in Files : HashFile(f)
  BY <1>46 DEF HashFile, Classified, Undone, Drifted
<1>47. CASE \E f \in Files : DeleteFile(f)
  BY <1>47 DEF DeleteFile, Undecided, Drifted
<1>48. CASE ConfirmDelete BY <1>48 DEF ConfirmDelete
<1>49. CASE DeclineDelete BY <1>49 DEF DeclineDelete
<1>50. CASE Cancel BY <1>50 DEF Cancel
<1>51. CASE SecondSignal BY <1>51 DEF SecondSignal
<1>52. CASE PowerLoss BY <1>52 DEF PowerLoss
<1>53. CASE \E f \in Files : UserEdit(f)
  <2> PICK f \in Files : UserEdit(f) BY <1>53
  <2>1. ProcessOK' /\ AuditOK' BY DEF UserEdit
  <2>2. data[f] + 1 \in Version /\ sig[f] + 1 \in Version BY DEF UserEdit
  <2>3. WorldOK' BY <2>2 DEF UserEdit
  <2> QED BY <2>1, <2>3
<1>54. CASE \E f \in Files : StealthEdit(f) BY <1>54 DEF StealthEdit
<1>55. CASE \E f \in Files : UserDelete(f) BY <1>55 DEF UserDelete
<1>56. CASE \E f \in Files : Rot(f) BY <1>56 DEF Rot
<1>57. CASE UNCHANGED vars BY <1>57 DEF vars
<1> QED BY <1>1, <1>2, <1>3, <1>4, <1>5, <1>6, <1>7, <1>8, <1>9, <1>10,
         <1>11, <1>12, <1>13, <1>14, <1>15, <1>16, <1>17, <1>18, <1>19,
         <1>20, <1>21, <1>22, <1>23, <1>24, <1>25, <1>26, <1>27, <1>28,
         <1>29, <1>30, <1>31, <1>32, <1>33, <1>34, <1>35, <1>36, <1>37,
         <1>38, <1>39, <1>40, <1>41, <1>42, <1>43, <1>44, <1>45, <1>46,
         <1>47, <1>48, <1>49, <1>50, <1>51, <1>52, <1>53, <1>54, <1>55,
         <1>56, <1>57 DEF Next, Runner, Environment

-----------------------------------------------------------------------------
(* The loops of T2 and T3.                                                 *)

\* The loops of T2 and T3 never leave the candidates, and T2 records each
\* candidate once.
LEMMA LoopStep ==
  ASSUME TypeOK, LoopOK, [Next]_vars
  PROVE  LoopOK'
<1> USE DEF TypeOK, ProcessOK, LoopOK, FileStatus, DeletionStatus, None,
  walkVars, loopVars, resultVars, outVars, worldVars, maniVars,
  eventVars, runlogVars, delVars, Goto
<1>1. CASE OpenStores BY <1>1 DEF OpenStores, FailPreflight
<1>2. CASE PreflightBegin BY <1>2 DEF PreflightBegin, FailPreflight, Emit
<1>3. CASE PreflightPass BY <1>3 DEF PreflightPass
<1>4. CASE PreflightRefuse
  BY <1>4 DEF PreflightRefuse, FailPreflight, EmitAborted, Emit
<1>5. CASE AppendStarted BY <1>5 DEF AppendStarted, FailPreflight
<1>6. CASE PreflightComplete
  BY <1>6 DEF PreflightComplete, FailPreflight, Emit
<1>7. CASE PreflightCheckpoint BY <1>7 DEF PreflightCheckpoint, FailPreflight
<1>8. CASE OpenManifest BY <1>8 DEF OpenManifest
<1>9. CASE EnumerateBegin
  BY <1>9 DEF EnumerateBegin, BeginPhase, AppendEvent, ReturnError, Emit
<1>10. CASE Enumerate
  BY <1>10 DEF Enumerate, Emit, AbortPhase, EmitAborted, ReturnError
<1>11. CASE EnumerateCheckpoint
  BY <1>11 DEF EnumerateCheckpoint, Checkpoint, ReturnError
<1>12. CASE TransferBegin
  BY <1>12 DEF TransferBegin, BeginPhase, AppendEvent, ReturnError, Emit
<1>13. CASE RsyncExit BY <1>13 DEF RsyncExit
<1>14. CASE RsyncFail
  BY <1>14 DEF RsyncFail, AbortPhase, EmitAborted, Emit, ReturnError
<1>15. CASE TransferClose
  BY <1>15 DEF TransferClose, AppendEvent, ReturnError, Emit
<1>16. CASE TransferCheckpoint
  BY <1>16 DEF TransferCheckpoint, Checkpoint, ReturnError
<1>17. CASE HashBegin
  BY <1>17 DEF HashBegin, BeginPhase, AppendEvent, ReturnError, Emit
<1>18. CASE HashAbort BY <1>18 DEF HashAbort, AbortPhase, EmitAborted, Emit
<1>19. CASE HashSource BY <1>19 DEF HashSource, Classified
<1>20. CASE HashDest BY <1>20 DEF HashDest, Classified
<1>21. CASE RecordFile BY <1>21 DEF RecordFile, ReturnError
<1>22. CASE HashComplete
  BY <1>22 DEF HashComplete, AppendEvent, ReturnError, Emit
<1>23. CASE HashCheckpoint
  BY <1>23 DEF HashCheckpoint, Checkpoint, ReturnError
<1>24. CASE DeleteBegin
  BY <1>24 DEF DeleteBegin, BeginPhase, AppendEvent, ReturnError, Emit
<1>25. CASE DeleteSkipped
  BY <1>25 DEF DeleteSkipped, AppendEvent, ReturnError, Emit
<1>26. CASE GateBlocked
  BY <1>26 DEF GateBlocked, GateOpen, AppendEvent, ReturnError, Emit
<1>27. CASE GateBlockedComplete
  BY <1>27 DEF GateBlockedComplete, AppendEvent, ReturnError, Emit
<1>28. CASE OpenDeletionLog
  BY <1>28 DEF OpenDeletionLog, GateOpen, AbortPhase, EmitAborted, Emit
<1>29. CASE DeleteAbort
  BY <1>29 DEF DeleteAbort, AbortPhase, EmitAborted, Emit
<1>30. CASE Unlink BY <1>30 DEF Unlink, RemoveError
<1>31. CASE LogDeletion
  BY <1>31 DEF LogDeletion, ReturnError, AbortPhase, EmitAborted, Emit
<1>32. CASE DeleteComplete
  BY <1>32 DEF DeleteComplete, AppendEvent, ReturnError, Emit
<1>33. CASE DeleteCheckpoint
  BY <1>33 DEF DeleteCheckpoint, Checkpoint, ReturnError
<1>34. CASE ResolveStatus BY <1>34 DEF ResolveStatus, Resolved
<1>35. CASE FinalizeBegin
  BY <1>35 DEF FinalizeBegin, BeginPhase, AppendEvent, ReturnError, Emit
<1>36. CASE SealManifest
  BY <1>36 DEF SealManifest, GzipFailed, AbortPhase, EmitAborted, Emit
<1>37. CASE AppendFinished
  BY <1>37 DEF AppendFinished, ReturnError, AbortPhase, EmitAborted, Emit
<1>38. CASE CheckpointRunlog
  BY <1>38 DEF CheckpointRunlog, AbortPhase, EmitAborted, Emit
<1>39. CASE FinalizeComplete
  BY <1>39 DEF FinalizeComplete, AppendEvent, ReturnError, Emit
<1>40. CASE AnnounceFinish
  BY <1>40 DEF AnnounceFinish, AppendEvent, ReturnError, Emit
<1>41. CASE FinalizeCheckpoint
  BY <1>41 DEF FinalizeCheckpoint, Checkpoint, ReturnError
<1>42. CASE DeferredGzip BY <1>42 DEF DeferredGzip, GzipFailed
<1>43. CASE ReleaseLock BY <1>43 DEF ReleaseLock
<1>44. CASE Exit BY <1>44 DEF Exit
<1>45. CASE \E f \in Files : CopyFile(f) BY <1>45 DEF CopyFile
<1>46. CASE \E f \in Files : HashFile(f)
  BY <1>46 DEF HashFile, Classified, Undone, Drifted
<1>47. CASE \E f \in Files : DeleteFile(f)
  BY <1>47 DEF DeleteFile, Undecided, Drifted
<1>48. CASE ConfirmDelete BY <1>48 DEF ConfirmDelete
<1>49. CASE DeclineDelete BY <1>49 DEF DeclineDelete
<1>50. CASE Cancel BY <1>50 DEF Cancel
<1>51. CASE SecondSignal BY <1>51 DEF SecondSignal
<1>52. CASE PowerLoss BY <1>52 DEF PowerLoss
<1>53. CASE \E f \in Files : UserEdit(f) BY <1>53 DEF UserEdit
<1>54. CASE \E f \in Files : StealthEdit(f) BY <1>54 DEF StealthEdit
<1>55. CASE \E f \in Files : UserDelete(f) BY <1>55 DEF UserDelete
<1>56. CASE \E f \in Files : Rot(f) BY <1>56 DEF Rot
<1>57. CASE UNCHANGED vars BY <1>57 DEF vars
<1> QED BY <1>1, <1>2, <1>3, <1>4, <1>5, <1>6, <1>7, <1>8, <1>9, <1>10,
         <1>11, <1>12, <1>13, <1>14, <1>15, <1>16, <1>17, <1>18, <1>19,
         <1>20, <1>21, <1>22, <1>23, <1>24, <1>25, <1>26, <1>27, <1>28,
         <1>29, <1>30, <1>31, <1>32, <1>33, <1>34, <1>35, <1>36, <1>37,
         <1>38, <1>39, <1>40, <1>41, <1>42, <1>43, <1>44, <1>45, <1>46,
         <1>47, <1>48, <1>49, <1>50, <1>51, <1>52, <1>53, <1>54, <1>55,
         <1>56, <1>57 DEF Next, Runner, Environment

-----------------------------------------------------------------------------
(* The gate.                                                               *)

\* What the gate's counter counts is a finite set.
LEMMA VerifiedFinite ==
  ASSUME TypeOK
  PROVE  IsFiniteSet(candidates) /\ IsFiniteSet(Verified)
<1>1. candidates \in SUBSET Files BY DEF TypeOK, ProcessOK
<1>2. IsFiniteSet(candidates) BY <1>1, FilesAssumption, FS_Subset
<1>3. Verified \in SUBSET candidates BY DEF Verified
<1> QED BY <1>2, <1>3, FS_Subset

\* Recording a file keeps the counter in step with the set.
LEMMA RecordCounts ==
  ASSUME TypeOK, LoopOK, GateOK, RecordFile
  PROVE  (filesVerified = Cardinality(Verified))'
<1> USE DEF TypeOK, ProcessOK, LoopOK, GateOK, RecordFile, Verified,
  walkVars, loopVars, resultVars, outVars, worldVars, maniVars,
  eventVars, runlogVars, delVars, Goto
<1>1. IsFiniteSet(Verified) BY VerifiedFinite
<1>2. CASE pc' = "t2_loop" /\ verdict = "verified"
  <2>1. Verified' = Verified \cup {cur} BY <1>2 DEF ReturnError
  <2>2. cur \notin Verified BY DEF None
  <2>3. Cardinality(Verified') = Cardinality(Verified) + 1
    <3> HIDE DEF Verified
    <3> QED BY <1>1, <2>1, <2>2, FS_AddElement
  <2>4. filesVerified' = filesVerified + 1 BY <1>2 DEF ReturnError
  <2> QED BY <2>3, <2>4
<1>3. CASE ~(pc' = "t2_loop" /\ verdict = "verified")
  <2>1. Verified' = Verified BY <1>3 DEF None, ReturnError
  <2>2. filesVerified' = filesVerified BY <1>3 DEF ReturnError
  <2> QED BY <2>1, <2>2
<1> QED BY <1>2, <1>3

\* The gate, as it is computed, is the gate as it is meant.
LEMMA GateOpenMeansVerified ==
  ASSUME TypeOK, GateOK, GateOpen
  PROVE  Verified = candidates
<1>1. Cardinality(candidates) = Cardinality(Verified) BY DEF GateOpen, GateOK
<1>2. Verified \in SUBSET candidates BY DEF Verified
<1> QED BY <1>1, <1>2, VerifiedFinite, FS_Subset

\* No step brings the counter, the statuses and the deletion log apart.
LEMMA GateStep ==
  ASSUME TypeOK, LoopOK, GateOK, [Next]_vars
  PROVE  GateOK'
<1> USE DEF TypeOK, ProcessOK, LoopOK, GateOK, Blocked, None,
  BeforeGate, BeforeHash, BeforeWalk,
  walkVars, loopVars, resultVars, outVars, worldVars, maniVars,
  eventVars, runlogVars, delVars, Goto
<1>a. UNCHANGED <<candidates, status>> => Verified' = Verified BY DEF Verified
<1> USE <1>a
<1>1. CASE OpenStores BY <1>1 DEF OpenStores, FailPreflight
<1>2. CASE PreflightBegin BY <1>2 DEF PreflightBegin, FailPreflight, Emit
<1>3. CASE PreflightPass BY <1>3 DEF PreflightPass
<1>4. CASE PreflightRefuse
  BY <1>4 DEF PreflightRefuse, FailPreflight, EmitAborted, Emit
<1>5. CASE AppendStarted BY <1>5 DEF AppendStarted, FailPreflight
<1>6. CASE PreflightComplete
  BY <1>6 DEF PreflightComplete, FailPreflight, Emit
<1>7. CASE PreflightCheckpoint BY <1>7 DEF PreflightCheckpoint, FailPreflight
<1>8. CASE OpenManifest BY <1>8 DEF OpenManifest
<1>9. CASE EnumerateBegin
  BY <1>9 DEF EnumerateBegin, BeginPhase, AppendEvent, ReturnError, Emit
<1>10. CASE Enumerate
  <2>1. Verified = {} /\ Verified' = {}
    <3>1. status = [f \in Files |-> None] /\ status' = status
      BY <1>10 DEF Enumerate
    <3>2. candidates \subseteq Files /\ candidates' \subseteq Files
      BY <1>10 DEF Enumerate, WorldOK
    <3> QED BY <3>1, <3>2 DEF Verified
  <2>2. filesVerified' = Cardinality(Verified')
    BY <1>10, <2>1 DEF Enumerate
  <2>3. unlinked = {} /\ unlinked' = {} BY <1>10 DEF Enumerate
  <2> QED BY <1>10, <2>1, <2>2, <2>3
    DEF Enumerate, Emit, AbortPhase, EmitAborted, ReturnError
<1>11. CASE EnumerateCheckpoint
  BY <1>11 DEF EnumerateCheckpoint, Checkpoint, ReturnError
<1>12. CASE TransferBegin
  BY <1>12 DEF TransferBegin, BeginPhase, AppendEvent, ReturnError, Emit
<1>13. CASE RsyncExit BY <1>13 DEF RsyncExit
<1>14. CASE RsyncFail
  BY <1>14 DEF RsyncFail, AbortPhase, EmitAborted, Emit, ReturnError
<1>15. CASE TransferClose
  BY <1>15 DEF TransferClose, AppendEvent, ReturnError, Emit
<1>16. CASE TransferCheckpoint
  BY <1>16 DEF TransferCheckpoint, Checkpoint, ReturnError
<1>17. CASE HashBegin
  BY <1>17 DEF HashBegin, BeginPhase, AppendEvent, ReturnError, Emit
<1>18. CASE HashAbort BY <1>18 DEF HashAbort, AbortPhase, EmitAborted, Emit
<1>19. CASE HashSource BY <1>19 DEF HashSource, Classified
<1>20. CASE HashDest BY <1>20 DEF HashDest, Classified
<1>21. CASE RecordFile
  <2>1. (filesVerified = Cardinality(Verified))' BY <1>21, RecordCounts
  <2> QED BY <1>21, <2>1 DEF RecordFile, ReturnError
<1>22. CASE HashComplete
  BY <1>22 DEF HashComplete, AppendEvent, ReturnError, Emit
<1>23. CASE HashCheckpoint
  BY <1>23 DEF HashCheckpoint, Checkpoint, ReturnError
<1>24. CASE DeleteBegin
  BY <1>24 DEF DeleteBegin, BeginPhase, AppendEvent, ReturnError, Emit
<1>25. CASE DeleteSkipped
  BY <1>25 DEF DeleteSkipped, AppendEvent, ReturnError, Emit
<1>26. CASE GateBlocked
  BY <1>26 DEF GateBlocked, GateOpen, AppendEvent, ReturnError, Emit
<1>27. CASE GateBlockedComplete
  BY <1>27 DEF GateBlockedComplete, AppendEvent, ReturnError, Emit
<1>28. CASE OpenDeletionLog
  <2>1. Verified = candidates BY <1>28, GateOpenMeansVerified DEF OpenDeletionLog
  <2> QED BY <1>28, <2>1
    DEF OpenDeletionLog, Emit, AbortPhase, EmitAborted
<1>29. CASE DeleteAbort
  BY <1>29 DEF DeleteAbort, AbortPhase, EmitAborted, Emit
<1>30. CASE Unlink BY <1>30 DEF Unlink, RemoveError
<1>31. CASE LogDeletion
  BY <1>31 DEF LogDeletion, ReturnError, AbortPhase, EmitAborted, Emit
<1>32. CASE DeleteComplete
  BY <1>32 DEF DeleteComplete, AppendEvent, ReturnError, Emit
<1>33. CASE DeleteCheckpoint
  BY <1>33 DEF DeleteCheckpoint, Checkpoint, ReturnError
<1>34. CASE ResolveStatus BY <1>34 DEF ResolveStatus, Resolved
<1>35. CASE FinalizeBegin
  BY <1>35 DEF FinalizeBegin, BeginPhase, AppendEvent, ReturnError, Emit
<1>36. CASE SealManifest
  BY <1>36 DEF SealManifest, GzipFailed, AbortPhase, EmitAborted, Emit
<1>37. CASE AppendFinished
  BY <1>37 DEF AppendFinished, ReturnError, AbortPhase, EmitAborted, Emit
<1>38. CASE CheckpointRunlog
  BY <1>38 DEF CheckpointRunlog, AbortPhase, EmitAborted, Emit
<1>39. CASE FinalizeComplete
  BY <1>39 DEF FinalizeComplete, AppendEvent, ReturnError, Emit
<1>40. CASE AnnounceFinish
  BY <1>40 DEF AnnounceFinish, AppendEvent, ReturnError, Emit
<1>41. CASE FinalizeCheckpoint
  BY <1>41 DEF FinalizeCheckpoint, Checkpoint, ReturnError
<1>42. CASE DeferredGzip BY <1>42 DEF DeferredGzip, GzipFailed
<1>43. CASE ReleaseLock BY <1>43 DEF ReleaseLock
<1>44. CASE Exit BY <1>44 DEF Exit
<1>45. CASE \E f \in Files : CopyFile(f) BY <1>45 DEF CopyFile
<1>46. CASE \E f \in Files : HashFile(f)
  BY <1>46 DEF HashFile, Classified, Undone, Drifted
<1>47. CASE \E f \in Files : DeleteFile(f)
  BY <1>47 DEF DeleteFile, Undecided, Drifted
<1>48. CASE ConfirmDelete BY <1>48 DEF ConfirmDelete
<1>49. CASE DeclineDelete BY <1>49 DEF DeclineDelete
<1>50. CASE Cancel BY <1>50 DEF Cancel
<1>51. CASE SecondSignal BY <1>51 DEF SecondSignal
<1>52. CASE PowerLoss BY <1>52 DEF PowerLoss
<1>53. CASE \E f \in Files : UserEdit(f) BY <1>53 DEF UserEdit
<1>54. CASE \E f \in Files : StealthEdit(f) BY <1>54 DEF StealthEdit
<1>55. CASE \E f \in Files : UserDelete(f) BY <1>55 DEF UserDelete
<1>56. CASE \E f \in Files : Rot(f) BY <1>56 DEF Rot
<1>57. CASE UNCHANGED vars BY <1>57 DEF vars
<1> QED BY <1>1, <1>2, <1>3, <1>4, <1>5, <1>6, <1>7, <1>8, <1>9, <1>10,
         <1>11, <1>12, <1>13, <1>14, <1>15, <1>16, <1>17, <1>18, <1>19,
         <1>20, <1>21, <1>22, <1>23, <1>24, <1>25, <1>26, <1>27, <1>28,
         <1>29, <1>30, <1>31, <1>32, <1>33, <1>34, <1>35, <1>36, <1>37,
         <1>38, <1>39, <1>40, <1>41, <1>42, <1>43, <1>44, <1>45, <1>46,
         <1>47, <1>48, <1>49, <1>50, <1>51, <1>52, <1>53, <1>54, <1>55,
         <1>56, <1>57 DEF Next, Runner, Environment

-----------------------------------------------------------------------------
(* The copies of what has been verified.                                   *)

\* No step leaves a verified, undrifted, unexcused file unequal to its copy.
LEMMA CopyStep ==
  ASSUME TypeOK, LoopOK, GateOK, CopyOK, [Next]_vars
  PROVE  CopyOK'
<1> USE DEF TypeOK, ProcessOK, WorldOK, LoopOK, GateOK, CopyOK, SafeCopy,
  NoUnexcusedLoss, Drifted, Verified, None, BeforeHash, BeforeWalk, Version,
  walkVars, loopVars, resultVars, outVars, worldVars, maniVars,
  eventVars, runlogVars, delVars, Goto
<1>1. CASE OpenStores BY <1>1 DEF OpenStores, FailPreflight
<1>2. CASE PreflightBegin BY <1>2 DEF PreflightBegin, FailPreflight, Emit
<1>3. CASE PreflightPass BY <1>3 DEF PreflightPass
<1>4. CASE PreflightRefuse
  BY <1>4 DEF PreflightRefuse, FailPreflight, EmitAborted, Emit
<1>5. CASE AppendStarted BY <1>5 DEF AppendStarted, FailPreflight
<1>6. CASE PreflightComplete
  BY <1>6 DEF PreflightComplete, FailPreflight, Emit
<1>7. CASE PreflightCheckpoint BY <1>7 DEF PreflightCheckpoint, FailPreflight
<1>8. CASE OpenManifest BY <1>8 DEF OpenManifest
<1>9. CASE EnumerateBegin
  BY <1>9 DEF EnumerateBegin, BeginPhase, AppendEvent, ReturnError, Emit
<1>10. CASE Enumerate
  BY <1>10 DEF Enumerate, Emit, AbortPhase, EmitAborted, ReturnError
<1>11. CASE EnumerateCheckpoint
  BY <1>11 DEF EnumerateCheckpoint, Checkpoint, ReturnError
<1>12. CASE TransferBegin
  BY <1>12 DEF TransferBegin, BeginPhase, AppendEvent, ReturnError, Emit
<1>13. CASE RsyncExit BY <1>13 DEF RsyncExit
<1>14. CASE RsyncFail
  BY <1>14 DEF RsyncFail, AbortPhase, EmitAborted, Emit, ReturnError
<1>15. CASE TransferClose
  BY <1>15 DEF TransferClose, AppendEvent, ReturnError, Emit
<1>16. CASE TransferCheckpoint
  BY <1>16 DEF TransferCheckpoint, Checkpoint, ReturnError
<1>17. CASE HashBegin
  BY <1>17 DEF HashBegin, BeginPhase, AppendEvent, ReturnError, Emit
<1>18. CASE HashAbort BY <1>18 DEF HashAbort, AbortPhase, EmitAborted, Emit
<1>19. CASE HashSource BY <1>19 DEF HashSource, Classified
<1>20. CASE HashDest BY <1>20 DEF HashDest, Classified
<1>21. CASE RecordFile BY <1>21 DEF RecordFile, ReturnError
<1>22. CASE HashComplete
  BY <1>22 DEF HashComplete, AppendEvent, ReturnError, Emit
<1>23. CASE HashCheckpoint
  BY <1>23 DEF HashCheckpoint, Checkpoint, ReturnError
<1>24. CASE DeleteBegin
  BY <1>24 DEF DeleteBegin, BeginPhase, AppendEvent, ReturnError, Emit
<1>25. CASE DeleteSkipped
  BY <1>25 DEF DeleteSkipped, AppendEvent, ReturnError, Emit
<1>26. CASE GateBlocked
  BY <1>26 DEF GateBlocked, GateOpen, AppendEvent, ReturnError, Emit
<1>27. CASE GateBlockedComplete
  BY <1>27 DEF GateBlockedComplete, AppendEvent, ReturnError, Emit
<1>28. CASE OpenDeletionLog
  BY <1>28 DEF OpenDeletionLog, GateOpen, AbortPhase, EmitAborted, Emit
<1>29. CASE DeleteAbort
  BY <1>29 DEF DeleteAbort, AbortPhase, EmitAborted, Emit
<1>30. CASE Unlink BY <1>30 DEF Unlink, RemoveError
<1>31. CASE LogDeletion
  BY <1>31 DEF LogDeletion, ReturnError, AbortPhase, EmitAborted, Emit
<1>32. CASE DeleteComplete
  BY <1>32 DEF DeleteComplete, AppendEvent, ReturnError, Emit
<1>33. CASE DeleteCheckpoint
  BY <1>33 DEF DeleteCheckpoint, Checkpoint, ReturnError
<1>34. CASE ResolveStatus BY <1>34 DEF ResolveStatus, Resolved
<1>35. CASE FinalizeBegin
  BY <1>35 DEF FinalizeBegin, BeginPhase, AppendEvent, ReturnError, Emit
<1>36. CASE SealManifest
  BY <1>36 DEF SealManifest, GzipFailed, AbortPhase, EmitAborted, Emit
<1>37. CASE AppendFinished
  BY <1>37 DEF AppendFinished, ReturnError, AbortPhase, EmitAborted, Emit
<1>38. CASE CheckpointRunlog
  BY <1>38 DEF CheckpointRunlog, AbortPhase, EmitAborted, Emit
<1>39. CASE FinalizeComplete
  BY <1>39 DEF FinalizeComplete, AppendEvent, ReturnError, Emit
<1>40. CASE AnnounceFinish
  BY <1>40 DEF AnnounceFinish, AppendEvent, ReturnError, Emit
<1>41. CASE FinalizeCheckpoint
  BY <1>41 DEF FinalizeCheckpoint, Checkpoint, ReturnError
<1>42. CASE DeferredGzip BY <1>42 DEF DeferredGzip, GzipFailed
<1>43. CASE ReleaseLock BY <1>43 DEF ReleaseLock
<1>44. CASE Exit BY <1>44 DEF Exit
<1>45. CASE \E f \in Files : CopyFile(f) BY <1>45 DEF CopyFile
<1>46. CASE \E f \in Files : HashFile(f)
  BY <1>46 DEF HashFile, Classified, Undone, Drifted
<1>47. CASE \E f \in Files : DeleteFile(f)
  BY <1>47 DEF DeleteFile, Undecided, Drifted
<1>48. CASE ConfirmDelete BY <1>48 DEF ConfirmDelete
<1>49. CASE DeclineDelete BY <1>49 DEF DeclineDelete
<1>50. CASE Cancel BY <1>50 DEF Cancel
<1>51. CASE SecondSignal BY <1>51 DEF SecondSignal
<1>52. CASE PowerLoss BY <1>52 DEF PowerLoss
<1>53. CASE \E f \in Files : UserEdit(f) BY <1>53 DEF UserEdit
<1>54. CASE \E f \in Files : StealthEdit(f)
  <2> PICK f \in Files : StealthEdit(f) BY <1>54
  <2> USE DEF StealthEdit, Hashed
  <2>1. \A g \in Files \ {f} : SafeCopy(g) => SafeCopy(g)' OBVIOUS
  <2>2. f \in excused' \/ (status[f] # "verified" /\ ~(cur = f /\ pc = "t2_dest")
          /\ ~(cur = f /\ pc = "t2_record"))
    OBVIOUS
  <2>3. NoUnexcusedLoss' OBVIOUS
  <2> HIDE DEF NoUnexcusedLoss
  <2>4. pc = "t3_unlink" => cur \in Files /\ status[cur] = "verified" OBVIOUS
  <2>5. \A g \in Files : status'[g] = "verified" => SafeCopy(g)'
    BY <2>1, <2>2
  <2>6. pc' = "t2_dest" => (cur \in excused \/ Drifted(cur) \/ digest = data[cur])'
    BY <2>2
  <2>7. pc' = "t2_record" /\ verdict' = "verified" => SafeCopy(cur)'
    BY <2>1, <2>2
  <2>8. pc' = "t3_unlink" => (cur \in excused \/ dst[cur] = data[cur])'
    BY <2>2, <2>4
  <2> QED BY <2>3, <2>5, <2>6, <2>7, <2>8
<1>55. CASE \E f \in Files : UserDelete(f) BY <1>55 DEF UserDelete
<1>56. CASE \E f \in Files : Rot(f)
  <2> PICK f \in Files : Rot(f) BY <1>56
  <2> USE DEF Rot, Hashed
  <2>1. \A g \in Files \ {f} : SafeCopy(g) => SafeCopy(g)' OBVIOUS
  <2>2. f \in excused' \/ (status[f] # "verified" /\ ~(cur = f /\ pc = "t2_record"))
    OBVIOUS
  <2>3. \A g \in unlinked : status[g] = "verified" OBVIOUS
  <2>4. NoUnexcusedLoss' BY <2>2, <2>3
  <2> HIDE DEF NoUnexcusedLoss
  <2>5. pc = "t3_unlink" => cur \in Files /\ status[cur] = "verified" OBVIOUS
  <2> QED BY <2>1, <2>2, <2>4, <2>5
<1>57. CASE UNCHANGED vars BY <1>57 DEF vars
<1> QED BY <1>1, <1>2, <1>3, <1>4, <1>5, <1>6, <1>7, <1>8, <1>9, <1>10,
         <1>11, <1>12, <1>13, <1>14, <1>15, <1>16, <1>17, <1>18, <1>19,
         <1>20, <1>21, <1>22, <1>23, <1>24, <1>25, <1>26, <1>27, <1>28,
         <1>29, <1>30, <1>31, <1>32, <1>33, <1>34, <1>35, <1>36, <1>37,
         <1>38, <1>39, <1>40, <1>41, <1>42, <1>43, <1>44, <1>45, <1>46,
         <1>47, <1>48, <1>49, <1>50, <1>51, <1>52, <1>53, <1>54, <1>55,
         <1>56, <1>57 DEF Next, Runner, Environment

-----------------------------------------------------------------------------
(* The invariant, and what follows from it.                                *)

\* The inductive invariant holds before the first step.
LEMMA InvInit == ASSUME Init PROVE RunInv
<1>1. TypeOK BY TypeInit
<1>2. LoopOK BY DEF Init, LoopOK
<1>3. GateOK
  <2>1. Verified = {} BY DEF Init, Verified
  <2> QED BY <2>1, FS_EmptySet DEF Init, GateOK, Blocked
<1>4. CopyOK BY DEF Init, CopyOK, NoUnexcusedLoss, None
<1> QED BY <1>1, <1>2, <1>3, <1>4 DEF RunInv

\* Every step preserves it: its four parts, in the order they are needed.
LEMMA InvStep == ASSUME RunInv, [Next]_vars PROVE RunInv'
BY TypeStep, LoopStep, GateStep, CopyStep DEF RunInv

\* The inductive invariant holds of every run: types, loops, gate and copies.
THEOREM InvariantCorrect == Spec => []RunInv
<1>1. Init => RunInv BY InvInit
<1>2. RunInv /\ [Next]_vars => RunInv' BY InvStep
<1> QED BY <1>1, <1>2, PTL DEF Spec

\* Every variable of a run keeps its type.
THEOREM TypeCorrect == Spec => []TypeOK
<1>1. RunInv => TypeOK BY DEF RunInv
<1> QED BY <1>1, InvariantCorrect, PTL

\* The atomic gate, for any number of files and under every fault: a source is
\* unlinked only in move mode, once every candidate's copy is verified, and
\* never by a run that recorded a blocked gate.
THEOREM GateCorrect == Spec => []AtomicGate
<1>1. RunInv => AtomicGate BY DEF RunInv, GateOK, AtomicGate, Blocked
<1> QED BY <1>1, InvariantCorrect, PTL

\* No source content is lost except through the windows NoUnexcusedLoss names.
THEOREM NothingLost == Spec => []NoUnexcusedLoss
<1>1. RunInv => NoUnexcusedLoss BY DEF RunInv, CopyOK
<1> QED BY <1>1, InvariantCorrect, PTL

-----------------------------------------------------------------------------
(* A run implements AtomicMove.                                            *)

\* Before the walk there are no candidates, and nothing is validated.
LEMMA MoveInit == ASSUME Init PROVE Move!Init
BY DEF Init, Move!Init, Verified, None

\* Enumerating is Choose, recording a verified file is Validate, opening the
\* deletion log is Commit, and os.Remove is Unlink; all else is a stutter.
LEMMA MoveStep ==
  ASSUME RunInv, [Next]_vars
  PROVE  [Move!Next]_(Move!vars)
<1> USE DEF RunInv, TypeOK, ProcessOK, LoopOK, GateOK, BeforeGate, BeforeHash,
  BeforeWalk, Move!vars, None,
  walkVars, loopVars, resultVars, outVars, worldVars, maniVars,
  eventVars, runlogVars, delVars, Goto
<1>a. UNCHANGED <<candidates, status>> => Verified' = Verified BY DEF Verified
<1> USE <1>a
<1>1. CASE OpenStores BY <1>1 DEF OpenStores, FailPreflight
<1>2. CASE PreflightBegin BY <1>2 DEF PreflightBegin, FailPreflight, Emit
<1>3. CASE PreflightPass BY <1>3 DEF PreflightPass
<1>4. CASE PreflightRefuse
  BY <1>4 DEF PreflightRefuse, FailPreflight, EmitAborted, Emit
<1>5. CASE AppendStarted BY <1>5 DEF AppendStarted, FailPreflight
<1>6. CASE PreflightComplete
  BY <1>6 DEF PreflightComplete, FailPreflight, Emit
<1>7. CASE PreflightCheckpoint BY <1>7 DEF PreflightCheckpoint, FailPreflight
<1>8. CASE OpenManifest BY <1>8 DEF OpenManifest
<1>9. CASE EnumerateBegin
  BY <1>9 DEF EnumerateBegin, BeginPhase, AppendEvent, ReturnError, Emit
<1>10. CASE Enumerate
  <2>1. CASE candidates' = candidates BY <1>10, <2>1 DEF Enumerate
  <2>2. CASE candidates' # candidates
    <3>1. status = [f \in Files |-> None] /\ status' = status
      BY <1>10 DEF Enumerate
    <3>2. candidates \subseteq Files /\ candidates' \subseteq Files
      BY <1>10, <2>2 DEF Enumerate, WorldOK
    <3>3. Verified = {} /\ Verified' = {} BY <3>1, <3>2 DEF Verified
    <3>4. Move!Choose
      BY <1>10, <3>2, <3>3 DEF Enumerate, Move!Choose
    <3> QED BY <3>4 DEF Move!Next
  <2> QED BY <2>1, <2>2
<1>11. CASE EnumerateCheckpoint
  BY <1>11 DEF EnumerateCheckpoint, Checkpoint, ReturnError
<1>12. CASE TransferBegin
  BY <1>12 DEF TransferBegin, BeginPhase, AppendEvent, ReturnError, Emit
<1>13. CASE RsyncExit BY <1>13 DEF RsyncExit
<1>14. CASE RsyncFail
  BY <1>14 DEF RsyncFail, AbortPhase, EmitAborted, Emit, ReturnError
<1>15. CASE TransferClose
  BY <1>15 DEF TransferClose, AppendEvent, ReturnError, Emit
<1>16. CASE TransferCheckpoint
  BY <1>16 DEF TransferCheckpoint, Checkpoint, ReturnError
<1>17. CASE HashBegin
  BY <1>17 DEF HashBegin, BeginPhase, AppendEvent, ReturnError, Emit
<1>18. CASE HashAbort BY <1>18 DEF HashAbort, AbortPhase, EmitAborted, Emit
<1>19. CASE HashSource BY <1>19 DEF HashSource, Classified
<1>20. CASE HashDest BY <1>20 DEF HashDest, Classified
<1>21. CASE RecordFile
  <2>1. CASE pc' = "t2_loop" /\ verdict = "verified"
    <3>1. cur \in candidates \ Verified BY <1>21 DEF RecordFile, Verified
    <3>2. Verified' = Verified \cup {cur}
      BY <1>21, <2>1 DEF RecordFile, ReturnError, Verified
    <3>3. Move!Validate(cur)
      BY <1>21, <3>1, <3>2 DEF RecordFile, Move!Validate
    <3> QED BY <3>1, <3>3 DEF Move!Next
  <2>2. CASE ~(pc' = "t2_loop" /\ verdict = "verified")
    <3>1. Verified' = Verified
      BY <1>21, <2>2 DEF RecordFile, ReturnError, Verified
    <3> QED BY <1>21, <3>1 DEF RecordFile
  <2> QED BY <2>1, <2>2
<1>22. CASE HashComplete
  BY <1>22 DEF HashComplete, AppendEvent, ReturnError, Emit
<1>23. CASE HashCheckpoint
  BY <1>23 DEF HashCheckpoint, Checkpoint, ReturnError
<1>24. CASE DeleteBegin
  BY <1>24 DEF DeleteBegin, BeginPhase, AppendEvent, ReturnError, Emit
<1>25. CASE DeleteSkipped
  BY <1>25 DEF DeleteSkipped, AppendEvent, ReturnError, Emit
<1>26. CASE GateBlocked
  BY <1>26 DEF GateBlocked, GateOpen, AppendEvent, ReturnError, Emit
<1>27. CASE GateBlockedComplete
  BY <1>27 DEF GateBlockedComplete, AppendEvent, ReturnError, Emit
<1>28. CASE OpenDeletionLog
  <2>1. CASE logFile' = logFile BY <1>28, <2>1 DEF OpenDeletionLog
  <2>2. CASE logFile' # logFile
    <3>1. Verified = candidates
      BY <1>28, GateOpenMeansVerified DEF OpenDeletionLog
    <3>2. Move!Commit
      BY <1>28, <2>2, <3>1 DEF OpenDeletionLog, Move!Commit
    <3> QED BY <3>2 DEF Move!Next
  <2> QED BY <2>1, <2>2
<1>29. CASE DeleteAbort
  BY <1>29 DEF DeleteAbort, AbortPhase, EmitAborted, Emit
<1>30. CASE Unlink
  <2>1. CASE unlinked' = unlinked BY <1>30, <2>1 DEF Unlink
  <2>2. CASE unlinked' # unlinked
    <3>1. cur \in candidates \ unlinked BY <1>30, <2>2 DEF Unlink
    <3>2. Move!Unlink(cur) BY <1>30, <2>2, <3>1 DEF Unlink, Move!Unlink
    <3> QED BY <3>1, <3>2 DEF Move!Next
  <2> QED BY <2>1, <2>2
<1>31. CASE LogDeletion
  BY <1>31 DEF LogDeletion, ReturnError, AbortPhase, EmitAborted, Emit
<1>32. CASE DeleteComplete
  BY <1>32 DEF DeleteComplete, AppendEvent, ReturnError, Emit
<1>33. CASE DeleteCheckpoint
  BY <1>33 DEF DeleteCheckpoint, Checkpoint, ReturnError
<1>34. CASE ResolveStatus BY <1>34 DEF ResolveStatus, Resolved
<1>35. CASE FinalizeBegin
  BY <1>35 DEF FinalizeBegin, BeginPhase, AppendEvent, ReturnError, Emit
<1>36. CASE SealManifest
  BY <1>36 DEF SealManifest, GzipFailed, AbortPhase, EmitAborted, Emit
<1>37. CASE AppendFinished
  BY <1>37 DEF AppendFinished, ReturnError, AbortPhase, EmitAborted, Emit
<1>38. CASE CheckpointRunlog
  BY <1>38 DEF CheckpointRunlog, AbortPhase, EmitAborted, Emit
<1>39. CASE FinalizeComplete
  BY <1>39 DEF FinalizeComplete, AppendEvent, ReturnError, Emit
<1>40. CASE AnnounceFinish
  BY <1>40 DEF AnnounceFinish, AppendEvent, ReturnError, Emit
<1>41. CASE FinalizeCheckpoint
  BY <1>41 DEF FinalizeCheckpoint, Checkpoint, ReturnError
<1>42. CASE DeferredGzip BY <1>42 DEF DeferredGzip, GzipFailed
<1>43. CASE ReleaseLock BY <1>43 DEF ReleaseLock
<1>44. CASE Exit BY <1>44 DEF Exit
<1>45. CASE \E f \in Files : CopyFile(f) BY <1>45 DEF CopyFile
<1>46. CASE \E f \in Files : HashFile(f)
  BY <1>46 DEF HashFile, Classified, Undone, Drifted
<1>47. CASE \E f \in Files : DeleteFile(f)
  BY <1>47 DEF DeleteFile, Undecided, Drifted
<1>48. CASE ConfirmDelete BY <1>48 DEF ConfirmDelete
<1>49. CASE DeclineDelete BY <1>49 DEF DeclineDelete
<1>50. CASE Cancel BY <1>50 DEF Cancel
<1>51. CASE SecondSignal BY <1>51 DEF SecondSignal
<1>52. CASE PowerLoss BY <1>52 DEF PowerLoss
<1>53. CASE \E f \in Files : UserEdit(f) BY <1>53 DEF UserEdit
<1>54. CASE \E f \in Files : StealthEdit(f) BY <1>54 DEF StealthEdit
<1>55. CASE \E f \in Files : UserDelete(f) BY <1>55 DEF UserDelete
<1>56. CASE \E f \in Files : Rot(f) BY <1>56 DEF Rot
<1>57. CASE UNCHANGED vars BY <1>57 DEF vars
<1> QED BY <1>1, <1>2, <1>3, <1>4, <1>5, <1>6, <1>7, <1>8, <1>9, <1>10,
         <1>11, <1>12, <1>13, <1>14, <1>15, <1>16, <1>17, <1>18, <1>19,
         <1>20, <1>21, <1>22, <1>23, <1>24, <1>25, <1>26, <1>27, <1>28,
         <1>29, <1>30, <1>31, <1>32, <1>33, <1>34, <1>35, <1>36, <1>37,
         <1>38, <1>39, <1>40, <1>41, <1>42, <1>43, <1>44, <1>45, <1>46,
         <1>47, <1>48, <1>49, <1>50, <1>51, <1>52, <1>53, <1>54, <1>55,
         <1>56, <1>57 DEF Next, Runner, Environment

\* Every behaviour of a run is a behaviour of AtomicMove: choose, validate
\* every candidate, commit, and only then unlink.
THEOREM MoveImplemented == Spec => ImplementsAtomicMove
<1>1. Init => Move!Init BY MoveInit
<1>2. RunInv /\ [Next]_vars => [Move!Next]_(Move!vars) BY MoveStep
<1> QED BY <1>1, <1>2, InvariantCorrect, PTL
  DEF Spec, ImplementsAtomicMove, Move!Spec
=============================================================================
