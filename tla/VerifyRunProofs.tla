--------------------------- MODULE VerifyRunProofs ---------------------------
(***************************************************************************)
(* VerifyInv is an invariant of VerifyRun for any runs, files, contents    *)
(* and faults, and exit code 0 means what verify/doc.go says of it unless  *)
(* the verification was cancelled.                                         *)
(*                                                                         *)
(* OkIsIntact alone is not inductive: that the aggregate speaks for the    *)
(* runs that are done is BatchOK, and that a run's results speak for its   *)
(* files is RunOK.  ExitCodeIsExact follows from ExactOK, BatchReachesAll  *)
(* from ReachOK; both rest on RunOK too.                                   *)
(***************************************************************************)
EXTENDS VerifyRun, TLAPS

\* A verification begins with nothing read and nothing claimed.
LEMMA InvInit == ASSUME Init PROVE VerifyInv
<1> USE DEF Init, PerRun, Reading, NoResults
<1>1. TypeOK
  BY DEF TypeOK, ProcessOK, VolumeOK, PC, VerifyStatus
<1>2. RunOK /\ BatchOK /\ SummaryIsTrue
  BY DEF RunOK, BatchOK, SummaryIsTrue, Pending
<1>3. ExactOK /\ ReachOK
  BY DEF ExactOK, ReachOK
<1> QED BY <1>1, <1>2, <1>3 DEF VerifyInv

\* Of a step: nobody changes what is on the volume but the records, or what
\* was asked; a cancellation and a fault stay.
Still ==
  /\ UNCHANGED <<target, checkExtras, dirs, loadable, lines, namespace, dst>>
  /\ cancelled => cancelled'
  /\ faulted => faulted'
  /\ WriteSummary \/ UNCHANGED summaries

\* Nobody changes the volume's files, the manifests, or what was asked; a
\* cancellation and a fault stay; and WriteSummary alone writes a record.
LEMMA StillStep == ASSUME [Next]_vars PROVE Still
<1> USE DEF Still, askVars, diskVars, Fault, NoFault
<1>1. CASE PreflightPass
  BY <1>1 DEF PreflightPass
<1>2. CASE PreflightRefuse
  BY <1>2 DEF PreflightRefuse
<1>3. CASE ResolveRunIDs
  BY <1>3 DEF ResolveRunIDs
<1>4. CASE NextRun
  BY <1>4 DEF NextRun
<1>5. CASE EndBatch
  BY <1>5 DEF EndBatch
<1>6. CASE LoadManifest
  BY <1>6 DEF LoadManifest
<1>7. CASE RehashNext
  BY <1>7 DEF RehashNext
<1>8. CASE RehashDone
  BY <1>8 DEF RehashDone
<1>9. CASE CountExtras
  BY <1>9 DEF CountExtras
<1>10. CASE WriteSummary
  BY <1>10 DEF WriteSummary
<1>11. CASE FoldRun
  BY <1>11 DEF FoldRun
<1>12. CASE Exit
  BY <1>12 DEF Exit
<1>13. CASE Cancel
  BY <1>13 DEF Cancel
<1>14. CASE Kill
  BY <1>14 DEF Kill
<1>15. ASSUME NEW f \in Files, Classify(f) PROVE Still
  BY <1>15 DEF Classify
<1>16. CASE UNCHANGED vars BY <1>16 DEF vars
<1> QED BY <1>1, <1>2, <1>3, <1>4, <1>5, <1>6, <1>7, <1>8, <1>9, <1>10, <1>11,
  <1>12, <1>13, <1>14, <1>15, <1>16 DEF Next, Verifier

\* Hence what the properties say of a run's lines and files does not change.
LEMMA StillMeans ==
  ASSUME [Next]_vars
  PROVE  /\ Resolved' = Resolved
         /\ \A r \in Runs : /\ Intact(r)' <=> Intact(r)
                            /\ Unverifiable(r)' <=> Unverifiable(r)
                            /\ Entries(r)' = Entries(r)
                            /\ Tampered(r)' = Tampered(r)
                            /\ Malformed(r)' = Malformed(r)
         /\ \A r \in Runs, f \in Files : Matches(r, f)' <=> Matches(r, f)
BY StillStep DEF Still, Resolved, Latest, Intact, Unverifiable, Matches, Entries, Tampered, Malformed

\* Every step keeps the types.
LEMMA TypeStep ==
  ASSUME TypeOK, RunOK, [Next]_vars
  PROVE  TypeOK'
<1> USE DEF TypeOK, ProcessOK, VolumeOK, PC, PerRun, Ended, Return, Goto,
  Fault, NoFault, VerifyStatus, askVars, fileVars, diskVars
<1>1. CASE PreflightPass
  BY <1>1 DEF PreflightPass
<1>2. CASE PreflightRefuse
  BY <1>2 DEF PreflightRefuse
<1>3. CASE ResolveRunIDs
  <2>1. Resolved \subseteq Runs BY DEF Resolved, Latest, Targets
  <2>2. /\ runIDs' \subseteq Runs /\ queue' \subseteq runIDs'
        /\ pc' \in PC /\ aggregate' \in VerifyStatus /\ faulted' \in BOOLEAN
    BY <1>3, <2>1 DEF ResolveRunIDs
  <2>3. UNCHANGED <<cancelled, askVars, run, fileVars, rehashErr, exitCode,
                    diskVars, summaries>>
    BY <1>3 DEF ResolveRunIDs
  <2> HIDE <1>3
  <2> QED BY <2>2, <2>3
<1>4. CASE NextRun
  <2>1. PICK r \in queue : run' = r /\ queue' = queue \ {r}
    BY <1>4 DEF NextRun
  <2>2. r \in Runs /\ queue' \subseteq runIDs BY <2>1
  <2>3. NoResults \in [Files -> RehashStatus \cup {Unset}] BY DEF NoResults
  <2> QED BY <1>4, <2>1, <2>2, <2>3 DEF NextRun
<1>5. CASE EndBatch
  BY <1>5 DEF EndBatch
<1>6. CASE LoadManifest
  <2>1. /\ todo' \subseteq Files /\ queue' = queue
        /\ pc' \in PC /\ aggregate' \in VerifyStatus /\ faulted' \in BOOLEAN
    BY <1>6 DEF LoadManifest, RunError, Entries
  <2>2. UNCHANGED <<cancelled, askVars, runIDs, run, perFile, rehashErr,
                    exitCode, diskVars, summaries>>
    BY <1>6 DEF LoadManifest
  <2> HIDE <1>6
  <2> QED BY <2>1, <2>2
<1>7. CASE RehashNext
  BY <1>7 DEF RehashNext
<1>8. CASE RehashDone
  BY <1>8 DEF RehashDone
<1>9. CASE CountExtras
  <2>1. rehashErr' \in BOOLEAN /\ pc' \in PC /\ faulted' \in BOOLEAN
    BY <1>9 DEF CountExtras
  <2>2. UNCHANGED <<cancelled, askVars, runIDs, queue, run, fileVars, aggregate,
                    exitCode, diskVars, summaries>>
    BY <1>9 DEF CountExtras
  <2> HIDE <1>9
  <2> QED BY <2>1, <2>2
<1>10. CASE WriteSummary
  <2>1. Summary \in [run : Runs, status : {"ok", "integrity_failed"},
                      checked : SUBSET Files]
    <3>1. run \in Runs BY <1>10 DEF WriteSummary, RunOK
    <3>2. RunStatus \in {"ok", "integrity_failed"} BY DEF RunStatus
    <3>3. Checked \in SUBSET Files BY DEF Checked
    <3> QED BY <3>1, <3>2, <3>3 DEF Summary
  <2>2. summaries' \subseteq summaries \cup {Summary}
    BY <1>10 DEF WriteSummary
  <2>3. /\ pc' \in PC /\ aggregate' \in VerifyStatus /\ faulted' \in BOOLEAN
        /\ queue' = queue
    BY <1>10 DEF WriteSummary, RunError
  <2>4. ProcessOK' BY <1>10, <2>3 DEF WriteSummary
  <2>5. VolumeOK' BY <1>10, <2>1, <2>2, <2>3 DEF WriteSummary
  <2> QED BY <2>4, <2>5
<1>11. CASE FoldRun
  BY <1>11 DEF FoldRun, Worst
<1>12. CASE Exit
  BY <1>12 DEF Exit, CodeOf
<1>13. CASE Cancel
  BY <1>13 DEF Cancel
<1>14. CASE Kill
  BY <1>14 DEF Kill
<1>15. ASSUME NEW f \in Files, Classify(f) PROVE TypeOK'
  <2>1. PICK s \in RehashStatus : perFile' = [perFile EXCEPT ![f] = s]
    BY <1>15 DEF Classify
  <2>2. perFile' \in [Files -> RehashStatus \cup {Unset}] BY <2>1
  <2>3. faulted' \in BOOLEAN BY <1>15 DEF Classify
  <2>4. ProcessOK'
    <3>1. /\ todo' = todo \ {f} /\ pc' = "rehash"
          /\ UNCHANGED <<cancelled, target, checkExtras, runIDs, queue, run,
                         rehashErr, aggregate, exitCode>>
      BY <1>15 DEF Classify
    <3> HIDE <1>15
    <3> QED BY <2>2, <3>1
  <2>5. VolumeOK'
    <3>1. UNCHANGED <<dirs, loadable, lines, namespace, dst, summaries>>
      BY <1>15 DEF Classify
    <3> HIDE <1>15
    <3> QED BY <2>3, <3>1
  <2> QED BY <2>4, <2>5
<1>16. CASE UNCHANGED vars BY <1>16 DEF vars
<1> QED BY <1>1, <1>2, <1>3, <1>4, <1>5, <1>6, <1>7, <1>8, <1>9, <1>10, <1>11,
  <1>12, <1>13, <1>14, <1>15, <1>16 DEF Next, Verifier

\* The results of the run at hand stay true of its lines and files.
LEMMA RunStep ==
  ASSUME TypeOK, RunOK, [Next]_vars
  PROVE  RunOK'
<1>a. Still
  BY StillStep
<1> USE <1>a DEF Still
<1> USE DEF TypeOK, ProcessOK, VolumeOK, RunOK, PerRun, Reading, Ended, Return,
  Goto, Fault, NoFault, fileVars, Matches, Checked, Good, Entries
<1>1. CASE PreflightPass
  BY <1>1 DEF PreflightPass
<1>2. CASE PreflightRefuse
  BY <1>2 DEF PreflightRefuse
<1>3. CASE ResolveRunIDs
  BY <1>3 DEF ResolveRunIDs
<1>4. CASE NextRun
  BY <1>4 DEF NextRun, NoResults
<1>5. CASE EndBatch
  BY <1>5 DEF EndBatch
<1>6. CASE LoadManifest
  <2>1. CASE pc' = "rehash"
    <3>1. run \in loadable /\ todo' = Entries(run) /\ perFile' = perFile
      BY <1>6, <2>1 DEF LoadManifest, RunError
    <3>2. perFile = NoResults /\ ~rehashErr /\ rehashErr' = rehashErr
      BY <1>6 DEF LoadManifest
    <3>3. run \in runIDs /\ run \notin queue /\ UNCHANGED <<run, runIDs, queue>>
      BY <1>6, <2>1 DEF LoadManifest, RunError
    <3>4. Checked' = {} /\ Good' = {} BY <3>1, <3>2 DEF NoResults, Unset
    <3> QED BY <2>1, <3>1, <3>2, <3>3, <3>4
  <2>2. CASE pc' # "rehash"
    BY <1>6, <2>2 DEF LoadManifest, RunError
  <2> QED BY <2>1, <2>2
<1>7. CASE RehashNext
  BY <1>7 DEF RehashNext
<1>8. CASE RehashDone
  BY <1>8 DEF RehashDone
<1>9. CASE CountExtras
  BY <1>9 DEF CountExtras
<1>10. CASE WriteSummary
  BY <1>10 DEF WriteSummary, RunError
<1>11. CASE FoldRun
  BY <1>11 DEF FoldRun
<1>12. CASE Exit
  BY <1>12 DEF Exit
<1>13. CASE Cancel
  BY <1>13 DEF Cancel
<1>14. CASE Kill
  BY <1>14 DEF Kill
<1>15. ASSUME NEW f \in Files, Classify(f) PROVE RunOK'
  <2>1. PICK s \in RehashStatus :
          /\ perFile' = [perFile EXCEPT ![f] = s]
          /\ s = "verified" => Matches(run, f)
          /\ s # "verified" => ~Matches(run, f) \/ cancelled \/ faulted'
    <3>1. f \in Entries(run) BY <1>15 DEF Classify
    <3>2. lines[run][f] \in Contents /\ lines[run][f] # "missing"
      BY <3>1, ContentsAssumption
    <3>3. PICK s \in RehashStatus :
            /\ \/ dst[f] = "missing" /\ s = "missing"
               \/ SizeOf[dst[f]] # SizeOf[lines[run][f]] /\ s = "size_mismatch"
               \/ s = IF cancelled THEN "unreadable" ELSE Digest(run, f)
               \/ s = "unreadable" /\ faulted'
            /\ perFile' = [perFile EXCEPT ![f] = s]
      BY <1>15 DEF Classify
    <3>4. s = "verified" => Matches(run, f)
      BY <3>2, <3>3 DEF Digest
    <3>5. s # "verified" => ~Matches(run, f) \/ cancelled \/ faulted'
      BY <3>2, <3>3 DEF Digest
    <3> QED BY <3>3, <3>4, <3>5
  <2>2. /\ pc = "rehash_file" /\ pc' = "rehash" /\ f \in todo
        /\ todo' = todo \ {f}
        /\ UNCHANGED <<run, runIDs, queue, rehashErr, cancelled>>
    BY <1>15 DEF Classify
  <2>3. run \in Runs /\ f \in Entries(run) BY <2>2
  <2>4. Checked' = Checked \cup {f} BY <2>1 DEF RehashStatus, Unset
  <2>5. /\ s = "verified" => Good' = Good \cup {f}
        /\ s # "verified" => Good' = Good \ {f}
    BY <2>1
  <2>6. Checked' = Entries(run) \ todo' BY <2>2, <2>3, <2>4
  <2>7. \A g \in Files : Matches(run, g)' <=> Matches(run, g) BY <2>2
  <2>8. \A g \in Good' : Matches(run, g)' BY <2>1, <2>2, <2>5, <2>7
  <2>9. \A g \in (Checked \ Good)' :
          ~Matches(run, g)' \/ cancelled' \/ faulted'
    BY <2>1, <2>2, <2>4, <2>5, <2>7
  <2> QED BY <2>2, <2>3, <2>6, <2>8, <2>9
<1>16. CASE UNCHANGED vars BY <1>16 DEF vars
<1> QED BY <1>1, <1>2, <1>3, <1>4, <1>5, <1>6, <1>7, <1>8, <1>9, <1>10, <1>11,
  <1>12, <1>13, <1>14, <1>15, <1>16 DEF Next, Verifier

\* What the aggregate and the exit code say of the runs stays true.
LEMMA BatchStep ==
  ASSUME TypeOK, RunOK, BatchOK, [Next]_vars
  PROVE  BatchOK'
<1>a. /\ Resolved' = Resolved
      /\ \A r \in Runs : Intact(r)' <=> Intact(r)
  BY StillMeans
<1> USE <1>a
<1> USE DEF TypeOK, ProcessOK, RunOK, BatchOK, PerRun, Reading,
  Ended, Return, Goto, Fault, NoFault, Pending
<1>1. CASE PreflightPass
  BY <1>1 DEF PreflightPass
<1>2. CASE PreflightRefuse
  BY <1>2 DEF PreflightRefuse
<1>3. CASE ResolveRunIDs
  <2>1. CASE pc' = "next"
    <3>1. /\ runIDs' = Resolved /\ queue' = Resolved /\ Resolved # {}
          /\ exitCode' = exitCode /\ aggregate' = aggregate /\ pc = "resolve"
      BY <1>3, <2>1 DEF ResolveRunIDs
    <3> QED BY <2>1, <3>1
  <2>2. CASE pc' # "next"
    BY <1>3, <2>2 DEF ResolveRunIDs
  <2> QED BY <2>1, <2>2
<1>4. CASE NextRun
  BY <1>4 DEF NextRun
<1>5. CASE EndBatch
  BY <1>5 DEF EndBatch
<1>6. CASE LoadManifest
  BY <1>6 DEF LoadManifest, RunError
<1>7. CASE RehashNext
  BY <1>7 DEF RehashNext
<1>8. CASE RehashDone
  BY <1>8 DEF RehashDone
<1>9. CASE CountExtras
  BY <1>9 DEF CountExtras
<1>10. CASE WriteSummary
  BY <1>10 DEF WriteSummary, RunError
<1>11. CASE FoldRun
  <2>1. /\ pc = "fold" /\ pc' = "next" /\ aggregate' = Worst
        /\ UNCHANGED <<runIDs, queue, run, exitCode, cancelled>>
    BY <1>11 DEF FoldRun
  <2>2. RunStatus = "ok" => Intact(run) \/ cancelled
    <3>1. /\ run \in loadable /\ run \in Runs /\ (todo = {} \/ cancelled)
          /\ Checked = Entries(run) \ todo
          /\ \A f \in Good : Matches(run, f)
      BY <2>1
    <3>2. ASSUME RunStatus = "ok", ~cancelled PROVE Intact(run)
      <4>1. /\ Tampered(run) = {} /\ Malformed(run) = {}
            /\ Good = Entries(run)
        BY <3>1, <3>2 DEF RunStatus
      <4>2. ASSUME NEW f \in Files, lines[run][f] # "absent"
            PROVE  Matches(run, f)
        <5>1. lines[run][f] \in Contents
          BY <3>1, <4>1, <4>2 DEF VolumeOK, LineKind, Tampered, Malformed
        <5> QED BY <3>1, <4>1, <5>1 DEF Entries
      <4> QED BY <3>1, <4>2 DEF Intact
    <3> QED BY <3>2
  <2>3. aggregate' # "preflight_failed"
    BY <2>1 DEF Worst
  <2>4. ASSUME aggregate' = "ok", NEW r \in runIDs', r \notin Pending'
        PROVE  Intact(r)' \/ cancelled'
    <3>1. RunStatus = "ok" /\ aggregate = "ok"
      BY <2>1, <2>4 DEF Worst, RunStatus
    <3>2. CASE r = run BY <2>1, <2>2, <3>1, <3>2
    <3>3. CASE r # run BY <2>1, <2>4, <3>1, <3>3
    <3> QED BY <3>2, <3>3
  <2> QED BY <2>1, <2>3, <2>4
<1>12. CASE Exit
  BY <1>12 DEF Exit, CodeOf
<1>13. CASE Cancel
  BY <1>13 DEF Cancel
<1>14. CASE Kill
  BY <1>14 DEF Kill
<1>15. ASSUME NEW f \in Files, Classify(f) PROVE BatchOK'
  BY <1>15 DEF Classify
<1>16. CASE UNCHANGED vars BY <1>16 DEF vars
<1> QED BY <1>1, <1>2, <1>3, <1>4, <1>5, <1>6, <1>7, <1>8, <1>9, <1>10, <1>11,
  <1>12, <1>13, <1>14, <1>15, <1>16 DEF Next, Verifier

\* A run that is called damaged with no fault and no cancellation is damaged.
LEMMA DamageSeen ==
  ASSUME RunOK, pc \in {"write", "fold"}, RunStatus = "integrity_failed",
         ~cancelled, ~faulted
  PROVE  ~Intact(run)
<1>1. CASE Tampered(run) # {} \/ Malformed(run) # {}
  BY <1>1, ContentsAssumption DEF Tampered, Malformed, Intact, Matches
<1>2. CASE Tampered(run) = {} /\ Malformed(run) = {}
  <2>1. PICK f \in Checked : f \notin Good
    BY <1>2 DEF RunStatus, Good, Checked, Unset
  <2>2. f \in Entries(run) /\ ~Matches(run, f)
    BY <2>1 DEF RunOK, PerRun, Reading
  <2> QED BY <2>2, ContentsAssumption DEF Entries, Intact
<1> QED BY <1>1, <1>2

\* A record is true when it is written, and stays so.
LEMMA SummaryStep ==
  ASSUME TypeOK, RunOK, SummaryIsTrue, [Next]_vars
  PROVE  SummaryIsTrue'
<1> DEFINE
  True(s) ==
    /\ s.run \in loadable
    /\ s.status = "ok" =>
         /\ Tampered(s.run) = {} /\ Malformed(s.run) = {}
         /\ \A f \in s.checked : Matches(s.run, f)
    /\ s.checked = Entries(s.run) \/ cancelled
    /\ s.status = "integrity_failed" =>
         ~Intact(s.run) \/ cancelled \/ faulted
<1>1. /\ loadable' = loadable
      /\ cancelled => cancelled'
      /\ faulted => faulted'
      /\ WriteSummary \/ UNCHANGED summaries
  BY StillStep DEF Still
<1>2. /\ \A r \in Runs : /\ Intact(r)' <=> Intact(r)
                         /\ Entries(r)' = Entries(r)
                         /\ Tampered(r)' = Tampered(r)
                         /\ Malformed(r)' = Malformed(r)
      /\ \A r \in Runs, f \in Files : Matches(r, f)' <=> Matches(r, f)
  BY StillMeans
<1>3. ASSUME NEW s \in [run : Runs, status : {"ok", "integrity_failed"},
                        checked : SUBSET Files], True(s)
      PROVE  True(s)'
  BY <1>1, <1>2, <1>3
<1>4. \A s \in summaries : True(s) BY DEF SummaryIsTrue
<1>5. CASE UNCHANGED summaries
  <2>1. \A s \in summaries' : True(s)'
    BY <1>3, <1>4, <1>5 DEF TypeOK, VolumeOK
  <2> QED BY <2>1 DEF SummaryIsTrue
<1>6. CASE WriteSummary
  <2>1. summaries' \subseteq summaries \cup {Summary}
    BY <1>6 DEF WriteSummary
  <2>2. pc = "write" BY <1>6 DEF WriteSummary
  <2>3. /\ run \in Runs /\ run \in loadable
        /\ Checked = Entries(run) \ todo /\ (todo = {} \/ cancelled)
        /\ \A f \in Good : Matches(run, f)
        /\ \A f \in Checked \ Good : ~Matches(run, f) \/ cancelled \/ faulted
    BY <2>2 DEF RunOK, PerRun, Reading, TypeOK, ProcessOK
  <2>4. True(Summary)
    <3>1. RunStatus = "ok" =>
            /\ Tampered(run) = {} /\ Malformed(run) = {}
            /\ \A f \in Checked : Matches(run, f)
      BY <2>3 DEF RunStatus
    <3>2. ASSUME RunStatus = "integrity_failed", ~cancelled, ~faulted
          PROVE  ~Intact(run)
      BY <2>2, <3>2, DamageSeen
    <3>3. /\ Summary.run = run /\ Summary.status = RunStatus
          /\ Summary.checked = Checked
      BY DEF Summary
    <3> QED BY <2>3, <3>1, <3>2, <3>3
  <2>5. Summary \in [run : Runs, status : {"ok", "integrity_failed"},
                      checked : SUBSET Files]
    BY <2>3 DEF Summary, RunStatus, Checked
  <2>6. \A s \in summaries' : True(s)'
    BY <1>3, <1>4, <2>1, <2>4, <2>5 DEF TypeOK, VolumeOK
  <2> QED BY <2>6 DEF SummaryIsTrue
<1> QED BY <1>1, <1>5, <1>6

\* With no fault and no cancellation a run is called intact if it is.
LEMMA StatusIsExact ==
  ASSUME TypeOK, RunOK, pc = "fold", ~cancelled, ~faulted
  PROVE  RunStatus = "ok" <=> Sound(run)
<1>1. /\ run \in loadable /\ run \in Runs /\ todo = {}
      /\ Checked = Entries(run) \ todo
      /\ \A f \in Good : Matches(run, f)
      /\ ~Unverifiable(run)
  BY DEF RunOK, PerRun, Reading, TypeOK, ProcessOK, Unverifiable
<1>2. ASSUME RunStatus = "ok" PROVE Intact(run)
  <2>1. Tampered(run) = {} /\ Malformed(run) = {} /\ Good = Entries(run)
    BY <1>1, <1>2 DEF RunStatus
  <2>2. ASSUME NEW f \in Files, lines[run][f] # "absent"
        PROVE  Matches(run, f)
    <3>1. lines[run][f] \in Contents
      BY <1>1, <2>1, <2>2 DEF TypeOK, VolumeOK, LineKind, Tampered, Malformed
    <3> QED BY <1>1, <2>1, <3>1 DEF Entries
  <2> QED BY <1>1, <2>2 DEF Intact
<1>3. ASSUME RunStatus # "ok" PROVE ~Intact(run)
  BY <1>3, DamageSeen DEF RunStatus
<1> QED BY <1>1, <1>2, <1>3 DEF Sound

\* A status that is not ok, once a run is known to be unverifiable.
LEMMA ExpectedOfError ==
  ASSUME NEW r \in Resolved, Unverifiable(r)
  PROVE  ExpectedStatus = IF target = AllRuns THEN "integrity_failed"
                          ELSE "preflight_failed"
BY DEF ExpectedStatus, Sound

\* Every step keeps the aggregate and the exit code exact.
LEMMA ExactStep ==
  ASSUME TypeOK, RunOK, BatchOK, ExactOK, [Next]_vars
  PROVE  ExactOK'
<1>a. /\ Resolved' = Resolved
      /\ \A r \in Runs : Sound(r)' <=> Sound(r)
      /\ \A r \in Runs : Unverifiable(r)' <=> Unverifiable(r)
      /\ target' = target
      /\ cancelled => cancelled'
      /\ faulted => faulted'
  BY StillMeans, StillStep DEF Still, Sound
<1>b. Resolved \subseteq Runs
  BY DEF Resolved, Latest, TypeOK, ProcessOK, VolumeOK, Targets
<1>c. ExpectedStatus' = ExpectedStatus
  BY <1>a, <1>b DEF ExpectedStatus
<1>d. \A status : CodeOf(status)' = CodeOf(status)
  BY DEF CodeOf
<1>e. runIDs \subseteq Runs /\ queue \subseteq runIDs
  BY DEF TypeOK, ProcessOK
<1> DEFINE Exact(quiet, at, agg, done) ==
      quiet =>
        /\ at \in PerRun \cup {"next"} =>
             /\ agg = "ok" <=> \A r \in done : Sound(r)
             /\ target # AllRuns => \A r \in done : ~Unverifiable(r)
        /\ at \in {"release", "exited"} => agg = ExpectedStatus
<1>f. Exact(~cancelled /\ ~faulted, pc, aggregate, runIDs \ Pending)
  BY DEF ExactOK
<1>g. pc = "exited" => exitCode = CodeOf(aggregate)
  BY DEF ExactOK
<1>h. ASSUME runIDs' \subseteq Runs,
             Exact(~cancelled' /\ ~faulted', pc', aggregate', (runIDs \ Pending)'),
             pc' = "exited" => exitCode' = CodeOf(aggregate')
      PROVE  ExactOK'
  BY <1>a, <1>c, <1>h DEF ExactOK, CodeOf
\* A step that keeps place, aggregate and runs done, or goes from one place to
\* another of the same loop.
<1>i. ASSUME runIDs' = runIDs, Pending' = Pending, aggregate' = aggregate,
             exitCode' = exitCode,
             \/ pc' = pc
             \/ pc \in PerRun \cup {"next"} /\ pc' \in PerRun \cup {"next"}
             \/ pc' \in {"dead", "preflight", "resolve"}
      PROVE  ExactOK'
  <2>1. Exact(~cancelled' /\ ~faulted', pc', aggregate', (runIDs \ Pending)')
    BY <1>a, <1>f, <1>i DEF PerRun
  <2>2. pc' = "exited" => exitCode' = CodeOf(aggregate')
    BY <1>g, <1>i DEF PerRun
  <2> QED BY <1>e, <1>h, <1>i, <2>1, <2>2
\* RunError, when the run cannot be verified.
<1>j. ASSUME pc \in PerRun, RunError, UNCHANGED <<runIDs, run, exitCode>>,
             ~cancelled' /\ ~faulted' => Unverifiable(run)
      PROVE  ExactOK'
  <2>1. run \in Resolved /\ run \in runIDs /\ run \notin queue
    BY <1>j DEF RunOK, BatchOK
  <2>2. Unverifiable(run) => ~Sound(run) BY DEF Sound
  <2>3. CASE target # AllRuns
    <3>1. pc' = "release" /\ aggregate' = "preflight_failed"
      BY <1>j, <2>3 DEF RunError, Return
    <3>2. ~cancelled' /\ ~faulted' => ExpectedStatus = "preflight_failed"
      BY <1>j, <2>1, <2>3, ExpectedOfError
    <3> QED BY <1>e, <1>h, <1>j, <3>1, <3>2 DEF PerRun
  <2>4. CASE target = AllRuns
    <3>1. pc' = "next" /\ aggregate' = "integrity_failed" /\ queue' = queue
      BY <1>j, <2>4 DEF RunError
    <3>2. run \in (runIDs \ Pending)'
      BY <1>j, <2>1, <3>1 DEF Pending, PerRun
    <3>3. Exact(~cancelled' /\ ~faulted', pc', aggregate', (runIDs \ Pending)')
      BY <1>j, <2>2, <2>4, <3>1, <3>2
    <3> QED BY <1>e, <1>h, <1>j, <3>1, <3>3
  <2> QED BY <2>3, <2>4
<1> HIDE DEF Exact
<1>1. CASE PreflightPass
  BY <1>i, <1>1 DEF PreflightPass, Goto, Pending, PerRun
<1>2. CASE PreflightRefuse
  <2>1. /\ faulted' /\ pc' = "release" /\ runIDs' = runIDs
    BY <1>2 DEF PreflightRefuse, Return
  <2> QED BY <1>e, <1>h, <2>1 DEF Exact
<1>3. CASE ResolveRunIDs
  <2>1. CASE pc' = "next"
    <3>1. /\ runIDs' = Resolved /\ queue' = Resolved /\ aggregate' = aggregate
          /\ pc = "resolve"
      BY <1>3, <2>1 DEF ResolveRunIDs, Return
    <3>2. aggregate' = "ok" /\ (runIDs \ Pending)' = {}
      BY <2>1, <3>1 DEF BatchOK, Pending, PerRun
    <3> QED BY <1>b, <1>h, <2>1, <3>1, <3>2 DEF Exact
  <2>2. CASE pc' # "next"
    <3>1. /\ pc' = "release" /\ aggregate' = "preflight_failed"
          /\ runIDs' = runIDs /\ (~faulted' => Resolved = {})
      BY <1>3, <2>2 DEF ResolveRunIDs, Return, Fault, NoFault
    <3>2. Resolved = {} => ExpectedStatus = "preflight_failed"
      BY DEF ExpectedStatus
    <3> QED BY <1>e, <1>h, <3>1, <3>2 DEF Exact, PerRun
  <2> QED BY <2>1, <2>2
<1>4. CASE NextRun
  <2>1. PICK r \in queue : run' = r /\ queue' = queue \ {r}
    BY <1>4 DEF NextRun
  <2>2. /\ pc = "next" /\ pc' = "load"
        /\ UNCHANGED <<runIDs, aggregate, exitCode>>
    BY <1>4 DEF NextRun
  <2>3. Pending' = Pending BY <2>1, <2>2 DEF Pending, PerRun
  <2> QED BY <1>i, <2>2, <2>3 DEF PerRun
<1>5. CASE EndBatch
  <2>1. /\ pc = "next" /\ pc' = "release" /\ (queue = {} \/ cancelled)
        /\ UNCHANGED <<runIDs, queue, aggregate, cancelled, faulted, exitCode>>
    BY <1>5 DEF EndBatch, Return
  <2>2. ASSUME ~cancelled', ~faulted' PROVE aggregate = ExpectedStatus
    <3>1. runIDs = Resolved /\ Resolved # {} /\ aggregate # "preflight_failed"
      BY <2>1 DEF BatchOK
    <3>2. runIDs \ Pending = Resolved
      BY <2>1, <2>2, <3>1 DEF Pending, PerRun
    <3>3. /\ aggregate = "ok" <=> \A r \in Resolved : Sound(r)
          /\ target # AllRuns => \A r \in Resolved : ~Unverifiable(r)
      BY <1>f, <2>1, <2>2, <3>2 DEF Exact
    <3>4. aggregate \in VerifyStatus BY DEF TypeOK, ProcessOK
    <3> QED BY <3>1, <3>3, <3>4 DEF ExpectedStatus, VerifyStatus
  <2> QED BY <1>e, <1>h, <2>1, <2>2 DEF Exact, PerRun
<1>6. CASE LoadManifest
  <2>1. pc = "load" /\ UNCHANGED <<runIDs, run, exitCode>>
    BY <1>6 DEF LoadManifest
  <2>2. CASE pc' = "rehash"
    <3>1. UNCHANGED <<aggregate, queue>>
      BY <1>6, <2>2 DEF LoadManifest, RunError, Return
    <3>2. Pending' = Pending BY <2>1, <2>2, <3>1 DEF Pending, PerRun
    <3> QED BY <1>i, <2>1, <2>2, <3>1, <3>2 DEF PerRun
  <2>3. CASE pc' # "rehash"
    <3>1. RunError /\ (~cancelled' /\ ~faulted' => run \notin loadable)
      BY <1>6, <2>3 DEF LoadManifest, Fault, NoFault
    <3> QED BY <1>j, <2>1, <3>1 DEF PerRun, Unverifiable
  <2> QED BY <2>2, <2>3
<1>7. CASE RehashNext
  BY <1>i, <1>7 DEF RehashNext, Pending, PerRun
<1>8. CASE RehashDone
  BY <1>i, <1>8 DEF RehashDone, Pending, PerRun
<1>9. CASE CountExtras
  BY <1>i, <1>9 DEF CountExtras, Pending, PerRun
<1>10. CASE WriteSummary
  <2>1. pc = "write" /\ UNCHANGED <<runIDs, run, exitCode, cancelled, rehashErr>>
    BY <1>10 DEF WriteSummary
  <2>2. CASE pc' = "fold"
    <3>1. UNCHANGED <<aggregate, queue>>
      BY <1>10, <2>2 DEF WriteSummary, RunError, Return
    <3>2. Pending' = Pending BY <2>1, <2>2, <3>1 DEF Pending, PerRun
    <3> QED BY <1>i, <2>1, <2>2, <3>1, <3>2 DEF PerRun
  <2>3. CASE pc' # "fold"
    <3>1. RunError /\ (~faulted' => rehashErr)
      BY <1>10, <2>3 DEF WriteSummary, Fault, NoFault
    <3>2. ~cancelled' /\ ~faulted' => Unverifiable(run)
      BY <1>a, <2>1, <3>1 DEF RunOK, Reading, PerRun, Unverifiable
    <3> QED BY <1>j, <2>1, <3>1, <3>2 DEF PerRun
  <2> QED BY <2>2, <2>3
<1>11. CASE FoldRun
  <2>1. /\ pc = "fold" /\ pc' = "next" /\ aggregate' = Worst
        /\ UNCHANGED <<runIDs, queue, run, exitCode, cancelled, faulted>>
    BY <1>11 DEF FoldRun, Goto
  <2>2. run \in runIDs /\ run \notin queue BY <2>1 DEF RunOK, PerRun
  <2>3. (runIDs \ Pending)' = (runIDs \ Pending) \cup {run}
    BY <2>1, <2>2 DEF Pending, PerRun
  <2>4. ASSUME ~cancelled, ~faulted
        PROVE  /\ Worst = "ok" <=> aggregate = "ok" /\ Sound(run)
               /\ ~Unverifiable(run)
    <3>1. RunStatus = "ok" <=> Sound(run)
      BY <2>1, <2>4, StatusIsExact
    <3>2. ~Unverifiable(run)
      BY <2>1, <2>4 DEF RunOK, Reading, PerRun, Unverifiable
    <3> QED BY <3>1, <3>2 DEF Worst
  <2>5. Exact(~cancelled' /\ ~faulted', pc', aggregate', (runIDs \ Pending)')
    BY <1>f, <2>1, <2>3, <2>4 DEF Exact, PerRun
  <2> QED BY <1>e, <1>h, <2>1, <2>5
<1>12. CASE Exit
  <2>1. /\ pc = "release" /\ pc' = "exited" /\ exitCode' = CodeOf(aggregate)
        /\ UNCHANGED <<runIDs, aggregate, cancelled, faulted>>
    BY <1>12 DEF Exit, Goto
  <2>2. ~cancelled' /\ ~faulted' => aggregate' = ExpectedStatus
    BY <1>f, <2>1 DEF Exact
  <2> QED BY <1>e, <1>h, <2>1, <2>2 DEF Exact, PerRun
<1>13. CASE Cancel
  BY <1>i, <1>13 DEF Cancel, Pending
<1>14. CASE Kill
  <2>1. pc' = "dead" /\ runIDs' = runIDs BY <1>14 DEF Kill
  <2> QED BY <1>e, <1>h, <2>1 DEF Exact, PerRun
<1>15. ASSUME NEW f \in Files, Classify(f) PROVE ExactOK'
  BY <1>i, <1>15 DEF Classify, Pending, PerRun
<1>16. CASE UNCHANGED vars BY <1>i, <1>16 DEF vars, Pending
<1> QED BY <1>1, <1>2, <1>3, <1>4, <1>5, <1>6, <1>7, <1>8, <1>9, <1>10, <1>11,
  <1>12, <1>13, <1>14, <1>15, <1>16 DEF Next, Verifier

\* A batch leaves no run behind that it could have read.
LEMMA ReachStep ==
  ASSUME TypeOK, RunOK, BatchOK, ReachOK, [Next]_vars
  PROVE  ReachOK'
<1>a. /\ UNCHANGED <<target, dirs, loadable>>
      /\ cancelled => cancelled'
      /\ faulted => faulted'
      /\ summaries' = summaries => Recorded' = Recorded
  BY StillStep DEF Still, Recorded
<1> SUFFICES ASSUME target = AllRuns, ~cancelled', ~faulted' PROVE ReachOK'
  BY <1>a DEF ReachOK
<1>b. /\ pc \in PerRun \cup {"next"} => loadable \subseteq Recorded \cup Unwritten
      /\ pc \in {"release", "exited"} => loadable \subseteq Recorded
  BY <1>a DEF ReachOK
<1> USE <1>a, <1>b DEF ReachOK, Unwritten, PerRun, Return, Goto, Fault, NoFault
<1>1. CASE PreflightPass
  BY <1>1 DEF PreflightPass
<1>2. CASE PreflightRefuse
  BY <1>2 DEF PreflightRefuse
<1>3. CASE ResolveRunIDs
  <2>1. Resolved = dirs /\ loadable \subseteq dirs
    BY DEF Resolved, AllRuns, LatestOnly, TypeOK, VolumeOK
  <2> QED BY <1>3, <2>1 DEF ResolveRunIDs
<1>4. CASE NextRun
  BY <1>4 DEF NextRun
<1>5. CASE EndBatch
  BY <1>5 DEF EndBatch
<1>6. CASE LoadManifest
  BY <1>6 DEF LoadManifest, RunError
<1>7. CASE RehashNext
  BY <1>7 DEF RehashNext
<1>8. CASE RehashDone
  BY <1>8 DEF RehashDone
<1>9. CASE CountExtras
  BY <1>9 DEF CountExtras
<1>10. CASE WriteSummary
  <2>1. pc = "write" BY <1>10 DEF WriteSummary
  <2>2. /\ pc' \in {"fold", "next"} /\ summaries' = summaries \cup {Summary}
        /\ queue' = queue /\ run' = run
    BY <1>10 DEF WriteSummary, RunError
  <2>3. Summary.run = run BY DEF Summary
  <2>4. Recorded' = Recorded \cup {run} BY <2>2, <2>3 DEF Recorded
  <2> QED BY <2>1, <2>2, <2>4
<1>11. CASE FoldRun
  BY <1>11 DEF FoldRun
<1>12. CASE Exit
  BY <1>12 DEF Exit
<1>13. CASE Cancel
  BY <1>13 DEF Cancel
<1>14. CASE Kill
  BY <1>14 DEF Kill
<1>15. ASSUME NEW f \in Files, Classify(f) PROVE ReachOK'
  BY <1>15 DEF Classify
<1>16. CASE UNCHANGED vars BY <1>16 DEF vars
<1> QED BY <1>1, <1>2, <1>3, <1>4, <1>5, <1>6, <1>7, <1>8, <1>9, <1>10, <1>11,
  <1>12, <1>13, <1>14, <1>15, <1>16 DEF Next, Verifier

\* Every step keeps the invariant.
LEMMA InvStep == ASSUME VerifyInv, [Next]_vars PROVE VerifyInv'
BY TypeStep, RunStep, BatchStep, SummaryStep, ExactStep, ReachStep DEF VerifyInv

\* The types, the results of the run at hand, what the aggregate claims, and
\* SummaryIsTrue: the record of a run on the volume never lies about it.
THEOREM VerifyInvariantCorrect == Spec => []VerifyInv
<1>1. Init => VerifyInv BY InvInit
<1>2. VerifyInv /\ [Next]_vars => VerifyInv' BY InvStep
<1> QED BY <1>1, <1>2, PTL DEF Spec

\* An uncancelled `verify` that exits 0 has found every run it was asked for
\* intact, whatever else failed on the way.
THEOREM OkCorrect == Spec => []OkIsIntact
<1>1. VerifyInv => OkIsIntact
  BY DEF VerifyInv, BatchOK, OkIsIntact, Pending, PerRun
<1> QED BY <1>1, VerifyInvariantCorrect, PTL

\* With no refused gate, fault or cancellation the exit code of `verify` says
\* exactly what the runs and their files are: 0 if and only if there is one and
\* each can be verified and is intact, 2 for none or for one that cannot be.
THEOREM ExitCodeCorrect == Spec => []ExitCodeIsExact
<1>1. VerifyInv => ExitCodeIsExact
  BY DEF VerifyInv, ExactOK, ExitCodeIsExact
<1> QED BY <1>1, VerifyInvariantCorrect, PTL

\* `verify --all` ends with a record of every run whose manifest can be read,
\* and of no other: the failure of one run does not cut the batch short.
THEOREM BatchReachesAllCorrect == Spec => []BatchReachesAll
<1>1. VerifyInv => BatchReachesAll
  BY DEF VerifyInv, ReachOK, SummaryIsTrue, BatchReachesAll, Recorded
<1> QED BY <1>1, VerifyInvariantCorrect, PTL
=============================================================================
