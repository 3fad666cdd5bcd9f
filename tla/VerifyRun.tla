------------------------------ MODULE VerifyRun ------------------------------
(***************************************************************************)
(* One `flashbackup verify` process: verify.Verify with its preflight, the *)
(* choice of the runs, load.Load and rehash.Rehash of each of them, the    *)
(* optional count of extra files, the records it writes and its exit code. *)
(*                                                                         *)
(* Run ids are numbers, ordered as their names are.  A manifest line is    *)
(* the content it records, or "tampered" (its HMAC is wrong), "malformed"  *)
(* (no JSON, no HMAC), or absent.  A content stands for the bytes of a     *)
(* file and has a size; dst is what lies under this machine's namespace,   *)
(* its directory on the volume.                                            *)
(***************************************************************************)
EXTENDS Integers, FiniteSets

CONSTANTS
  Runs,         \* the ids a run directory may have
  Files,        \* the paths a manifest line may name
  Contents,     \* file contents
  SizeOf,       \* the size of each content
  Faults        \* what the environment may do

VerifyFaults == {"io", "cancel", "kill"}

ASSUME RunsAssumption == Runs \subseteq Nat
ASSUME FilesAssumption == IsFiniteSet(Files)
ASSUME SizeAssumption == SizeOf \in [Contents -> Nat]
ASSUME ContentsAssumption ==
  Contents \cap {"missing", "absent", "tampered", "malformed"} = {}
ASSUME VerifyFaultsAssumption == Faults \subseteq VerifyFaults

NoRun == -1
LatestOnly == -2           \* no run id and no --all
AllRuns == -3
Targets == {LatestOnly, AllRuns} \cup Runs
LineKind == Contents \cup {"absent", "tampered", "malformed"}
RehashStatus ==
  {"verified", "size_mismatch", "hash_mismatch", "missing", "unreadable"}
VerifyStatus == {"ok", "integrity_failed", "preflight_failed"}
Unset == "none"

VARIABLES
  \* the process
  pc, cancelled,
  target, checkExtras,     \* VerifyOptions: RunID or All, CheckExtras
  runIDs, queue, run,      \* the runs resolved, those to come, the one at hand
  todo, perFile,           \* entries not yet re-hashed; the FileResults
  rehashErr,               \* the variable err of verifyOneRun, not nil
  aggregate, exitCode,     \* VerifyResult.ExitStatus
  \* the USB volume
  dirs, loadable, lines,   \* run directories, their manifests and the lines
  namespace,               \* this machine's directory is there
  dst,                     \* the files under it
  summaries,               \* the summary.json records of this process
  \* history
  faulted                  \* a system call failed, or a gate refused

askVars  == <<target, checkExtras>>
fileVars == <<todo, perFile>>
diskVars == <<dirs, loadable, lines, namespace, dst>>
vars == <<pc, cancelled, askVars, runIDs, queue, run, fileVars, rehashErr,
          aggregate, exitCode, diskVars, summaries, faulted>>

Ended == {"exited", "dead"}
PerRun == {"load", "rehash", "rehash_file", "extras", "write", "fold"}
PC == Ended \cup PerRun \cup {"preflight", "resolve", "next", "release"}

NoResults == [f \in Files |-> Unset]

Init ==
  /\ pc = "preflight" /\ cancelled = FALSE
  /\ target \in Targets /\ checkExtras \in BOOLEAN
  /\ runIDs = {} /\ queue = {} /\ run = NoRun
  /\ todo = {} /\ perFile = NoResults /\ rehashErr = FALSE
  /\ aggregate = "ok" /\ exitCode = -1
  /\ dirs \in SUBSET Runs /\ loadable \in SUBSET dirs
  /\ lines \in [Runs -> [Files -> LineKind]]
  /\ \A r \in Runs \ loadable : lines[r] = [f \in Files |-> "absent"]
  /\ dst \in [Files -> Contents \cup {"missing"}]
  /\ namespace \in BOOLEAN
  /\ ~namespace => dst = [f \in Files |-> "missing"]
  /\ summaries = {} /\ faulted = FALSE

-----------------------------------------------------------------------------
Goto(from, to) == pc = from /\ pc' = to
Fault == "io" \in Faults /\ faulted' = TRUE
NoFault == UNCHANGED faulted

\* Verify returns with this status, and its defer releases the lock.
Return(status) == pc' = "release" /\ aggregate' = status

\* runErr # nil: the end of a single run, one failure more in a batch.
RunErrorEndsBatch == Return("preflight_failed") /\ queue' = {}   \* mutant
RunError ==
  /\ \/ target # AllRuns /\ Return("preflight_failed")
     \/ target = AllRuns /\ pc' = "next" /\ aggregate' = "integrity_failed"
  /\ UNCHANGED queue

-----------------------------------------------------------------------------
(* Preflight and the choice of the runs.                                   *)

\* All gates pass, and this process holds the lock: no backup runs beside it.
PreflightPass ==
  /\ Goto("preflight", "resolve")
  /\ UNCHANGED <<cancelled, askVars, runIDs, queue, run, fileVars, rehashErr,
       aggregate, exitCode, diskVars, summaries, faulted>>

\* A gate refuses: the lock is held elsewhere, no init, ...
PreflightRefuse ==
  /\ pc = "preflight"
  /\ Return("preflight_failed")
  /\ faulted' = TRUE
  /\ UNCHANGED <<cancelled, askVars, runIDs, queue, run, fileVars, rehashErr,
       exitCode, diskVars, summaries>>

Latest == {r \in dirs : \A s \in dirs : s <= r}
Resolved ==
  CASE target = AllRuns -> dirs
    [] target = LatestOnly -> Latest
    [] OTHER -> {target} \cap dirs

\* resolveRunIDs; that there is no such run, or none at all, is an error.
ResolveRunIDs ==
  /\ pc = "resolve"
  /\ \/ /\ Resolved # {} /\ NoFault
        /\ runIDs' = Resolved /\ queue' = Resolved
        /\ pc' = "next" /\ UNCHANGED aggregate
     \/ /\ (Resolved = {} /\ NoFault) \/ Fault
        /\ Return("preflight_failed")
        /\ UNCHANGED <<runIDs, queue>>
  /\ UNCHANGED <<cancelled, askVars, run, fileVars, rehashErr, exitCode,
       diskVars, summaries>>

\* The head of the loop over the runs, oldest first.
NextRun ==
  /\ pc = "next" /\ ~cancelled
  /\ \E r \in queue :
       /\ \A s \in queue : r <= s
       /\ run' = r /\ queue' = queue \ {r}
  /\ pc' = "load"
  /\ todo' = {} /\ perFile' = NoResults /\ rehashErr' = FALSE
  /\ UNCHANGED <<cancelled, askVars, runIDs, aggregate, exitCode,
       diskVars, summaries, faulted>>

\* The batch is done, or the context is cancelled: what is aggregated so far
\* is the result.
EndBatch ==
  /\ pc = "next"
  /\ queue = {} \/ cancelled
  /\ Return(aggregate)
  /\ UNCHANGED <<cancelled, askVars, runIDs, queue, run, fileVars, rehashErr,
       exitCode, diskVars, summaries, faulted>>

-----------------------------------------------------------------------------
(* verifyOneRun.                                                           *)

Tampered(r)  == {f \in Files : lines[r][f] = "tampered"}
Malformed(r) == {f \in Files : lines[r][f] = "malformed"}
Entries(r)   == {f \in Files : lines[r][f] \in Contents}

\* load.Load, and the first check of rehash.Rehash.  A missing or torn
\* manifest, a line of another schema version and a cancelled context are
\* errors of the run; lines that are tampered or malformed are set apart.
LoadManifest ==
  /\ pc = "load"
  /\ \/ /\ ~cancelled /\ run \in loadable /\ NoFault
        /\ todo' = Entries(run)
        /\ pc' = "rehash" /\ UNCHANGED <<aggregate, queue>>
     \/ /\ ((cancelled \/ run \notin loadable) /\ NoFault) \/ Fault
        /\ RunError /\ UNCHANGED todo
  /\ UNCHANGED <<cancelled, askVars, runIDs, run, perFile, rehashErr,
       exitCode, diskVars, summaries>>

\* The head of the loop over the entries.
RehashNext ==
  /\ pc = "rehash" /\ todo # {}
  /\ \/ cancelled /\ pc' = "extras" /\ rehashErr' = TRUE
     \/ ~cancelled /\ pc' = "rehash_file" /\ UNCHANGED rehashErr
  /\ UNCHANGED <<cancelled, askVars, runIDs, queue, run, fileVars, aggregate,
       exitCode, diskVars, summaries, faulted>>

\* Mutant: the size is compared, the content is not.
DigestBySize(r, f) == "verified"
Digest(r, f) == IF dst[f] = lines[r][f] THEN "verified" ELSE "hash_mismatch"

\* classify: stat, size, then the digest.  A context that is cancelled while
\* the file is hashed makes it unreadable.
Classify(f) ==
  /\ pc = "rehash_file" /\ f \in todo
  /\ \E s \in RehashStatus :
       /\ \/ dst[f] = "missing" /\ s = "missing" /\ NoFault
          \/ /\ dst[f] # "missing" /\ NoFault
             /\ SizeOf[dst[f]] # SizeOf[lines[run][f]] /\ s = "size_mismatch"
          \/ /\ dst[f] # "missing" /\ NoFault
             /\ SizeOf[dst[f]] = SizeOf[lines[run][f]]
             /\ s = IF cancelled THEN "unreadable" ELSE Digest(run, f)
          \/ Fault /\ s = "unreadable"
       /\ perFile' = [perFile EXCEPT ![f] = s]
  /\ todo' = todo \ {f}
  /\ pc' = "rehash"
  /\ UNCHANGED <<cancelled, askVars, runIDs, queue, run, rehashErr, aggregate,
       exitCode, diskVars, summaries>>

RehashDone ==
  /\ pc = "rehash" /\ todo = {}
  /\ pc' = "extras"
  /\ UNCHANGED <<cancelled, askVars, runIDs, queue, run, fileVars, rehashErr,
       aggregate, exitCode, diskVars, summaries, faulted>>

\* countExtras assigns to the same err: a walk that succeeds forgets that
\* the rehash was cancelled, one that fails is an error of the run.  The walk
\* looks at the context every 256 files only, and fails when this machine has
\* no directory on the volume.
CountExtras ==
  /\ pc = "extras" /\ pc' = "write"
  /\ \/ ~checkExtras /\ NoFault /\ UNCHANGED rehashErr
     \/ checkExtras /\ namespace /\ NoFault /\ rehashErr' = FALSE
     \/ checkExtras /\ (~namespace \/ cancelled) /\ NoFault /\ rehashErr' = TRUE
     \/ checkExtras /\ Fault /\ rehashErr' = TRUE
  /\ UNCHANGED <<cancelled, askVars, runIDs, queue, run, fileVars, aggregate,
       exitCode, diskVars, summaries>>

Checked == {f \in Files : perFile[f] # Unset}
Good == {f \in Files : perFile[f] = "verified"}

\* Mutants: bad manifest lines do not count; files the user added do.
RunStatusOfFiles == IF Checked = Good THEN "ok" ELSE "integrity_failed"
RunStatusOfExtras ==
  IF /\ Checked = Good /\ Tampered(run) = {} /\ Malformed(run) = {}
     /\ checkExtras => \A f \in Files : dst[f] = "missing" \/ f \in Checked
  THEN "ok" ELSE "integrity_failed"
\* classifyExitStatus
RunStatus ==
  IF Checked = Good /\ Tampered(run) = {} /\ Malformed(run) = {}
  THEN "ok" ELSE "integrity_failed"

Summary == [run |-> run, status |-> RunStatus, checked |-> Checked]

\* results.ndjson, then summary.json, each written whole or not at all; the
\* fsync of the directory may fail after the rename.
WriteSummary ==
  /\ pc = "write"
  /\ \/ /\ NoFault
        /\ summaries' = summaries \cup {Summary}
        /\ \/ rehashErr /\ RunError
           \/ ~rehashErr /\ pc' = "fold" /\ UNCHANGED <<aggregate, queue>>
     \/ /\ Fault /\ RunError
        /\ summaries' = summaries \/ summaries' = summaries \cup {Summary}
  /\ UNCHANGED <<cancelled, askVars, runIDs, run, fileVars, rehashErr,
       exitCode, diskVars>>

Worst == IF RunStatus = "ok" THEN aggregate ELSE "integrity_failed"

\* The counters and the status of the run fold into the aggregate.
FoldRun ==
  /\ Goto("fold", "next")
  /\ aggregate' = Worst
  /\ UNCHANGED <<cancelled, askVars, runIDs, queue, run, fileVars, rehashErr,
       exitCode, diskVars, summaries, faulted>>

-----------------------------------------------------------------------------
\* verifyExitCode
CodeOf(status) == CASE status = "ok" -> 0
                    [] status = "preflight_failed" -> 2
                    [] OTHER -> 1

\* The deferred Release of the lock, and the end of the process.
Exit ==
  /\ Goto("release", "exited")
  /\ exitCode' = CodeOf(aggregate)
  /\ UNCHANGED <<cancelled, askVars, runIDs, queue, run, fileVars, rehashErr,
       aggregate, diskVars, summaries, faulted>>

\* The first SIGINT or SIGTERM.
Cancel ==
  /\ "cancel" \in Faults /\ pc \notin Ended /\ ~cancelled
  /\ cancelled' = TRUE
  /\ UNCHANGED <<pc, askVars, runIDs, queue, run, fileVars, rehashErr,
       aggregate, exitCode, diskVars, summaries, faulted>>

\* The second one, or any other end of the process.
Kill ==
  /\ "kill" \in Faults /\ pc \notin Ended /\ cancelled
  /\ pc' = "dead" /\ exitCode' = 130
  /\ UNCHANGED <<cancelled, askVars, runIDs, queue, run, fileVars, rehashErr,
       aggregate, diskVars, summaries, faulted>>

Verifier ==
  \/ PreflightPass \/ PreflightRefuse \/ ResolveRunIDs \/ NextRun \/ EndBatch
  \/ LoadManifest \/ RehashNext \/ RehashDone \/ CountExtras \/ WriteSummary
  \/ FoldRun \/ Exit
  \/ \E f \in Files : Classify(f)

Next == Verifier \/ Cancel \/ Kill

Spec == Init /\ [][Next]_vars

-----------------------------------------------------------------------------
(* Properties.                                                             *)

ProcessOK ==
  /\ pc \in PC /\ cancelled \in BOOLEAN
  /\ target \in Targets /\ checkExtras \in BOOLEAN
  /\ runIDs \subseteq Runs /\ queue \subseteq runIDs
  /\ run \in Runs \cup {NoRun}
  /\ todo \subseteq Files /\ perFile \in [Files -> RehashStatus \cup {Unset}]
  /\ rehashErr \in BOOLEAN /\ aggregate \in VerifyStatus
  /\ exitCode \in {-1, 0, 1, 2, 130}

VolumeOK ==
  /\ dirs \subseteq Runs /\ loadable \subseteq dirs
  /\ lines \in [Runs -> [Files -> LineKind]]
  /\ namespace \in BOOLEAN /\ dst \in [Files -> Contents \cup {"missing"}]
  /\ summaries \subseteq [run : Runs, status : {"ok", "integrity_failed"},
                           checked : SUBSET Files]
  /\ faulted \in BOOLEAN

\* Every variable has its type.
TypeOK == ProcessOK /\ VolumeOK

Matches(r, f) == lines[r][f] \in Contents /\ dst[f] = lines[r][f]

\* The runs with a record.
Recorded == {s.run : s \in summaries}

\* A run that can be verified without complaint: its manifest can be read and
\* every line of it is sound and has its file.
Intact(r) ==
  /\ r \in loadable
  /\ \A f \in Files : lines[r][f] = "absent" \/ Matches(r, f)

\* The records on the volume, that `status` shows long after: a record says ok
\* only of a run without bad lines (AC-19) whose files, as far as they were
\* read, have the recorded content, a record that leaves out a file comes of a
\* cancelled verification, and one that reports damage has seen some.
SummaryIsTrue ==
  \A s \in summaries :
    /\ s.run \in loadable
    /\ s.status = "ok" =>
         /\ Tampered(s.run) = {} /\ Malformed(s.run) = {}
         /\ \A f \in s.checked : Matches(s.run, f)
    /\ s.checked = Entries(s.run) \/ cancelled
    /\ s.status = "integrity_failed" =>
         ~Intact(s.run) \/ cancelled \/ faulted

\* verify/doc.go, "ok: every file verified, manifest HMACs all clean": unless
\* it was cancelled, a verification that exits 0 has found every run it was
\* asked for, and there was at least one, intact (AC-10).
OkIsIntact ==
  exitCode = 0 /\ ~cancelled =>
    Resolved # {} /\ \A r \in Resolved : Intact(r)

\* A run that ends in an error, whatever its lines and files: its manifest
\* cannot be read (a run that was refused or has crashed has none), or the
\* extra files are to be counted and this machine has no directory to walk.
Unverifiable(r) == r \notin loadable \/ (checkExtras /\ ~namespace)
Sound(r) == Intact(r) /\ ~Unverifiable(r)

ExpectedStatus ==
  IF Resolved = {} \/ (target # AllRuns /\ \E r \in Resolved : Unverifiable(r))
  THEN "preflight_failed"
  ELSE IF \A r \in Resolved : Sound(r) THEN "ok" ELSE "integrity_failed"

\* The exit codes of verify_helpers.go:11-45, with no refused gate, fault or
\* cancellation: 2 if there is no run, or the one asked for cannot be verified;
\* else 1 if a run of the batch cannot be, or one is damaged; else 0.  Nothing
\* else beside the runs counts, the files the user has added least of all.  Of
\* an extras walk verify.go:391-396 says that its failure "is non-fatal" and
\* leaves the outcome as it is: it makes an intact run unverifiable.
ExitCodeIsExact ==
  pc = "exited" /\ ~cancelled /\ ~faulted => exitCode = CodeOf(ExpectedStatus)

\* verify/doc.go, "Errors loading or rehashing one run do NOT short-circuit the
\* batch": --all leaves a record of every run whose manifest can be read.
BatchReachesAll ==
  pc = "exited" /\ target = AllRuns /\ ~cancelled /\ ~faulted =>
    Recorded = loadable

\* verify.go:451-456 and verify_helpers.go:22-25, exit code 0 "only when every
\* file is fully verified": cancelled or not.
ExitZeroMeansVerified ==
  exitCode = 0 => \A r \in Resolved : Intact(r)

-----------------------------------------------------------------------------
(* Why exit code 0 can be believed: an inductive invariant.                *)

Reading == PerRun \ {"load"}

\* The run at hand: what has been read of it, and what was found.
RunOK ==
  /\ pc \in PerRun => run \in runIDs /\ run \notin queue
  /\ pc = "load" => perFile = NoResults /\ ~rehashErr
  /\ pc \in Reading =>
       /\ run \in loadable
       /\ todo \subseteq Entries(run) /\ Checked = Entries(run) \ todo
       /\ \A f \in Good : Matches(run, f)
       /\ \A f \in Checked \ Good : ~Matches(run, f) \/ cancelled \/ faulted
  /\ pc \in {"extras", "write", "fold"} => todo = {} \/ cancelled
  /\ pc \in Reading /\ ~cancelled /\ ~faulted =>
       (rehashErr <=> pc = "write" /\ checkExtras /\ ~namespace)
  /\ pc = "fold" => ~rehashErr /\ (checkExtras => namespace \/ cancelled \/ faulted)

Pending == queue \cup (IF pc \in PerRun THEN {run} ELSE {})

\* The batch: what the aggregate says of the runs that are done.
BatchOK ==
  /\ pc \in {"preflight", "resolve"} => aggregate = "ok"
  /\ pc \in PerRun \cup {"next"} =>
       runIDs = Resolved /\ Resolved # {} /\ aggregate # "preflight_failed"
  /\ pc \in {"release", "exited"} /\ aggregate = "ok" =>
       /\ runIDs = Resolved /\ Resolved # {}
       /\ queue = {} \/ cancelled
  /\ aggregate = "ok" => \A r \in runIDs \ Pending : Intact(r) \/ cancelled
  /\ exitCode = 0 => pc = "exited" /\ aggregate = "ok"

\* Why the exit code is exact: with no fault and no cancellation the aggregate
\* is bad if and only if one of the runs that are done is.
ExactOK ==
  /\ ~cancelled /\ ~faulted =>
       /\ pc \in PerRun \cup {"next"} =>
            /\ aggregate = "ok" <=> \A r \in runIDs \ Pending : Sound(r)
            /\ target # AllRuns => \A r \in runIDs \ Pending : ~Unverifiable(r)
       /\ pc \in {"release", "exited"} => aggregate = ExpectedStatus
  /\ pc = "exited" => exitCode = CodeOf(aggregate)

Unwritten == queue \cup (IF pc \in PerRun \ {"fold"} THEN {run} ELSE {})

\* Why the batch reaches every run: each of them has its record, or is still
\* to be written.
ReachOK ==
  target = AllRuns /\ ~cancelled /\ ~faulted =>
    /\ pc \in PerRun \cup {"next"} => loadable \subseteq Recorded \cup Unwritten
    /\ pc \in {"release", "exited"} => loadable \subseteq Recorded

VerifyInv ==
  TypeOK /\ RunOK /\ BatchOK /\ SummaryIsTrue /\ ExactOK /\ ReachOK
=============================================================================
