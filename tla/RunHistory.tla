----------------------------- MODULE RunHistory -----------------------------
(***************************************************************************)
(* What the runs of one USB volume leave to each other and to the readers   *)
(* `status` and `verify`: the directories .flashbackup/runs/<RunID>, of     *)
(* which the retention of T4 removes the oldest, and the append-only log    *)
(* runs.ndjson with a "started" and a "finished" line per run.              *)
(*                                                                         *)
(* A run is its RunID, a number: runs are ordered as their ids are by       *)
(* sort.Strings.  Ids are minutes with a random suffix, so a later run may  *)
(* sort before an earlier one of its minute, or of a machine whose clock is *)
(* ahead ("clock").  A run has its directory before it has the lock; what   *)
(* happens within a run is BackupRun's subject, and the lock, DestLock's,   *)
(* is taken to exclude.                                                     *)
(*                                                                         *)
(* A line of runs.ndjson is a record, or bytes no reader can parse.  The    *)
(* last line may be torn: cut short by a full disk or a power loss, or      *)
(* whole but for its line feed.  Whatever is appended next joins it.        *)
(***************************************************************************)
EXTENDS Integers, Sequences, FiniteSets

CONSTANTS
  Runs,         \* RunIDs, in lexical order
  NoRun,        \* "no run"
  Limit,        \* effectiveRetentionLimit
  MaxTears,     \* bound: torn lines and power losses
  MaxVerifies,  \* bound: verifications
  Faults        \* what the environment may do

FaultKinds == {"io", "kill", "power", "clock"}

ASSUME RunsAssumption == Runs \subseteq Nat /\ IsFiniteSet(Runs)
ASSUME NoRunAssumption == NoRun \notin Runs
ASSUME LimitAssumption == Limit \in Nat \ {0}
ASSUME BoundAssumption == MaxTears \in Nat /\ MaxVerifies \in Nat
ASSUME FaultsAssumption == Faults \subseteq FaultKinds

Event == {"started", "finished"}
Line == [run : Runs, event : Event, ok : BOOLEAN]

VARIABLES
  pc,                              \* per run
  lock,                            \* its holder
  log, torn,                       \* runs.ndjson; its last line has no end
  synced,                          \* how many of its whole lines are fsynced
  dirs, manifest,                  \* directories; their manifest.ndjson.gz
  hashed,                          \* whose content each manifest attests
  verifiedAt,                      \* the latest summary.json below each
  doomed,                          \* what pruneOldRunDirs is to remove
  dst,                             \* whose content the destination has
  \* history
  begun, pruned,                   \* runs with, and since without a directory
  saved,                           \* records whose Checkpoint has returned
  endAt, ends,                     \* when each run finished; how many have
  tears,                           \* torn lines and power losses
  verifies, lastVerified           \* verifications, the run of the last one

logVars == <<log, torn, synced>>
dirVars == <<dirs, manifest, hashed, verifiedAt>>
historyVars == <<begun, pruned, saved, endAt, ends, tears, verifies,
                lastVerified>>
vars == <<pc, lock, logVars, dirVars, doomed, dst, historyVars>>

PC == {"idle", "made", "held", "started", "setup", "copy", "hash", "seal",
       "append", "finished", "prune", "remove", "unlock", "ended"}
Alive == PC \ {"idle", "ended"}

Init ==
  /\ pc = [r \in Runs |-> "idle"] /\ lock = NoRun
  /\ log = << >> /\ torn = FALSE /\ synced = 0
  /\ dirs = {} /\ manifest = [r \in Runs |-> "none"]
  /\ hashed = [r \in Runs |-> NoRun] /\ verifiedAt = [r \in Runs |-> 0]
  /\ doomed = {} /\ dst = NoRun
  /\ begun = {} /\ pruned = {} /\ saved = {}
  /\ endAt = [r \in Runs |-> 0] /\ ends = 0 /\ tears = 0
  /\ verifies = 0 /\ lastVerified = NoRun

Step(r, from, to) == pc[r] = from /\ pc' = [pc EXCEPT ![r] = to]
MayFail == "io" \in Faults

-----------------------------------------------------------------------------
(* runs.ndjson: opened with O_APPEND, one Encode and one write per line.   *)

WrittenAtStart(line) == <<line>>   \* mutant: opened without O_APPEND

\* What the file holds once `line` has been written behind what is there.
Written(line) ==
  IF torn THEN [log EXCEPT ![Len(log)] = [line EXCEPT !.ok = FALSE]]
          ELSE Append(log, line)

AppendLine(r, e) ==
  /\ log' = Written([run |-> r, event |-> e, ok |-> TRUE])
  /\ torn' = FALSE
  /\ UNCHANGED <<synced, tears>>

\* The write fails: with nothing written, or with a part of the line.
AppendFails(r, e) ==
  /\ MayFail
  /\ \/ UNCHANGED <<logVars, tears>>
     \/ /\ tears < MaxTears /\ tears' = tears + 1
        /\ log' = Written([run |-> r, event |-> e, ok |-> FALSE])
        /\ torn' = TRUE
        /\ UNCHANGED synced

EntriesToFirstError ==             \* mutant: it stops at the first bad line
  {i \in 1..Len(log) : \A j \in 1..i : log[j].ok}

\* ReadRunLog skips the lines it cannot parse.  The lines it returns:
Entries == {i \in 1..Len(log) : log[i].ok}

OnRecord == {<<log[i].run, log[i].event>> : i \in Entries}

-----------------------------------------------------------------------------
(* A run, from its directory to the end of T4.                             *)

\* runner.Run makes the id and the directory, and opens runs.ndjson.
Begin(r) ==
  /\ Step(r, "idle", "made")
  /\ "clock" \in Faults \/ \A s \in begun : s < r
  /\ begun' = begun \cup {r} /\ dirs' = dirs \cup {r}
  /\ UNCHANGED <<lock, logVars, manifest, hashed, verifiedAt, doomed, dst,
                 pruned, saved, endAt, ends, tears, verifies, lastVerified>>

\* A gate of T0 refuses, the lock is taken for instance.  The directory stays,
\* and the abort fsyncs runs.ndjson without the lock, if it can.
Complete == IF torn THEN Len(log) - 1 ELSE Len(log)
Refuse(r) ==
  /\ Step(r, "made", "ended")
  /\ synced' \in {synced, Complete}
  /\ UNCHANGED <<lock, log, torn, dirVars, doomed, dst, historyVars>>

LockUnchecked(r) ==                \* mutant: without mutual exclusion
  /\ Step(r, "made", "held")
  /\ lock' = r
  /\ UNCHANGED <<logVars, dirVars, doomed, dst, historyVars>>

Lock(r) ==
  /\ lock = NoRun
  /\ Step(r, "made", "held")
  /\ lock' = r
  /\ UNCHANGED <<logVars, dirVars, doomed, dst, historyVars>>

AppendStarted(r) ==
  /\ \/ Step(r, "held", "started") /\ AppendLine(r, "started")
     \/ Step(r, "held", "unlock") /\ AppendFails(r, "started")
  /\ UNCHANGED <<lock, dirVars, doomed, dst, begun, pruned, saved, endAt,
                 ends, verifies, lastVerified>>

\* fsync of runs.ndjson.
Checkpoint(r, event) ==
  /\ synced' = Len(log)
  /\ saved' = saved \cup {<<r, event>>}

CheckpointStarted(r) ==
  /\ \/ Step(r, "started", "setup") /\ Checkpoint(r, "started")
     \/ /\ Step(r, "started", "unlock") /\ MayFail
        /\ UNCHANGED <<synced, saved>>
  /\ UNCHANGED <<lock, log, torn, dirVars, doomed, dst, begun, pruned, endAt,
                 ends, tears, verifies, lastVerified>>

\* The manifest is opened in the run's directory, which an earlier holder of
\* the lock may have pruned.
OpenManifest(r) ==
  /\ \/ r \in dirs /\ Step(r, "setup", "copy")
     \/ (r \notin dirs \/ MayFail) /\ Step(r, "setup", "unlock")
  /\ UNCHANGED <<lock, logVars, dirVars, doomed, dst, historyVars>>

\* T1: rsync makes the destination what this run found at its source.
Copy(r) ==
  /\ Step(r, "copy", "hash")
  /\ dst' = r
  /\ UNCHANGED <<lock, logVars, dirVars, doomed, begun, pruned, saved, endAt,
                 ends, tears, verifies, lastVerified>>

\* T2 records what it reads at the destination.
Hash(r) ==
  /\ Step(r, "hash", "seal")
  /\ hashed' = [hashed EXCEPT ![r] = dst]
  /\ UNCHANGED <<lock, logVars, dirs, manifest, verifiedAt, doomed, dst,
                 historyVars>>

\* T4 seals the manifest.
Seal(r) ==
  /\ Step(r, "seal", "append")
  /\ manifest' = [manifest EXCEPT ![r] = "full"]
  /\ UNCHANGED <<lock, logVars, dirs, hashed, verifiedAt, doomed, dst,
                 historyVars>>

\* Any phase from T0+ on fails or is cancelled; the deferred Gzip seals what
\* there is of the manifest.
Abort(r) ==
  /\ pc[r] \in {"copy", "hash", "seal"}
  /\ pc' = [pc EXCEPT ![r] = "unlock"]
  /\ manifest' \in {manifest, [manifest EXCEPT ![r] = "partial"]}
  /\ UNCHANGED <<lock, logVars, dirs, hashed, verifiedAt, doomed, dst,
                 historyVars>>

AppendFinished(r) ==
  /\ \/ /\ Step(r, "append", "finished") /\ AppendLine(r, "finished")
        /\ endAt' = [endAt EXCEPT ![r] = ends + 1] /\ ends' = ends + 1
     \/ /\ Step(r, "append", "unlock") /\ AppendFails(r, "finished")
        /\ UNCHANGED <<endAt, ends>>
  /\ UNCHANGED <<lock, dirVars, doomed, dst, begun, pruned, saved,
                 verifies, lastVerified>>

CheckpointFinished(r) ==
  /\ \/ Step(r, "finished", "prune") /\ Checkpoint(r, "finished")
     \/ /\ Step(r, "finished", "unlock") /\ MayFail
        /\ UNCHANGED <<synced, saved>>
  /\ UNCHANGED <<lock, log, torn, dirVars, doomed, dst, begun, pruned, endAt,
                 ends, tears, verifies, lastVerified>>

-----------------------------------------------------------------------------
(* pruneOldRunDirs.                                                        *)

OldestOfOthers(r) ==               \* mutant: only the others are counted
  {s \in dirs \ {r} : Cardinality({t \in dirs \ {r} : t > s}) >= Limit - 1}
OldestWithCurrent(r) ==            \* mutant: the current run is not skipped
  {s \in dirs : Cardinality({t \in dirs : t > s}) >= Limit}

\* The directories beyond the limit, oldest ids first, but the current run's.
Oldest(r) ==
  {s \in dirs \ {r} : Cardinality({t \in dirs : t > s}) >= Limit}

\* ReadDir and sort.  If it fails nothing is pruned.
ListRuns(r) ==
  /\ Step(r, "prune", "remove")
  /\ \/ doomed' = Oldest(r)
     \/ MayFail /\ doomed' = {}
  /\ UNCHANGED <<lock, logVars, dirVars, dst, historyVars>>

\* RemoveAll of the next directory: done, or given up with any part of the
\* content removed; the loop goes on either way.
RemoveRun(r, s) ==
  /\ pc[r] = "remove"
  /\ s \in doomed /\ \A t \in doomed : s <= t
  /\ doomed' = doomed \ {s}
  /\ \/ /\ dirs' = dirs \ {s} /\ pruned' = pruned \cup {s}
        /\ manifest' = [manifest EXCEPT ![s] = "none"]
        /\ verifiedAt' = [verifiedAt EXCEPT ![s] = 0]
     \/ /\ MayFail
        /\ manifest' \in {manifest, [manifest EXCEPT ![s] = "none"]}
        /\ verifiedAt' \in {verifiedAt, [verifiedAt EXCEPT ![s] = 0]}
        /\ UNCHANGED <<dirs, pruned>>
  /\ UNCHANGED <<pc, lock, logVars, hashed, dst, begun, saved, endAt,
                 ends, tears, verifies, lastVerified>>

PruneDoneAtLimit(r) ==             \* mutant: it goes on until Limit is met
  /\ doomed = {}
  /\ Step(r, "remove",
          IF Cardinality(dirs) > Limit THEN "prune" ELSE "unlock")
  /\ UNCHANGED <<lock, logVars, dirVars, doomed, dst, historyVars>>

PruneDone(r) ==
  /\ doomed = {}
  /\ Step(r, "remove", "unlock")
  /\ UNCHANGED <<lock, logVars, dirVars, doomed, dst, historyVars>>

Unlock(r) ==
  /\ Step(r, "unlock", "ended")
  /\ lock' = NoRun
  /\ UNCHANGED <<logVars, dirVars, doomed, dst, historyVars>>

-----------------------------------------------------------------------------
(* verify and status.                                                      *)

\* A verification holds the lock from its preflight to the summary.json it
\* leaves in the run's directory; what it reads is VerifyRun's subject.
Verify(r) ==
  /\ lock = NoRun /\ verifies < MaxVerifies
  /\ r \in dirs /\ manifest[r] # "none"
  /\ verifies' = verifies + 1 /\ lastVerified' = r
  /\ verifiedAt' = [verifiedAt EXCEPT ![r] = verifies + 1]
  /\ UNCHANGED <<pc, lock, logVars, dirs, manifest, hashed, doomed, dst,
                 begun, pruned, saved, endAt, ends, tears>>

\* Status: last_run is the last "finished" line, ...
LastRunById(r) ==                  \* mutant
  /\ <<r, "finished">> \in OnRecord
  /\ \A s \in Runs : <<s, "finished">> \in OnRecord => s <= r
IsLastRun(r) ==
  \E i \in Entries :
    /\ log[i].run = r /\ log[i].event = "finished"
    /\ \A j \in Entries : log[j].event = "finished" => j <= i

\* ... and last_verify the newest summary of the directories there are.
IsLastVerifyFirst(r) ==            \* mutant: the first one is kept
  /\ r \in dirs /\ verifiedAt[r] # 0
  /\ \A s \in dirs : verifiedAt[s] # 0 => r <= s
IsLastVerify(r) ==
  /\ r \in dirs /\ verifiedAt[r] # 0
  /\ \A s \in dirs : verifiedAt[s] <= verifiedAt[r]

-----------------------------------------------------------------------------
(* The environment.                                                        *)

\* The process is killed.  Its lock is stale, and the next run removes it.
Die(r) ==
  /\ "kill" \in Faults
  /\ pc[r] \in Alive
  /\ pc' = [pc EXCEPT ![r] = "ended"]
  /\ lock' = IF lock = r THEN NoRun ELSE lock
  /\ doomed' = IF lock = r THEN {} ELSE doomed
  /\ UNCHANGED <<logVars, dirVars, dst, historyVars>>

\* Power fails.  Of the lines that are not fsynced a first part survives; the
\* last of them may be cut anywhere.
PowerLoss ==
  /\ "power" \in Faults /\ tears < MaxTears
  /\ tears' = tears + 1
  /\ pc' = [r \in Runs |-> IF pc[r] \in Alive THEN "ended" ELSE pc[r]]
  /\ lock' = NoRun /\ doomed' = {}
  /\ \E n \in synced..Len(log) :
       \/ /\ log' = SubSeq(log, 1, n)
          /\ torn' = (torn /\ n = Len(log))
          /\ synced' = IF torn' THEN synced ELSE n
       \/ /\ n > synced
          /\ \E whole \in {FALSE, log[n].ok} :
               log' = Append(SubSeq(log, 1, n - 1),
                             [log[n] EXCEPT !.ok = whole])
          /\ torn' = TRUE
          /\ synced' = synced
  /\ UNCHANGED <<dirVars, dst, begun, pruned, saved, endAt, ends, verifies,
                 lastVerified>>

-----------------------------------------------------------------------------
Run(r) ==
  \/ Begin(r) \/ Refuse(r) \/ Lock(r) \/ AppendStarted(r)
  \/ CheckpointStarted(r) \/ OpenManifest(r) \/ Copy(r) \/ Hash(r) \/ Seal(r)
  \/ Abort(r) \/ AppendFinished(r) \/ CheckpointFinished(r) \/ ListRuns(r)
  \/ (\E s \in Runs : RemoveRun(r, s)) \/ PruneDone(r) \/ Unlock(r)

Next == PowerLoss \/ \E r \in Runs : Run(r) \/ Verify(r) \/ Die(r)

Spec == Init /\ [][Next]_vars

\* Nothing makes the holder of the lock wait.
HolderRuns(r) == pc[r] \in Alive \ {"made"} /\ Run(r)
FairSpec == Spec /\ \A r \in Runs : WF_vars(HolderRuns(r))

-----------------------------------------------------------------------------
(* Properties.                                                             *)

\* Every variable has its type.
TypeOK ==
  /\ pc \in [Runs -> PC] /\ lock \in Runs \cup {NoRun}
  /\ log \in Seq(Line) /\ torn \in BOOLEAN /\ synced \in 0..Len(log)
  /\ dirs \subseteq Runs /\ manifest \in [Runs -> {"none", "partial", "full"}]
  /\ hashed \in [Runs -> Runs \cup {NoRun}]
  /\ verifiedAt \in [Runs -> 0..MaxVerifies]
  /\ doomed \subseteq begun /\ dst \in Runs \cup {NoRun}
  /\ begun \subseteq Runs /\ pruned \subseteq begun
  /\ saved \subseteq Runs \X Event /\ endAt \in [Runs -> Nat]
  /\ ends \in Nat
  /\ tears \in 0..MaxTears /\ verifies \in 0..MaxVerifies
  /\ lastVerified \in Runs \cup {NoRun}

Holding == PC \ {"idle", "made", "ended"}
BeforeEnd == {"idle", "made", "held", "started", "setup", "copy", "hash",
              "seal", "append"}

\* One holder of the lock, who keeps its directory.
LockOK ==
  /\ \A r \in Runs : pc[r] \in Holding => lock = r
  /\ \A r \in Runs : r \in begun <=> pc[r] # "idle"
  /\ dirs \subseteq begun

\* The torn line is never an fsynced one, and lines are in the order in which
\* their runs finished.
Finished(i) == log[i].ok /\ log[i].event = "finished"
LogOK ==
  /\ torn => synced < Len(log)
  /\ \A r \in Runs : pc[r] \in {"started", "finished"} => ~torn
  /\ \A r \in Runs : endAt[r] <= ends
  /\ \A i \in 1..Len(log) : Finished(i) => pc[log[i].run] \notin BeforeEnd
  /\ \A i \in 1..Len(log), j \in 1..Len(log) :
       Finished(i) /\ Finished(j) /\ i <= j =>
         endAt[log[i].run] <= endAt[log[j].run]

\* What is to be removed is old enough, and not the current run's.
Older(r) == Cardinality({s \in begun : s > r}) >= Limit
PruneOK ==
  /\ \A r \in doomed \cup pruned : Older(r)
  /\ \A r \in Runs : pc[r] = "remove" => r \notin doomed

\* The content of the destination is the holder's from T1 on.
ContentOK ==
  /\ \A r \in Runs : pc[r] = "hash" => dst = r
  /\ \A r \in Runs : pc[r] = "seal" => hashed[r] = r
  /\ \A r \in Runs : manifest[r] = "full" => hashed[r] = r

VerifyOK ==
  /\ \A r \in Runs : verifiedAt[r] <= verifies
  /\ lastVerified # NoRun =>
       \/ /\ lastVerified \in dirs /\ verifies # 0
          /\ verifiedAt[lastVerified] = verifies
       \/ Older(lastVerified)

\* Records that are written, each by a run that is about to checkpoint it.
Unsaved == {x \in Runs \X Event : pc[x[1]] = x[2]}

\* Where a run has not yet checkpointed its record of this event.
NotSaved(e) ==
  IF e = "started" THEN {"idle", "made", "held", "started"}
                   ELSE BeforeEnd \cup {"finished"}

\* A record is checkpointed once and after it is written, so that a line that
\* is not fsynced has none that is; and each tear has cost one record so far,
\* or will: the one that joins the torn line.
TearsOK ==
  /\ \A r \in Runs, e \in Event : <<r, e>> \in saved => pc[r] \notin NotSaved(e)
  /\ \A i \in 1..Len(log) :
       log[i].ok /\ i > synced => <<log[i].run, log[i].event>> \notin saved
  /\ Cardinality((saved \cup Unsaved) \ OnRecord) + (IF torn THEN 1 ELSE 0)
       <= tears

\* Every part is kept by every step, given the parts before it.
HistoryInv ==
  /\ TypeOK /\ LockOK /\ LogOK /\ PruneOK /\ ContentOK /\ VerifyOK /\ TearsOK

\* What is fsynced and readable stays readable, at its place: no append, torn
\* line or power loss of a later run costs a line that was checkpointed
\* (runlog.go "invariant #10", the two-line model).
DurableLinesStay ==
  [][\A i \in 1..synced :
       log[i].ok => i <= Len(log') /\ log'[i] = log[i]]_vars

\* A checkpointed record that readers do not see was appended to a torn line,
\* and each torn line swallows one record at most.
TornLineCostsOneRecord ==
  Cardinality(saved \ OnRecord) + (IF torn THEN 1 ELSE 0) <= tears

\* The last_run of status is the run that finished last of those on record.
LastRunFinishedLast ==
  \A r \in Runs, s \in Runs :
    IsLastRun(r) /\ <<s, "finished">> \in OnRecord => endAt[s] <= endAt[r]

\* Retention removes a directory only once Limit younger ids have been given
\* out, whatever runs begin, are refused or die while it removes.
RetentionSparesYoungest == \A r \in pruned : Older(r)

\* The holder of the lock keeps its directory, even where its id sorts first.
HolderKeepsDirectory ==
  [][\A r \in Runs : pc[r] \in Holding /\ r \in dirs => r \in dirs']_vars

\* A complete manifest attests the content its own run has copied, never what
\* another run put there in between: a verification finds damage in a run only
\* once a later run has written.
ManifestsAreOwn == \A r \in Runs : manifest[r] = "full" => hashed[r] = r

\* The last_verify of status is the newest verification; retention costs it
\* only with a run that is older than Limit others.
LastVerifyIsNewest ==
  lastVerified # NoRun =>
    \/ IsLastVerify(lastVerified)
    \/ Older(lastVerified)

\* Every run gives the lock back, however many removals fail or appends do.
LockGivenBack == \A r \in Runs : lock = r ~> lock # r

=============================================================================
