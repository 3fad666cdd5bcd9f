------------------------------ MODULE Transfer ------------------------------
(***************************************************************************)
(* Phases T0+ and T1 of a run seen from the source: the walk, and the        *)
(* transfer of what it has selected.  BackupRun has the two as one step and  *)
(* a step per file, with the audit files around them; here are the steps     *)
(* below.                                                                    *)
(***************************************************************************)
EXTENDS Selection

CONSTANTS NoFile, Garbled, Plain, SummaryLike, ProgressLike, UpdateLike, PipeSize,
          Faults       \* "cancel"; "rsync", it may give up; "log", rsync.log may fail

ASSUME FilesAssumption ==
  /\ NoFile \notin Paths /\ Garbled \notin Paths
  /\ Plain \subseteq Paths
  /\ SummaryLike \cup ProgressLike \cup UpdateLike \subseteq Paths \ Plain
  /\ PipeSize \in Nat \ {0}

VARIABLES
  pc, cancelled,
  toWrite, stdin, stdout, copying, rsync, queue, out, footer, missed, exitCode,
  parser, completed, disguised

P == INSTANCE RsyncPipe WITH Files <- Paths

pipeVars == <<toWrite, stdin, stdout, copying, rsync, queue, out, footer, missed,
              exitCode, parser, completed, disguised>>
vars == <<pc, cancelled, selectionVars, pipeVars>>

Init ==
  /\ pc = "enumerate" /\ cancelled = FALSE
  /\ SelectionInit /\ P!PipeInit

Cancel ==
  /\ "cancel" \in Faults /\ ~cancelled
  /\ pc \in {"enumerate", "enumerated", "transfer"}
  /\ cancelled' = TRUE
  /\ UNCHANGED <<pc, selectionVars, pipeVars>>

Enumerate ==
  /\ pc = "enumerate"
  /\ WalkStep(cancelled)
  /\ pc' = IF walk' = "done" THEN "enumerated"
           ELSE IF walk' = "failed" THEN "aborted" ELSE pc
  /\ UNCHANGED <<cancelled, pipeVars>>

ChangeSource ==
  /\ pc = "enumerate" /\ Change
  /\ UNCHANGED <<pc, cancelled, pipeVars>>

\* rsync is never run without a list: it would copy the whole source.
Begin ==
  /\ pc = "enumerated"
  /\ \/ /\ cancelled
        /\ pc' = "aborted" /\ UNCHANGED pipeVars
     \/ /\ ~cancelled /\ Candidates = <<>>
        /\ pc' = "transferred" /\ UNCHANGED pipeVars
     \/ /\ ~cancelled /\ P!Start(Candidates)
        /\ pc' = "transfer"
  /\ UNCHANGED <<cancelled, selectionVars>>

Feed == P!Feed /\ UNCHANGED <<pc, cancelled, selectionVars>>
Drain == P!Drain /\ UNCHANGED <<pc, cancelled, selectionVars>>

\* No part of Drain: no fairness makes rsync.log fail.
DrainFails ==
  /\ "log" \in Faults /\ P!DrainFails
  /\ UNCHANGED <<pc, cancelled, selectionVars>>
RsyncStep == P!RsyncStep /\ UNCHANGED <<pc, cancelled, selectionVars>>

RsyncStops ==
  /\ \/ cancelled /\ P!RsyncStops("killed", -1)
     \/ ("rsync" \in Faults \/ ~copying) /\ P!RsyncStops("exited", 12)
  /\ UNCHANGED <<pc, cancelled, selectionVars>>

\* Any exit code but 0 aborts the phase, and with it the run; so does a kill
\* that comes when rsync has ended and is not yet waited for.
Return ==
  /\ pc = "transfer" /\ P!Return
  /\ \/ exitCode' = 0 /\ pc' = "transferred"
     \/ (exitCode' # 0 \/ cancelled) /\ pc' = "aborted"
  /\ UNCHANGED <<cancelled, selectionVars>>

Next ==
  \/ Cancel \/ Enumerate \/ ChangeSource \/ Begin
  \/ Feed \/ Drain \/ DrainFails \/ RsyncStep \/ RsyncStops \/ Return

Spec == Init /\ [][Next]_vars

Fairness ==
  /\ WF_vars(Enumerate) /\ WF_vars(Begin)
  /\ WF_vars(Feed) /\ WF_vars(Drain) /\ WF_vars(RsyncStep) /\ WF_vars(Return)

FairSpec == Spec /\ Fairness
------------------------------------------------------------------------------
\* The types, what the collector keeps between two entries, and what the walk
\* has still to do.
TransferInv ==
  /\ pc \in {"enumerate", "enumerated", "transfer", "transferred", "aborted"}
  /\ cancelled \in BOOLEAN
  /\ SelectionInv
  /\ P!PipeInv

\* progress.go: see RsyncPipe.
ProgressIsExact == P!ProgressIsExact

\* wrapper.go:106-109: however small the pipes are against the list and the
\* output, and wherever rsync stops or is killed or its output is closed, list,
\* rsync and reader never wait for each other for ever: the phase ends, and so
\* does the walk.
TransferReturns == <>(pc \in {"transferred", "aborted"})
=============================================================================
