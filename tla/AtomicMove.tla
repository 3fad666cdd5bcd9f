----------------------------- MODULE AtomicMove -----------------------------
(***************************************************************************)
(* What a move-mode backup promises about the operator's source files:     *)
(* copy, then validate every file, then delete.  A run first chooses its   *)
(* candidates, then validates them one at a time, may at some point commit *)
(* to deleting, which it may do only when every candidate is validated,    *)
(* and from then on unlinks candidates one at a time.  It may stop at any  *)
(* point: nothing here says that a run makes progress.                     *)
(*                                                                         *)
(* BackupRun implements it: THEOREM MoveImplemented of BackupRunProofs.    *)
(***************************************************************************)
CONSTANT Files            \* everything the source tree may hold

VARIABLES
  chosen,                 \* the candidates of the run
  validated,              \* candidates whose copy was compared and is equal
  committed,              \* the run has committed to deleting its sources
  unlinked                \* source files the run has unlinked

vars == <<chosen, validated, committed, unlinked>>

Init ==
  /\ chosen = {}
  /\ validated = {}
  /\ committed = FALSE
  /\ unlinked = {}

\* Enumerate the source tree, before anything is validated.
Choose ==
  /\ validated = {} /\ ~committed
  /\ chosen' \in SUBSET Files
  /\ UNCHANGED <<validated, committed, unlinked>>

\* One candidate's copy compares equal to its source.
Validate(f) ==
  /\ f \in chosen \ validated
  /\ ~committed
  /\ validated' = validated \cup {f}
  /\ UNCHANGED <<chosen, committed, unlinked>>

\* The atomic gate: all or nothing.
Commit ==
  /\ ~committed
  /\ validated = chosen
  /\ committed' = TRUE
  /\ UNCHANGED <<chosen, validated, unlinked>>

Unlink(f) ==
  /\ committed
  /\ f \in chosen \ unlinked
  /\ unlinked' = unlinked \cup {f}
  /\ UNCHANGED <<chosen, validated, committed>>

Next ==
  \/ Choose
  \/ Commit
  \/ \E f \in Files : Validate(f) \/ Unlink(f)

Spec == Init /\ [][Next]_vars
=============================================================================
