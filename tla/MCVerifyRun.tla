---------------------------- MODULE MCVerifyRun ------------------------------
(***************************************************************************)
(* VerifyRun for TLC.  "a" and "b" have the same size, so that only their  *)
(* digests tell them apart; "long" has another.                            *)
(***************************************************************************)
EXTENDS VerifyRun, TLC

CONSTANTS f1, f2

TwoFiles == {f1, f2}
FileSymmetry == Permutations(TwoFiles)
TwoRuns == {1, 2}
SomeContents == {"a", "b", "long"}
Sizes == [c \in SomeContents |-> IF c = "long" THEN 2 ELSE 1]

\* Two runs that recorded "a" in every sound line: what differs from it on
\* the volume is damage or the work of a later run.
OneContent ==
  \A r \in Runs : \A f \in Files : lines[r][f] \notin {"b", "long"}
MCInit == Init /\ OneContent
MCSpec == MCInit /\ [][Next]_vars
=============================================================================
