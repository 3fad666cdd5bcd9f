----------------------------- MODULE MCDestLock -----------------------------
(***************************************************************************)
(* DestLock on small instances: three invocations on both sides of the     *)
(* five-second tolerance, with every leftover and every fault.             *)
(***************************************************************************)
EXTENDS DestLock, TLC

\* No definition tells one invocation from another.
ProcSymmetry == Permutations(Procs)

LagsBoundary == {5, 6}
LagsPrompt == {5}
LagsLate == {6}
=============================================================================
