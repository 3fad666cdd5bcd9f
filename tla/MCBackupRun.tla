---------------------------- MODULE MCBackupRun -----------------------------
(***************************************************************************)
(* BackupRun on small instances.  The faults are split over the runs, so   *)
(* that each run asks one question of a state space that TLC can finish.   *)
(***************************************************************************)
EXTENDS BackupRun, TLC

\* Others touch the files while the run works on them.
FaultsInterference == {"edit", "stealth", "rot", "cancel"}

\* The volume fails, the operator insists, the power goes.
FaultsCrash == {"io", "cancel", "kill", "power"}

\* One fault at a time, for the runs that end in a counterexample.
NoFaults == {}
FaultsCancel == {"cancel"}
FaultsPower == {"power"}

\* No definition tells one file from another.
FileSymmetry == Permutations(Files)
=============================================================================
