---------------------------- MODULE MCVolumeInit ----------------------------
(* Bounds for TLC: which processes there are is all the symmetry.  The view  *)
(* leaves out what no later step and no property reads.  There are one or   *)
(* two runs, and at most one reset.                                         *)
EXTENDS VolumeInit, TLC

Symmetry == Permutations(Processes)

Live == {file, tmp} \cup onDisk \cup {fd[p] : p \in Processes}
LiveBin == {bin, binTmp} \cup binOnDisk \cup {binFd[p] : p \in Processes}

\* Of an era only whether it is the present one, and once two saves have
\* overlapped nothing of the keys.
ThisEra ==
  IF raced THEN <<>>
  ELSE <<{m.key : m \in {n \in sealed : n.era = era}},
         [p \in Processes |-> IF Running(p) /\ eraRead[p] = era
                              THEN key[p] ELSE NoInode]>>

View ==
  <<pc, [p \in Processes |-> IF pc[p] = "ended" THEN "run" ELSE role[p]],
    marker, file, tmp, fd, fsynced \cap Live, onDisk,
    [i \in Inodes |-> IF i \in Live THEN content[i] ELSE Empty],
    bin, binTmp, whole \cap LiveBin, binFd, immutable \cap LiveBin, binOnDisk,
    ThisEra, acked, raced, binRaced>>

\* Once both kinds of save have overlapped the properties promise no more.
AtStake == ~(raced /\ binRaced)

Are(k) == Cardinality({p \in Processes : role[p] = k})
MCInit == Init /\ Are("run") \in 1..2 /\ Are("reset") <= 1

MCSpec == MCInit /\ [][Next]_vars
=============================================================================
