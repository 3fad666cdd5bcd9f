--------------------------- MODULE MCProfileStore ---------------------------
(* Bounds for TLC: which invocations and names there are is all the          *)
(* symmetry.  The view leaves out what no later step and no property reads.  *)
EXTENDS ProfileStore, TLC

Symmetry == Permutations(Invocations) \cup Permutations(Names)

Live == {file, tmp} \cup onDisk \cup {fd[p] : p \in Invocations}

View ==
  <<pc, file, tmp, fd, fsynced \cap Live, onDisk, saved, undoable, raced,
    [p \in Invocations |-> exitCode[p] = 0],
    [p \in Invocations |-> IF action[p] = "edit" /\ pc[p] # "check"
                           THEN "new" ELSE action[p]],
    name,
    [p \in Invocations |-> IF pc[p] \in Saving THEN doc[p] ELSE NoProfiles],
    [i \in Inodes |-> IF i \in Live THEN content[i] ELSE Empty]>>
=============================================================================
