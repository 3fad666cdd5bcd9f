---------------------------- MODULE RsyncExtract ----------------------------
(***************************************************************************)
(* rsync.EnsureExtracted: the file system steps by which the embedded binary *)
(* gets to <dot dir>/bin/<sha256>/rsync.  init and the preflight of every    *)
(* run call it, init without the lock, and all use one temporary name.  The  *)
(* binary in place is made immutable, which refuses any later rename over    *)
(* it.                                                                       *)
(*                                                                           *)
(* A file is whole, or it is not: then its hash is not the embedded one.     *)
(***************************************************************************)
EXTENDS Integers, FiniteSets

CONSTANTS Writers, Inodes, NoInode

VARIABLES
  bin, binTmp,        \* the inodes of rsync and rsync.tmp
  whole,              \* the inodes that hold the embedded binary
  binFd,              \* the inode each writer has open
  immutable,          \* inodes with the uchg flag
  binOnDisk           \* what bin may be after a power loss

binVars == <<bin, binTmp, whole, binFd, immutable, binOnDisk>>

Free ==
  Inodes \ ({bin, binTmp} \cup binOnDisk \cup {binFd[w] : w \in Writers})

\* Nothing, the binary, or a file that is not the binary.
Fresh ==
  /\ LET i == CHOOSE j \in Inodes : TRUE IN
       \/ bin = NoInode /\ whole = {}
       \/ bin = i /\ whole \in {{}, {i}}
  /\ binTmp = NoInode /\ binFd = [w \in Writers |-> NoInode]
  /\ immutable = {} /\ binOnDisk = {bin}

Good(i) == i \in whole
InPlaceByName == bin # NoInode     \* mutant: the hash is not compared

\* The fast path: a file with the embedded binary's hash is left as it is.
InPlace == Good(bin)

\* What is left of an earlier attempt goes, and whatever another writer has,
\* unless the removal fails.
RemoveTmp(mayFail) ==
  /\ binTmp' \in (IF mayFail THEN {binTmp, NoInode} ELSE {NoInode})
  /\ UNCHANGED <<bin, whole, binFd, immutable, binOnDisk>>

\* Mode 0500: the file of another writer cannot be opened for writing.
Create(w) ==
  /\ binTmp = NoInode
  /\ \E i \in Free :
       /\ i = CHOOSE j \in Free : TRUE
       /\ binTmp' = i
       /\ whole' = whole \ {i} /\ immutable' = immutable \ {i}
       /\ binFd' = [binFd EXCEPT ![w] = i]
  /\ UNCHANGED <<bin, binOnDisk>>

\* Write, fsync and close.
Write(w) ==
  /\ whole' = whole \cup {binFd[w]}
  /\ binFd' = [binFd EXCEPT ![w] = NoInode]
  /\ UNCHANGED <<bin, binTmp, immutable, binOnDisk>>

\* A step fails: the file is closed and the temporary name removed, if it can.
GiveUp(w) ==
  /\ binFd' = [binFd EXCEPT ![w] = NoInode]
  /\ binTmp' \in {binTmp, NoInode}
  /\ UNCHANGED <<bin, whole, immutable, binOnDisk>>

\* What the temporary name stands for by now is hashed once more.
TmpVerified == Good(binTmp)

CanRename == binTmp # NoInode /\ bin \notin immutable

Rename ==
  /\ CanRename
  /\ bin' = binTmp /\ binTmp' = NoInode
  /\ binOnDisk' = binOnDisk \cup {binTmp}
  /\ UNCHANGED <<whole, binFd, immutable>>

\* Best effort, on whatever the path names by now.
SetImmutable ==
  /\ immutable' \in {immutable, immutable \cup {bin}}
  /\ UNCHANGED <<bin, binTmp, whole, binFd, binOnDisk>>

Quit(w) ==
  /\ binFd' = [binFd EXCEPT ![w] = NoInode]
  /\ UNCHANGED <<bin, binTmp, whole, immutable, binOnDisk>>

\* The directory is never fsynced: any rename may be undone.
Reboot ==
  /\ bin' \in binOnDisk /\ binOnDisk' = {bin'}
  /\ binTmp' \in {binTmp, NoInode} /\ (binTmp' = NoInode \/ binTmp' # bin')
  /\ binFd' = [w \in Writers |-> NoInode]
  /\ UNCHANGED <<whole, immutable>>
=============================================================================
