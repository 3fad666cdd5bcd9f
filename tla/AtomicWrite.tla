----------------------------- MODULE AtomicWrite -----------------------------
(***************************************************************************)
(* state.WriteTmpThenRename and its twin profiles.writeAtomic: create        *)
(* path.tmp, write, fsync, close, rename over the path, fsync the directory. *)
(* No lock is taken and the name of the temporary file is fixed, so two      *)
(* writers share it, and the file behind it: open truncates what the other   *)
(* is writing, and rename takes whatever the name stands for by then.        *)
(*                                                                           *)
(* Names are links to inodes; a writer holds its inode open across a rename. *)
(***************************************************************************)
EXTENDS Integers, FiniteSets

CONSTANTS
  Writers,      \* processes
  Inodes,       \* a few more than there are names and writers
  NoInode,      \* no such file; a closed file
  Empty, Torn   \* contents that are not a document

VARIABLES
  file, tmp,                       \* the inodes of path and path.tmp
  content,                         \* per inode: a document, Empty or Torn
  fd,                              \* the inode each writer has open
  fsynced,                         \* inodes whose content is on the medium
  onDisk                           \* what path may be after a power loss

fileVars == <<file, tmp, content, fd, fsynced, onDisk>>

Free == Inodes \ ({file, tmp} \cup onDisk \cup {fd[w] : w \in Writers})

\* Any will do.
NewInode == {i \in Free : i = CHOOSE j \in Free : TRUE}

\* What a reader gets: NoInode if there is no file.
Contents == IF file = NoInode THEN NoInode ELSE content[file]

Fresh(initial) ==
  LET i == CHOOSE j \in Inodes : TRUE IN
    /\ tmp = NoInode /\ fd = [w \in Writers |-> NoInode]
    /\ fsynced = Inodes
    /\ \/ file = NoInode /\ content = [j \in Inodes |-> Empty]
       \/ /\ file = i
          /\ \E d \in initial : content = [j \in Inodes |->
                                             IF j = i THEN d ELSE Empty]
    /\ onDisk = {file}

-----------------------------------------------------------------------------
\* O_CREATE|O_TRUNC: the file that has the name, or a new one.
Create(w) ==
  \E i \in (IF tmp = NoInode THEN NewInode ELSE {tmp}) :
    /\ tmp' = i
    /\ content' = [content EXCEPT ![i] = Empty]
    /\ fd' = [fd EXCEPT ![w] = i]
    /\ fsynced' = fsynced \ {i}
    /\ UNCHANGED <<file, onDisk>>

\* One write from offset 0.  If another writer has written since the file was
\* truncated, the longer document's end stays behind the shorter one.
Write(w, d) ==
  /\ \E c \in (IF content[fd[w]] = Empty THEN {d} ELSE {d, Torn}) :
       content' = [content EXCEPT ![fd[w]] = c]
  /\ fsynced' = fsynced \ {fd[w]}
  /\ UNCHANGED <<file, tmp, fd, onDisk>>

\* A write that fails leaves any part of the document, and the file.
WriteFails(w) ==
  /\ \E c \in {content[fd[w]], Torn} :
       content' = [content EXCEPT ![fd[w]] = c]
  /\ fsynced' = fsynced \ {fd[w]}
  /\ fd' = [fd EXCEPT ![w] = NoInode]
  /\ UNCHANGED <<file, tmp, onDisk>>

CloseUnsynced(w) ==                \* mutant: without the fsync
  /\ fd' = [fd EXCEPT ![w] = NoInode]
  /\ UNCHANGED <<file, tmp, content, fsynced, onDisk>>

\* fsync, close.
Close(w) ==
  /\ fsynced' = fsynced \cup {fd[w]}
  /\ fd' = [fd EXCEPT ![w] = NoInode]
  /\ UNCHANGED <<file, tmp, content, onDisk>>

\* Whatever has the name path.tmp becomes path; if another writer has renamed
\* it, there is nothing to rename.
Rename ==
  /\ tmp # NoInode
  /\ file' = tmp /\ tmp' = NoInode
  /\ onDisk' = onDisk \cup {tmp}
  /\ UNCHANGED <<content, fd, fsynced>>

\* The directory's fsync.
SyncDir ==
  /\ onDisk' = {file}
  /\ UNCHANGED <<file, tmp, content, fd, fsynced>>

\* A process ends: its files are closed, what it wrote stays.
Quit(w) ==
  /\ fd' = [fd EXCEPT ![w] = NoInode]
  /\ UNCHANGED <<file, tmp, content, fsynced, onDisk>>

\* Power fails: a rename that was not fsynced may be undone, and content that
\* was not fsynced may be cut short.
Reboot ==
  /\ file' \in onDisk
  /\ tmp' \in {tmp, NoInode} /\ (tmp' = NoInode \/ tmp' # file')
  /\ \E cut \in SUBSET ({file', tmp'} \ (fsynced \cup {NoInode})) :
       content' = [i \in Inodes |-> IF i \in cut THEN Torn ELSE content[i]]
  /\ fd' = [w \in Writers |-> NoInode]
  /\ fsynced' = Inodes
  /\ onDisk' = {file'}
=============================================================================
