---------------------------- MODULE ProfileStore ----------------------------
(***************************************************************************)
(* profiles.json and the invocations of `flashbackup profiles` that change   *)
(* it: new, edit and delete.  Each loads the whole document and saves it     *)
(* with its own profile changed; new and edit have looked the profile up     *)
(* before they start the operator's editor.  No lock is taken, so            *)
(* invocations interleave, and any of them may be killed or lose power.      *)
(*                                                                           *)
(* The text of a profile is the invocation that wrote it.  Validation is the *)
(* editor's: what it returns is saved or refused.                            *)
(***************************************************************************)
EXTENDS Integers, FiniteSets

CONSTANTS
  Invocations, Names,
  Initial,      \* the text of a profile that was there from the start
  Absent,       \* no profile of that name
  Inodes, NoInode, Empty, Torn,
  Faults        \* what the environment may do

Text == Invocations \cup {Initial, Absent}
Document == [Names -> Text]

ASSUME FaultsAssumption == Faults \subseteq {"io", "kill", "power"}
ASSUME ContentsAssumption ==
  /\ Inodes # {} /\ NoInode \notin Inodes \cup {Empty, Torn}
  /\ {Empty, Torn, NoInode} \cap Document = {}

VARIABLES
  pc, action, name,                \* per invocation: what it was asked to do
  doc,                             \* the document it has loaded, then saves
  exitCode,
  file, tmp, content, fd, fsynced, onDisk,
  \* history
  saved,                           \* the profiles as the renames left them
  undoable,                        \* ... what a power loss may take them to
  raced                            \* two saves have overlapped

W == INSTANCE AtomicWrite WITH Writers <- Invocations

fileVars == <<file, tmp, content, fd, fsynced, onDisk>>
askVars == <<action, name>>
historyVars == <<saved, undoable, raced>>
vars == <<pc, askVars, doc, exitCode, fileVars, historyVars>>

Action == {"new", "edit", "delete"}
Saving == {"create", "write", "close", "rename"}
AtWork == {"check", "editor", "load", "syncdir"} \cup Saving
PC == {"idle", "ended"} \cup AtWork

NoProfiles == [n \in Names |-> Absent]

\* load: no file is no profiles, and what does not parse is an error.
Readable == W!Contents \notin {Empty, Torn}
Loaded == IF W!Contents = NoInode THEN NoProfiles ELSE W!Contents

Init ==
  /\ pc = [p \in Invocations |-> "idle"]
  /\ action = [p \in Invocations |-> "new"]
  /\ name \in [Invocations -> Names]
  /\ doc = [p \in Invocations |-> NoProfiles]
  /\ exitCode = [p \in Invocations |-> -1]
  /\ W!Fresh([Names -> {Initial, Absent}])
  /\ saved = Loaded /\ undoable = {Loaded} /\ raced = FALSE

Step(p, from, to) == pc[p] = from /\ pc' = [pc EXCEPT ![p] = to]
MayFail == "io" \in Faults

Exit(p, code) ==
  /\ pc' = [pc EXCEPT ![p] = "ended"]
  /\ exitCode' = [exitCode EXCEPT ![p] = code]

\* An error of the store: delete takes every one for "not found".
Fail(p) == Exit(p, IF action[p] = "delete" THEN 2 ELSE 1)

-----------------------------------------------------------------------------
(* cmd/flashbackup/profiles.go                                             *)

Start(p, a) ==
  /\ Step(p, "idle", IF a = "delete" THEN "load" ELSE "check")
  /\ action' = [action EXCEPT ![p] = a]
  /\ UNCHANGED <<name, doc, exitCode, fileVars, historyVars>>

\* new refuses a profile it has found, edit one it has not.  A document that
\* cannot be read has no profiles, for new as well.
Check(p) ==
  /\ pc[p] = "check"
  /\ \E seen \in (IF Readable THEN {Loaded} ELSE {NoProfiles})
                 \cup (IF MayFail THEN {NoProfiles} ELSE {}) :
       IF (seen[name[p]] # Absent) <=> action[p] = "edit"
       THEN Step(p, "check", "editor") /\ UNCHANGED exitCode
       ELSE Exit(p, 2)
  /\ UNCHANGED <<askVars, doc, fileVars, historyVars>>

\* The editor returns a profile that is valid and has kept its name.
Edit(p) ==
  /\ Step(p, "editor", "load")
  /\ UNCHANGED <<askVars, doc, exitCode, fileVars, historyVars>>

\* The editor fails, or what it returns does not parse, has another name, or
\* does not validate.
RefusalCode == [editor |-> 1, syntax |-> 2, renamed |-> 2, invalid |-> 2]

EditRefused(p) ==
  /\ pc[p] = "editor"
  /\ \E why \in DOMAIN RefusalCode : Exit(p, RefusalCode[why])
  /\ UNCHANGED <<askVars, doc, fileVars, historyVars>>

-----------------------------------------------------------------------------
(* profiles.Store: Upsert and Delete.                                      *)

NewText(p) == IF action[p] = "delete" THEN Absent ELSE p

ChangedAlone(p, d) ==              \* mutant: the other profiles are dropped
  [NoProfiles EXCEPT ![name[p]] = NewText(p)]

Changed(p, d) == [d EXCEPT ![name[p]] = NewText(p)]

\* Load the document and change it in memory; a profile that is not there
\* cannot be deleted.
Load(p) ==
  /\ pc[p] = "load"
  /\ \/ /\ Readable /\ (action[p] = "delete" => Loaded[name[p]] # Absent)
        /\ pc' = [pc EXCEPT ![p] = "create"]
        /\ doc' = [doc EXCEPT ![p] = Changed(p, Loaded)]
        /\ raced' = (raced \/ \E q \in Invocations : pc[q] \in Saving)
        /\ UNCHANGED exitCode
     \/ /\ MayFail \/ (Readable => /\ action[p] = "delete"
                                   /\ Loaded[name[p]] = Absent)
        /\ Fail(p)
        /\ UNCHANGED <<doc, raced>>
  /\ UNCHANGED <<askVars, fileVars, saved, undoable>>

CreateTmp(p) ==
  /\ \/ Step(p, "create", "write") /\ W!Create(p) /\ UNCHANGED exitCode
     \/ MayFail /\ pc[p] = "create" /\ Fail(p) /\ UNCHANGED fileVars
  /\ UNCHANGED <<askVars, doc, historyVars>>

WriteTmp(p) ==
  /\ \/ Step(p, "write", "close") /\ W!Write(p, doc[p]) /\ UNCHANGED exitCode
     \/ MayFail /\ pc[p] = "write" /\ W!WriteFails(p) /\ Fail(p)
  /\ UNCHANGED <<askVars, doc, historyVars>>

CloseTmp(p) ==
  /\ \/ Step(p, "close", "rename") /\ W!Close(p) /\ UNCHANGED exitCode
     \/ MayFail /\ pc[p] = "close" /\ W!Quit(p) /\ Fail(p)
  /\ UNCHANGED <<askVars, doc, historyVars>>

\* The rename is where the profiles change for everyone else.
RenameTmp(p) ==
  /\ \/ /\ Step(p, "rename", "syncdir")
        /\ W!Rename
        /\ saved' = [saved EXCEPT ![name[p]] = NewText(p)]
        /\ undoable' = undoable \cup {saved'}
        /\ UNCHANGED exitCode
     \/ /\ tmp = NoInode \/ MayFail
        /\ pc[p] = "rename"
        /\ Fail(p)
        /\ UNCHANGED <<fileVars, saved, undoable>>
  /\ UNCHANGED <<askVars, doc, raced>>

SyncDirForgotten(p) ==             \* mutant: the directory is not fsynced
  /\ pc[p] = "syncdir"
  /\ Exit(p, 0)
  /\ undoable' = {saved}
  /\ UNCHANGED <<askVars, doc, fileVars, saved, raced>>

\* Exit code 0 comes after the directory's fsync; if that fails the error says
\* so, and the change stays.
SyncDir(p) ==
  /\ pc[p] = "syncdir"
  /\ \/ W!SyncDir /\ Exit(p, 0) /\ undoable' = {saved}
     \/ MayFail /\ Fail(p) /\ UNCHANGED <<fileVars, undoable>>
  /\ UNCHANGED <<askVars, doc, saved, raced>>

-----------------------------------------------------------------------------
(* The environment.                                                        *)

Kill(p) ==
  /\ "kill" \in Faults
  /\ pc[p] \in AtWork
  /\ Exit(p, 130)
  /\ W!Quit(p)
  /\ UNCHANGED <<askVars, doc, historyVars>>

\* Everything at work ends.  A change that was not acknowledged may be undone.
PowerLoss ==
  /\ "power" \in Faults
  /\ \E p \in Invocations : pc[p] \in AtWork
  /\ pc' = [p \in Invocations |-> IF pc[p] = "idle" THEN "idle" ELSE "ended"]
  /\ exitCode' = [p \in Invocations |->
                    IF pc[p] \in AtWork THEN 130 ELSE exitCode[p]]
  /\ W!Reboot
  /\ saved' = IF Loaded' \in undoable THEN Loaded' ELSE saved
  /\ undoable' = {saved'}
  /\ UNCHANGED <<askVars, doc, raced>>

-----------------------------------------------------------------------------
Profiles(p) ==
  \/ \E a \in Action : Start(p, a)
  \/ Check(p) \/ Edit(p) \/ EditRefused(p) \/ Load(p) \/ CreateTmp(p)
  \/ WriteTmp(p) \/ CloseTmp(p) \/ RenameTmp(p) \/ SyncDir(p)

Next == PowerLoss \/ \E p \in Invocations : Profiles(p) \/ Kill(p)

Spec == Init /\ [][Next]_vars

-----------------------------------------------------------------------------
(* Properties.                                                             *)

TypeOK ==
  /\ pc \in [Invocations -> PC] /\ action \in [Invocations -> Action]
  /\ name \in [Invocations -> Names] /\ doc \in [Invocations -> Document]
  /\ exitCode \in [Invocations -> {-1, 0, 1, 2, 130}]
  /\ file \in Inodes \cup {NoInode} /\ tmp \in Inodes \cup {NoInode}
  /\ content \in [Inodes -> Document \cup {Empty, Torn}]
  /\ fd \in [Invocations -> Inodes \cup {NoInode}]
  /\ fsynced \subseteq Inodes /\ onDisk \subseteq Inodes \cup {NoInode}
  /\ saved \in Document /\ undoable \subseteq Document
  /\ raced \in BOOLEAN

Profile(i) == IF i = NoInode THEN NoProfiles ELSE content[i]

\* While no two saves overlap, path.tmp is its writer's and path is no one's.
SavesAreApart ==
  /\ tmp \notin onDisk \ {NoInode} /\ file \in onDisk
  /\ \A p, q \in Invocations :
       pc[p] \in Saving /\ pc[q] \in Saving => p = q
  /\ \A p \in Invocations :
       /\ pc[p] \in {"write", "close"} => fd[p] = tmp /\ tmp # NoInode
       /\ pc[p] \notin {"write", "close"} => fd[p] = NoInode
       /\ pc[p] = "write" => content[tmp] = Empty
       /\ pc[p] = "close" => content[tmp] = doc[p]
       /\ pc[p] = "rename" =>
            tmp # NoInode /\ content[tmp] = doc[p] /\ tmp \in fsynced
       /\ pc[p] \in Saving => doc[p] = [saved EXCEPT ![name[p]] = NewText(p)]

\* Every file that a power loss may leave at path is on the medium, and one of
\* those the renames have gone through.
DiskIsWhole ==
  /\ onDisk \subseteq fsynced \cup {NoInode}
  /\ \A i \in onDisk : Profile(i) \in undoable
  /\ Profile(file) = saved

\* The profile of p, in document d, is as p or a later invocation made it.
Made(p) == pc[p] \in {"syncdir", "ended"}
MadeIn(d, p) ==
  \E q \in Invocations :
    name[q] = name[p] /\ Made(q) /\ d[name[p]] = NewText(q)

\* Whatever a power loss may leave has the changes that were acknowledged.
AcksAreSafe ==
  \A p \in Invocations :
    /\ pc[p] = "syncdir" => MadeIn(saved, p)
    /\ exitCode[p] = 0 => \A d \in undoable : MadeIn(d, p)

\* A writer has a file open, if not always the one that has the name.
WritersAreOpen ==
  \A p \in Invocations : pc[p] \in {"write", "close"} => fd[p] # NoInode

\* Every variable has its type; and until two saves overlap, the temporary file
\* is its writer's alone, and whatever a power loss may leave at the path is a
\* whole document that some rename put there, with all that was acknowledged.
StoreInv ==
  /\ TypeOK /\ WritersAreOpen
  /\ raced \/ (SavesAreApart /\ DiskIsWhole /\ AcksAreSafe)

\* atomic.go:9-12, "a crash at any point leaves either the old file or the new
\* file intact, never a partial write", for as long as no two saves overlap:
\* any reader at any time finds a whole document or none.
DocumentWhole == raced \/ Readable

\* The document holds what the saves so far have made of it, one after the
\* other, and after a power loss at least what was acknowledged: no change is
\* lost, and none comes back, unless two saves overlap.
NoLostUpdate == raced \/ Loaded = saved

\* Exit code 0 means that the change is made for good: the profile is as the
\* invocation left it, or as another one has made it that was asked to change
\* the same profile.  No power loss takes it back, and nothing that becomes of
\* invocations on other profiles.
AcknowledgedStays ==
  raced \/ \A p \in Invocations :
    exitCode[p] = 0 => Readable /\ MadeIn(Loaded, p)
=============================================================================
