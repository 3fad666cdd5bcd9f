-------------------------- MODULE ProfileStoreProofs --------------------------
(***************************************************************************)
(* What is proved of ProfileStore for any number of invocations, names and *)
(* inodes, and every choice of faults.                                     *)
(*                                                                         *)
(* As long as no two saves overlap, one invocation at a time owns path.tmp *)
(* (SavesAreApart), so that what it renames is the document it wrote; what *)
(* a power loss may put back at the path is one of the documents the       *)
(* renames have gone through (DiskIsWhole); and each of those has every    *)
(* change that was acknowledged (AcksAreSafe).                             *)
(***************************************************************************)
EXTENDS ProfileStore, TLAPS

-----------------------------------------------------------------------------
(* Types.                                                                  *)

\* A document with one profile changed is a document.
LEMMA ChangedIsDocument ==
  ASSUME TypeOK, NEW p \in Invocations, NEW d \in Document
  PROVE  [d EXCEPT ![name[p]] = NewText(p)] \in Document
BY DEF TypeOK, Document, Text, NewText

\* What parses is a document, and so is what no file stands for.
LEMMA LoadedIsDocument ==
  ASSUME TypeOK
  PROVE  /\ Readable => Loaded \in Document
         /\ NoProfiles \in Document
<1>1. NoProfiles \in Document BY DEF NoProfiles, Document, Text
<1>2. ASSUME Readable PROVE Loaded \in Document
  <2>1. CASE file = NoInode BY <1>1, <2>1 DEF Loaded, W!Contents
  <2>2. CASE file # NoInode
    BY <1>2, <2>2, ContentsAssumption
    DEF Loaded, W!Contents, Readable, TypeOK
  <2> QED BY <2>1, <2>2
<1> QED BY <1>1, <1>2

\* A document store starts with every variable in its type, nobody saving, and
\* a document or nothing at the path.
LEMMA InitStore == ASSUME Init PROVE StoreInv
<1> USE DEF Init, W!Fresh
<1>1. (CHOOSE j \in Inodes : TRUE) \in Inodes BY ContentsAssumption
<1>2. NoProfiles \in Document BY DEF NoProfiles, Document, Text
<1>3. [Names -> {Initial, Absent}] \subseteq Document BY DEF Document, Text
<1>4. /\ file \in Inodes \cup {NoInode} /\ tmp = NoInode
      /\ content \in [Inodes -> Document \cup {Empty, Torn}]
      /\ onDisk = {file} /\ fsynced = Inodes
      /\ file # NoInode => content[file] \in Document
  <2>1. CASE file = NoInode BY <1>1, <2>1, ContentsAssumption
  <2>2. CASE file # NoInode BY <1>1, <1>3, <2>2
  <2> QED BY <2>1, <2>2
<1>5. Loaded = Profile(file) /\ Loaded \in Document
  BY <1>2, <1>4, ContentsAssumption DEF Loaded, Profile, W!Contents
<1>6. TypeOK
  BY <1>2, <1>4, <1>5 DEF TypeOK, PC, Action
<1>7. WritersAreOpen BY DEF WritersAreOpen
<1>8. SavesAreApart BY <1>4, ContentsAssumption DEF SavesAreApart, Saving
<1>9. DiskIsWhole BY <1>4, <1>5 DEF DiskIsWhole
<1>10. AcksAreSafe BY DEF AcksAreSafe
<1> QED BY <1>6, <1>7, <1>8, <1>9, <1>10 DEF StoreInv

\* No step takes a variable out of its type, and who writes has a file open.
LEMMA TypeStep ==
  ASSUME TypeOK, WritersAreOpen, [Next]_vars
  PROVE  TypeOK' /\ WritersAreOpen'
<1> USE DEF TypeOK, WritersAreOpen, PC, AtWork, Saving, Step, Exit, Fail,
  fileVars, askVars, historyVars
<1>1. ASSUME NEW p \in Invocations, NEW a \in Action, Start(p, a)
      PROVE  TypeOK' /\ WritersAreOpen'
  BY <1>1 DEF Start, Action
<1>2. ASSUME NEW p \in Invocations, Check(p)
      PROVE  TypeOK' /\ WritersAreOpen'
  BY <1>2 DEF Check
<1>3. ASSUME NEW p \in Invocations, Edit(p)
      PROVE  TypeOK' /\ WritersAreOpen'
  BY <1>3 DEF Edit
<1>4. ASSUME NEW p \in Invocations, EditRefused(p)
      PROVE  TypeOK' /\ WritersAreOpen'
  BY <1>4 DEF EditRefused, RefusalCode
<1>5. ASSUME NEW p \in Invocations, Load(p)
      PROVE  TypeOK' /\ WritersAreOpen'
  <2>a. raced' \in BOOLEAN BY <1>5, Zenon DEF Load
  <2>b. WritersAreOpen' BY <1>5 DEF Load
  <2>1. CASE doc' = doc BY <1>5, <2>1, <2>a, <2>b DEF Load
  <2>2. CASE Readable /\ doc' = [doc EXCEPT ![p] = Changed(p, Loaded)]
    <3>1. Changed(p, Loaded) \in Document
      BY <2>2, LoadedIsDocument, ChangedIsDocument DEF Changed
    <3> QED BY <1>5, <2>2, <2>a, <2>b, <3>1 DEF Load
  <2> QED BY <1>5, <2>1, <2>2 DEF Load
<1>6. ASSUME NEW p \in Invocations, CreateTmp(p)
      PROVE  TypeOK' /\ WritersAreOpen'
  <2>1. CASE Fail(p) /\ UNCHANGED fileVars BY <1>6, <2>1 DEF CreateTmp
  <2>2. CASE /\ W!Create(p) /\ Step(p, "create", "write")
             /\ exitCode' = exitCode
    <3>1. PICK i \in Inodes :
            /\ tmp' = i /\ content' = [content EXCEPT ![i] = Empty]
            /\ fd' = [fd EXCEPT ![p] = i] /\ fsynced' = fsynced \ {i}
            /\ UNCHANGED <<file, onDisk>>
      BY <2>2 DEF W!Create, W!NewInode, W!Free
    <3> QED BY <1>6, <2>2, <3>1, ContentsAssumption DEF CreateTmp
  <2> QED BY <1>6, <2>1, <2>2 DEF CreateTmp
<1>7. ASSUME NEW p \in Invocations, WriteTmp(p)
      PROVE  TypeOK' /\ WritersAreOpen'
  <2>1. fd[p] \in Inodes BY <1>7 DEF WriteTmp
  <2>2. CASE /\ W!Write(p, doc[p]) /\ Step(p, "write", "close")
             /\ exitCode' = exitCode
    BY <1>7, <2>1, <2>2 DEF WriteTmp, W!Write
  <2>3. CASE W!WriteFails(p) /\ Fail(p)
    BY <1>7, <2>1, <2>3 DEF WriteTmp, W!WriteFails
  <2> QED BY <1>7, <2>2, <2>3 DEF WriteTmp
<1>8. ASSUME NEW p \in Invocations, CloseTmp(p)
      PROVE  TypeOK' /\ WritersAreOpen'
  BY <1>8 DEF CloseTmp, W!Close, W!Quit
<1>9. ASSUME NEW p \in Invocations, RenameTmp(p)
      PROVE  TypeOK' /\ WritersAreOpen'
  <2>1. saved' \in Document /\ undoable' \subseteq Document
    BY <1>9, ChangedIsDocument DEF RenameTmp
  <2> QED BY <1>9, <2>1 DEF RenameTmp, W!Rename
<1>10. ASSUME NEW p \in Invocations, SyncDir(p)
       PROVE  TypeOK' /\ WritersAreOpen'
  BY <1>10 DEF SyncDir, W!SyncDir
<1>11. ASSUME NEW p \in Invocations, Kill(p)
       PROVE  TypeOK' /\ WritersAreOpen'
  BY <1>11 DEF Kill, W!Quit
<1>12. CASE PowerLoss
  <2>1. saved' \in Document /\ undoable' \subseteq Document
    BY <1>12 DEF PowerLoss
  <2>2. /\ file' \in Inodes \cup {NoInode} /\ tmp' \in Inodes \cup {NoInode}
        /\ content' \in [Inodes -> Document \cup {Empty, Torn}]
        /\ fd' \in [Invocations -> Inodes \cup {NoInode}]
        /\ fsynced' \subseteq Inodes /\ onDisk' \subseteq Inodes \cup {NoInode}
    BY <1>12 DEF PowerLoss, W!Reboot
  <2> QED BY <1>12, <2>1, <2>2 DEF PowerLoss
<1>13. CASE UNCHANGED vars BY <1>13 DEF vars
<1> QED BY <1>1, <1>2, <1>3, <1>4, <1>5, <1>6, <1>7, <1>8, <1>9, <1>10,
         <1>11, <1>12, <1>13 DEF Next, Profiles

-----------------------------------------------------------------------------
(* Saves that do not overlap.                                              *)

\* Two saves that have overlapped have done so for good.
LEMMA RacedForGood == ASSUME TypeOK, [Next]_vars, raced PROVE raced'
BY DEF TypeOK, Next, Profiles, Start, Check, Edit, EditRefused, Load,
    CreateTmp,
  WriteTmp, CloseTmp, RenameTmp, SyncDir, Kill, PowerLoss, vars, historyVars

\* The document at the path is the one the renames have made.
LEMMA LoadedIsSaved ==
  ASSUME StoreInv, ~raced
  PROVE  Readable /\ Loaded = saved /\ saved \in undoable
<1> USE DEF StoreInv, TypeOK, SavesAreApart, DiskIsWhole
<1>1. Profile(file) = saved /\ file \in onDisk /\ saved \in Document OBVIOUS
<1>2. saved \in undoable BY <1>1
<1>3. Readable /\ Loaded = saved
  BY <1>1, ContentsAssumption
  DEF Profile, Loaded, Readable, W!Contents
<1> QED BY <1>2, <1>3

\* No step of saves that do not overlap lets another have path.tmp, renames
\* anything but what was written, or leaves at the path what no rename put
\* there.
LEMMA ApartStep ==
  ASSUME StoreInv, ~raced, ~raced', [Next]_vars
  PROVE  SavesAreApart' /\ DiskIsWhole'
<1>b. Loaded = saved BY LoadedIsSaved
<1> USE DEF StoreInv, TypeOK, SavesAreApart, DiskIsWhole, Profile, Saving,
  Step, Exit, Fail, fileVars, askVars, historyVars
<1>a. ASSUME UNCHANGED <<fileVars, saved>>, undoable \subseteq undoable'
      PROVE  DiskIsWhole'
  BY <1>a
<1>1. ASSUME NEW p \in Invocations, NEW a \in Action, Start(p, a)
      PROVE  SavesAreApart' /\ DiskIsWhole'
  <2>1. \A q \in Invocations :
          pc'[q] \in Saving => pc'[q] = pc[q] /\ q # p
    BY <1>1 DEF Start
  <2>2. \A q \in Invocations : q # p => NewText(q)' = NewText(q)
    BY <1>1 DEF Start, NewText
  <2> QED BY <1>1, <1>a, <2>1, <2>2 DEF Start
<1>2. ASSUME NEW p \in Invocations, Check(p)
      PROVE  SavesAreApart' /\ DiskIsWhole'
  BY <1>2 DEF Check, NewText
<1>3. ASSUME NEW p \in Invocations, Edit(p)
      PROVE  SavesAreApart' /\ DiskIsWhole'
  BY <1>3 DEF Edit, NewText
<1>4. ASSUME NEW p \in Invocations, EditRefused(p)
      PROVE  SavesAreApart' /\ DiskIsWhole'
  BY <1>4 DEF EditRefused, NewText
<1>5. ASSUME NEW p \in Invocations, Load(p)
      PROVE  SavesAreApart' /\ DiskIsWhole'
  <2>1. CASE Fail(p) /\ UNCHANGED doc
    BY <1>5, <2>1 DEF Load, NewText
  <2>2. CASE pc' = [pc EXCEPT ![p] = "create"]
             /\ doc' = [doc EXCEPT ![p] = Changed(p, Loaded)]
             /\ raced' = (raced \/ \E q \in Invocations : pc[q] \in Saving)
    <3>1. \A q \in Invocations : pc[q] \notin Saving BY <2>2, Zenon
    <3>2. doc'[p] = [saved EXCEPT ![name[p]] = NewText(p)]
      BY <2>2, <1>b DEF Changed
    <3> QED BY <1>5, <2>2, <3>1, <3>2 DEF Load, NewText
  <2> QED BY <1>5, <2>1, <2>2 DEF Load
<1>6. ASSUME NEW p \in Invocations, CreateTmp(p)
      PROVE  SavesAreApart' /\ DiskIsWhole'
  <2>1. CASE Fail(p) /\ UNCHANGED fileVars
    BY <1>6, <2>1 DEF CreateTmp, NewText
  <2>2. CASE W!Create(p) /\ Step(p, "create", "write")
    <3>1. PICK i \in Inodes \ onDisk :
            /\ tmp' = i /\ content' = [content EXCEPT ![i] = Empty]
            /\ fd' = [fd EXCEPT ![p] = i] /\ fsynced' = fsynced \ {i}
            /\ UNCHANGED <<file, onDisk>>
      BY <2>2 DEF W!Create, W!NewInode, W!Free
    <3>2. SavesAreApart'
      BY <1>6, <2>2, <3>1, ContentsAssumption DEF CreateTmp, NewText
    <3>3. DiskIsWhole' BY <1>6, <2>2, <3>1 DEF CreateTmp
    <3> QED BY <3>2, <3>3
  <2> QED BY <1>6, <2>1, <2>2 DEF CreateTmp
<1>7. ASSUME NEW p \in Invocations, WriteTmp(p)
      PROVE  SavesAreApart' /\ DiskIsWhole'
  <2>1. fd[p] = tmp /\ tmp \in Inodes \ onDisk /\ content[tmp] = Empty
    BY <1>7 DEF WriteTmp
  <2>2. CASE W!Write(p, doc[p]) /\ Step(p, "write", "close")
    <3>1. SavesAreApart' BY <1>7, <2>1, <2>2 DEF WriteTmp, W!Write, NewText
    <3>2. DiskIsWhole' BY <1>7, <2>1, <2>2 DEF WriteTmp, W!Write
    <3> QED BY <3>1, <3>2
  <2>3. CASE W!WriteFails(p) /\ Fail(p)
    <3>1. SavesAreApart'
      BY <1>7, <2>1, <2>3 DEF WriteTmp, W!WriteFails, NewText
    <3>2. DiskIsWhole' BY <1>7, <2>1, <2>3 DEF WriteTmp, W!WriteFails
    <3> QED BY <3>1, <3>2
  <2> QED BY <1>7, <2>2, <2>3 DEF WriteTmp
<1>8. ASSUME NEW p \in Invocations, CloseTmp(p)
      PROVE  SavesAreApart' /\ DiskIsWhole'
  BY <1>8 DEF CloseTmp, W!Close, W!Quit, NewText
<1>9. ASSUME NEW p \in Invocations, RenameTmp(p)
      PROVE  SavesAreApart' /\ DiskIsWhole'
  <2>1. CASE Fail(p) /\ UNCHANGED <<fileVars, saved, undoable>>
    BY <1>9, <2>1 DEF RenameTmp, NewText
  <2>2. CASE /\ Step(p, "rename", "syncdir") /\ W!Rename
             /\ saved' = [saved EXCEPT ![name[p]] = NewText(p)]
             /\ undoable' = undoable \cup {saved'}
    <3>1. tmp # NoInode /\ content[tmp] = saved' /\ tmp \in fsynced
      BY <2>2
    <3>2. SavesAreApart'
      BY <1>9, <2>2, <3>1, ContentsAssumption DEF RenameTmp, W!Rename
    <3>3. DiskIsWhole' BY <1>9, <2>2, <3>1 DEF RenameTmp, W!Rename
    <3> QED BY <3>2, <3>3
  <2> QED BY <1>9, <2>1, <2>2 DEF RenameTmp
<1>10. ASSUME NEW p \in Invocations, SyncDir(p)
       PROVE  SavesAreApart' /\ DiskIsWhole'
  BY <1>10 DEF SyncDir, W!SyncDir, NewText
<1>11. ASSUME NEW p \in Invocations, Kill(p)
       PROVE  SavesAreApart' /\ DiskIsWhole'
  BY <1>11 DEF Kill, W!Quit, NewText
<1>12. CASE PowerLoss
  <2>1. /\ file' \in onDisk /\ onDisk' = {file'} /\ fsynced' = Inodes
        /\ tmp' = NoInode \/ tmp' # file'
        /\ fd' = [q \in Invocations |-> NoInode]
        /\ file' # NoInode => content'[file'] = content[file']
    BY <1>12 DEF PowerLoss, W!Reboot
  <2>2. \A q \in Invocations : pc'[q] \notin Saving BY <1>12 DEF PowerLoss
  <2>3. Loaded' = Profile(file)' /\ Profile(file)' \in undoable
    BY <2>1, ContentsAssumption DEF Loaded, W!Contents
  <2>4. saved' = Profile(file)' /\ undoable' = {saved'}
    BY <1>12, <2>3 DEF PowerLoss
  <2>5. SavesAreApart' BY <2>1, <2>2
  <2>6. DiskIsWhole' BY <1>12, <2>1, <2>4 DEF PowerLoss, W!Reboot
  <2> QED BY <2>5, <2>6
<1>13. CASE UNCHANGED vars BY <1>13 DEF vars, NewText
<1> QED BY <1>1, <1>2, <1>3, <1>4, <1>5, <1>6, <1>7, <1>8, <1>9, <1>10,
         <1>11, <1>12, <1>13 DEF Next, Profiles

-----------------------------------------------------------------------------
(* Acknowledged changes.                                                   *)

\* Who has made a change has made it for good: it is asked for nothing else.
LEMMA MadeForGood ==
  ASSUME TypeOK, [Next]_vars, NEW q \in Invocations, Made(q)
  PROVE  Made(q)' /\ NewText(q)' = NewText(q) /\ name' = name
BY DEF TypeOK, Made, NewText, Next, Profiles, Start, Check, Edit, EditRefused,
  Load, CreateTmp, WriteTmp, CloseTmp, RenameTmp, SyncDir, Kill, PowerLoss,
  vars, Step, Exit, Fail, askVars, AtWork

\* A change is made by a rename, acknowledged by the directory's fsync and
\* undone by a power loss.
LEMMA AckEffects ==
  ASSUME TypeOK, [Next]_vars
  PROVE  \/ PowerLoss
         \/ \E p \in Invocations : RenameTmp(p) /\ saved' # saved
         \/ /\ saved' = saved
            /\ undoable' \subseteq undoable \cup {saved}
            /\ \A r \in Invocations :
                 /\ pc'[r] = "syncdir" => pc[r] = "syncdir" \/ MadeIn(saved, r)'
                 /\ exitCode'[r] = 0 =>
                      \/ exitCode[r] = 0
                      \/ pc[r] = "syncdir" /\ undoable' = {saved}
<1> DEFINE Quiet ==
  /\ saved' = saved
  /\ undoable' \subseteq undoable \cup {saved}
  /\ \A r \in Invocations :
       /\ pc'[r] = "syncdir" => pc[r] = "syncdir" \/ MadeIn(saved, r)'
       /\ exitCode'[r] = 0 =>
            \/ exitCode[r] = 0
            \/ pc[r] = "syncdir" /\ undoable' = {saved}
<1> USE DEF TypeOK, Step, Exit, Fail, historyVars
<1>1. ASSUME NEW p \in Invocations, NEW a \in Action, Start(p, a) PROVE Quiet
  BY <1>1 DEF Start
<1>2. ASSUME NEW p \in Invocations, Check(p) PROVE Quiet BY <1>2 DEF Check
<1>3. ASSUME NEW p \in Invocations, Edit(p) PROVE Quiet BY <1>3 DEF Edit
<1>4. ASSUME NEW p \in Invocations, EditRefused(p) PROVE Quiet
  BY <1>4 DEF EditRefused, RefusalCode
<1>5. ASSUME NEW p \in Invocations, Load(p) PROVE Quiet BY <1>5 DEF Load
<1>6. ASSUME NEW p \in Invocations, CreateTmp(p) PROVE Quiet
  BY <1>6 DEF CreateTmp
<1>7. ASSUME NEW p \in Invocations, WriteTmp(p) PROVE Quiet
  BY <1>7 DEF WriteTmp
<1>8. ASSUME NEW p \in Invocations, CloseTmp(p) PROVE Quiet
  BY <1>8 DEF CloseTmp
<1>9. ASSUME NEW p \in Invocations, RenameTmp(p), saved' = saved PROVE Quiet
  <2>1. CASE Fail(p) /\ UNCHANGED undoable BY <1>9, <2>1 DEF RenameTmp
  <2>2. CASE /\ pc' = [pc EXCEPT ![p] = "syncdir"]
             /\ saved' = [saved EXCEPT ![name[p]] = NewText(p)]
             /\ undoable' = undoable \cup {saved'}
             /\ UNCHANGED <<exitCode, name, action>>
    <3>1. Made(p)' /\ NewText(p)' = NewText(p) /\ saved'[name[p]] = NewText(p)
      BY <1>9, <2>2 DEF Made, NewText, Document
    <3>2. MadeIn(saved, p)' BY <2>2, <3>1 DEF MadeIn
    <3> QED BY <1>9, <2>2, <3>2
  <2> QED BY <1>9, <2>1, <2>2 DEF RenameTmp, askVars
<1>10. ASSUME NEW p \in Invocations, SyncDir(p) PROVE Quiet
  BY <1>10 DEF SyncDir
<1>11. ASSUME NEW p \in Invocations, Kill(p) PROVE Quiet BY <1>11 DEF Kill
<1>12. CASE UNCHANGED vars BY <1>12 DEF vars
<1> QED BY <1>1, <1>2, <1>3, <1>4, <1>5, <1>6, <1>7, <1>8, <1>9, <1>10,
         <1>11, <1>12 DEF Next, Profiles

\* What an invocation made of its profile is still there, or what another one
\* of the same profile made of it since; in every document that a power loss
\* may bring back.
LEMMA AcksStep ==
  ASSUME StoreInv, ~raced, [Next]_vars
  PROVE  AcksAreSafe'
<1>1. TypeOK /\ AcksAreSafe /\ saved \in undoable
  BY LoadedIsSaved DEF StoreInv
<1>2. ASSUME NEW d \in Document, NEW r \in Invocations, MadeIn(d, r)
      PROVE  MadeIn(d, r)'
  BY <1>1, <1>2, MadeForGood DEF MadeIn
<1>3. CASE PowerLoss
  <2>1. saved' \in undoable /\ undoable' = {saved'} BY <1>1, <1>3 DEF PowerLoss
  <2>2. ASSUME NEW r \in Invocations
        PROVE  /\ pc'[r] # "syncdir"
               /\ exitCode'[r] = 0 => exitCode[r] = 0
    BY <1>3, <2>2 DEF PowerLoss
  <2>3. ASSUME NEW r \in Invocations, exitCode'[r] = 0
        PROVE  MadeIn(saved, r)'
    <3>1. exitCode[r] = 0 BY <2>2, <2>3
    <3>2. PICK q \in Invocations :
            name[q] = name[r] /\ Made(q) /\ saved'[name[r]] = NewText(q)
      BY <1>1, <2>1, <3>1 DEF AcksAreSafe, MadeIn
    <3> QED BY <1>1, <3>2, MadeForGood DEF MadeIn
  <2> QED BY <2>1, <2>2, <2>3 DEF AcksAreSafe, MadeIn
<1>4. ASSUME NEW p \in Invocations, RenameTmp(p), saved' # saved
      PROVE  AcksAreSafe'
  <2>1. /\ saved' = [saved EXCEPT ![name[p]] = NewText(p)]
        /\ undoable' = undoable \cup {saved'}
        /\ pc' = [pc EXCEPT ![p] = "syncdir"]
        /\ UNCHANGED <<exitCode, name, action>>
    BY <1>4 DEF RenameTmp, Step, askVars
  <2>2. Made(p)' /\ NewText(p)' = NewText(p)
    BY <1>1, <2>1 DEF Made, NewText, TypeOK
  <2>3. ASSUME NEW r \in Invocations, MadeIn(saved, r) \/ r = p
        PROVE  MadeIn(saved, r)'
    <3>1. CASE name[r] = name[p]
      BY <1>1, <2>1, <2>2, <3>1 DEF MadeIn, TypeOK, Document
    <3>2. CASE name[r] # name[p]
      <4>1. saved'[name[r]] = saved[name[r]]
        BY <1>1, <2>1, <3>2 DEF TypeOK, Document
      <4> QED BY <1>1, <2>3, <3>2, <4>1, MadeForGood DEF MadeIn
    <3> QED BY <3>1, <3>2
  <2>4. ASSUME NEW r \in Invocations, pc'[r] = "syncdir"
        PROVE  MadeIn(saved, r)'
    BY <1>1, <2>1, <2>3, <2>4 DEF AcksAreSafe, TypeOK
  <2>5. ASSUME NEW r \in Invocations, exitCode'[r] = 0, NEW d \in undoable'
        PROVE  MadeIn(d, r)'
    <3>1. exitCode[r] = 0 BY <2>1, <2>5
    <3>2. CASE d \in undoable
      BY <1>1, <1>2, <3>1, <3>2 DEF AcksAreSafe, TypeOK
    <3>3. CASE d = saved'
      <4>1. MadeIn(saved, r) BY <1>1, <3>1 DEF AcksAreSafe
      <4> QED BY <2>3, <3>3, <4>1 DEF MadeIn
    <3> QED BY <2>1, <2>5, <3>2, <3>3
  <2> QED BY <2>4, <2>5 DEF AcksAreSafe, MadeIn
<1>5. CASE ~ \/ PowerLoss
             \/ \E p \in Invocations : RenameTmp(p) /\ saved' # saved
  <2>1. /\ saved' = saved
        /\ undoable' \subseteq undoable \cup {saved}
        /\ \A r \in Invocations :
             /\ pc'[r] = "syncdir" => pc[r] = "syncdir" \/ MadeIn(saved, r)'
             /\ exitCode'[r] = 0 =>
                  \/ exitCode[r] = 0
                  \/ pc[r] = "syncdir" /\ undoable' = {saved}
    BY <1>1, <1>5, AckEffects
  <2>2. saved \in Document /\ undoable \subseteq Document BY <1>1 DEF TypeOK
  <2>3. ASSUME NEW r \in Invocations, MadeIn(saved, r) PROVE MadeIn(saved, r)'
    BY <1>1, <2>1, <2>3, MadeForGood DEF MadeIn
  <2>4. ASSUME NEW r \in Invocations, pc'[r] = "syncdir"
        PROVE  MadeIn(saved, r)'
    BY <1>1, <2>1, <2>3, <2>4 DEF AcksAreSafe
  <2>5. ASSUME NEW r \in Invocations, exitCode'[r] = 0, NEW d \in undoable'
        PROVE  MadeIn(d, r)'
    <3>1. MadeIn(d, r) BY <1>1, <2>1, <2>5 DEF AcksAreSafe
    <3> QED BY <1>2, <2>1, <2>2, <3>1
  <2> QED BY <2>4, <2>5 DEF AcksAreSafe, MadeIn
<1> QED BY <1>3, <1>4, <1>5

-----------------------------------------------------------------------------
(* The invariant, and the properties the run checks.                       *)

\* StoreInv is preserved by every step.
LEMMA StoreStep == ASSUME StoreInv, [Next]_vars PROVE StoreInv'
<1>1. TypeOK' /\ WritersAreOpen' BY TypeStep DEF StoreInv
<1>2. CASE raced' BY <1>1, <1>2 DEF StoreInv
<1>3. CASE ~raced'
  <2>1. ~raced BY <1>3, RacedForGood DEF StoreInv
  <2> QED BY <1>1, <1>3, <2>1, ApartStep, AcksStep DEF StoreInv
<1> QED BY <1>2, <1>3

\* What saves that do not overlap rely on holds in every state.
THEOREM StoreCorrect == Spec => []StoreInv
<1>1. Init => StoreInv BY InitStore
<1>2. StoreInv /\ [Next]_vars => StoreInv' BY StoreStep
<1> QED BY <1>1, <1>2, PTL DEF Spec

\* atomic.go's promise: a reader finds a whole document or none, whatever was
\* killed, refused or cut off, until two saves overlap.
THEOREM DocumentAlwaysWhole == Spec => []DocumentWhole
<1>1. StoreInv => DocumentWhole BY LoadedIsSaved DEF DocumentWhole
<1> QED BY <1>1, StoreCorrect, PTL

\* The document is what the saves have made of it one after the other: none is
\* lost before two of them overlap.
THEOREM NoUpdateLost == Spec => []NoLostUpdate
<1>1. StoreInv => NoLostUpdate BY LoadedIsSaved DEF NoLostUpdate
<1> QED BY <1>1, StoreCorrect, PTL

\* A change an invocation has reported with exit code 0 stays, through power
\* losses too, until the same profile is changed again.
THEOREM AcknowledgedCorrect == Spec => []AcknowledgedStays
<1>1. ASSUME StoreInv PROVE AcknowledgedStays
  <2>1. CASE raced BY <2>1 DEF AcknowledgedStays
  <2>2. CASE ~raced
    <3>1. Readable /\ Loaded \in undoable BY <2>2, <1>1, LoadedIsSaved
    <3>2. AcksAreSafe BY <1>1, <2>2 DEF StoreInv
    <3> QED BY <3>1, <3>2 DEF AcknowledgedStays, AcksAreSafe
  <2> QED BY <2>1, <2>2
<1> QED BY <1>1, StoreCorrect, PTL
=============================================================================
