--------------------------- MODULE VolumeInitProofs ---------------------------
(***************************************************************************)
(* What is proved of VolumeInit for any number of processes and inodes and *)
(* every choice of faults.                                                 *)
(*                                                                         *)
(* Two arguments side by side.  Of the key: while inits save one at a      *)
(* time, what is renamed over version.json is a key of its writer, only a  *)
(* reset renames over an existing one, and that begins an era              *)
(* (SavesAreApart, KeysAreSafe).  Of the binary: while extractions do not  *)
(* overlap, what is renamed into place has been hashed and only that       *)
(* becomes immutable (BinaryIsSafe).                                       *)
(***************************************************************************)
EXTENDS VolumeInit, TLAPS

-----------------------------------------------------------------------------
(* The initial state, and types.                                           *)

\* A volume starts with nobody at work, and a key, nothing or a binary there.
LEMMA InitVolume == ASSUME Init PROVE VolumeInv
<1> USE DEF Init, V!Fresh, X!Fresh
<1>1. (CHOOSE j \in Inodes : TRUE) \in Inodes BY ContentsAssumption
<1>2. (CHOOSE j \in BinInodes : TRUE) \in BinInodes BY ContentsAssumption
<1>3. /\ file \in Inodes \cup {NoInode} /\ tmp = NoInode
      /\ content \in [Inodes -> Key \cup {Empty, Torn}]
      /\ onDisk = {file} /\ fsynced = Inodes
      /\ file # NoInode => content[file] \in Key
  <2>1. CASE file = NoInode BY <1>1, <2>1, ContentsAssumption
  <2>2. CASE file # NoInode BY <1>1, <2>2 DEF Key
  <2> QED BY <2>1, <2>2
<1>4. /\ bin \in BinInodes \cup {NoBin} /\ binTmp = NoBin
      /\ whole \subseteq BinInodes /\ immutable = {} /\ binOnDisk = {bin}
  BY <1>2
<1>5. TypeOK BY <1>3, <1>4 DEF TypeOK, PC, Key
<1>6. WritersAreOpen /\ RolesOK
  BY DEF WritersAreOpen, RolesOK, Saving, AtWork, Extracting
<1>7. SavesAreApart BY <1>3, ContentsAssumption DEF SavesAreApart, Saving
<1>8. KeysAreSafe BY <1>3 DEF KeysAreSafe, Running, AtWork, Saving, Extracting
<1>9. BinaryIsSafe BY <1>4 DEF BinaryIsSafe, Extracting
<1> QED BY <1>5, <1>6, <1>7, <1>8, <1>9 DEF VolumeInv

\* No step takes a variable out of its type; who writes has a file open.
LEMMA TypeStep ==
  ASSUME TypeOK, WritersAreOpen, RolesOK, [Next]_vars
  PROVE  TypeOK' /\ WritersAreOpen'
<1> USE DEF TypeOK, WritersAreOpen, PC, AtWork, Saving, Extracting, Step, Exit,
  Fails, fileVars, binVars, historyVars
<1>1. ASSUME NEW p \in Processes, Start(p) PROVE TypeOK' /\ WritersAreOpen'
  BY <1>1 DEF Start, Role
<1>2. ASSUME NEW p \in Processes, Gate(p) PROVE TypeOK' /\ WritersAreOpen'
  BY <1>2 DEF Gate
<1>3. ASSUME NEW p \in Processes, Prepare(p) PROVE TypeOK' /\ WritersAreOpen'
  <2>1. marker' \in BOOLEAN BY <1>3, Zenon DEF Prepare
  <2> QED BY <1>3, <2>1 DEF Prepare
<1>4. ASSUME NEW p \in Processes, Stat(p) PROVE TypeOK' /\ WritersAreOpen'
  <2>1. raced' \in BOOLEAN BY <1>4, Zenon DEF Stat
  <2> QED BY <1>4, <2>1 DEF Stat
<1>5. ASSUME NEW p \in Processes, CreateTmp(p) PROVE TypeOK' /\ WritersAreOpen'
  <2>1. CASE Fails(p, "create") /\ UNCHANGED fileVars
    BY <1>5, <2>1 DEF CreateTmp
  <2>2. CASE /\ V!Create(p) /\ Step(p, "create", "write")
             /\ exitCode' = exitCode
    <3>1. PICK i \in Inodes :
            /\ tmp' = i /\ content' = [content EXCEPT ![i] = Empty]
            /\ fd' = [fd EXCEPT ![p] = i] /\ fsynced' = fsynced \ {i}
            /\ UNCHANGED <<file, onDisk>>
      BY <2>2 DEF V!Create, V!NewInode, V!Free
    <3> QED BY <1>5, <2>2, <3>1, ContentsAssumption DEF CreateTmp
  <2> QED BY <1>5, <2>1, <2>2 DEF CreateTmp
<1>6. ASSUME NEW p \in Processes, WriteTmp(p) PROVE TypeOK' /\ WritersAreOpen'
  <2>1. fd[p] \in Inodes BY <1>6 DEF WriteTmp
  <2>2. CASE /\ V!Write(p, p) /\ Step(p, "write", "close")
             /\ exitCode' = exitCode
    BY <1>6, <2>1, <2>2 DEF WriteTmp, V!Write, Key
  <2>3. CASE V!WriteFails(p) /\ Fails(p, "write")
    BY <1>6, <2>1, <2>3 DEF WriteTmp, V!WriteFails
  <2> QED BY <1>6, <2>2, <2>3 DEF WriteTmp
<1>7. ASSUME NEW p \in Processes, CloseTmp(p) PROVE TypeOK' /\ WritersAreOpen'
  BY <1>7 DEF CloseTmp, V!Close, V!Quit
<1>8. ASSUME NEW p \in Processes, RenameTmp(p) PROVE TypeOK' /\ WritersAreOpen'
  BY <1>8 DEF RenameTmp, V!Rename
<1>9. ASSUME NEW p \in Processes, SyncDir(p) PROVE TypeOK' /\ WritersAreOpen'
  <2>1. acked' \in BOOLEAN BY <1>9, Zenon DEF SyncDir
  <2> QED BY <1>9, <2>1 DEF SyncDir, V!SyncDir
<1>10. ASSUME NEW p \in Processes, InPlace(p) PROVE TypeOK' /\ WritersAreOpen'
  <2>1. binRaced' \in BOOLEAN BY <1>10, Zenon DEF InPlace
  <2>2. \/ Step(p, "inPlace", "running") \/ Step(p, "inPlace", "stat")
        \/ Step(p, "inPlace", "removeTmp")
    BY <1>10, Zenon DEF InPlace, Extracted
  <2>3. /\ UNCHANGED <<role, key, exitCode, marker, fileVars, binVars>>
        /\ UNCHANGED <<sealed, era, eraRead, acked, raced>>
    BY <1>10 DEF InPlace
  <2> QED BY <2>1, <2>2, <2>3
<1>11. ASSUME NEW p \in Processes, RemoveBinTmp(p)
       PROVE  TypeOK' /\ WritersAreOpen'
  BY <1>11 DEF RemoveBinTmp, X!RemoveTmp
<1>12. ASSUME NEW p \in Processes, CreateBin(p)
       PROVE  TypeOK' /\ WritersAreOpen'
  <2>1. CASE Fails(p, "createBin") /\ UNCHANGED binVars
    BY <1>12, <2>1 DEF CreateBin
  <2>2. CASE /\ X!Create(p) /\ Step(p, "createBin", "writeBin")
             /\ exitCode' = exitCode
    <3>1. PICK i \in BinInodes :
            /\ binTmp' = i /\ binFd' = [binFd EXCEPT ![p] = i]
            /\ whole' = whole \ {i} /\ immutable' = immutable \ {i}
            /\ UNCHANGED <<bin, binOnDisk>>
      BY <2>2 DEF X!Create, X!Free
    <3> QED BY <1>12, <2>2, <3>1, ContentsAssumption DEF CreateBin
  <2> QED BY <1>12, <2>1, <2>2 DEF CreateBin
<1>13. ASSUME NEW p \in Processes, WriteBin(p) PROVE TypeOK' /\ WritersAreOpen'
  BY <1>13 DEF WriteBin, X!Write, X!GiveUp
<1>14. ASSUME NEW p \in Processes, VerifyBin(p)
       PROVE  TypeOK' /\ WritersAreOpen'
  BY <1>14 DEF VerifyBin, X!GiveUp
<1>15. ASSUME NEW p \in Processes, RenameBin(p)
       PROVE  TypeOK' /\ WritersAreOpen'
  BY <1>15 DEF RenameBin, X!Rename, X!CanRename, X!GiveUp
<1>16. ASSUME NEW p \in Processes, SetImmutable(p)
       PROVE  TypeOK' /\ WritersAreOpen'
  BY <1>16 DEF SetImmutable, X!SetImmutable, Extracted
<1>17. ASSUME NEW p \in Processes, ReadKey(p) PROVE TypeOK' /\ WritersAreOpen'
  <2>1. HasKey => Loaded \in Key
    BY DEF HasKey, Exists, Readable, Loaded, V!Contents
  <2> QED BY <1>17, <2>1 DEF ReadKey
<1>18. ASSUME NEW p \in Processes, Seal(p) PROVE TypeOK' /\ WritersAreOpen'
  BY <1>18 DEF Seal
<1>19. ASSUME NEW p \in Processes, Kill(p) PROVE TypeOK' /\ WritersAreOpen'
  BY <1>19 DEF Kill, V!Quit, X!Quit
<1>20. CASE PowerLoss
  <2>1. /\ file' \in Inodes \cup {NoInode} /\ tmp' \in Inodes \cup {NoInode}
        /\ content' \in [Inodes -> Key \cup {Empty, Torn}]
        /\ fd' \in [Processes -> Inodes \cup {NoInode}]
        /\ fsynced' \subseteq Inodes /\ onDisk' \subseteq Inodes \cup {NoInode}
    BY <1>20 DEF PowerLoss, V!Reboot
  <2>2. /\ bin' \in BinInodes \cup {NoBin} /\ binTmp' \in BinInodes \cup {NoBin}
        /\ binFd' \in [Processes -> BinInodes \cup {NoBin}]
        /\ binOnDisk' \subseteq BinInodes \cup {NoBin}
        /\ UNCHANGED <<whole, immutable>>
    BY <1>20 DEF PowerLoss, X!Reboot
  <2>3. era' \in Nat BY <1>20 DEF PowerLoss
  <2> QED BY <1>20, <2>1, <2>2, <2>3 DEF PowerLoss
<1>21. CASE UNCHANGED vars
  BY <1>21 DEF vars
<1> QED BY <1>1, <1>2, <1>3, <1>4, <1>5, <1>6, <1>7, <1>8, <1>9, <1>10, <1>11,
         <1>12, <1>13, <1>14, <1>15, <1>16, <1>17, <1>18, <1>19, <1>20, <1>21
         DEF Next, Process

\* No step lets a run save a key, or an init go on without the marker.
LEMMA RolesStep ==
  ASSUME TypeOK, RolesOK, [Next]_vars
  PROVE  RolesOK'
<1> USE DEF TypeOK, RolesOK, AtWork, Saving, Extracting, Step, Exit, Fails,
  historyVars
<1>1. ASSUME NEW p \in Processes, Start(p) PROVE RolesOK'
  BY <1>1 DEF Start, Role
<1>2. ASSUME NEW p \in Processes, Gate(p) PROVE RolesOK'
  BY <1>2 DEF Gate
<1>3. ASSUME NEW p \in Processes, Prepare(p) PROVE RolesOK'
  BY <1>3 DEF Prepare
<1>4. ASSUME NEW p \in Processes, Stat(p) PROVE RolesOK'
  BY <1>4 DEF Stat
<1>5. ASSUME NEW p \in Processes, CreateTmp(p) PROVE RolesOK'
  BY <1>5 DEF CreateTmp
<1>6. ASSUME NEW p \in Processes, WriteTmp(p) PROVE RolesOK'
  BY <1>6 DEF WriteTmp
<1>7. ASSUME NEW p \in Processes, CloseTmp(p) PROVE RolesOK'
  BY <1>7 DEF CloseTmp
<1>8. ASSUME NEW p \in Processes, RenameTmp(p) PROVE RolesOK'
  BY <1>8 DEF RenameTmp
<1>9. ASSUME NEW p \in Processes, SyncDir(p) PROVE RolesOK'
  BY <1>9 DEF SyncDir
<1>10. ASSUME NEW p \in Processes, InPlace(p) PROVE RolesOK'
  <2>1. \/ Step(p, "inPlace", "running") /\ role[p] = "run"
        \/ Step(p, "inPlace", "stat") /\ role[p] # "run"
        \/ Step(p, "inPlace", "removeTmp")
    BY <1>10, Zenon DEF InPlace, Extracted
  <2>2. UNCHANGED <<role, marker, acked>> BY <1>10 DEF InPlace
  <2> QED BY <2>1, <2>2
<1>11. ASSUME NEW p \in Processes, RemoveBinTmp(p) PROVE RolesOK'
  BY <1>11 DEF RemoveBinTmp
<1>12. ASSUME NEW p \in Processes, CreateBin(p) PROVE RolesOK'
  BY <1>12 DEF CreateBin
<1>13. ASSUME NEW p \in Processes, WriteBin(p) PROVE RolesOK'
  BY <1>13 DEF WriteBin
<1>14. ASSUME NEW p \in Processes, VerifyBin(p) PROVE RolesOK'
  BY <1>14 DEF VerifyBin
<1>15. ASSUME NEW p \in Processes, RenameBin(p) PROVE RolesOK'
  BY <1>15 DEF RenameBin
<1>16. ASSUME NEW p \in Processes, SetImmutable(p) PROVE RolesOK'
  BY <1>16 DEF SetImmutable, Extracted
<1>17. ASSUME NEW p \in Processes, ReadKey(p) PROVE RolesOK'
  BY <1>17 DEF ReadKey
<1>18. ASSUME NEW p \in Processes, Seal(p) PROVE RolesOK'
  BY <1>18 DEF Seal
<1>19. ASSUME NEW p \in Processes, Kill(p) PROVE RolesOK'
  BY <1>19 DEF Kill
<1>20. CASE PowerLoss
  BY <1>20 DEF PowerLoss
<1>21. CASE UNCHANGED vars
  BY <1>21 DEF vars
<1> QED BY <1>1, <1>2, <1>3, <1>4, <1>5, <1>6, <1>7, <1>8, <1>9, <1>10, <1>11,
         <1>12, <1>13, <1>14, <1>15, <1>16, <1>17, <1>18, <1>19, <1>20, <1>21
         DEF Next, Process

-----------------------------------------------------------------------------
(* The key.                                                                *)

\* Two saves, or two extractions, that have overlapped have done so for good.
LEMMA RacedForGood ==
  ASSUME TypeOK, [Next]_vars
  PROVE  (raced => raced') /\ (binRaced => binRaced')
BY DEF TypeOK, Next, Process, Start, Gate, Prepare, Stat, CreateTmp, WriteTmp,
  CloseTmp, RenameTmp, SyncDir, InPlace, RemoveBinTmp, CreateBin, WriteBin,
  VerifyBin, RenameBin, SetImmutable, ReadKey, Seal, Kill, PowerLoss, vars,
  historyVars

\* Who is not saving, and does not begin to, leaves the key's files alone.
LEMMA KeysQuiet ==
  ASSUME TypeOK, SavesAreApart, KeysAreSafe,
         NEW p \in Processes, pc' = [pc EXCEPT ![p] = pc'[p]],
         UNCHANGED <<role, key, fileVars, sealed, era, eraRead, acked>>,
         pc[p] \notin {"write", "close"},
         pc'[p] \notin Saving \cup {"syncdir"},
         Running(p)' /\ pc'[p] # "readKey" => Running(p) /\ pc[p] # "readKey"
  PROVE  SavesAreApart' /\ KeysAreSafe'
<1>1. \A q \in Processes :
        q # p => pc'[q] = pc[q] /\ (Running(q)' <=> Running(q))
  BY DEF TypeOK, Running
<1>2. SavesAreApart'
  BY <1>1 DEF TypeOK, SavesAreApart, fileVars, Exists, Saving
<1>3. KeysAreSafe'
  BY <1>1 DEF TypeOK, KeysAreSafe, fileVars, Exists
<1> QED BY <1>2, <1>3

\* No step of saves that do not overlap puts another key at the path than the
\* one its writer drew, replaces a key without a reset, or leaves there what
\* is not on the medium.
LEMMA KeysStep ==
  ASSUME VolumeInv, ~raced, ~raced', [Next]_vars
  PROVE  SavesAreApart' /\ KeysAreSafe'
<1>a. TypeOK /\ RolesOK /\ SavesAreApart /\ KeysAreSafe BY DEF VolumeInv
<1>b. \A q \in Processes : (pc[q] \in AtWork /\ role[q] = "run") <=> Running(q)
  BY DEF Running
<1> USE <1>a, <1>b
<1> USE DEF Step, Exit, Fails, Saving, Extracting, AtWork, historyVars
<1>1. ASSUME NEW p \in Processes, Start(p) PROVE SavesAreApart' /\ KeysAreSafe'
  <2>1. \/ Step(p, "idle", "readKey")
        \/ role[p] # "run" /\ Step(p, "idle", "gate")
        \/ role[p] # "run" /\ Step(p, "idle", "prepare")
    BY <1>1 DEF Start, TypeOK, Role
  <2>2. UNCHANGED <<role, key, fileVars, sealed, era, eraRead, acked>>
    BY <1>1 DEF Start
  <2>3. /\ pc' = [pc EXCEPT ![p] = pc'[p]]
        /\ pc[p] \notin {"write", "close"}
        /\ pc'[p] \notin Saving \cup {"syncdir"}
    BY <2>1 DEF TypeOK
  <2>4. Running(p)' => pc'[p] = "readKey" BY <2>1, <2>2 DEF TypeOK, Running
  <2> QED BY <2>2, <2>3, <2>4, KeysQuiet
<1>2. ASSUME NEW p \in Processes, Gate(p) PROVE SavesAreApart' /\ KeysAreSafe'
  BY <1>2, KeysQuiet DEF Gate, TypeOK, Running
<1>3. ASSUME NEW p \in Processes, Prepare(p)
      PROVE  SavesAreApart' /\ KeysAreSafe'
  BY <1>3, KeysQuiet DEF Prepare, TypeOK, Running
<1>4. ASSUME NEW p \in Processes, Stat(p) PROVE SavesAreApart' /\ KeysAreSafe'
  <2>1. CASE Fails(p, "stat")
    BY <1>4, <2>1, KeysQuiet DEF Stat, TypeOK, Running
  <2>2. CASE /\ role[p] = "init" => ~Exists
             /\ Step(p, "stat", "create")
             /\ raced' = (raced \/ \E q \in Processes : pc[q] \in Saving)
    <3>1. \A q \in Processes : pc[q] \notin Saving BY <2>2, Zenon
    <3>2. SavesAreApart'
      BY <1>4, <2>2, <3>1 DEF Stat, SavesAreApart, TypeOK, fileVars, Exists
    <3>3. KeysAreSafe'
      BY <1>4, <2>2 DEF Stat, KeysAreSafe, TypeOK, Running, fileVars, Exists
    <3> QED BY <3>2, <3>3
  <2> QED BY <1>4, <2>1, <2>2 DEF Stat
<1>5. ASSUME NEW p \in Processes, CreateTmp(p)
      PROVE  SavesAreApart' /\ KeysAreSafe'
  <2>1. CASE Fails(p, "create") /\ UNCHANGED fileVars
    BY <1>5, <2>1, KeysQuiet DEF CreateTmp, TypeOK, Running
  <2>2. CASE V!Create(p) /\ Step(p, "create", "write")
    <3>1. PICK i \in Inodes \ onDisk :
            /\ tmp' = i /\ content' = [content EXCEPT ![i] = Empty]
            /\ fd' = [fd EXCEPT ![p] = i] /\ fsynced' = fsynced \ {i}
            /\ UNCHANGED <<file, onDisk>>
      BY <2>2 DEF V!Create, V!NewInode, V!Free, SavesAreApart, TypeOK
    <3>2. SavesAreApart'
      BY <1>5, <2>2, <3>1, ContentsAssumption
      DEF CreateTmp, SavesAreApart, TypeOK, Exists
    <3>3. file # i BY <3>1 DEF SavesAreApart
    <3>4. KeysAreSafe'
      BY <1>5, <2>2, <3>1, <3>3
      DEF CreateTmp, KeysAreSafe, TypeOK, Running, Exists
    <3> QED BY <3>2, <3>4
  <2> QED BY <1>5, <2>1, <2>2 DEF CreateTmp
<1>6. ASSUME NEW p \in Processes, WriteTmp(p)
      PROVE  SavesAreApart' /\ KeysAreSafe'
  <2>1. /\ fd[p] = tmp /\ tmp \in Inodes \ onDisk /\ content[tmp] = Empty
        /\ file # tmp
    BY <1>6 DEF WriteTmp, SavesAreApart, TypeOK
  <2>2. CASE V!Write(p, p) /\ Step(p, "write", "close")
    <3>1. SavesAreApart'
      BY <1>6, <2>1, <2>2 DEF WriteTmp, V!Write, SavesAreApart, TypeOK, Exists
    <3>2. KeysAreSafe'
      BY <1>6, <2>1, <2>2
      DEF WriteTmp, V!Write, KeysAreSafe, TypeOK, Running, Exists
    <3> QED BY <3>1, <3>2
  <2>3. CASE V!WriteFails(p) /\ Fails(p, "write")
    <3>1. SavesAreApart'
      BY <1>6, <2>1, <2>3 DEF WriteTmp, V!WriteFails, SavesAreApart, TypeOK,
          Exists
    <3>2. KeysAreSafe'
      BY <1>6, <2>1, <2>3
      DEF WriteTmp, V!WriteFails, KeysAreSafe, TypeOK, Running, Exists
    <3> QED BY <3>1, <3>2
  <2> QED BY <1>6, <2>2, <2>3 DEF WriteTmp
<1>7. ASSUME NEW p \in Processes, CloseTmp(p)
      PROVE  SavesAreApart' /\ KeysAreSafe'
  <2>1. SavesAreApart'
    BY <1>7 DEF CloseTmp, V!Close, V!Quit, SavesAreApart, TypeOK, Exists
  <2>2. KeysAreSafe'
    BY <1>7 DEF CloseTmp, V!Close, V!Quit, KeysAreSafe, TypeOK, Running, Exists
  <2> QED BY <2>1, <2>2
<1>8. ASSUME NEW p \in Processes, RenameTmp(p)
      PROVE  SavesAreApart' /\ KeysAreSafe'
  <2>1. CASE Fails(p, "rename") /\ UNCHANGED <<fileVars, era>>
    BY <1>8, <2>1, KeysQuiet DEF RenameTmp, TypeOK, Running
  <2>2. CASE /\ Step(p, "rename", "syncdir") /\ V!Rename
             /\ era' = IF role[p] = "reset" THEN era + 1 ELSE era
    <3>1. tmp \in Inodes /\ content[tmp] = p /\ tmp \in fsynced
      BY <2>2 DEF SavesAreApart, TypeOK
    <3>2. role[p] = "reset" \/ (role[p] = "init" /\ ~Exists)
      BY <2>2 DEF SavesAreApart, RolesOK, TypeOK, Role
    <3>3. SavesAreApart'
      BY <1>8, <2>2, <3>1, ContentsAssumption
      DEF RenameTmp, V!Rename, SavesAreApart, TypeOK, Exists
    <3>4. \A i \in onDisk' \ {NoInode} : i \in fsynced' /\ content'[i] \in Key
      BY <2>2, <3>1 DEF V!Rename, KeysAreSafe, Key
    <3>5. acked' => NoInode \notin onDisk'
      BY <1>8, <2>2, <3>1, ContentsAssumption
      DEF RenameTmp, V!Rename, KeysAreSafe
    <3>6. \A m \in sealed' : m.era <= era' /\ m.era # era'
      BY <1>8, <2>2, <3>2 DEF RenameTmp, KeysAreSafe, TypeOK
    <3>7. \A r \in Processes :
            /\ eraRead'[r] <= era'
            /\ Running(r)' /\ pc'[r] # "readKey" => eraRead'[r] # era'
      BY <1>8, <2>2, <3>2 DEF RenameTmp, KeysAreSafe, TypeOK, Running
    <3> QED BY <3>3, <3>4, <3>5, <3>6, <3>7 DEF KeysAreSafe
  <2> QED BY <1>8, <2>1, <2>2 DEF RenameTmp
<1>9. ASSUME NEW p \in Processes, SyncDir(p)
      PROVE  SavesAreApart' /\ KeysAreSafe'
  <2>1. CASE Fails(p, "syncdir") /\ UNCHANGED <<fileVars, acked>>
    BY <1>9, <2>1, KeysQuiet DEF SyncDir, TypeOK, Running
  <2>2. CASE pc[p] = "syncdir" /\ V!SyncDir /\ Exit(p, 0)
    <3>1. Exists BY <2>2 DEF SavesAreApart
    <3>2. SavesAreApart'
      BY <1>9, <2>2, <3>1 DEF SyncDir, V!SyncDir, SavesAreApart, TypeOK, Exists
    <3>3. KeysAreSafe'
      BY <1>9, <2>2, <3>1
      DEF SyncDir, V!SyncDir, KeysAreSafe, SavesAreApart, TypeOK, Running,
      Exists
    <3> QED BY <3>2, <3>3
  <2> QED BY <1>9, <2>1, <2>2 DEF SyncDir
<1>10. ASSUME NEW p \in Processes, InPlace(p)
       PROVE  SavesAreApart' /\ KeysAreSafe'
  <2>1. \/ Step(p, "inPlace", "running") \/ Step(p, "inPlace", "stat")
        \/ Step(p, "inPlace", "removeTmp")
    BY <1>10, Zenon DEF InPlace, Extracted
  <2> QED BY <1>10, <2>1, KeysQuiet DEF InPlace, TypeOK, Running
<1>11. ASSUME NEW p \in Processes, RemoveBinTmp(p)
       PROVE  SavesAreApart' /\ KeysAreSafe'
  BY <1>11, KeysQuiet DEF RemoveBinTmp, TypeOK, Running
<1>12. ASSUME NEW p \in Processes, CreateBin(p)
       PROVE  SavesAreApart' /\ KeysAreSafe'
  BY <1>12, KeysQuiet DEF CreateBin, TypeOK, Running
<1>13. ASSUME NEW p \in Processes, WriteBin(p)
       PROVE  SavesAreApart' /\ KeysAreSafe'
  BY <1>13, KeysQuiet DEF WriteBin, TypeOK, Running
<1>14. ASSUME NEW p \in Processes, VerifyBin(p)
       PROVE  SavesAreApart' /\ KeysAreSafe'
  BY <1>14, KeysQuiet DEF VerifyBin, TypeOK, Running
<1>15. ASSUME NEW p \in Processes, RenameBin(p)
       PROVE  SavesAreApart' /\ KeysAreSafe'
  BY <1>15, KeysQuiet DEF RenameBin, TypeOK, Running
<1>16. ASSUME NEW p \in Processes, SetImmutable(p)
       PROVE  SavesAreApart' /\ KeysAreSafe'
  <2>1. \/ Step(p, "immutable", "running") \/ Step(p, "immutable", "stat")
    BY <1>16, Zenon DEF SetImmutable, Extracted
  <2> QED BY <1>16, <2>1, KeysQuiet DEF SetImmutable, TypeOK, Running
<1>17. ASSUME NEW p \in Processes, ReadKey(p)
       PROVE  SavesAreApart' /\ KeysAreSafe'
  <2>1. CASE Fails(p, "readKey") /\ UNCHANGED <<key, eraRead>>
    BY <1>17, <2>1, KeysQuiet DEF ReadKey, TypeOK, Running
  <2>2. CASE /\ HasKey /\ Step(p, "readKey", "inPlace")
             /\ key' = [key EXCEPT ![p] = Loaded]
             /\ eraRead' = [eraRead EXCEPT ![p] = era]
    <3>1. Exists /\ Loaded = content[file]
      BY <2>2 DEF HasKey, Exists, Loaded, V!Contents
    <3>2. SavesAreApart'
      BY <1>17, <2>2 DEF ReadKey, SavesAreApart, TypeOK, fileVars, Exists
    <3>3. KeysAreSafe'
      BY <1>17, <2>2, <3>1
      DEF ReadKey, KeysAreSafe, TypeOK, Running, fileVars, Exists
    <3> QED BY <3>2, <3>3
  <2> QED BY <1>17, <2>1, <2>2 DEF ReadKey
<1>18. ASSUME NEW p \in Processes, Seal(p) PROVE SavesAreApart' /\ KeysAreSafe'
  <2>1. Running(p) /\ pc[p] = "running" BY <1>18 DEF Seal, RolesOK
  <2>2. SavesAreApart'
    BY <1>18 DEF Seal, SavesAreApart, TypeOK, fileVars, Exists
  <2>3. KeysAreSafe'
    BY <1>18, <2>1 DEF Seal, KeysAreSafe, TypeOK, Running, fileVars, Exists
  <2> QED BY <2>2, <2>3
<1>19. ASSUME NEW p \in Processes, Kill(p) PROVE SavesAreApart' /\ KeysAreSafe'
  <2>1. SavesAreApart' BY <1>19 DEF Kill, V!Quit, SavesAreApart, TypeOK, Exists
  <2>2. KeysAreSafe'
    BY <1>19 DEF Kill, V!Quit, KeysAreSafe, TypeOK, Running, Exists
  <2> QED BY <2>1, <2>2
<1>20. CASE PowerLoss
  <2>1. /\ file' \in onDisk /\ onDisk' = {file'} /\ fsynced' = Inodes
        /\ tmp' = NoInode \/ tmp' # file'
        /\ fd' = [q \in Processes |-> NoInode]
        /\ file' # NoInode => content'[file'] = content[file']
    BY <1>20 DEF PowerLoss, V!Reboot, KeysAreSafe, TypeOK
  <2>2. \A q \in Processes : pc'[q] \in {"idle", "ended"}
    BY <1>20 DEF PowerLoss
  <2>3. SavesAreApart' BY <2>1, <2>2 DEF SavesAreApart
  <2>4. \A m \in sealed :
          m.era <= era' /\ (m.era = era' => Exists' /\ content'[file'] = m.key)
    <3> SUFFICES ASSUME NEW m \in sealed
                 PROVE  /\ m.era <= era'
                        /\ m.era = era' => Exists' /\ content'[file'] = m.key
      OBVIOUS
    <3>1. m.era \in Nat /\ m.era <= era /\ m.key \in Key /\ era \in Nat
      BY DEF KeysAreSafe, TypeOK
    <3>2. CASE Loaded' = Loaded
      <4>1. era' = era BY <1>20, <3>2 DEF PowerLoss
      <4>2. CASE m.era = era
        <5>1. Loaded = m.key
          BY <4>2 DEF KeysAreSafe, Exists, Loaded, V!Contents
        <5>2. Exists' /\ content'[file'] = m.key
          BY <3>1, <3>2, <5>1, ContentsAssumption DEF Exists, Loaded,
              V!Contents
        <5> QED BY <3>1, <4>1, <5>2
      <4> QED BY <3>1, <4>1, <4>2
    <3>3. CASE Loaded' # Loaded
      <4>1. era' = era + 1 BY <1>20, <3>3 DEF PowerLoss
      <4> QED BY <3>1, <4>1
    <3> QED BY <3>2, <3>3
  <2>5. era' \in Nat /\ era <= era' BY <1>20 DEF PowerLoss, TypeOK
  <2>6. KeysAreSafe'
    BY <1>20, <2>1, <2>2, <2>4, <2>5
    DEF PowerLoss, KeysAreSafe, Running, TypeOK
  <2> QED BY <2>3, <2>6
<1>21. CASE UNCHANGED vars
  BY <1>21 DEF vars, fileVars, SavesAreApart, KeysAreSafe, Running, Exists,
      TypeOK
<1> QED BY <1>1, <1>2, <1>3, <1>4, <1>5, <1>6, <1>7, <1>8, <1>9, <1>10, <1>11,
         <1>12, <1>13, <1>14, <1>15, <1>16, <1>17, <1>18, <1>19, <1>20, <1>21
         DEF Next, Process

-----------------------------------------------------------------------------
(* The binary.                                                             *)

\* Who is not extracting, and does not begin to, leaves the binary alone.
LEMMA BinaryQuiet ==
  ASSUME TypeOK, BinaryIsSafe,
         NEW p \in Processes, pc' = [pc EXCEPT ![p] = pc'[p]],
         UNCHANGED <<bin, binTmp, whole, immutable>>,
         binFd' = binFd \/ binFd' = [binFd EXCEPT ![p] = NoBin],
         pc'[p] \notin Extracting \cup {"immutable", "running"}
  PROVE  BinaryIsSafe'
<1>1. \A r \in Processes : r # p => pc'[r] = pc[r] /\ binFd'[r] = binFd[r]
  BY DEF TypeOK
<1> QED BY <1>1 DEF TypeOK, BinaryIsSafe, Extracting

\* No step of extractions that do not overlap puts at the binary's path, or
\* makes immutable, what was not hashed.
LEMMA BinaryStep ==
  ASSUME VolumeInv, ~binRaced, ~binRaced', [Next]_vars
  PROVE  BinaryIsSafe'
<1>a. TypeOK /\ RolesOK /\ BinaryIsSafe BY DEF VolumeInv
<1> USE <1>a
<1> USE DEF Step, Exit, Fails, Saving, Extracting, binVars, historyVars
<1>1. ASSUME NEW p \in Processes, Start(p) PROVE BinaryIsSafe'
  <2>1. \/ Step(p, "idle", "readKey") \/ Step(p, "idle", "gate")
        \/ Step(p, "idle", "prepare")
    BY <1>1 DEF Start, TypeOK, Role
  <2>2. UNCHANGED binVars BY <1>1 DEF Start
  <2> QED BY <2>1, <2>2, BinaryQuiet DEF TypeOK
<1>2. ASSUME NEW p \in Processes, Gate(p) PROVE BinaryIsSafe'
  BY <1>2, BinaryQuiet DEF Gate, TypeOK
<1>3. ASSUME NEW p \in Processes, Prepare(p) PROVE BinaryIsSafe'
  BY <1>3, BinaryQuiet DEF Prepare, TypeOK
<1>4. ASSUME NEW p \in Processes, Stat(p) PROVE BinaryIsSafe'
  BY <1>4, BinaryQuiet DEF Stat, TypeOK
<1>5. ASSUME NEW p \in Processes, CreateTmp(p) PROVE BinaryIsSafe'
  BY <1>5, BinaryQuiet DEF CreateTmp, TypeOK
<1>6. ASSUME NEW p \in Processes, WriteTmp(p) PROVE BinaryIsSafe'
  BY <1>6, BinaryQuiet DEF WriteTmp, TypeOK
<1>7. ASSUME NEW p \in Processes, CloseTmp(p) PROVE BinaryIsSafe'
  BY <1>7, BinaryQuiet DEF CloseTmp, TypeOK
<1>8. ASSUME NEW p \in Processes, RenameTmp(p) PROVE BinaryIsSafe'
  BY <1>8, BinaryQuiet DEF RenameTmp, TypeOK
<1>9. ASSUME NEW p \in Processes, SyncDir(p) PROVE BinaryIsSafe'
  BY <1>9, BinaryQuiet DEF SyncDir, TypeOK
<1>10. ASSUME NEW p \in Processes, InPlace(p) PROVE BinaryIsSafe'
  <2>0. UNCHANGED binVars BY <1>10 DEF InPlace
  <2>1. CASE bin \in whole /\ Step(p, "inPlace", Extracted(p))
    <3>1. pc' = [pc EXCEPT ![p] = "running"] \/ pc' = [pc EXCEPT ![p] = "stat"]
      BY <2>1 DEF Extracted
    <3> QED BY <2>0, <2>1, <3>1 DEF BinaryIsSafe, TypeOK
  <2>2. CASE /\ Step(p, "inPlace", "removeTmp")
             /\ binRaced' = \/ binRaced
                            \/ \E q \in Processes : pc[q] \in Extracting
    <3>1. \A q \in Processes : pc[q] \notin Extracting BY <2>2, Zenon
    <3> QED BY <2>0, <2>2, <3>1 DEF BinaryIsSafe, TypeOK
  <2> QED BY <1>10, <2>1, <2>2 DEF InPlace, X!InPlace, X!Good
<1>11. ASSUME NEW p \in Processes, RemoveBinTmp(p) PROVE BinaryIsSafe'
  BY <1>11 DEF RemoveBinTmp, X!RemoveTmp, BinaryIsSafe, TypeOK
<1>12. ASSUME NEW p \in Processes, CreateBin(p) PROVE BinaryIsSafe'
  <2>1. CASE Fails(p, "createBin") /\ UNCHANGED binVars
    <3>1. pc' = [pc EXCEPT ![p] = "ended"] BY <2>1
    <3> QED BY <1>12, <2>1, <3>1, BinaryQuiet DEF TypeOK
  <2>2. CASE X!Create(p) /\ Step(p, "createBin", "writeBin")
    <3>1. PICK i \in BinInodes \ {bin} :
            /\ binTmp' = i /\ binFd' = [binFd EXCEPT ![p] = i]
            /\ whole' = whole \ {i} /\ immutable' = immutable \ {i}
            /\ UNCHANGED <<bin, binOnDisk>>
      BY <2>2 DEF X!Create, X!Free
    <3> QED BY <1>12, <2>2, <3>1, ContentsAssumption
        DEF CreateBin, BinaryIsSafe, TypeOK
  <2> QED BY <1>12, <2>1, <2>2 DEF CreateBin
<1>13. ASSUME NEW p \in Processes, WriteBin(p) PROVE BinaryIsSafe'
  <2>1. CASE Step(p, "writeBin", "verifyBin") /\ X!Write(p)
    BY <1>13, <2>1 DEF WriteBin, X!Write, BinaryIsSafe, TypeOK
  <2>2. CASE Fails(p, "writeBin") /\ X!GiveUp(p)
    BY <1>13, <2>2 DEF WriteBin, X!GiveUp, BinaryIsSafe, TypeOK
  <2> QED BY <1>13, <2>1, <2>2 DEF WriteBin
<1>14. ASSUME NEW p \in Processes, VerifyBin(p) PROVE BinaryIsSafe'
  BY <1>14 DEF VerifyBin, X!GiveUp, X!TmpVerified, X!Good, BinaryIsSafe, TypeOK
<1>15. ASSUME NEW p \in Processes, RenameBin(p) PROVE BinaryIsSafe'
  <2>1. CASE Step(p, "renameBin", "immutable") /\ X!Rename
    BY <1>15, <2>1 DEF RenameBin, X!Rename, BinaryIsSafe, TypeOK
  <2>2. CASE Fails(p, "renameBin") /\ X!GiveUp(p)
    BY <1>15, <2>2 DEF RenameBin, X!GiveUp, BinaryIsSafe, TypeOK
  <2> QED BY <1>15, <2>1, <2>2 DEF RenameBin
<1>16. ASSUME NEW p \in Processes, SetImmutable(p) PROVE BinaryIsSafe'
  <2>1. pc[p] = "immutable" /\ bin \in whole
    BY <1>16 DEF SetImmutable, BinaryIsSafe
  <2>2. pc' = [pc EXCEPT ![p] = "running"] \/ pc' = [pc EXCEPT ![p] = "stat"]
    BY <1>16 DEF SetImmutable, Extracted
  <2> QED BY <1>16, <2>1, <2>2
      DEF SetImmutable, X!SetImmutable, BinaryIsSafe, TypeOK
<1>17. ASSUME NEW p \in Processes, ReadKey(p) PROVE BinaryIsSafe'
  <2>1. CASE Fails(p, "readKey")
    <3>1. UNCHANGED binVars BY <1>17 DEF ReadKey
    <3>2. pc' = [pc EXCEPT ![p] = pc'[p]] /\ pc'[p] = "ended"
      BY <2>1 DEF TypeOK
    <3> QED BY <3>1, <3>2, BinaryQuiet
  <2>2. CASE Step(p, "readKey", "inPlace")
    BY <1>17, <2>2, BinaryQuiet DEF ReadKey, TypeOK
  <2> QED BY <1>17, <2>1, <2>2 DEF ReadKey
<1>18. ASSUME NEW p \in Processes, Seal(p) PROVE BinaryIsSafe'
  BY <1>18, BinaryQuiet DEF Seal, TypeOK
<1>19. ASSUME NEW p \in Processes, Kill(p) PROVE BinaryIsSafe'
  <2>1. /\ pc' = [pc EXCEPT ![p] = pc'[p]] /\ pc'[p] = "ended"
        /\ UNCHANGED <<bin, binTmp, whole, immutable>>
        /\ binFd' = [binFd EXCEPT ![p] = NoBin]
    BY <1>19 DEF Kill, X!Quit, TypeOK
  <2> QED BY <2>1, BinaryQuiet
<1>20. CASE PowerLoss
  <2>1. \A q \in Processes : pc'[q] \in {"idle", "ended"}
    BY <1>20 DEF PowerLoss
  <2>2. UNCHANGED <<whole, immutable>> BY <1>20 DEF PowerLoss, X!Reboot
  <2> QED BY <2>1, <2>2 DEF BinaryIsSafe
<1>21. CASE UNCHANGED vars
  BY <1>21 DEF vars, BinaryIsSafe, TypeOK
<1> QED BY <1>1, <1>2, <1>3, <1>4, <1>5, <1>6, <1>7, <1>8, <1>9, <1>10, <1>11,
         <1>12, <1>13, <1>14, <1>15, <1>16, <1>17, <1>18, <1>19, <1>20, <1>21
         DEF Next, Process

-----------------------------------------------------------------------------
(* The invariant, and the properties the run checks.                       *)

\* VolumeInv is preserved by every step.
LEMMA VolumeStep == ASSUME VolumeInv, [Next]_vars PROVE VolumeInv'
<1>1. TypeOK' /\ WritersAreOpen' /\ RolesOK'
  BY TypeStep, RolesStep DEF VolumeInv
<1>2. raced' \/ (SavesAreApart' /\ KeysAreSafe')
  BY KeysStep, RacedForGood DEF VolumeInv
<1>3. binRaced' \/ BinaryIsSafe'
  BY BinaryStep, RacedForGood DEF VolumeInv
<1> QED BY <1>1, <1>2, <1>3 DEF VolumeInv

\* What inits and runs can rely on holds in every state.
THEOREM VolumeCorrect == Spec => []VolumeInv
<1>1. Init => VolumeInv BY InitVolume
<1>2. VolumeInv /\ [Next]_vars => VolumeInv' BY VolumeStep
<1> QED BY <1>1, <1>2, PTL DEF Spec

\* version.go's promise: every manifest that was begun since the last reset
\* verifies under the key in the file, until two inits save at once.
THEOREM ManifestsAlwaysVerify == Spec => []ManifestsVerify
<1>1. ASSUME VolumeInv PROVE ManifestsVerify
  <2>1. SUFFICES ASSUME ~raced, NEW m \in sealed, m.era = era
                 PROVE  HasKey /\ Loaded = m.key
    BY DEF ManifestsVerify
  <2>2. Exists /\ content[file] = m.key /\ m.key \in Key
    BY <1>1, <2>1 DEF VolumeInv, KeysAreSafe, TypeOK
  <2> QED BY <2>2, ContentsAssumption
      DEF HasKey, Loaded, Readable, Exists, V!Contents
<1> QED BY <1>1, VolumeCorrect, PTL

\* An init that has ended well leaves a volume that runs can use, for ever.
THEOREM InitLeavesUsable == Spec => []InitIsUsable
<1>1. ASSUME VolumeInv, acked PROVE InitIsUsable
  <2>1. ASSUME ~raced PROVE HasKey
    <3>1. file \in onDisk /\ file # NoInode /\ content[file] \in Key
      BY <1>1, <2>1 DEF VolumeInv, SavesAreApart, KeysAreSafe
    <3> QED
      BY <3>1, ContentsAssumption DEF HasKey, Exists, Readable, V!Contents
  <2>2. ASSUME ~binRaced, bin \in immutable PROVE X!Good(bin)
    BY <1>1, <2>2 DEF VolumeInv, BinaryIsSafe, X!Good
  <2>3. marker BY <1>1 DEF VolumeInv, RolesOK
  <2> QED BY <2>1, <2>2, <2>3 DEF InitIsUsable
<1>2. VolumeInv => InitIsUsable BY <1>1 DEF InitIsUsable
<1> QED BY <1>2, VolumeCorrect, PTL

\* What a run executes is the embedded binary, until two extractions overlap.
THEOREM EmbeddedBinaryRuns == Spec => []RunsEmbeddedBinary
<1>1. VolumeInv => RunsEmbeddedBinary
  BY DEF VolumeInv, BinaryIsSafe, RunsEmbeddedBinary, X!Good
<1> QED BY <1>1, VolumeCorrect, PTL
=============================================================================
