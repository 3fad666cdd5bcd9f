----------------------------- MODULE VolumeInit -----------------------------
(***************************************************************************)
(* The key and the rsync binary of a volume: `flashbackup init`, with and    *)
(* without --reset-keys, and the preflight gates 7 to 9 of the runs that use *)
(* what it leaves.  Runs exclude each other by the lock, init takes none.    *)
(* Any process may fail, be killed or lose power.                            *)
(*                                                                           *)
(* version.json is its key, and a key is the init that drew it.  Directories *)
(* survive a power loss.                                                     *)
(***************************************************************************)
EXTENDS Integers, FiniteSets

CONSTANTS
  Processes,
  OldKey,                          \* of an init before this history
  Inodes, NoInode, Empty, Torn,    \* of version.json
  BinInodes, NoBin,                \* of the binary
  Faults                           \* what the environment may do

ASSUME FaultsAssumption == Faults \subseteq {"io", "kill", "power"}

Key == Processes \cup {OldKey}

ASSUME ContentsAssumption ==
  /\ Inodes # {} /\ NoInode \notin Inodes \cup {Empty, Torn}
  /\ {Empty, Torn, NoInode} \cap Key = {}
  /\ BinInodes # {} /\ NoBin \notin BinInodes

VARIABLES
  pc, role,
  key,                             \* the key a run has read
  exitCode,
  marker,                          \* .metadata_never_index is there
  file, tmp, content, fd, fsynced, onDisk,
  bin, binTmp, whole, binFd, immutable, binOnDisk,
  \* history
  sealed,                          \* manifests: the key, and the era it is of
  era,                             \* resets so far
  eraRead,                         \* the era in which a run read its key
  acked,                           \* an init has ended well
  raced, binRaced                  \* two saves, two extractions overlapped

V == INSTANCE AtomicWrite WITH Writers <- Processes
X == INSTANCE RsyncExtract
       WITH Writers <- Processes, Inodes <- BinInodes, NoInode <- NoBin

fileVars == <<file, tmp, content, fd, fsynced, onDisk>>
binVars == <<bin, binTmp, whole, binFd, immutable, binOnDisk>>
historyVars == <<sealed, era, eraRead, acked, raced, binRaced>>
vars == <<pc, role, key, exitCode, marker, fileVars, binVars, historyVars>>

Role == {"init", "reset", "run"}
Saving == {"create", "write", "close", "rename"}
Extracting == {"removeTmp", "createBin", "writeBin", "verifyBin", "renameBin"}
AtWork == {"gate", "prepare", "readKey", "inPlace", "immutable", "stat",
           "syncdir", "running"} \cup Saving \cup Extracting
PC == {"idle", "ended"} \cup AtWork

Readable == V!Contents \notin {Empty, Torn}
Exists == file # NoInode
Loaded == V!Contents               \* a key, or NoInode: no version.json
HasKey == Exists /\ Readable

Init ==
  /\ pc = [p \in Processes |-> "idle"]
  /\ role \in [Processes -> Role]
  /\ key = [p \in Processes |-> OldKey]
  /\ exitCode = [p \in Processes |-> -1]
  /\ marker = FALSE
  /\ V!Fresh({OldKey}) /\ X!Fresh
  /\ sealed = {} /\ era = 0 /\ eraRead = [p \in Processes |-> 0]
  /\ acked = FALSE /\ raced = FALSE /\ binRaced = FALSE

MayFail == "io" \in Faults
Step(p, from, to) == pc[p] = from /\ pc' = [pc EXCEPT ![p] = to]

Exit(p, code) ==
  /\ pc' = [pc EXCEPT ![p] = "ended"]
  /\ exitCode' = [exitCode EXCEPT ![p] = code]

\* A step of p that fails: an init exits with 1, a run's preflight with 2.
Fails(p, at) == pc[p] = at /\ Exit(p, IF role[p] = "run" THEN 2 ELSE 1)

-----------------------------------------------------------------------------
(* cmd/flashbackup/init.go: runInit.                                       *)

\* An existing version.json is refused before anything is touched.
Gate(p) ==
  /\ pc[p] = "gate"
  /\ \/ ~Exists /\ Step(p, "gate", "prepare") /\ UNCHANGED exitCode
     \/ Exists /\ Exit(p, 2)
     \/ MayFail /\ Fails(p, "gate")
  /\ UNCHANGED <<role, key, marker, fileVars, binVars, historyVars>>

\* The directory and the marker.
Prepare(p) ==
  /\ \/ /\ Step(p, "prepare", "inPlace")
        /\ marker' = TRUE /\ UNCHANGED exitCode
     \/ MayFail /\ Fails(p, "prepare") /\ UNCHANGED marker
  /\ UNCHANGED <<role, key, fileVars, binVars, historyVars>>

\* internal/state/version.go, InitVersionFile: looks once more, then saves.
StatSkipped(p) ==                  \* mutant: only runInit has looked
  /\ Step(p, "stat", "create")
  /\ raced' = (raced \/ \E q \in Processes : pc[q] \in Saving)
  /\ UNCHANGED <<role, key, exitCode, marker, fileVars, binVars,
                 sealed, era, eraRead, acked, binRaced>>

Stat(p) ==
  /\ \/ /\ role[p] = "init" => ~Exists
        /\ Step(p, "stat", "create")
        /\ raced' = (raced \/ \E q \in Processes : pc[q] \in Saving)
        /\ UNCHANGED exitCode
     \/ /\ MayFail \/ (role[p] = "init" /\ Exists)
        /\ Fails(p, "stat")
        /\ UNCHANGED raced
  /\ UNCHANGED <<role, key, marker, fileVars, binVars,
                 sealed, era, eraRead, acked, binRaced>>

CreateTmp(p) ==
  /\ \/ Step(p, "create", "write") /\ V!Create(p) /\ UNCHANGED exitCode
     \/ MayFail /\ Fails(p, "create") /\ UNCHANGED fileVars
  /\ UNCHANGED <<role, key, marker, binVars, historyVars>>

WriteTmp(p) ==
  /\ \/ Step(p, "write", "close") /\ V!Write(p, p) /\ UNCHANGED exitCode
     \/ MayFail /\ Fails(p, "write") /\ V!WriteFails(p)
  /\ UNCHANGED <<role, key, marker, binVars, historyVars>>

CloseTmp(p) ==
  /\ \/ Step(p, "close", "rename") /\ V!Close(p) /\ UNCHANGED exitCode
     \/ MayFail /\ Fails(p, "close") /\ V!Quit(p)
  /\ UNCHANGED <<role, key, marker, binVars, historyVars>>

\* A reset begins an era: no manifest of an earlier one will verify.
RenameTmp(p) ==
  /\ \/ /\ Step(p, "rename", "syncdir")
        /\ V!Rename
        /\ era' = IF role[p] = "reset" THEN era + 1 ELSE era
        /\ UNCHANGED exitCode
     \/ /\ MayFail \/ tmp = NoInode
        /\ Fails(p, "rename")
        /\ UNCHANGED <<fileVars, era>>
  /\ UNCHANGED <<role, key, marker, binVars,
                 sealed, eraRead, acked, raced, binRaced>>

SyncDirForgotten(p) ==             \* mutant: the directory is not fsynced
  /\ pc[p] = "syncdir" /\ Exit(p, 0) /\ acked' = TRUE
  /\ UNCHANGED <<role, key, marker, fileVars, binVars,
                 sealed, era, eraRead, raced, binRaced>>

SyncDir(p) ==
  /\ \/ pc[p] = "syncdir" /\ V!SyncDir /\ Exit(p, 0) /\ acked' = TRUE
     \/ MayFail /\ Fails(p, "syncdir") /\ UNCHANGED <<fileVars, acked>>
  /\ UNCHANGED <<role, key, marker, binVars,
                 sealed, era, eraRead, raced, binRaced>>

-----------------------------------------------------------------------------
(* internal/rsync/rsync.go: EnsureExtracted, in an init and in a run.      *)

Extracted(p) == IF role[p] = "run" THEN "running" ELSE "stat"

\* A binary that cannot be read is extracted again like one that is not it.
InPlace(p) ==
  /\ \/ X!InPlace /\ Step(p, "inPlace", Extracted(p)) /\ UNCHANGED binRaced
     \/ /\ ~X!InPlace \/ MayFail
        /\ Step(p, "inPlace", "removeTmp")
        /\ binRaced' = \/ binRaced
                       \/ \E q \in Processes : pc[q] \in Extracting
  /\ UNCHANGED <<role, key, exitCode, marker, fileVars, binVars,
                 sealed, era, eraRead, acked, raced>>

RemoveBinTmp(p) ==
  /\ Step(p, "removeTmp", "createBin")
  /\ X!RemoveTmp(MayFail)
  /\ UNCHANGED <<role, key, exitCode, marker, fileVars, historyVars>>

CreateBin(p) ==
  /\ \/ Step(p, "createBin", "writeBin") /\ X!Create(p) /\ UNCHANGED exitCode
     \/ /\ MayFail \/ binTmp # NoBin
        /\ Fails(p, "createBin")
        /\ UNCHANGED binVars
  /\ UNCHANGED <<role, key, marker, fileVars, historyVars>>

WriteBin(p) ==
  /\ \/ Step(p, "writeBin", "verifyBin") /\ X!Write(p) /\ UNCHANGED exitCode
     \/ MayFail /\ Fails(p, "writeBin") /\ X!GiveUp(p)
  /\ UNCHANGED <<role, key, marker, fileVars, historyVars>>

VerifyBin(p) ==
  /\ \/ /\ X!TmpVerified
        /\ Step(p, "verifyBin", "renameBin")
        /\ UNCHANGED <<exitCode, binVars>>
     \/ /\ ~X!TmpVerified \/ MayFail
        /\ Fails(p, "verifyBin") /\ X!GiveUp(p)
  /\ UNCHANGED <<role, key, marker, fileVars, historyVars>>

RenameBin(p) ==
  /\ \/ Step(p, "renameBin", "immutable") /\ X!Rename /\ UNCHANGED exitCode
     \/ /\ MayFail \/ ~X!CanRename
        /\ Fails(p, "renameBin") /\ X!GiveUp(p)
  /\ UNCHANGED <<role, key, marker, fileVars, historyVars>>

SetImmutable(p) ==
  /\ Step(p, "immutable", Extracted(p))
  /\ X!SetImmutable
  /\ UNCHANGED <<role, key, exitCode, marker, fileVars, historyVars>>

-----------------------------------------------------------------------------
(* internal/preflight: gates 7 to 9 of a run, and the manifest it seals.   *)

Running(p) == role[p] = "run" /\ pc[p] \in AtWork

\* Gate 7 is the lock: one run at a time.
Start(p) ==
  /\ role[p] = "run" => \A q \in Processes : ~Running(q)
  /\ Step(p, "idle", CASE role[p] = "init" -> "gate"
                       [] role[p] = "reset" -> "prepare"
                       [] role[p] = "run" -> "readKey")
  /\ UNCHANGED <<role, key, exitCode, marker, fileVars, binVars, historyVars>>

\* Gate 8: no key, no run.  A document that does not parse is never replaced.
ReadKey(p) ==
  /\ \/ /\ HasKey
        /\ Step(p, "readKey", "inPlace")
        /\ key' = [key EXCEPT ![p] = Loaded]
        /\ eraRead' = [eraRead EXCEPT ![p] = era]
        /\ UNCHANGED exitCode
     \/ /\ MayFail \/ ~HasKey
        /\ Fails(p, "readKey")
        /\ UNCHANGED <<key, eraRead>>
  /\ UNCHANGED <<role, marker, fileVars, binVars,
                 sealed, era, acked, raced, binRaced>>

\* The key it read is the key of its manifest, whatever the file holds by now.
Seal(p) ==
  /\ pc[p] = "running" /\ Exit(p, 0)
  /\ sealed' = sealed \cup {[key |-> key[p], era |-> eraRead[p]]}
  /\ UNCHANGED <<role, key, marker, fileVars, binVars,
                 era, eraRead, acked, raced, binRaced>>

-----------------------------------------------------------------------------
(* The environment.                                                        *)

Kill(p) ==
  /\ "kill" \in Faults
  /\ pc[p] \in AtWork
  /\ Exit(p, 130)
  /\ V!Quit(p) /\ X!Quit(p)
  /\ UNCHANGED <<role, key, marker, historyVars>>

\* A key that a power loss takes back ends an era as a reset does.
PowerLoss ==
  /\ "power" \in Faults
  /\ \E p \in Processes : pc[p] \in AtWork
  /\ pc' = [p \in Processes |-> IF pc[p] = "idle" THEN "idle" ELSE "ended"]
  /\ exitCode' = [p \in Processes |->
                    IF pc[p] \in AtWork THEN 130 ELSE exitCode[p]]
  /\ V!Reboot /\ X!Reboot
  /\ era' = IF Loaded' = Loaded THEN era ELSE era + 1
  /\ UNCHANGED <<role, key, marker, sealed, eraRead, acked, raced, binRaced>>

-----------------------------------------------------------------------------
Process(p) ==
  \/ Start(p) \/ Gate(p) \/ Prepare(p) \/ Stat(p) \/ CreateTmp(p)
  \/ WriteTmp(p) \/ CloseTmp(p) \/ RenameTmp(p) \/ SyncDir(p)
  \/ InPlace(p) \/ RemoveBinTmp(p) \/ CreateBin(p) \/ WriteBin(p)
  \/ VerifyBin(p) \/ RenameBin(p) \/ SetImmutable(p)
  \/ ReadKey(p) \/ Seal(p)

Next == PowerLoss \/ \E p \in Processes : Process(p) \/ Kill(p)

Spec == Init /\ [][Next]_vars

-----------------------------------------------------------------------------
(* Properties.                                                             *)

TypeOK ==
  /\ pc \in [Processes -> PC] /\ role \in [Processes -> Role]
  /\ key \in [Processes -> Key]
  /\ exitCode \in [Processes -> {-1, 0, 1, 2, 130}]
  /\ marker \in BOOLEAN
  /\ file \in Inodes \cup {NoInode} /\ tmp \in Inodes \cup {NoInode}
  /\ content \in [Inodes -> Key \cup {Empty, Torn}]
  /\ fd \in [Processes -> Inodes \cup {NoInode}]
  /\ fsynced \subseteq Inodes /\ onDisk \subseteq Inodes \cup {NoInode}
  /\ bin \in BinInodes \cup {NoBin} /\ binTmp \in BinInodes \cup {NoBin}
  /\ binFd \in [Processes -> BinInodes \cup {NoBin}]
  /\ whole \subseteq BinInodes /\ immutable \subseteq BinInodes
  /\ binOnDisk \subseteq BinInodes \cup {NoBin}
  /\ sealed \subseteq [key : Key, era : Nat] /\ era \in Nat
  /\ eraRead \in [Processes -> Nat]
  /\ acked \in BOOLEAN /\ raced \in BOOLEAN /\ binRaced \in BOOLEAN

\* Inits that save one at a time: version.json.tmp is its writer's alone.
SavesAreApart ==
  /\ tmp \notin onDisk \ {NoInode} /\ file \in onDisk
  /\ \A p, q \in Processes :
       pc[p] \in Saving /\ pc[q] \in Saving => p = q
  /\ \A p \in Processes :
       /\ pc[p] \in Saving /\ role[p] = "init" => ~Exists
       /\ pc[p] \in {"write", "close"} => fd[p] = tmp /\ tmp # NoInode
       /\ pc[p] \notin {"write", "close"} => fd[p] = NoInode
       /\ pc[p] = "write" => content[tmp] = Empty
       /\ pc[p] = "close" => content[tmp] = p
       /\ pc[p] = "rename" =>
            tmp # NoInode /\ content[tmp] = p /\ tmp \in fsynced
       /\ pc[p] = "syncdir" => Exists

\* What a power loss may leave is on the medium, and no one has another key of
\* this era.
KeysAreSafe ==
  /\ \A i \in onDisk \ {NoInode} : i \in fsynced /\ content[i] \in Key
  /\ acked => NoInode \notin onDisk
  /\ \A m \in sealed :
       m.era <= era /\ (m.era = era => Exists /\ content[file] = m.key)
  /\ \A p \in Processes :
       /\ eraRead[p] <= era
       /\ Running(p) /\ pc[p] # "readKey" /\ eraRead[p] = era =>
            Exists /\ content[file] = key[p]

\* Extractions one at a time: only the binary becomes immutable.
BinaryIsSafe ==
  /\ immutable \subseteq whole
  /\ \A p, q \in Processes :
       pc[p] \in Extracting /\ pc[q] \in Extracting => p = q
  /\ \A p \in Processes :
       /\ pc[p] = "writeBin" => binFd[p] = binTmp /\ binTmp # NoBin
       /\ pc[p] \in {"verifyBin", "renameBin"} => binTmp \in whole
       /\ pc[p] \in {"immutable", "running"} => bin \in whole

\* A run saves no key and an init reads none; past its first steps an init has
\* left the marker.
RolesOK ==
  /\ acked => marker
  /\ \A p \in Processes :
       /\ pc[p] \in {"gate", "prepare", "stat", "syncdir"} \cup Saving =>
            role[p] # "run"
       /\ pc[p] \in {"readKey", "running"} => role[p] = "run"
       /\ pc[p] \in AtWork \ {"gate", "prepare"} =>
            role[p] = "run" \/ marker

\* Who writes has a file open, and there is a binary to be made immutable.
WritersAreOpen ==
  \A p \in Processes :
    /\ pc[p] \in {"write", "close"} => fd[p] # NoInode
    /\ pc[p] = "writeBin" => binFd[p] # NoBin
    /\ pc[p] = "immutable" => bin # NoBin

\* Every variable has its type, and what inits that do not overlap can rely on:
\* the temporary files are their writers', what is in place is whole, and the
\* key in the file is the key of all that was begun in this era.
VolumeInv ==
  /\ TypeOK /\ WritersAreOpen /\ RolesOK
  /\ raced \/ (SavesAreApart /\ KeysAreSafe)
  /\ binRaced \/ BinaryIsSafe

\* version.go:40-46 and 73-76: the key changes by a reset alone.  As long as no
\* two inits save at once, every manifest that was begun since the last reset
\* verifies under the key in the file, whatever was killed or refused since.
ManifestsVerify ==
  raced \/ \A m \in sealed : m.era = era => HasKey /\ Loaded = m.key

\* An init that has exited with 0 leaves a volume that runs can use, for ever:
\* a key to read, and the binary in place or a place where it can be put.
InitIsUsable ==
  acked =>
    /\ raced \/ HasKey
    /\ binRaced \/ bin \notin immutable \/ X!Good(bin)
    /\ marker

\* What a run executes is the embedded binary, whatever was at its path, as
\* long as no two extractions overlap.
RunsEmbeddedBinary ==
  \A p \in Processes : pc[p] = "running" => binRaced \/ X!Good(bin)
=============================================================================
