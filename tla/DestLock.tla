------------------------------ MODULE DestLock ------------------------------
(***************************************************************************)
(* The destination lock, .flashbackup/lock: lock.Acquire and Release as    *)
(* several invocations of `flashbackup backup` and `flashbackup verify` on *)
(* one machine interleave in them.                                         *)
(*                                                                         *)
(* An invocation runs once, with a PID of its own.  The lock file is named *)
(* by the invocation that created it, for the lock it writes tells no      *)
(* more: its PID and the start time it recorded.  Unlinking goes by the    *)
(* path, reading and writing by the open file.  A file that an earlier     *)
(* session left behind is a member of Leftovers.                           *)
(***************************************************************************)
EXTENDS Integers, FiniteSets

CONSTANTS
  Procs,        \* the invocations
  Nobody,       \* no lock file
  Leftovers,    \* what earlier sessions may have left behind
  Lags,         \* recorded minus real start time, in seconds
  Faults        \* "io", "ps", "cancel", "crash"

\* Not JSON; of another machine; of a PID that is gone; of a PID that belongs
\* to another program now.
LeftoverKinds == {"torn", "foreign", "dead", "recycled"}
FaultKinds == {"io", "ps", "cancel", "crash"}

ASSUME ProcsAssumption ==
  /\ Leftovers \subseteq LeftoverKinds
  /\ Procs \cap LeftoverKinds = {}
  /\ Nobody \notin Procs \cup Leftovers
ASSUME LagsAssumption == Lags \subseteq Int
ASSUME LockFaultsAssumption == Faults \subseteq FaultKinds

VARIABLES
  file,         \* whose lock file is at the path
  written,      \* invocations whose file has its JSON
  pc,
  attempt,      \* the loop counter of Acquire
  seen,         \* whose file tryAcquireOnce has opened
  lag,          \* StartTimeUnix minus what ps reports, once Acquire is called
  \* history
  overlaps,     \* called Acquire while another invocation was inside it
  alone,        \* since its call of Acquire no other invocation was alive
  faulted       \* hit by an I/O error, a failing ps, a cancellation, a crash

callVars == <<attempt, seen, lag>>
vars == <<file, written, pc, callVars, overlaps, alone, faulted>>

Creating == {"create", "open", "judge", "remove"}
Owning == {"write", "sync", "undo"}
Acquiring == Creating \cup Owning
PC == {"idle", "hold", "released", "refused", "failed", "exited"}
        \cup Acquiring

Init ==
  /\ file \in Leftovers \cup {Nobody}
  /\ written = {}
  /\ pc = [p \in Procs |-> "idle"]
  /\ attempt = [p \in Procs |-> 1]
  /\ seen = [p \in Procs |-> Nobody]
  /\ lag \in [Procs -> Lags]
  /\ overlaps = {} /\ alone = {} /\ faulted = {}

Goto(p, from, to) == pc[p] = from /\ pc' = [pc EXCEPT ![p] = to]
Fault(p, kind) == kind \in Faults /\ faulted' = faulted \cup {p}

Running(p) == pc[p] \notin {"idle", "exited"}

\* Acquire is called.  selfStart is captured here, not when the process
\* starts: preflight's first gates and the DELETE prompt have passed by then.
Start(p) ==
  /\ \/ Goto(p, "idle", "create") /\ UNCHANGED faulted
     \/ Goto(p, "idle", "failed") /\ Fault(p, "cancel")
  /\ overlaps' = IF \E q \in Procs : pc[q] \in Acquiring
                 THEN overlaps \cup {p} ELSE overlaps
  /\ alone' = IF \E q \in Procs : Running(q) THEN {} ELSE {p}
  /\ UNCHANGED <<file, written, callVars>>

\* open(O_CREAT|O_EXCL).
Create(p) ==
  /\ \/ Goto(p, "create", "write") /\ file = Nobody
        /\ file' = p /\ UNCHANGED faulted
     \/ Goto(p, "create", "open") /\ file # Nobody
        /\ UNCHANGED <<file, faulted>>
     \/ Goto(p, "create", "failed") /\ Fault(p, "io") /\ UNCHANGED file
  /\ UNCHANGED <<written, callVars, overlaps, alone>>

\* Open the existing file for reading; it may be gone by now.
OpenExisting(p) ==
  /\ \/ Goto(p, "open", "judge") /\ file # Nobody
        /\ seen' = [seen EXCEPT ![p] = file] /\ UNCHANGED faulted
     \/ Goto(p, "open", "failed") /\ file = Nobody
        /\ UNCHANGED <<seen, faulted>>
     \/ Goto(p, "open", "failed") /\ Fault(p, "io") /\ UNCHANGED seen
  /\ UNCHANGED <<file, written, attempt, lag, overlaps, alone>>

-----------------------------------------------------------------------------
(* Stale or held?                                                          *)

Decodes(s) == s \in written \/ s \in Leftovers \ {"torn"}
ThisHost(s) == s # "foreign"

AliveNever(s) == FALSE                   \* mutant: EPERM counts as dead
Alive(s) == s = "recycled" \/ (s \in Procs /\ Running(s))

StartMatches(s) == s \in Procs /\ lag[s] \in -5..5

\* Without an answer from ps the lock counts as held.
Judge(p) ==
  LET live == Decodes(seen[p]) /\ ThisHost(seen[p]) /\ Alive(seen[p])
  IN /\ \/ Goto(p, "judge", "refused") /\ live /\ StartMatches(seen[p])
           /\ UNCHANGED faulted
        \/ Goto(p, "judge", "refused") /\ live /\ Fault(p, "ps")
        \/ Goto(p, "judge", "remove") /\ ~(live /\ StartMatches(seen[p]))
           /\ UNCHANGED faulted
     /\ seen' = [seen EXCEPT ![p] = Nobody]      \* closed
     /\ UNCHANGED <<file, written, attempt, lag, overlaps, alone>>

AttemptsOne == 1                         \* mutant: no retry
Attempts == 2

\* os.Remove by path, its error ignored; then the next attempt, if any.
RemoveStale(p) ==
  /\ IF attempt[p] < Attempts
     THEN /\ Goto(p, "remove", "create")
          /\ attempt' = [attempt EXCEPT ![p] = @ + 1]
     ELSE Goto(p, "remove", "failed") /\ UNCHANGED attempt
  /\ \/ file' = Nobody /\ UNCHANGED faulted
     \/ Fault(p, "io") /\ UNCHANGED file
  /\ UNCHANGED <<written, seen, lag, overlaps, alone>>

-----------------------------------------------------------------------------
(* finishAcquire and Release.                                              *)

\* The nonce and the JSON, one write.
WriteLock(p) ==
  /\ \/ Goto(p, "write", "sync")
        /\ written' = written \cup {p} /\ UNCHANGED faulted
     \/ Goto(p, "write", "undo") /\ Fault(p, "io") /\ UNCHANGED written
  /\ UNCHANGED <<file, callVars, overlaps, alone>>

\* fsync, then flock: of a file of one's own, so nobody else can hold it.
SyncLock(p) ==
  /\ \/ Goto(p, "sync", "hold") /\ UNCHANGED faulted
     \/ Goto(p, "sync", "undo") /\ Fault(p, "io")
  /\ UNCHANGED <<file, written, callVars, overlaps, alone>>

\* An error of finishAcquire: remove what is at the path.
UndoAcquire(p) ==
  /\ Goto(p, "undo", "failed")
  /\ file' \in {Nobody, file}
  /\ UNCHANGED <<written, callVars, overlaps, alone, faulted>>

ReleaseCloses(p) ==                      \* mutant: the file is not removed
  /\ Goto(p, "hold", "released")
  /\ UNCHANGED <<file, written, callVars, overlaps, alone, faulted>>

\* Close, then remove by path; that there is nothing to remove is no error.
Release(p) ==
  /\ Goto(p, "hold", "released")
  /\ \/ file' = Nobody /\ UNCHANGED faulted
     \/ Fault(p, "io") /\ UNCHANGED file
  /\ UNCHANGED <<written, callVars, overlaps, alone>>

\* The process ends, and its PID is gone.
ExitProcess(p) ==
  /\ pc[p] \in {"released", "refused", "failed"}
  /\ pc' = [pc EXCEPT ![p] = "exited"]
  /\ UNCHANGED <<file, written, callVars, overlaps, alone, faulted>>

\* Killed, or the second Ctrl-C: no defer runs.
Crash(p) ==
  /\ Running(p)
  /\ pc' = [pc EXCEPT ![p] = "exited"]
  /\ Fault(p, "crash")
  /\ UNCHANGED <<file, written, callVars, overlaps, alone>>

Step(p) ==
  \/ Create(p) \/ OpenExisting(p) \/ Judge(p) \/ RemoveStale(p)
  \/ WriteLock(p) \/ SyncLock(p) \/ UndoAcquire(p) \/ Release(p)
  \/ ExitProcess(p)

Next == \E p \in Procs : Start(p) \/ Step(p) \/ Crash(p)

Spec == Init /\ [][Next]_vars

-----------------------------------------------------------------------------
(* Properties.                                                             *)

TypeOK ==
  /\ file \in Procs \cup Leftovers \cup {Nobody}
  /\ written \subseteq Procs
  /\ pc \in [Procs -> PC]
  /\ attempt \in [Procs -> 1..Attempts]
  /\ seen \in [Procs -> Procs \cup Leftovers \cup {Nobody}]
  /\ lag \in [Procs -> Lags]
  /\ overlaps \subseteq Procs /\ alone \subseteq Procs
  /\ faulted \subseteq Procs

Holders == {p \in Procs : pc[p] = "hold"}

\* The conditions under which the lock excludes: calls of Acquire do not
\* overlap, and each is made within five seconds of the process's start.
Orderly == overlaps = {} /\ \A p \in Procs : lag[p] \in -5..5

\* Two invocations hold the lock at once only if two calls of Acquire
\* overlapped, or a holder took more than five seconds to call Acquire.
\* Crashes, I/O errors, stale files and a failing ps alone do not do it.
OrderlyExclusion ==
  Orderly => \A p \in Holders, q \in Holders : p = q

\* Whatever an earlier session or a crash has left at the path, an invocation
\* that meets neither another one nor a fault gets the lock.
AloneAcquires ==
  \A p \in alone \ faulted : pc[p] \notin {"refused", "failed"}

\* In any interleaving, the lock file is of an invocation that still runs,
\* or of one that was hit by a fault: an orderly exit leaves nothing stale.
LockFileHasOwner ==
  file \in Procs => pc[file] \in Owning \cup {"hold"} \/ file \in faulted

-----------------------------------------------------------------------------
(* Why it excludes: an inductive invariant.                                *)

\* Without overlap one invocation at most is inside Acquire.
OneInside ==
  overlaps = {} =>
    \A p, q \in Procs : pc[p] \in Acquiring /\ pc[q] \in Acquiring => p = q

\* Then the file at the path is the holder's, complete and judged live; who
\* is about to remove a stale one has nobody's lock before it.
FileIsHolders ==
  Orderly => \A p \in Procs :
    /\ pc[p] \in Owning \cup {"hold"} => file = p
    /\ pc[p] \in {"sync", "hold"} => p \in written
    /\ pc[p] \in Creating => file # p
    /\ pc[p] = "judge" => /\ seen[p] \notin {p, Nobody}
                          /\ file \in {seen[p], Nobody}
    /\ pc[p] = "remove" => Holders = {}

\* An invocation leaves no trace before it calls Acquire, and only an error
\* of finishAcquire leads to its clean-up.
CallOK ==
  \A p \in Procs :
    /\ pc[p] = "idle" => file # p /\ attempt[p] = 1
    /\ pc[p] = "undo" => p \in faulted

\* An invocation without company and without a fault finds no lock file, or a
\* stale one that it removes; its second attempt finds none.
AloneOK ==
  \A p \in alone \ faulted :
    /\ \A q \in Procs \ {p} : ~Running(q)
    /\ pc[p] \in {"open", "judge", "remove"} => attempt[p] = 1
    /\ pc[p] = "create" /\ attempt[p] # 1 => file = Nobody
    /\ pc[p] \in Creating => file # p
    /\ pc[p] = "open" => file # Nobody
    /\ pc[p] = "judge" => seen[p] = file /\ file # Nobody
    /\ pc[p] \notin {"refused", "failed"}

LockInv == TypeOK /\ OneInside /\ FileIsHolders /\ CallOK
             /\ AloneOK /\ LockFileHasOwner

-----------------------------------------------------------------------------
(* What comments of the code promise, and the code does not do.            *)

\* verify.go:209, "the shared lock prevents a concurrent backup".
MutualExclusion == \A p \in Holders, q \in Holders : p = q

\* lock.go:80-83: a start time captured at the first call of Acquire "is
\* sufficient for stale-detection".  The lock of a running holder is not
\* taken for a stale one by an invocation that comes later.
CapturedStartSuffices ==
  overlaps = {} => \A p \in Holders, q \in Holders : p = q
=============================================================================
