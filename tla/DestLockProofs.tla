--------------------------- MODULE DestLockProofs ---------------------------
(***************************************************************************)
(* What is proved of DestLock for any number of invocations, any start     *)
(* times, any leftover and any faults.                                     *)
(*                                                                         *)
(* OrderlyExclusion alone is not inductive: that a holder's file is the    *)
(* one at the path, complete, and never judged stale is FileIsHolders, and *)
(* that nobody else is about to create or remove one is OneInside.         *)
(***************************************************************************)
EXTENDS DestLock, TLAPS

\* No lock is held, and nobody is inside Acquire, before the first call.
LEMMA InvInit == ASSUME Init PROVE LockInv
<1> USE DEF Init, Acquiring, Creating, Owning
<1>1. TypeOK BY DEF TypeOK, PC, Attempts
<1>2. OneInside BY DEF OneInside
<1>3. FileIsHolders BY DEF FileIsHolders, Holders
<1>4. CallOK /\ AloneOK BY ProcsAssumption DEF CallOK, AloneOK
<1>5. LockFileHasOwner BY ProcsAssumption DEF LockFileHasOwner
<1> QED BY <1>1, <1>2, <1>3, <1>4, <1>5 DEF LockInv

\* Every variable keeps its type.
LEMMA TypeStep == ASSUME TypeOK, [Next]_vars PROVE TypeOK'
<1> USE DEF TypeOK, PC, Acquiring, Creating, Owning, Attempts, callVars,
  Goto, Fault
<1>1. ASSUME NEW p \in Procs, Start(p) PROVE TypeOK' BY <1>1 DEF Start
<1>2. ASSUME NEW p \in Procs, Create(p) PROVE TypeOK' BY <1>2 DEF Create
<1>3. ASSUME NEW p \in Procs, OpenExisting(p) PROVE TypeOK'
  BY <1>3 DEF OpenExisting
<1>4. ASSUME NEW p \in Procs, Judge(p) PROVE TypeOK' BY <1>4 DEF Judge
<1>5. ASSUME NEW p \in Procs, RemoveStale(p) PROVE TypeOK'
  BY <1>5 DEF RemoveStale
<1>6. ASSUME NEW p \in Procs, WriteLock(p) PROVE TypeOK' BY <1>6 DEF WriteLock
<1>7. ASSUME NEW p \in Procs, SyncLock(p) PROVE TypeOK' BY <1>7 DEF SyncLock
<1>8. ASSUME NEW p \in Procs, UndoAcquire(p) PROVE TypeOK'
  BY <1>8 DEF UndoAcquire
<1>9. ASSUME NEW p \in Procs, Release(p) PROVE TypeOK' BY <1>9 DEF Release
<1>10. ASSUME NEW p \in Procs, ExitProcess(p) PROVE TypeOK'
  BY <1>10 DEF ExitProcess
<1>11. ASSUME NEW p \in Procs, Crash(p) PROVE TypeOK' BY <1>11 DEF Crash
<1>12. CASE UNCHANGED vars BY <1>12 DEF vars
<1> QED BY <1>1, <1>2, <1>3, <1>4, <1>5, <1>6, <1>7, <1>8, <1>9, <1>10,
         <1>11, <1>12 DEF Next, Step

\* Only Start brings an invocation into Acquire, and it notes the overlap.
LEMMA InsideStep ==
  ASSUME TypeOK, OneInside, [Next]_vars
  PROVE  OneInside'
<1> USE DEF TypeOK, OneInside, Acquiring, Creating, Owning, callVars, Goto,
  Fault
<1>1. ASSUME NEW p \in Procs, Start(p) PROVE OneInside' BY <1>1 DEF Start
<1>2. ASSUME NEW p \in Procs, Create(p) PROVE OneInside' BY <1>2 DEF Create
<1>3. ASSUME NEW p \in Procs, OpenExisting(p) PROVE OneInside'
  BY <1>3 DEF OpenExisting
<1>4. ASSUME NEW p \in Procs, Judge(p) PROVE OneInside' BY <1>4 DEF Judge
<1>5. ASSUME NEW p \in Procs, RemoveStale(p) PROVE OneInside'
  BY <1>5 DEF RemoveStale
<1>6. ASSUME NEW p \in Procs, WriteLock(p) PROVE OneInside'
  BY <1>6 DEF WriteLock
<1>7. ASSUME NEW p \in Procs, SyncLock(p) PROVE OneInside'
  BY <1>7 DEF SyncLock
<1>8. ASSUME NEW p \in Procs, UndoAcquire(p) PROVE OneInside'
  BY <1>8 DEF UndoAcquire
<1>9. ASSUME NEW p \in Procs, Release(p) PROVE OneInside' BY <1>9 DEF Release
<1>10. ASSUME NEW p \in Procs, ExitProcess(p) PROVE OneInside'
  BY <1>10 DEF ExitProcess
<1>11. ASSUME NEW p \in Procs, Crash(p) PROVE OneInside' BY <1>11 DEF Crash
<1>12. CASE UNCHANGED vars BY <1>12 DEF vars
<1> QED BY <1>1, <1>2, <1>3, <1>4, <1>5, <1>6, <1>7, <1>8, <1>9, <1>10,
         <1>11, <1>12 DEF Next, Step

\* No step takes the path from a holder, or makes its lock look stale.
LEMMA FileStep ==
  ASSUME TypeOK, OneInside, CallOK, FileIsHolders, [Next]_vars
  PROVE  FileIsHolders'
<1> SUFFICES ASSUME Orderly' PROVE FileIsHolders' BY DEF FileIsHolders
<1> USE ProcsAssumption
<1> USE DEF TypeOK, OneInside, CallOK, FileIsHolders, Orderly, Holders,
  Acquiring, Creating, Owning, callVars, Goto, Fault
<1>1. ASSUME NEW p \in Procs, Start(p) PROVE FileIsHolders' BY <1>1 DEF Start
<1>2. ASSUME NEW p \in Procs, Create(p) PROVE FileIsHolders'
  BY <1>2 DEF Create
<1>3. ASSUME NEW p \in Procs, OpenExisting(p) PROVE FileIsHolders'
  BY <1>3 DEF OpenExisting
<1>4. ASSUME NEW p \in Procs, Judge(p) PROVE FileIsHolders'
  <2>1. CASE pc'[p] = "refused" BY <1>4, <2>1 DEF Judge
  <2>2. CASE pc'[p] = "remove"
    <3>1. ASSUME NEW q \in Holders PROVE FALSE
      <4>1. q # p /\ file = q /\ q \in written BY <1>4, <3>1 DEF Judge
      <4>2. seen[p] = q BY <1>4, <4>1 DEF Judge
      <4>3. Alive(q) BY <3>1 DEF Alive, Running
      <4>4. Decodes(q) /\ ThisHost(q)
        BY <4>1, <3>1 DEF Decodes, ThisHost, LeftoverKinds
      <4>5. StartMatches(q) BY <1>4, <3>1 DEF StartMatches, Judge
      <4> QED BY <1>4, <2>2, <4>2, <4>3, <4>4, <4>5 DEF Judge
    <3>2. Holders' = {} BY <1>4, <2>2, <3>1 DEF Judge
    <3> QED BY <1>4, <2>2, <3>2 DEF Judge
  <2> QED BY <1>4, <2>1, <2>2 DEF Judge
<1>5. ASSUME NEW p \in Procs, RemoveStale(p) PROVE FileIsHolders'
  BY <1>5 DEF RemoveStale
<1>6. ASSUME NEW p \in Procs, WriteLock(p) PROVE FileIsHolders'
  BY <1>6 DEF WriteLock
<1>7. ASSUME NEW p \in Procs, SyncLock(p) PROVE FileIsHolders'
  BY <1>7 DEF SyncLock
<1>8. ASSUME NEW p \in Procs, UndoAcquire(p) PROVE FileIsHolders'
  BY <1>8 DEF UndoAcquire
<1>9. ASSUME NEW p \in Procs, Release(p) PROVE FileIsHolders'
  BY <1>9 DEF Release
<1>10. ASSUME NEW p \in Procs, ExitProcess(p) PROVE FileIsHolders'
  BY <1>10 DEF ExitProcess
<1>11. ASSUME NEW p \in Procs, Crash(p) PROVE FileIsHolders'
  BY <1>11 DEF Crash
<1>12. CASE UNCHANGED vars BY <1>12 DEF vars
<1> QED BY <1>1, <1>2, <1>3, <1>4, <1>5, <1>6, <1>7, <1>8, <1>9, <1>10,
         <1>11, <1>12 DEF Next, Step

\* A file at the path has an owner, or its owner was hit by a fault.
LEMMA OwnerStep ==
  ASSUME TypeOK, CallOK, LockFileHasOwner, [Next]_vars
  PROVE  CallOK' /\ LockFileHasOwner'
<1> DEFINE OwnerOK == CallOK /\ LockFileHasOwner
<1> SUFFICES OwnerOK' OBVIOUS
<1> USE ProcsAssumption
<1> USE DEF TypeOK, CallOK, LockFileHasOwner, Owning, callVars, Goto,
  Fault
<1>1. ASSUME NEW p \in Procs, Start(p) PROVE OwnerOK' BY <1>1 DEF Start
<1>2. ASSUME NEW p \in Procs, Create(p) PROVE OwnerOK' BY <1>2 DEF Create
<1>3. ASSUME NEW p \in Procs, OpenExisting(p) PROVE OwnerOK'
  BY <1>3 DEF OpenExisting
<1>4. ASSUME NEW p \in Procs, Judge(p) PROVE OwnerOK' BY <1>4 DEF Judge
<1>5. ASSUME NEW p \in Procs, RemoveStale(p) PROVE OwnerOK'
  BY <1>5 DEF RemoveStale
<1>6. ASSUME NEW p \in Procs, WriteLock(p) PROVE OwnerOK'
  BY <1>6 DEF WriteLock
<1>7. ASSUME NEW p \in Procs, SyncLock(p) PROVE OwnerOK' BY <1>7 DEF SyncLock
<1>8. ASSUME NEW p \in Procs, UndoAcquire(p) PROVE OwnerOK'
  BY <1>8 DEF UndoAcquire
<1>9. ASSUME NEW p \in Procs, Release(p) PROVE OwnerOK' BY <1>9 DEF Release
<1>10. ASSUME NEW p \in Procs, ExitProcess(p) PROVE OwnerOK'
  BY <1>10 DEF ExitProcess
<1>11. ASSUME NEW p \in Procs, Crash(p) PROVE OwnerOK' BY <1>11 DEF Crash
<1>12. CASE UNCHANGED vars BY <1>12 DEF vars
<1> QED BY <1>1, <1>2, <1>3, <1>4, <1>5, <1>6, <1>7, <1>8, <1>9, <1>10,
         <1>11, <1>12 DEF Next, Step

\* Alone and without a fault, an invocation only meets stale files.
LEMMA AloneStep ==
  ASSUME TypeOK, CallOK, LockFileHasOwner, AloneOK, [Next]_vars
  PROVE  AloneOK'
<1> USE ProcsAssumption
<1> USE DEF TypeOK, CallOK, LockFileHasOwner, AloneOK, Running,
  Creating, Owning, callVars, Goto, Fault
<1>1. ASSUME NEW p \in Procs, Start(p) PROVE AloneOK' BY <1>1 DEF Start
<1>2. ASSUME NEW p \in Procs, Create(p) PROVE AloneOK' BY <1>2 DEF Create
<1>3. ASSUME NEW p \in Procs, OpenExisting(p) PROVE AloneOK'
  BY <1>3 DEF OpenExisting
<1>4. ASSUME NEW p \in Procs, Judge(p) PROVE AloneOK'
  <2>1. CASE pc'[p] = "refused"
    <3>1. SUFFICES ASSUME p \in alone \ faulted' PROVE FALSE
      BY <1>4, <2>1 DEF Judge
    <3>2. Alive(seen[p]) /\ StartMatches(seen[p])
      BY <1>4, <2>1, <3>1 DEF Judge
    <3>3. seen[p] \in Procs \ {p} BY <1>4, <3>1, <3>2 DEF StartMatches, Judge
    <3>4. Running(seen[p]) BY <3>2, <3>3 DEF Alive, LeftoverKinds
    <3> QED BY <1>4, <3>1, <3>3, <3>4 DEF Judge
  <2>2. CASE pc'[p] = "remove" BY <1>4, <2>2 DEF Judge
  <2> QED BY <1>4, <2>1, <2>2 DEF Judge
<1>5. ASSUME NEW p \in Procs, RemoveStale(p) PROVE AloneOK'
  BY <1>5 DEF RemoveStale, Attempts
<1>6. ASSUME NEW p \in Procs, WriteLock(p) PROVE AloneOK'
  BY <1>6 DEF WriteLock
<1>7. ASSUME NEW p \in Procs, SyncLock(p) PROVE AloneOK' BY <1>7 DEF SyncLock
<1>8. ASSUME NEW p \in Procs, UndoAcquire(p) PROVE AloneOK'
  BY <1>8 DEF UndoAcquire
<1>9. ASSUME NEW p \in Procs, Release(p) PROVE AloneOK' BY <1>9 DEF Release
<1>10. ASSUME NEW p \in Procs, ExitProcess(p) PROVE AloneOK'
  BY <1>10 DEF ExitProcess
<1>11. ASSUME NEW p \in Procs, Crash(p) PROVE AloneOK' BY <1>11 DEF Crash
<1>12. CASE UNCHANGED vars BY <1>12 DEF vars
<1> QED BY <1>1, <1>2, <1>3, <1>4, <1>5, <1>6, <1>7, <1>8, <1>9, <1>10,
         <1>11, <1>12 DEF Next, Step

\* The inductive invariant holds of every interleaving.
THEOREM LockInvariantCorrect == Spec => []LockInv
<1>1. Init => LockInv BY InvInit
<1>2. LockInv /\ [Next]_vars => LockInv'
  BY TypeStep, InsideStep, FileStep, OwnerStep, AloneStep DEF LockInv
<1> QED BY <1>1, <1>2, PTL DEF Spec

\* Calls of Acquire that do not overlap, each within five seconds of its
\* process's start, never give the lock to two invocations at once, whatever
\* crashes, I/O errors and stale files come between.
THEOREM ExclusionCorrect == Spec => []OrderlyExclusion
<1>1. LockInv => OrderlyExclusion
  BY DEF LockInv, FileIsHolders, OrderlyExclusion, Holders
<1> QED BY <1>1, LockInvariantCorrect, PTL

\* No leftover keeps an undisturbed invocation from the lock.
THEOREM AloneCorrect == Spec => []AloneAcquires
<1>1. LockInv => AloneAcquires BY DEF LockInv, AloneOK, AloneAcquires
<1> QED BY <1>1, LockInvariantCorrect, PTL

\* Every interleaving without a fault cleans up after itself.
THEOREM OwnerCorrect == Spec => []LockFileHasOwner
<1>1. LockInv => LockFileHasOwner BY DEF LockInv
<1> QED BY <1>1, LockInvariantCorrect, PTL
=============================================================================
