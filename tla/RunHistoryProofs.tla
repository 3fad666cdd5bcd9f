--------------------------- MODULE RunHistoryProofs ---------------------------
(***************************************************************************)
(* HistoryInv is an invariant of RunHistory for any runs, limit, bounds and  *)
(* faults, and what status, verify and retention rely on follows from it.    *)
(*                                                                           *)
(* What a step does to runs.ndjson is said once: WrittenFact and CutFact for *)
(* the sequence, TornStep and LinesStep for the steps.  That retention       *)
(* spares the young rests on counting: OlderFact, from the cardinalities of  *)
(* finite sets, and BegunStep, that runs only ever begin.                    *)
(***************************************************************************)
EXTENDS RunHistory, FiniteSetTheorems, TLAPS

\* Before any run there is nothing to be wrong.
LEMMA InvInit == ASSUME Init PROVE HistoryInv
<1> USE RunsAssumption, NoRunAssumption, LimitAssumption, BoundAssumption
    DEF Init
<1>1. TypeOK
  <2>1. log \in Seq(Line) /\ Len(log) = 0 OBVIOUS
  <2>2. saved \subseteq Runs \X Event /\ synced = 0 OBVIOUS
  <2>3. synced \in 0..Len(log) BY <2>1, <2>2
  <2>4. /\ verifiedAt \in [Runs -> 0..MaxVerifies] /\ tears \in 0..MaxTears
        /\ verifies \in 0..MaxVerifies /\ endAt \in [Runs -> Nat]
        /\ ends \in Nat
    OBVIOUS
  <2>5. /\ pc \in [Runs -> PC]
        /\ manifest \in [Runs -> {"none", "partial", "full"}]
        /\ hashed \in [Runs -> Runs \cup {NoRun}]
    BY DEF PC
  <2>6. /\ torn \in BOOLEAN /\ lock \in Runs \cup {NoRun}
        /\ dst \in Runs \cup {NoRun} /\ lastVerified \in Runs \cup {NoRun}
    OBVIOUS
  <2>7. dirs = {} /\ doomed = {} /\ begun = {} /\ pruned = {} OBVIOUS
  <2> HIDE DEF Init
  <2> QED BY <2>1, <2>2, <2>3, <2>4, <2>5, <2>6, <2>7 DEF TypeOK
<1>2. LockOK BY DEF LockOK, Holding, PC
<1>3. LogOK BY DEF LogOK, Finished
<1>4. PruneOK BY DEF PruneOK
<1>5. ContentOK BY DEF ContentOK
<1>6. VerifyOK BY DEF VerifyOK
<1>7. TearsOK
  <2>1. Unsaved = {} BY DEF Unsaved, Event
  <2>2. (saved \cup Unsaved) \ OnRecord = {} BY <2>1
  <2>3. Cardinality((saved \cup Unsaved) \ OnRecord) = 0 BY <2>2, FS_EmptySet
  <2>4. saved = {} /\ Len(log) = 0 /\ tears = 0 /\ ~torn OBVIOUS
  <2> HIDE DEF Init
  <2> QED BY <2>3, <2>4 DEF TearsOK
<1> QED BY <1>1, <1>2, <1>3, <1>4, <1>5, <1>6, <1>7 DEF HistoryInv

\* What the log holds once a line has been written.
LEMMA WrittenFact ==
  ASSUME log \in Seq(Line), torn \in BOOLEAN, torn => Len(log) > 0,
         NEW line \in Line
  PROVE  /\ Written(line) \in Seq(Line)
         /\ Len(Written(line)) = IF torn THEN Len(log) ELSE Len(log) + 1
         /\ \A i \in 1..Len(log) :
              (torn => i < Len(log)) => Written(line)[i] = log[i]
         /\ Written(line)[Len(Written(line))]
              = IF torn THEN [line EXCEPT !.ok = FALSE] ELSE line
<1>1. CASE torn
  <2>1. [line EXCEPT !.ok = FALSE] \in Line BY DEF Line
  <2>2. Len(log) \in 1..Len(log) BY <1>1
  <2> QED BY <1>1, <2>1, <2>2 DEF Written
<1>2. CASE ~torn
  BY <1>2 DEF Written
<1> QED BY <1>1, <1>2

\* What a power loss leaves of it.
LEMMA CutFact ==
  ASSUME log \in Seq(Line), NEW n \in 1..Len(log), NEW whole \in BOOLEAN
  PROVE  LET cut == Append(SubSeq(log, 1, n - 1), [log[n] EXCEPT !.ok = whole])
         IN  /\ cut \in Seq(Line) /\ Len(cut) = n
             /\ \A i \in 1..(n - 1) : cut[i] = log[i]
             /\ cut[n] = [log[n] EXCEPT !.ok = whole]
<1>1. /\ SubSeq(log, 1, n - 1) \in Seq(Line)
      /\ Len(SubSeq(log, 1, n - 1)) = n - 1
      /\ \A i \in 1..(n - 1) : SubSeq(log, 1, n - 1)[i] = log[i]
  OBVIOUS
<1>2. log[n] \in Line OBVIOUS
<1>3. [log[n] EXCEPT !.ok = whole] \in Line BY <1>2 DEF Line
<1> QED BY <1>1, <1>3

\* The fsync of a refused run, which may find a torn line, stops before it.
LEMMA RefuseFact ==
  ASSUME TypeOK, torn => synced < Len(log), NEW r \in Runs, Refuse(r)
  PROVE  synced' \in 0..Len(log) /\ (torn => synced' < Len(log))
<1>1. /\ log \in Seq(Line) /\ torn \in BOOLEAN /\ Len(log) \in Nat
      /\ synced \in 0..Len(log)
  BY DEF TypeOK
<1>2. synced' = synced \/ synced' = Complete BY DEF Refuse
<1> QED BY <1>1, <1>2 DEF Complete

\* An append, whole or failed, leaves every line that had its end, and adds at
\* most one that can be read, the run's.
LEMMA AppendFact ==
  ASSUME TypeOK, torn => synced < Len(log), NEW r \in Runs, NEW e \in Event,
         AppendLine(r, e) \/ AppendFails(r, e)
  PROVE  /\ log' \in Seq(Line) /\ Len(log) <= Len(log') /\ torn' \in BOOLEAN
         /\ synced' = synced /\ tears' \in 0..MaxTears
         /\ torn' => synced' < Len(log')
         /\ \A i \in 1..Len(log) :
              (torn => i < Len(log)) => log'[i] = log[i]
         /\ \A i \in 1..Len(log') : log'[i].ok =>
              \/ i \in 1..Len(log) /\ log'[i] = log[i]
              \/ /\ i = Len(log') /\ AppendLine(r, e)
                 /\ log'[i] = [run |-> r, event |-> e, ok |-> TRUE]
<1> DEFINE good == [run |-> r, event |-> e, ok |-> TRUE]
           bad == [run |-> r, event |-> e, ok |-> FALSE]
           Kept == \A i \in 1..Len(log) :
                     (torn => i < Len(log)) => log'[i] = log[i]
           Old(i) == i \in 1..Len(log) /\ log'[i] = log[i]
<1>1. good \in Line /\ bad \in Line /\ ~bad.ok BY DEF Line
<1>2. /\ log \in Seq(Line) /\ torn \in BOOLEAN /\ Len(log) \in Nat
      /\ synced \in 0..Len(log) /\ tears \in 0..MaxTears
  BY DEF TypeOK
<1>3. ASSUME NEW line \in Line, log' = Written(line)
      PROVE  /\ log' \in Seq(Line) /\ Len(log) <= Len(log')
             /\ synced < Len(log') /\ Kept
             /\ \A i \in 1..Len(log') : i # Len(log') => Old(i)
             /\ log'[Len(log')] = line \/ ~log'[Len(log')].ok
  <2>1. torn => Len(log) > 0 BY <1>2
  <2>2. /\ log' \in Seq(Line)
        /\ Len(log') = IF torn THEN Len(log) ELSE Len(log) + 1
        /\ Kept
        /\ log'[Len(log')] = IF torn THEN [line EXCEPT !.ok = FALSE] ELSE line
    BY <1>2, <1>3, <2>1, WrittenFact
  <2>3. Len(log) <= Len(log') /\ synced < Len(log') BY <1>2, <2>2
  <2>4. ASSUME NEW i \in 1..Len(log'), i # Len(log') PROVE Old(i)
    <3>1. i \in 1..Len(log) /\ (torn => i < Len(log)) BY <1>2, <2>2, <2>4
    <3> QED BY <2>2, <3>1
  <2>5. log'[Len(log')] = line \/ ~log'[Len(log')].ok
    <3>1. ~[line EXCEPT !.ok = FALSE].ok BY DEF Line
    <3> QED BY <2>2, <3>1
  <2> QED BY <2>2, <2>3, <2>4, <2>5
<1>4. synced' = synced BY DEF AppendLine, AppendFails, logVars
<1>5. torn' \in BOOLEAN BY <1>2 DEF AppendLine, AppendFails, logVars
<1>6. tears' \in 0..MaxTears
  <2>1. tears' = tears \/ (tears < MaxTears /\ tears' = tears + 1)
    BY DEF AppendLine, AppendFails
  <2> QED BY <1>2, <2>1, BoundAssumption
<1>7. CASE AppendLine(r, e)
  <2>1. log' = Written(good) /\ ~torn' BY <1>7 DEF AppendLine
  <2>2. log'[Len(log')].ok => log'[Len(log')] = good BY <1>1, <1>3, <2>1
  <2> HIDE DEF good, bad
  <2>3. /\ log' \in Seq(Line) /\ Len(log) <= Len(log') /\ Kept
        /\ \A i \in 1..Len(log') : i # Len(log') => Old(i)
    BY <1>1, <1>3, <2>1
  <2>4. \A i \in 1..Len(log') : log'[i].ok =>
          Old(i) \/ (i = Len(log') /\ AppendLine(r, e) /\ log'[i] = good)
    BY <1>7, <2>2, <2>3
  <2> USE DEF good
  <2> QED BY <1>4, <1>5, <1>6, <2>1, <2>3, <2>4
<1>8. CASE AppendFails(r, e)
  <2>1. \/ log' = log /\ torn' = torn
        \/ log' = Written(bad)
    BY <1>8 DEF AppendFails, logVars
  <2> HIDE DEF good, bad
  <2>2. CASE log' = log /\ torn' = torn
    BY <1>2, <1>4, <1>5, <1>6, <2>2
  <2>3. CASE log' = Written(bad)
    <3>1. /\ log' \in Seq(Line) /\ Len(log) <= Len(log') /\ Kept
          /\ synced < Len(log')
          /\ \A i \in 1..Len(log') : i # Len(log') => Old(i)
      BY <1>1, <1>3, <2>3
    <3>2. ~log'[Len(log')].ok BY <1>1, <1>3, <2>3
    <3> QED BY <1>4, <1>5, <1>6, <3>1, <3>2
  <2> QED BY <2>1, <2>2, <2>3
<1> QED BY <1>7, <1>8

\* A power loss leaves every fsynced line, and adds none.
LEMMA PowerFact ==
  ASSUME TypeOK, torn => synced < Len(log), PowerLoss
  PROVE  /\ log' \in Seq(Line) /\ torn' \in BOOLEAN
         /\ synced' \in 0..Len(log') /\ (torn' => synced' < Len(log'))
         /\ \A i \in 1..synced :
              log[i].ok => i <= Len(log') /\ log'[i] = log[i]
         /\ \A i \in 1..Len(log') :
              log'[i].ok => i \in 1..Len(log) /\ log'[i] = log[i]
<1>1. /\ log \in Seq(Line) /\ torn \in BOOLEAN /\ Len(log) \in Nat
      /\ synced \in 0..Len(log)
  BY DEF TypeOK
<1>2. PICK n \in synced..Len(log) :
        \/ /\ log' = SubSeq(log, 1, n)
           /\ torn' = (torn /\ n = Len(log))
           /\ synced' = IF torn' THEN synced ELSE n
        \/ /\ n > synced
           /\ \E whole \in {FALSE, log[n].ok} :
                log' = Append(SubSeq(log, 1, n - 1),
                              [log[n] EXCEPT !.ok = whole])
           /\ torn' = TRUE
           /\ synced' = synced
  BY DEF PowerLoss
<1>3. n \in Nat /\ synced <= n /\ n <= Len(log) BY <1>1
<1>4. CASE /\ log' = SubSeq(log, 1, n) /\ torn' = (torn /\ n = Len(log))
           /\ synced' = IF torn' THEN synced ELSE n
  <2>1. /\ log' \in Seq(Line) /\ Len(log') = n
        /\ \A i \in 1..n : log'[i] = log[i]
    BY <1>1, <1>3, <1>4
  <2>2. torn' => torn /\ n = Len(log) /\ synced' = synced BY <1>4
  <2>3. synced' \in 0..n BY <1>1, <1>3, <1>4
  <2> QED BY <1>1, <1>3, <1>4, <2>1, <2>2, <2>3
<1>5. ASSUME NEW whole \in {FALSE, log[n].ok}, n > synced,
             torn' = TRUE, synced' = synced,
             log' = Append(SubSeq(log, 1, n - 1),
                           [log[n] EXCEPT !.ok = whole])
      PROVE  /\ log' \in Seq(Line) /\ torn' \in BOOLEAN
             /\ synced' \in 0..Len(log') /\ (torn' => synced' < Len(log'))
             /\ \A i \in 1..synced :
                  log[i].ok => i <= Len(log') /\ log'[i] = log[i]
             /\ \A i \in 1..Len(log') :
                  log'[i].ok => i \in 1..Len(log) /\ log'[i] = log[i]
  <2>1. n \in 1..Len(log) BY <1>1, <1>3, <1>5
  <2>2. log[n] \in Line BY <1>1, <2>1
  <2>3. whole \in BOOLEAN BY <2>2, <1>5 DEF Line
  <2>4. /\ log' \in Seq(Line) /\ Len(log') = n
        /\ \A i \in 1..(n - 1) : log'[i] = log[i]
        /\ log'[n] = [log[n] EXCEPT !.ok = whole]
    BY <1>1, <1>5, <2>1, <2>3, CutFact
  <2>5. log'[n].ok => log'[n] = log[n]
    <3>1. log'[n].ok = whole BY <2>2, <2>4 DEF Line
    <3>2. CASE whole = log[n].ok BY <2>2, <2>4, <3>2 DEF Line
    <3> QED BY <3>1, <3>2, <1>5
  <2>6. \A i \in 1..Len(log') : i = n \/ i \in 1..(n - 1) BY <2>1, <2>4
  <2>7. \A i \in 1..synced : i \in 1..(n - 1) BY <1>1, <1>3, <1>5
  <2>8. 1..(n - 1) \subseteq 1..Len(log) BY <1>1, <2>1
  <2> QED BY <1>1, <1>3, <1>5, <2>1, <2>4, <2>5, <2>6, <2>7, <2>8
<1> QED BY <1>2, <1>4, <1>5


\* Every step keeps the types.
LEMMA TypeStep ==
  ASSUME TypeOK, LockOK, LogOK, [Next]_vars
  PROVE  TypeOK'
<1> USE RunsAssumption, NoRunAssumption, LimitAssumption, BoundAssumption
<1> USE DEF TypeOK, PC, Step, logVars, dirVars, historyVars
<1>1. ASSUME NEW r \in Runs, Begin(r) PROVE TypeOK'
  BY <1>1 DEF Begin
<1>2. ASSUME NEW r \in Runs, Refuse(r) PROVE TypeOK'
  <2>1. synced' \in 0..Len(log')
    <3>1. torn => synced < Len(log) BY DEF LogOK
    <3>2. synced' \in 0..Len(log) BY <1>2, <3>1, RefuseFact
    <3> QED BY <1>2, <3>2 DEF Refuse
  <2>2. /\ pc' \in [Runs -> PC] /\ log' = log /\ torn' = torn
        /\ UNCHANGED <<lock, dirVars, doomed, dst, historyVars>>
    BY <1>2 DEF Refuse
  <2> QED BY <2>1, <2>2
<1>3. ASSUME NEW r \in Runs, Lock(r) PROVE TypeOK'
  BY <1>3 DEF Lock
<1>4. ASSUME NEW r \in Runs, AppendStarted(r) PROVE TypeOK'
  <2>1. CASE AppendLine(r, "started") \/ AppendFails(r, "started")
    <3>1. "started" \in Event BY DEF Event
    <3>2. torn => synced < Len(log) BY DEF LogOK
    <3>3. /\ log' \in Seq(Line) /\ Len(log) <= Len(log') /\ torn' \in BOOLEAN
          /\ synced' = synced /\ tears' \in 0..MaxTears
      BY <2>1, <3>1, <3>2, AppendFact
    <3>4. synced' \in 0..Len(log') BY <3>3
    <3>5. /\ UNCHANGED <<lock, dirVars, doomed, dst, begun, pruned, saved,
                         verifies, lastVerified>>
          /\ ends' \in {ends, ends + 1}
      BY <1>4 DEF AppendStarted
    <3>10. endAt' \in {endAt, [endAt EXCEPT ![r] = ends + 1]}
      BY <1>4 DEF AppendStarted
    <3>6. pc' \in {[pc EXCEPT ![r] = "started"], [pc EXCEPT ![r] = "unlock"]}
      BY <1>4 DEF AppendStarted
    <3> HIDE <1>4
    <3>7. pc' \in [Runs -> PC] BY <3>6
    <3>8. endAt' \in [Runs -> Nat]
      <4>1. endAt \in [Runs -> Nat] /\ ends + 1 \in Nat OBVIOUS
      <4> HIDE DEF TypeOK
      <4> QED BY <3>10, <4>1
    <3>9. ends' \in Nat BY <3>5
    <3> QED BY <3>3, <3>4, <3>5, <3>7, <3>8, <3>9
  <2> QED BY <1>4, <2>1 DEF AppendStarted
<1>5. ASSUME NEW r \in Runs, CheckpointStarted(r) PROVE TypeOK'
  <2>1. /\ pc' \in [Runs -> PC] /\ synced' \in {synced, Len(log)}
        /\ saved' \in {saved, saved \cup {<<r, "started">>}}
        /\ UNCHANGED <<lock, log, torn, dirVars, doomed, dst, begun, pruned,
                       endAt, ends, tears, verifies, lastVerified>>
    BY <1>5 DEF CheckpointStarted, Checkpoint
  <2>2. synced' \in 0..Len(log') BY <2>1
  <2>3. saved' \subseteq Runs \X Event BY <2>1 DEF Event
  <2> HIDE <1>5
  <2> QED BY <2>1, <2>2, <2>3
<1>6. ASSUME NEW r \in Runs, OpenManifest(r) PROVE TypeOK'
  BY <1>6 DEF OpenManifest
<1>7. ASSUME NEW r \in Runs, Copy(r) PROVE TypeOK'
  BY <1>7 DEF Copy
<1>8. ASSUME NEW r \in Runs, Hash(r) PROVE TypeOK'
  BY <1>8 DEF Hash
<1>9. ASSUME NEW r \in Runs, Seal(r) PROVE TypeOK'
  BY <1>9 DEF Seal
<1>10. ASSUME NEW r \in Runs, Abort(r) PROVE TypeOK'
  BY <1>10 DEF Abort
<1>11. ASSUME NEW r \in Runs, AppendFinished(r) PROVE TypeOK'
  <2>1. CASE AppendLine(r, "finished") \/ AppendFails(r, "finished")
    <3>1. "finished" \in Event BY DEF Event
    <3>2. torn => synced < Len(log) BY DEF LogOK
    <3>3. /\ log' \in Seq(Line) /\ Len(log) <= Len(log') /\ torn' \in BOOLEAN
          /\ synced' = synced /\ tears' \in 0..MaxTears
      BY <2>1, <3>1, <3>2, AppendFact
    <3>4. synced' \in 0..Len(log') BY <3>3
    <3>5. /\ UNCHANGED <<lock, dirVars, doomed, dst, begun, pruned, saved,
                         verifies, lastVerified>>
          /\ ends' \in {ends, ends + 1}
      BY <1>11 DEF AppendFinished
    <3>10. endAt' \in {endAt, [endAt EXCEPT ![r] = ends + 1]}
      BY <1>11 DEF AppendFinished
    <3>6. pc' \in {[pc EXCEPT ![r] = "finished"], [pc EXCEPT ![r] = "unlock"]}
      BY <1>11 DEF AppendFinished
    <3> HIDE <1>11
    <3>7. pc' \in [Runs -> PC] BY <3>6
    <3>8. endAt' \in [Runs -> Nat]
      <4>1. endAt \in [Runs -> Nat] /\ ends + 1 \in Nat OBVIOUS
      <4> HIDE DEF TypeOK
      <4> QED BY <3>10, <4>1
    <3>9. ends' \in Nat BY <3>5
    <3> QED BY <3>3, <3>4, <3>5, <3>7, <3>8, <3>9
  <2> QED BY <1>11, <2>1 DEF AppendFinished
<1>12. ASSUME NEW r \in Runs, CheckpointFinished(r) PROVE TypeOK'
  <2>1. /\ pc' \in [Runs -> PC] /\ synced' \in {synced, Len(log)}
        /\ saved' \in {saved, saved \cup {<<r, "finished">>}}
        /\ UNCHANGED <<lock, log, torn, dirVars, doomed, dst, begun, pruned,
                       endAt, ends, tears, verifies, lastVerified>>
    BY <1>12 DEF CheckpointFinished, Checkpoint
  <2>2. synced' \in 0..Len(log') BY <2>1
  <2>3. saved' \subseteq Runs \X Event BY <2>1 DEF Event
  <2> HIDE <1>12
  <2> QED BY <2>1, <2>2, <2>3
<1>13. ASSUME NEW r \in Runs, ListRuns(r) PROVE TypeOK'
  <2>1. doomed' \subseteq begun BY <1>13 DEF ListRuns, Oldest, LockOK
  <2> QED BY <1>13, <2>1 DEF ListRuns
<1>14. ASSUME NEW r \in Runs, PruneDone(r) PROVE TypeOK'
  BY <1>14 DEF PruneDone
<1>15. ASSUME NEW r \in Runs, Unlock(r) PROVE TypeOK'
  BY <1>15 DEF Unlock
<1>16. ASSUME NEW r \in Runs, Verify(r) PROVE TypeOK'
  <2>1. verifies' \in 0..MaxVerifies /\ verifiedAt' \in [Runs -> 0..MaxVerifies]
    BY <1>16 DEF Verify
  <2> QED BY <1>16, <2>1 DEF Verify
<1>17. ASSUME NEW r \in Runs, Die(r) PROVE TypeOK'
  BY <1>17 DEF Die
<1>18. ASSUME NEW r \in Runs, NEW s \in Runs, RemoveRun(r, s) PROVE TypeOK'
  <2>1. s \in begun BY <1>18 DEF RemoveRun
  <2>2. /\ manifest' \in [Runs -> {"none", "partial", "full"}]
        /\ verifiedAt' \in [Runs -> 0..MaxVerifies]
    <3>1. manifest' \in {manifest, [manifest EXCEPT ![s] = "none"]}
      BY <1>18 DEF RemoveRun
    <3>2. verifiedAt' \in {verifiedAt, [verifiedAt EXCEPT ![s] = 0]}
      BY <1>18 DEF RemoveRun
    <3>3. 0 \in 0..MaxVerifies OBVIOUS
    <3>4. manifest' \in [Runs -> {"none", "partial", "full"}] BY <3>1
    <3>5. verifiedAt' \in [Runs -> 0..MaxVerifies] BY <3>2, <3>3
    <3> QED BY <3>4, <3>5
  <2>3. /\ doomed' \subseteq begun /\ pruned' \subseteq begun
        /\ dirs' \subseteq Runs
    BY <1>18, <2>1 DEF RemoveRun
  <2> QED BY <1>18, <2>2, <2>3 DEF RemoveRun
<1>19. CASE PowerLoss
  <2>1. torn => synced < Len(log) BY DEF LogOK
  <2>2. log' \in Seq(Line) /\ torn' \in BOOLEAN /\ synced' \in 0..Len(log')
    BY <1>19, <2>1, PowerFact
  <2>3. /\ UNCHANGED <<dirVars, dst, begun, pruned, saved, endAt, ends,
                       verifies, lastVerified>>
        /\ pc' \in [Runs -> PC] /\ lock' \in Runs \cup {NoRun}
        /\ doomed' \subseteq begun /\ tears' \in 0..MaxTears
    BY <1>19 DEF PowerLoss, Alive
  <2> HIDE <1>19
  <2> QED BY <2>2, <2>3
<1>20. CASE UNCHANGED vars BY <1>20 DEF vars
<1> QED BY <1>1, <1>2, <1>3, <1>4, <1>5, <1>6, <1>7, <1>8, <1>9, <1>10,
  <1>11, <1>12, <1>13, <1>14, <1>15, <1>16, <1>17, <1>18, <1>19, <1>20 DEF
  Next, Run

\* One holder of the lock, and directories of runs that have begun.
LEMMA LockStep ==
  ASSUME TypeOK, LockOK, [Next]_vars
  PROVE  LockOK'
<1> USE RunsAssumption, NoRunAssumption, LimitAssumption, BoundAssumption
<1> USE DEF TypeOK, LockOK, Holding, PC, Alive, Step, logVars, dirVars, historyVars
<1>1. ASSUME NEW r \in Runs, Begin(r) PROVE LockOK'
  BY <1>1 DEF Begin
<1>2. ASSUME NEW r \in Runs, Refuse(r) PROVE LockOK'
  BY <1>2 DEF Refuse
<1>3. ASSUME NEW r \in Runs, Lock(r) PROVE LockOK'
  BY <1>3 DEF Lock
<1>4. ASSUME NEW r \in Runs, AppendStarted(r) PROVE LockOK'
  BY <1>4 DEF AppendStarted
<1>5. ASSUME NEW r \in Runs, CheckpointStarted(r) PROVE LockOK'
  BY <1>5 DEF CheckpointStarted
<1>6. ASSUME NEW r \in Runs, OpenManifest(r) PROVE LockOK'
  BY <1>6 DEF OpenManifest
<1>7. ASSUME NEW r \in Runs, Copy(r) PROVE LockOK'
  BY <1>7 DEF Copy
<1>8. ASSUME NEW r \in Runs, Hash(r) PROVE LockOK'
  BY <1>8 DEF Hash
<1>9. ASSUME NEW r \in Runs, Seal(r) PROVE LockOK'
  BY <1>9 DEF Seal
<1>10. ASSUME NEW r \in Runs, Abort(r) PROVE LockOK'
  BY <1>10 DEF Abort
<1>11. ASSUME NEW r \in Runs, AppendFinished(r) PROVE LockOK'
  BY <1>11 DEF AppendFinished
<1>12. ASSUME NEW r \in Runs, CheckpointFinished(r) PROVE LockOK'
  BY <1>12 DEF CheckpointFinished
<1>13. ASSUME NEW r \in Runs, ListRuns(r) PROVE LockOK'
  BY <1>13 DEF ListRuns
<1>14. ASSUME NEW r \in Runs, PruneDone(r) PROVE LockOK'
  BY <1>14 DEF PruneDone
<1>15. ASSUME NEW r \in Runs, Unlock(r) PROVE LockOK'
  BY <1>15 DEF Unlock
<1>16. ASSUME NEW r \in Runs, Verify(r) PROVE LockOK'
  BY <1>16 DEF Verify
<1>17. ASSUME NEW r \in Runs, Die(r) PROVE LockOK'
  BY <1>17 DEF Die
<1>18. ASSUME NEW r \in Runs, NEW s \in Runs, RemoveRun(r, s) PROVE LockOK'
  BY <1>18 DEF RemoveRun
<1>19. CASE PowerLoss
  BY <1>19 DEF PowerLoss
<1>20. CASE UNCHANGED vars BY <1>20 DEF vars
<1> QED BY <1>1, <1>2, <1>3, <1>4, <1>5, <1>6, <1>7, <1>8, <1>9, <1>10,
  <1>11, <1>12, <1>13, <1>14, <1>15, <1>16, <1>17, <1>18, <1>19, <1>20 DEF
  Next, Run

\* The part of the types that the program counters need.
LEMMA PCTyped ==
  ASSUME TypeOK
  PROVE  pc \in [Runs -> PC]
BY DEF TypeOK

\* The torn line is never an fsynced one.
LEMMA TornStep ==
  ASSUME TypeOK, LockOK, LogOK, [Next]_vars
  PROVE  /\ torn' => synced' < Len(log')
         /\ \A q \in Runs : pc'[q] \in {"started", "finished"} => ~torn'
<1> DEFINE Goal == /\ torn' => synced' < Len(log')
                   /\ \A q \in Runs : pc'[q] \in {"started", "finished"} => ~torn'
<1> SUFFICES Goal OBVIOUS
<1>30. torn => synced < Len(log) BY DEF LogOK
<1>1. ASSUME NEW r \in Runs, Begin(r) PROVE Goal
  <2>1. torn' = torn /\ log' = log /\ synced' = synced
    BY <1>1 DEF Begin, logVars, dirVars, historyVars
  <2>2. \A q \in Runs : pc'[q] \in {"started", "finished"} => pc'[q] = pc[q]
    BY <1>1, PCTyped DEF Begin, Step, PC, Alive
  <2> QED BY <2>1, <2>2 DEF LogOK
<1>2. ASSUME NEW r \in Runs, Refuse(r) PROVE Goal
  <2>1. torn' = torn /\ log' = log /\ (torn => synced' < Len(log'))
    BY <1>2, <1>30, RefuseFact DEF Refuse
  <2>2. \A q \in Runs : pc'[q] \in {"started", "finished"} => pc'[q] = pc[q]
    BY <1>2, PCTyped DEF Refuse, Step, PC, Alive
  <2> QED BY <2>1, <2>2 DEF LogOK
<1>3. ASSUME NEW r \in Runs, Lock(r) PROVE Goal
  <2>1. torn' = torn /\ log' = log /\ synced' = synced
    BY <1>3 DEF Lock, logVars, dirVars, historyVars
  <2>2. \A q \in Runs : pc'[q] \in {"started", "finished"} => pc'[q] = pc[q]
    BY <1>3, PCTyped DEF Lock, Step, PC, Alive
  <2> QED BY <2>1, <2>2 DEF LogOK
<1>4. ASSUME NEW r \in Runs, AppendStarted(r) PROVE Goal
  <2>1. lock = r /\ \A q \in Runs : pc[q] \in Holding => q = r
    BY <1>4 DEF AppendStarted, LockOK, Holding, PC, Step
  <2>2. CASE AppendLine(r, "started") BY <2>2 DEF AppendLine
  <2>3. CASE AppendFails(r, "started") /\ Step(r, "held", "unlock")
    <3>1. "started" \in Event BY DEF Event
    <3>2. torn' => synced' < Len(log') BY <1>30, <2>3, <3>1, AppendFact
    <3>3. \A q \in Runs : pc'[q] \notin {"started", "finished"}
      BY <2>1, <2>3, PCTyped DEF Step, Holding, PC
    <3> QED BY <3>2, <3>3
  <2> QED BY <1>4, <2>2, <2>3 DEF AppendStarted
<1>5. ASSUME NEW r \in Runs, CheckpointStarted(r) PROVE Goal
  <2>1. torn' = torn /\ log' = log /\ synced' \in {synced, Len(log)}
        /\ pc[r] = "started"
        /\ pc' \in {[pc EXCEPT ![r] = "setup"], [pc EXCEPT ![r] = "prune"],
                    [pc EXCEPT ![r] = "unlock"]}
    BY <1>5 DEF CheckpointStarted, Checkpoint, Step
  <2>2. ~torn BY <2>1 DEF LogOK
  <2> QED BY <2>1, <2>2
<1>6. ASSUME NEW r \in Runs, OpenManifest(r) PROVE Goal
  <2>1. torn' = torn /\ log' = log /\ synced' = synced
    BY <1>6 DEF OpenManifest, logVars, dirVars, historyVars
  <2>2. \A q \in Runs : pc'[q] \in {"started", "finished"} => pc'[q] = pc[q]
    BY <1>6, PCTyped DEF OpenManifest, Step, PC, Alive
  <2> QED BY <2>1, <2>2 DEF LogOK
<1>7. ASSUME NEW r \in Runs, Copy(r) PROVE Goal
  <2>1. torn' = torn /\ log' = log /\ synced' = synced
    BY <1>7 DEF Copy, logVars, dirVars, historyVars
  <2>2. \A q \in Runs : pc'[q] \in {"started", "finished"} => pc'[q] = pc[q]
    BY <1>7, PCTyped DEF Copy, Step, PC, Alive
  <2> QED BY <2>1, <2>2 DEF LogOK
<1>8. ASSUME NEW r \in Runs, Hash(r) PROVE Goal
  <2>1. torn' = torn /\ log' = log /\ synced' = synced
    BY <1>8 DEF Hash, logVars, dirVars, historyVars
  <2>2. \A q \in Runs : pc'[q] \in {"started", "finished"} => pc'[q] = pc[q]
    BY <1>8, PCTyped DEF Hash, Step, PC, Alive
  <2> QED BY <2>1, <2>2 DEF LogOK
<1>9. ASSUME NEW r \in Runs, Seal(r) PROVE Goal
  <2>1. torn' = torn /\ log' = log /\ synced' = synced
    BY <1>9 DEF Seal, logVars, dirVars, historyVars
  <2>2. \A q \in Runs : pc'[q] \in {"started", "finished"} => pc'[q] = pc[q]
    BY <1>9, PCTyped DEF Seal, Step, PC, Alive
  <2> QED BY <2>1, <2>2 DEF LogOK
<1>10. ASSUME NEW r \in Runs, Abort(r) PROVE Goal
  <2>1. torn' = torn /\ log' = log /\ synced' = synced
    BY <1>10 DEF Abort, logVars, dirVars, historyVars
  <2>2. \A q \in Runs : pc'[q] \in {"started", "finished"} => pc'[q] = pc[q]
    BY <1>10, PCTyped DEF Abort, Step, PC, Alive
  <2> QED BY <2>1, <2>2 DEF LogOK
<1>11. ASSUME NEW r \in Runs, AppendFinished(r) PROVE Goal
  <2>1. lock = r /\ \A q \in Runs : pc[q] \in Holding => q = r
    BY <1>11 DEF AppendFinished, LockOK, Holding, PC, Step
  <2>2. CASE AppendLine(r, "finished") BY <2>2 DEF AppendLine
  <2>3. CASE AppendFails(r, "finished") /\ Step(r, "append", "unlock")
    <3>1. "finished" \in Event BY DEF Event
    <3>2. torn' => synced' < Len(log') BY <1>30, <2>3, <3>1, AppendFact
    <3>3. \A q \in Runs : pc'[q] \notin {"started", "finished"}
      BY <2>1, <2>3, PCTyped DEF Step, Holding, PC
    <3> QED BY <3>2, <3>3
  <2> QED BY <1>11, <2>2, <2>3 DEF AppendFinished
<1>12. ASSUME NEW r \in Runs, CheckpointFinished(r) PROVE Goal
  <2>1. torn' = torn /\ log' = log /\ synced' \in {synced, Len(log)}
        /\ pc[r] = "finished"
        /\ pc' \in {[pc EXCEPT ![r] = "setup"], [pc EXCEPT ![r] = "prune"],
                    [pc EXCEPT ![r] = "unlock"]}
    BY <1>12 DEF CheckpointFinished, Checkpoint, Step
  <2>2. ~torn BY <2>1 DEF LogOK
  <2> QED BY <2>1, <2>2
<1>13. ASSUME NEW r \in Runs, ListRuns(r) PROVE Goal
  <2>1. torn' = torn /\ log' = log /\ synced' = synced
    BY <1>13 DEF ListRuns, logVars, dirVars, historyVars
  <2>2. \A q \in Runs : pc'[q] \in {"started", "finished"} => pc'[q] = pc[q]
    BY <1>13, PCTyped DEF ListRuns, Step, PC, Alive
  <2> QED BY <2>1, <2>2 DEF LogOK
<1>14. ASSUME NEW r \in Runs, PruneDone(r) PROVE Goal
  <2>1. torn' = torn /\ log' = log /\ synced' = synced
    BY <1>14 DEF PruneDone, logVars, dirVars, historyVars
  <2>2. \A q \in Runs : pc'[q] \in {"started", "finished"} => pc'[q] = pc[q]
    BY <1>14, PCTyped DEF PruneDone, Step, PC, Alive
  <2> QED BY <2>1, <2>2 DEF LogOK
<1>15. ASSUME NEW r \in Runs, Unlock(r) PROVE Goal
  <2>1. torn' = torn /\ log' = log /\ synced' = synced
    BY <1>15 DEF Unlock, logVars, dirVars, historyVars
  <2>2. \A q \in Runs : pc'[q] \in {"started", "finished"} => pc'[q] = pc[q]
    BY <1>15, PCTyped DEF Unlock, Step, PC, Alive
  <2> QED BY <2>1, <2>2 DEF LogOK
<1>16. ASSUME NEW r \in Runs, Verify(r) PROVE Goal
  <2>1. torn' = torn /\ log' = log /\ synced' = synced
    BY <1>16 DEF Verify, logVars, dirVars, historyVars
  <2>2. \A q \in Runs : pc'[q] \in {"started", "finished"} => pc'[q] = pc[q]
    BY <1>16, PCTyped DEF Verify, Step, PC, Alive
  <2> QED BY <2>1, <2>2 DEF LogOK
<1>17. ASSUME NEW r \in Runs, Die(r) PROVE Goal
  <2>1. torn' = torn /\ log' = log /\ synced' = synced
    BY <1>17 DEF Die, logVars, dirVars, historyVars
  <2>2. \A q \in Runs : pc'[q] \in {"started", "finished"} => pc'[q] = pc[q]
    BY <1>17, PCTyped DEF Die, Step, PC, Alive
  <2> QED BY <2>1, <2>2 DEF LogOK
<1>18. ASSUME NEW r \in Runs, NEW s \in Runs, RemoveRun(r, s) PROVE Goal
  <2>1. torn' = torn /\ log' = log /\ synced' = synced
    BY <1>18 DEF RemoveRun, logVars, dirVars, historyVars
  <2>2. \A q \in Runs : pc'[q] \in {"started", "finished"} => pc'[q] = pc[q]
    BY <1>18, PCTyped DEF RemoveRun, Step, PC, Alive
  <2> QED BY <2>1, <2>2 DEF LogOK
<1>19. CASE PowerLoss
  <2>1. \A q \in Runs : pc'[q] \notin {"started", "finished"}
    BY <1>19, PCTyped DEF PowerLoss, Alive, PC
  <2> QED BY <1>19, <1>30, <2>1, PowerFact
<1>20. CASE UNCHANGED vars BY <1>20 DEF vars, LogOK, logVars
<1> QED BY <1>1, <1>2, <1>3, <1>4, <1>5, <1>6, <1>7, <1>8, <1>9, <1>10,
  <1>11, <1>12, <1>13, <1>14, <1>15, <1>16, <1>17, <1>18, <1>19, <1>20 DEF
  Next, Run

\* Three actions write runs.ndjson.
LEMMA WritersOfLog ==
  ASSUME [Next]_vars
  PROVE  \/ log' = log \/ PowerLoss
         \/ \E r \in Runs : AppendStarted(r) \/ AppendFinished(r)
<1> DEFINE Goal == \/ log' = log \/ PowerLoss
                   \/ \E r \in Runs : AppendStarted(r) \/ AppendFinished(r)
<1> SUFFICES Goal OBVIOUS
<1>1. ASSUME NEW r \in Runs, Begin(r) PROVE Goal
  BY <1>1 DEF Begin, logVars
<1>2. ASSUME NEW r \in Runs, Refuse(r) PROVE Goal
  BY <1>2 DEF Refuse, logVars
<1>3. ASSUME NEW r \in Runs, Lock(r) PROVE Goal
  BY <1>3 DEF Lock, logVars
<1>4. ASSUME NEW r \in Runs, AppendStarted(r) PROVE Goal
  BY <1>4
<1>5. ASSUME NEW r \in Runs, CheckpointStarted(r) PROVE Goal
  BY <1>5 DEF CheckpointStarted, logVars
<1>6. ASSUME NEW r \in Runs, OpenManifest(r) PROVE Goal
  BY <1>6 DEF OpenManifest, logVars
<1>7. ASSUME NEW r \in Runs, Copy(r) PROVE Goal
  BY <1>7 DEF Copy, logVars
<1>8. ASSUME NEW r \in Runs, Hash(r) PROVE Goal
  BY <1>8 DEF Hash, logVars
<1>9. ASSUME NEW r \in Runs, Seal(r) PROVE Goal
  BY <1>9 DEF Seal, logVars
<1>10. ASSUME NEW r \in Runs, Abort(r) PROVE Goal
  BY <1>10 DEF Abort, logVars
<1>11. ASSUME NEW r \in Runs, AppendFinished(r) PROVE Goal
  BY <1>11
<1>12. ASSUME NEW r \in Runs, CheckpointFinished(r) PROVE Goal
  BY <1>12 DEF CheckpointFinished, logVars
<1>13. ASSUME NEW r \in Runs, ListRuns(r) PROVE Goal
  BY <1>13 DEF ListRuns, logVars
<1>14. ASSUME NEW r \in Runs, PruneDone(r) PROVE Goal
  BY <1>14 DEF PruneDone, logVars
<1>15. ASSUME NEW r \in Runs, Unlock(r) PROVE Goal
  BY <1>15 DEF Unlock, logVars
<1>16. ASSUME NEW r \in Runs, Verify(r) PROVE Goal
  BY <1>16 DEF Verify, logVars
<1>17. ASSUME NEW r \in Runs, Die(r) PROVE Goal
  BY <1>17 DEF Die, logVars
<1>18. ASSUME NEW r \in Runs, NEW s \in Runs, RemoveRun(r, s) PROVE Goal
  BY <1>18 DEF RemoveRun, logVars
<1>19. CASE PowerLoss
  BY <1>19
<1>20. CASE UNCHANGED vars BY <1>20 DEF vars, logVars
<1> QED BY <1>1, <1>2, <1>3, <1>4, <1>5, <1>6, <1>7, <1>8, <1>9, <1>10,
  <1>11, <1>12, <1>13, <1>14, <1>15, <1>16, <1>17, <1>18, <1>19, <1>20 DEF
  Next, Run

\* A readable line that was not there is the one a run has just appended.
New(i) ==
  \E r \in Runs :
    /\ i = Len(log') /\ log'[i].run = r
    /\ log'[i].event = "finished" =>
         AppendFinished(r) /\ pc[r] = "append" /\ pc'[r] = "finished"

\* What readers find after a step they found before it, or it is new.
LEMMA LinesStep ==
  ASSUME TypeOK, LogOK, [Next]_vars
  PROVE  \A i \in 1..Len(log') : log'[i].ok =>
           (i \in 1..Len(log) /\ log'[i] = log[i]) \/ New(i)
<1>1. torn => synced < Len(log) BY DEF LogOK
<1>2. CASE log' = log BY <1>2
<1>3. CASE PowerLoss BY <1>1, <1>3, PowerFact
<1>4. ASSUME NEW r \in Runs, AppendStarted(r),
             NEW i \in 1..Len(log'), log'[i].ok
      PROVE  (i \in 1..Len(log) /\ log'[i] = log[i]) \/ New(i)
  <2>1. "started" \in Event BY DEF Event
  <2>2. \/ i \in 1..Len(log) /\ log'[i] = log[i]
        \/ /\ i = Len(log')
           /\ log'[i] = [run |-> r, event |-> "started", ok |-> TRUE]
    BY <1>1, <1>4, <2>1, AppendFact DEF AppendStarted
  <2> QED BY <2>2 DEF New
<1>5. ASSUME NEW r \in Runs, AppendFinished(r),
             NEW i \in 1..Len(log'), log'[i].ok
      PROVE  (i \in 1..Len(log) /\ log'[i] = log[i]) \/ New(i)
  <2>1. "finished" \in Event BY DEF Event
  <2>2. CASE Step(r, "append", "finished") /\ AppendLine(r, "finished")
    <3>1. \/ i \in 1..Len(log) /\ log'[i] = log[i]
          \/ /\ i = Len(log')
             /\ log'[i] = [run |-> r, event |-> "finished", ok |-> TRUE]
      BY <1>1, <1>5, <2>1, <2>2, AppendFact
    <3>2. pc[r] = "append" /\ pc'[r] = "finished"
      BY <2>2, PCTyped DEF Step
    <3> QED BY <1>5, <3>1, <3>2 DEF New
  <2>3. CASE AppendFails(r, "finished") /\ ~AppendLine(r, "finished")
    <3>1. i \in 1..Len(log) /\ log'[i] = log[i]
      BY <1>1, <1>5, <2>1, <2>3, AppendFact
    <3> QED BY <3>1
  <2>4. CASE /\ Step(r, "append", "unlock") /\ AppendFails(r, "finished")
             /\ AppendLine(r, "finished")
    <3>1. log' = Written([run |-> r, event |-> "finished", ok |-> TRUE])
          /\ torn' = FALSE
      BY <2>4 DEF AppendLine
    <3>2. log' = log /\ torn' = torn
      BY <2>4, <3>1 DEF AppendFails, logVars
    <3> QED BY <3>2
  <2> QED BY <1>5, <2>2, <2>3, <2>4 DEF AppendFinished
<1> QED BY <1>2, <1>3, <1>4, <1>5, WritersOfLog


\* A run that has finished, or has failed to, does not go back.
LEMMA OnwardStep ==
  ASSUME TypeOK, [Next]_vars
  PROVE  \A q \in Runs : pc[q] \notin BeforeEnd => pc'[q] \notin BeforeEnd
<1> DEFINE Goal == \A q \in Runs : pc[q] \notin BeforeEnd => pc'[q] \notin BeforeEnd
<1> SUFFICES Goal OBVIOUS
<1> USE PCTyped
<1> USE DEF BeforeEnd, PC, Alive, Step
<1>1. ASSUME NEW r \in Runs, Begin(r) PROVE Goal
  BY <1>1 DEF Begin
<1>2. ASSUME NEW r \in Runs, Refuse(r) PROVE Goal
  BY <1>2 DEF Refuse
<1>3. ASSUME NEW r \in Runs, Lock(r) PROVE Goal
  BY <1>3 DEF Lock
<1>4. ASSUME NEW r \in Runs, AppendStarted(r) PROVE Goal
  BY <1>4 DEF AppendStarted
<1>5. ASSUME NEW r \in Runs, CheckpointStarted(r) PROVE Goal
  BY <1>5 DEF CheckpointStarted
<1>6. ASSUME NEW r \in Runs, OpenManifest(r) PROVE Goal
  BY <1>6 DEF OpenManifest
<1>7. ASSUME NEW r \in Runs, Copy(r) PROVE Goal
  BY <1>7 DEF Copy
<1>8. ASSUME NEW r \in Runs, Hash(r) PROVE Goal
  BY <1>8 DEF Hash
<1>9. ASSUME NEW r \in Runs, Seal(r) PROVE Goal
  BY <1>9 DEF Seal
<1>10. ASSUME NEW r \in Runs, Abort(r) PROVE Goal
  BY <1>10 DEF Abort
<1>11. ASSUME NEW r \in Runs, AppendFinished(r) PROVE Goal
  BY <1>11 DEF AppendFinished
<1>12. ASSUME NEW r \in Runs, CheckpointFinished(r) PROVE Goal
  BY <1>12 DEF CheckpointFinished
<1>13. ASSUME NEW r \in Runs, ListRuns(r) PROVE Goal
  BY <1>13 DEF ListRuns
<1>14. ASSUME NEW r \in Runs, PruneDone(r) PROVE Goal
  BY <1>14 DEF PruneDone
<1>15. ASSUME NEW r \in Runs, Unlock(r) PROVE Goal
  BY <1>15 DEF Unlock
<1>16. ASSUME NEW r \in Runs, Verify(r) PROVE Goal
  BY <1>16 DEF Verify
<1>17. ASSUME NEW r \in Runs, Die(r) PROVE Goal
  BY <1>17 DEF Die
<1>18. ASSUME NEW r \in Runs, NEW s \in Runs, RemoveRun(r, s) PROVE Goal
  BY <1>18 DEF RemoveRun
<1>19. CASE PowerLoss
  BY <1>19 DEF PowerLoss
<1>20. CASE UNCHANGED vars BY <1>20 DEF vars
<1> QED BY <1>1, <1>2, <1>3, <1>4, <1>5, <1>6, <1>7, <1>8, <1>9, <1>10,
  <1>11, <1>12, <1>13, <1>14, <1>15, <1>16, <1>17, <1>18, <1>19, <1>20 DEF
  Next, Run

\* The clock of the ends ticks when a run appends its end, for that run.
LEMMA EndStep ==
  ASSUME [Next]_vars
  PROVE  \/ endAt' = endAt /\ ends' = ends
         \/ \E r \in Runs : /\ pc[r] = "append" /\ ends' = ends + 1
                            /\ endAt' = [endAt EXCEPT ![r] = ends + 1]
<1> DEFINE Goal ==
      \/ endAt' = endAt /\ ends' = ends
      \/ \E r \in Runs : /\ pc[r] = "append" /\ ends' = ends + 1
                         /\ endAt' = [endAt EXCEPT ![r] = ends + 1]
<1> SUFFICES Goal OBVIOUS
<1>1. ASSUME NEW r \in Runs, Begin(r) PROVE Goal
  <2>1. endAt' = endAt /\ ends' = ends BY <1>1 DEF Begin, historyVars
  <2> QED BY <2>1
<1>2. ASSUME NEW r \in Runs, Refuse(r) PROVE Goal
  <2>1. endAt' = endAt /\ ends' = ends BY <1>2 DEF Refuse, historyVars
  <2> QED BY <2>1
<1>3. ASSUME NEW r \in Runs, Lock(r) PROVE Goal
  <2>1. endAt' = endAt /\ ends' = ends BY <1>3 DEF Lock, historyVars
  <2> QED BY <2>1
<1>4. ASSUME NEW r \in Runs, AppendStarted(r) PROVE Goal
  <2>1. endAt' = endAt /\ ends' = ends BY <1>4 DEF AppendStarted, historyVars
  <2> QED BY <2>1
<1>5. ASSUME NEW r \in Runs, CheckpointStarted(r) PROVE Goal
  <2>1. endAt' = endAt /\ ends' = ends BY <1>5 DEF CheckpointStarted, historyVars
  <2> QED BY <2>1
<1>6. ASSUME NEW r \in Runs, OpenManifest(r) PROVE Goal
  <2>1. endAt' = endAt /\ ends' = ends BY <1>6 DEF OpenManifest, historyVars
  <2> QED BY <2>1
<1>7. ASSUME NEW r \in Runs, Copy(r) PROVE Goal
  <2>1. endAt' = endAt /\ ends' = ends BY <1>7 DEF Copy, historyVars
  <2> QED BY <2>1
<1>8. ASSUME NEW r \in Runs, Hash(r) PROVE Goal
  <2>1. endAt' = endAt /\ ends' = ends BY <1>8 DEF Hash, historyVars
  <2> QED BY <2>1
<1>9. ASSUME NEW r \in Runs, Seal(r) PROVE Goal
  <2>1. endAt' = endAt /\ ends' = ends BY <1>9 DEF Seal, historyVars
  <2> QED BY <2>1
<1>10. ASSUME NEW r \in Runs, Abort(r) PROVE Goal
  <2>1. endAt' = endAt /\ ends' = ends BY <1>10 DEF Abort, historyVars
  <2> QED BY <2>1
<1>11. ASSUME NEW r \in Runs, AppendFinished(r) PROVE Goal
  <2>1. CASE endAt' = endAt /\ ends' = ends BY <2>1
  <2>2. CASE /\ Step(r, "append", "finished") /\ ends' = ends + 1
             /\ endAt' = [endAt EXCEPT ![r] = ends + 1]
    BY <2>2 DEF Step
  <2> QED BY <1>11, <2>1, <2>2 DEF AppendFinished
<1>12. ASSUME NEW r \in Runs, CheckpointFinished(r) PROVE Goal
  <2>1. endAt' = endAt /\ ends' = ends BY <1>12 DEF CheckpointFinished, historyVars
  <2> QED BY <2>1
<1>13. ASSUME NEW r \in Runs, ListRuns(r) PROVE Goal
  <2>1. endAt' = endAt /\ ends' = ends BY <1>13 DEF ListRuns, historyVars
  <2> QED BY <2>1
<1>14. ASSUME NEW r \in Runs, PruneDone(r) PROVE Goal
  <2>1. endAt' = endAt /\ ends' = ends BY <1>14 DEF PruneDone, historyVars
  <2> QED BY <2>1
<1>15. ASSUME NEW r \in Runs, Unlock(r) PROVE Goal
  <2>1. endAt' = endAt /\ ends' = ends BY <1>15 DEF Unlock, historyVars
  <2> QED BY <2>1
<1>16. ASSUME NEW r \in Runs, Verify(r) PROVE Goal
  <2>1. endAt' = endAt /\ ends' = ends BY <1>16 DEF Verify, historyVars
  <2> QED BY <2>1
<1>17. ASSUME NEW r \in Runs, Die(r) PROVE Goal
  <2>1. endAt' = endAt /\ ends' = ends BY <1>17 DEF Die, historyVars
  <2> QED BY <2>1
<1>18. ASSUME NEW r \in Runs, NEW s \in Runs, RemoveRun(r, s) PROVE Goal
  <2>1. endAt' = endAt /\ ends' = ends BY <1>18 DEF RemoveRun, historyVars
  <2> QED BY <2>1
<1>19. CASE PowerLoss
  <2>1. endAt' = endAt /\ ends' = ends BY <1>19 DEF PowerLoss, historyVars
  <2> QED BY <2>1
<1>20. CASE UNCHANGED vars BY <1>20 DEF vars, historyVars
<1> QED BY <1>1, <1>2, <1>3, <1>4, <1>5, <1>6, <1>7, <1>8, <1>9, <1>10,
  <1>11, <1>12, <1>13, <1>14, <1>15, <1>16, <1>17, <1>18, <1>19, <1>20 DEF
  Next, Run

\* The lines stay in the order in which their runs finished.
LEMMA LogStep ==
  ASSUME TypeOK, LockOK, LogOK, [Next]_vars
  PROVE  LogOK'
<1>1. /\ torn' => synced' < Len(log')
      /\ \A r \in Runs : pc'[r] \in {"started", "finished"} => ~torn'
  BY TornStep
<1>2. endAt \in [Runs -> Nat] /\ ends \in Nat BY DEF TypeOK
<1>3. \A r \in Runs : endAt'[r] <= ends'
  <2>1. \A r \in Runs : endAt[r] <= ends BY DEF LogOK
  <2> QED BY <1>2, <2>1, EndStep
<1>4. \A i \in 1..Len(log) : log[i].run \in Runs
  <2>1. ASSUME NEW i \in 1..Len(log) PROVE log[i].run \in Runs
    <3>1. log[i] \in Line BY DEF TypeOK
    <3> QED BY <3>1 DEF Line
  <2> QED BY <2>1
<1>5. ASSUME NEW i \in 1..Len(log'), Finished(i)'
      PROVE  \/ i \in 1..Len(log) /\ log'[i] = log[i] /\ Finished(i)
             \/ /\ i = Len(log') /\ log'[i].run \in Runs
                /\ AppendFinished(log'[i].run) /\ pc[log'[i].run] = "append"
                /\ pc'[log'[i].run] = "finished"
  BY <1>5, LinesStep DEF Finished, New
<1>6. ASSUME NEW i \in 1..Len(log'), Finished(i)'
      PROVE  pc'[log'[i].run] \notin BeforeEnd
  <2>1. CASE i \in 1..Len(log) /\ log'[i] = log[i] /\ Finished(i)
    <3>1. pc[log[i].run] \notin BeforeEnd BY <2>1 DEF LogOK
    <3> QED BY <2>1, <3>1, <1>4, OnwardStep
  <2> QED BY <1>5, <1>6, <2>1 DEF BeforeEnd
<1>7. ASSUME NEW i \in 1..Len(log), Finished(i)
      PROVE  endAt'[log[i].run] = endAt[log[i].run]
  <2>1. pc[log[i].run] # "append" BY <1>7 DEF LogOK, BeforeEnd
  <2> QED BY <2>1, <1>2, <1>4, EndStep
<1>8. ASSUME NEW i \in 1..Len(log'), NEW j \in 1..Len(log'),
             Finished(i)', Finished(j)', i <= j
      PROVE  endAt'[log'[i].run] <= endAt'[log'[j].run]
  <2>1. CASE j \in 1..Len(log) /\ log'[j] = log[j] /\ Finished(j)
    <3>1. CASE i \in 1..Len(log) /\ log'[i] = log[i] /\ Finished(i)
      <4>1. endAt[log[i].run] <= endAt[log[j].run]
        BY <2>1, <3>1, <1>8 DEF LogOK
      <4> QED BY <2>1, <3>1, <4>1, <1>7
    <3>2. CASE i = Len(log')
      <4>1. i = j
        <5>1. Len(log') \in Nat BY TypeStep DEF TypeOK
        <5> QED BY <3>2, <1>8, <5>1
      <4>2. endAt'[log'[i].run] \in Nat
        <5>1. log'[i].run \in Runs BY <2>1, <4>1, <1>4
        <5> QED BY <5>1, TypeStep DEF TypeOK
      <4> QED BY <4>1, <4>2
    <3> QED BY <1>5, <1>8, <3>1, <3>2
  <2>2. CASE /\ log'[j].run \in Runs /\ AppendFinished(log'[j].run)
             /\ pc'[log'[j].run] = "finished" /\ pc[log'[j].run] = "append"
    <3> DEFINE r == log'[j].run
    <3>1. endAt'[r] = ends + 1 /\ ends' = ends + 1
      <4>1. ASSUME Step(r, "append", "unlock") PROVE FALSE
        BY <4>1, <2>2, PCTyped DEF Step
      <4> QED BY <2>2, <4>1, <1>2 DEF AppendFinished
    <3>2. log'[i].run \in Runs BY <1>4, <1>5, <1>8
    <3> QED BY <3>1, <3>2, <1>3
  <2> QED BY <1>5, <1>8, <2>1, <2>2
<1> QED BY <1>1, <1>3, <1>6, <1>8 DEF LogOK, Finished

\* Runs only ever begin.
LEMMA BegunStep ==
  ASSUME TypeOK, [Next]_vars
  PROVE  begun \subseteq begun'
<1> DEFINE Goal == begun \subseteq begun'
<1> SUFFICES Goal OBVIOUS
<1>1. ASSUME NEW r \in Runs, Begin(r) PROVE Goal
  BY <1>1 DEF Begin, historyVars
<1>2. ASSUME NEW r \in Runs, Refuse(r) PROVE Goal
  BY <1>2 DEF Refuse, historyVars
<1>3. ASSUME NEW r \in Runs, Lock(r) PROVE Goal
  BY <1>3 DEF Lock, historyVars
<1>4. ASSUME NEW r \in Runs, AppendStarted(r) PROVE Goal
  BY <1>4 DEF AppendStarted, historyVars
<1>5. ASSUME NEW r \in Runs, CheckpointStarted(r) PROVE Goal
  BY <1>5 DEF CheckpointStarted, historyVars
<1>6. ASSUME NEW r \in Runs, OpenManifest(r) PROVE Goal
  BY <1>6 DEF OpenManifest, historyVars
<1>7. ASSUME NEW r \in Runs, Copy(r) PROVE Goal
  BY <1>7 DEF Copy, historyVars
<1>8. ASSUME NEW r \in Runs, Hash(r) PROVE Goal
  BY <1>8 DEF Hash, historyVars
<1>9. ASSUME NEW r \in Runs, Seal(r) PROVE Goal
  BY <1>9 DEF Seal, historyVars
<1>10. ASSUME NEW r \in Runs, Abort(r) PROVE Goal
  BY <1>10 DEF Abort, historyVars
<1>11. ASSUME NEW r \in Runs, AppendFinished(r) PROVE Goal
  BY <1>11 DEF AppendFinished, historyVars
<1>12. ASSUME NEW r \in Runs, CheckpointFinished(r) PROVE Goal
  BY <1>12 DEF CheckpointFinished, historyVars
<1>13. ASSUME NEW r \in Runs, ListRuns(r) PROVE Goal
  BY <1>13 DEF ListRuns, historyVars
<1>14. ASSUME NEW r \in Runs, PruneDone(r) PROVE Goal
  BY <1>14 DEF PruneDone, historyVars
<1>15. ASSUME NEW r \in Runs, Unlock(r) PROVE Goal
  BY <1>15 DEF Unlock, historyVars
<1>16. ASSUME NEW r \in Runs, Verify(r) PROVE Goal
  BY <1>16 DEF Verify, historyVars
<1>17. ASSUME NEW r \in Runs, Die(r) PROVE Goal
  BY <1>17 DEF Die, historyVars
<1>18. ASSUME NEW r \in Runs, NEW s \in Runs, RemoveRun(r, s) PROVE Goal
  BY <1>18 DEF RemoveRun, historyVars
<1>19. CASE PowerLoss
  BY <1>19 DEF PowerLoss, historyVars
<1>20. CASE UNCHANGED vars BY <1>20 DEF vars, historyVars
<1> QED BY <1>1, <1>2, <1>3, <1>4, <1>5, <1>6, <1>7, <1>8, <1>9, <1>10,
  <1>11, <1>12, <1>13, <1>14, <1>15, <1>16, <1>17, <1>18, <1>19, <1>20 DEF
  Next, Run

\* A directory with Limit younger ones is older than Limit runs.
LEMMA OlderFact ==
  ASSUME NEW S, NEW T, S \subseteq T, T \subseteq Runs, NEW r,
         Cardinality({s \in S : s > r}) >= Limit
  PROVE  Cardinality({s \in T : s > r}) >= Limit
<1>1. IsFiniteSet({s \in T : s > r})
  <2>1. IsFiniteSet(T) BY RunsAssumption, FS_Subset
  <2> QED BY <2>1, FS_Subset
<1>2. {s \in S : s > r} \subseteq {s \in T : s > r} OBVIOUS
<1>3. /\ IsFiniteSet({s \in S : s > r})
      /\ Cardinality({s \in S : s > r}) <= Cardinality({s \in T : s > r})
  BY <1>1, <1>2, FS_Subset
<1>4. /\ Cardinality({s \in S : s > r}) \in Nat
      /\ Cardinality({s \in T : s > r}) \in Nat
  BY <1>1, <1>3, FS_CardinalityType
<1> QED BY <1>3, <1>4, LimitAssumption

\* What is old enough stays so.
LEMMA OlderStays ==
  ASSUME TypeOK, LockOK, LogOK, [Next]_vars, NEW r, Older(r)
  PROVE  Older(r)'
<1>1. begun' \subseteq Runs BY TypeStep DEF TypeOK
<1> QED BY <1>1, BegunStep, OlderFact DEF Older


\* What is to be removed and what was removed is old enough.
LEMMA PruneStep ==
  ASSUME TypeOK, LockOK, LogOK, PruneOK, [Next]_vars
  PROVE  PruneOK'
<1> DEFINE Goal == /\ \A r \in doomed' \cup pruned' : Older(r)
                   /\ \A r \in Runs : pc'[r] = "remove" => r \notin doomed'
<1> SUFFICES Goal BY OlderStays DEF PruneOK
<1>1. ASSUME NEW r \in Runs, Begin(r) PROVE Goal
  <2>1. doomed' \cup pruned' \subseteq doomed \cup pruned
    BY <1>1 DEF Begin, historyVars
  <2>2. \A q \in Runs : pc'[q] = "remove" => pc[q] = "remove"
    BY <1>1, PCTyped DEF Begin, Step, PC, Alive
  <2>3. doomed' \subseteq doomed BY <1>1 DEF Begin
  <2> QED BY <2>1, <2>2, <2>3 DEF PruneOK
<1>2. ASSUME NEW r \in Runs, Refuse(r) PROVE Goal
  <2>1. doomed' \cup pruned' \subseteq doomed \cup pruned
    BY <1>2 DEF Refuse, historyVars
  <2>2. \A q \in Runs : pc'[q] = "remove" => pc[q] = "remove"
    BY <1>2, PCTyped DEF Refuse, Step, PC, Alive
  <2>3. doomed' \subseteq doomed BY <1>2 DEF Refuse
  <2> QED BY <2>1, <2>2, <2>3 DEF PruneOK
<1>3. ASSUME NEW r \in Runs, Lock(r) PROVE Goal
  <2>1. doomed' \cup pruned' \subseteq doomed \cup pruned
    BY <1>3 DEF Lock, historyVars
  <2>2. \A q \in Runs : pc'[q] = "remove" => pc[q] = "remove"
    BY <1>3, PCTyped DEF Lock, Step, PC, Alive
  <2>3. doomed' \subseteq doomed BY <1>3 DEF Lock
  <2> QED BY <2>1, <2>2, <2>3 DEF PruneOK
<1>4. ASSUME NEW r \in Runs, AppendStarted(r) PROVE Goal
  <2>1. doomed' \cup pruned' \subseteq doomed \cup pruned
    BY <1>4 DEF AppendStarted, historyVars
  <2>2. \A q \in Runs : pc'[q] = "remove" => pc[q] = "remove"
    BY <1>4, PCTyped DEF AppendStarted, Step, PC, Alive
  <2>3. doomed' \subseteq doomed BY <1>4 DEF AppendStarted
  <2> QED BY <2>1, <2>2, <2>3 DEF PruneOK
<1>5. ASSUME NEW r \in Runs, CheckpointStarted(r) PROVE Goal
  <2>1. doomed' \cup pruned' \subseteq doomed \cup pruned
    BY <1>5 DEF CheckpointStarted, historyVars
  <2>2. \A q \in Runs : pc'[q] = "remove" => pc[q] = "remove"
    BY <1>5, PCTyped DEF CheckpointStarted, Step, PC, Alive
  <2>3. doomed' \subseteq doomed BY <1>5 DEF CheckpointStarted
  <2> QED BY <2>1, <2>2, <2>3 DEF PruneOK
<1>6. ASSUME NEW r \in Runs, OpenManifest(r) PROVE Goal
  <2>1. doomed' \cup pruned' \subseteq doomed \cup pruned
    BY <1>6 DEF OpenManifest, historyVars
  <2>2. \A q \in Runs : pc'[q] = "remove" => pc[q] = "remove"
    BY <1>6, PCTyped DEF OpenManifest, Step, PC, Alive
  <2>3. doomed' \subseteq doomed BY <1>6 DEF OpenManifest
  <2> QED BY <2>1, <2>2, <2>3 DEF PruneOK
<1>7. ASSUME NEW r \in Runs, Copy(r) PROVE Goal
  <2>1. doomed' \cup pruned' \subseteq doomed \cup pruned
    BY <1>7 DEF Copy, historyVars
  <2>2. \A q \in Runs : pc'[q] = "remove" => pc[q] = "remove"
    BY <1>7, PCTyped DEF Copy, Step, PC, Alive
  <2>3. doomed' \subseteq doomed BY <1>7 DEF Copy
  <2> QED BY <2>1, <2>2, <2>3 DEF PruneOK
<1>8. ASSUME NEW r \in Runs, Hash(r) PROVE Goal
  <2>1. doomed' \cup pruned' \subseteq doomed \cup pruned
    BY <1>8 DEF Hash, historyVars
  <2>2. \A q \in Runs : pc'[q] = "remove" => pc[q] = "remove"
    BY <1>8, PCTyped DEF Hash, Step, PC, Alive
  <2>3. doomed' \subseteq doomed BY <1>8 DEF Hash
  <2> QED BY <2>1, <2>2, <2>3 DEF PruneOK
<1>9. ASSUME NEW r \in Runs, Seal(r) PROVE Goal
  <2>1. doomed' \cup pruned' \subseteq doomed \cup pruned
    BY <1>9 DEF Seal, historyVars
  <2>2. \A q \in Runs : pc'[q] = "remove" => pc[q] = "remove"
    BY <1>9, PCTyped DEF Seal, Step, PC, Alive
  <2>3. doomed' \subseteq doomed BY <1>9 DEF Seal
  <2> QED BY <2>1, <2>2, <2>3 DEF PruneOK
<1>10. ASSUME NEW r \in Runs, Abort(r) PROVE Goal
  <2>1. doomed' \cup pruned' \subseteq doomed \cup pruned
    BY <1>10 DEF Abort, historyVars
  <2>2. \A q \in Runs : pc'[q] = "remove" => pc[q] = "remove"
    BY <1>10, PCTyped DEF Abort, Step, PC, Alive
  <2>3. doomed' \subseteq doomed BY <1>10 DEF Abort
  <2> QED BY <2>1, <2>2, <2>3 DEF PruneOK
<1>11. ASSUME NEW r \in Runs, AppendFinished(r) PROVE Goal
  <2>1. doomed' \cup pruned' \subseteq doomed \cup pruned
    BY <1>11 DEF AppendFinished, historyVars
  <2>2. \A q \in Runs : pc'[q] = "remove" => pc[q] = "remove"
    BY <1>11, PCTyped DEF AppendFinished, Step, PC, Alive
  <2>3. doomed' \subseteq doomed BY <1>11 DEF AppendFinished
  <2> QED BY <2>1, <2>2, <2>3 DEF PruneOK
<1>12. ASSUME NEW r \in Runs, CheckpointFinished(r) PROVE Goal
  <2>1. doomed' \cup pruned' \subseteq doomed \cup pruned
    BY <1>12 DEF CheckpointFinished, historyVars
  <2>2. \A q \in Runs : pc'[q] = "remove" => pc[q] = "remove"
    BY <1>12, PCTyped DEF CheckpointFinished, Step, PC, Alive
  <2>3. doomed' \subseteq doomed BY <1>12 DEF CheckpointFinished
  <2> QED BY <2>1, <2>2, <2>3 DEF PruneOK
<1>13. ASSUME NEW r \in Runs, ListRuns(r) PROVE Goal
  <2>1. doomed' \subseteq Oldest(r) /\ pruned' = pruned
    BY <1>13 DEF ListRuns, historyVars
  <2>2. ASSUME NEW s \in Oldest(r) PROVE Older(s)
    <3>1. Cardinality({t \in dirs : t > s}) >= Limit BY DEF Oldest
    <3>2. dirs \subseteq begun /\ begun \subseteq Runs BY DEF LockOK, TypeOK
    <3> QED BY <3>1, <3>2, OlderFact DEF Older
  <2>3. \A q \in Runs : pc'[q] = "remove" => q = r
    BY <1>13, PCTyped DEF ListRuns, Step, LockOK, Holding, PC
  <2>4. r \notin Oldest(r) BY DEF Oldest
  <2> QED BY <2>1, <2>2, <2>3, <2>4 DEF PruneOK
<1>14. ASSUME NEW r \in Runs, PruneDone(r) PROVE Goal
  <2>1. doomed' \cup pruned' \subseteq doomed \cup pruned
    BY <1>14 DEF PruneDone, historyVars
  <2>2. \A q \in Runs : pc'[q] = "remove" => pc[q] = "remove"
    BY <1>14, PCTyped DEF PruneDone, Step, PC, Alive
  <2>3. doomed' \subseteq doomed BY <1>14 DEF PruneDone
  <2> QED BY <2>1, <2>2, <2>3 DEF PruneOK
<1>15. ASSUME NEW r \in Runs, Unlock(r) PROVE Goal
  <2>1. doomed' \cup pruned' \subseteq doomed \cup pruned
    BY <1>15 DEF Unlock, historyVars
  <2>2. \A q \in Runs : pc'[q] = "remove" => pc[q] = "remove"
    BY <1>15, PCTyped DEF Unlock, Step, PC, Alive
  <2>3. doomed' \subseteq doomed BY <1>15 DEF Unlock
  <2> QED BY <2>1, <2>2, <2>3 DEF PruneOK
<1>16. ASSUME NEW r \in Runs, Verify(r) PROVE Goal
  <2>1. doomed' \cup pruned' \subseteq doomed \cup pruned
    BY <1>16 DEF Verify, historyVars
  <2>2. \A q \in Runs : pc'[q] = "remove" => pc[q] = "remove"
    BY <1>16, PCTyped DEF Verify, Step, PC, Alive
  <2>3. doomed' \subseteq doomed BY <1>16 DEF Verify
  <2> QED BY <2>1, <2>2, <2>3 DEF PruneOK
<1>17. ASSUME NEW r \in Runs, Die(r) PROVE Goal
  <2>1. doomed' \cup pruned' \subseteq doomed \cup pruned
    BY <1>17 DEF Die, historyVars
  <2>2. \A q \in Runs : pc'[q] = "remove" => pc[q] = "remove"
    BY <1>17, PCTyped DEF Die, Step, PC, Alive
  <2>3. doomed' \subseteq doomed BY <1>17 DEF Die
  <2> QED BY <2>1, <2>2, <2>3 DEF PruneOK
<1>18. ASSUME NEW r \in Runs, NEW s \in Runs, RemoveRun(r, s) PROVE Goal
  <2>1. doomed' \cup pruned' \subseteq doomed \cup pruned
    BY <1>18 DEF RemoveRun, historyVars
  <2>2. \A q \in Runs : pc'[q] = "remove" => pc[q] = "remove"
    BY <1>18, PCTyped DEF RemoveRun, Step, PC, Alive
  <2>3. doomed' \subseteq doomed BY <1>18 DEF RemoveRun
  <2> QED BY <2>1, <2>2, <2>3 DEF PruneOK
<1>19. CASE PowerLoss
  <2>1. doomed' \cup pruned' \subseteq doomed \cup pruned
    BY <1>19 DEF PowerLoss, historyVars
  <2>2. \A q \in Runs : pc'[q] = "remove" => pc[q] = "remove"
    BY <1>19, PCTyped DEF PowerLoss, Step, PC, Alive
  <2>3. doomed' \subseteq doomed BY <1>19 DEF PowerLoss
  <2> QED BY <2>1, <2>2, <2>3 DEF PruneOK
<1>20. CASE UNCHANGED vars BY <1>20 DEF vars, historyVars, PruneOK
<1> QED BY <1>1, <1>2, <1>3, <1>4, <1>5, <1>6, <1>7, <1>8, <1>9, <1>10,
  <1>11, <1>12, <1>13, <1>14, <1>15, <1>16, <1>17, <1>18, <1>19, <1>20 DEF
  Next, Run

\* A manifest is of what its own run has copied.
LEMMA ContentStep ==
  ASSUME TypeOK, LockOK, ContentOK, [Next]_vars
  PROVE  ContentOK'
<1> USE PCTyped
<1> USE DEF TypeOK, LockOK, ContentOK, Holding, PC, Alive, Step, dirVars
<1>1. ASSUME NEW r \in Runs, Begin(r) PROVE ContentOK'
  BY <1>1 DEF Begin
<1>2. ASSUME NEW r \in Runs, Refuse(r) PROVE ContentOK'
  BY <1>2 DEF Refuse
<1>3. ASSUME NEW r \in Runs, Lock(r) PROVE ContentOK'
  BY <1>3 DEF Lock
<1>4. ASSUME NEW r \in Runs, AppendStarted(r) PROVE ContentOK'
  BY <1>4 DEF AppendStarted
<1>5. ASSUME NEW r \in Runs, CheckpointStarted(r) PROVE ContentOK'
  BY <1>5 DEF CheckpointStarted
<1>6. ASSUME NEW r \in Runs, OpenManifest(r) PROVE ContentOK'
  BY <1>6 DEF OpenManifest
<1>7. ASSUME NEW r \in Runs, Copy(r) PROVE ContentOK'
  BY <1>7 DEF Copy
<1>8. ASSUME NEW r \in Runs, Hash(r) PROVE ContentOK'
  BY <1>8 DEF Hash
<1>9. ASSUME NEW r \in Runs, Seal(r) PROVE ContentOK'
  BY <1>9 DEF Seal
<1>10. ASSUME NEW r \in Runs, Abort(r) PROVE ContentOK'
  BY <1>10 DEF Abort
<1>11. ASSUME NEW r \in Runs, AppendFinished(r) PROVE ContentOK'
  BY <1>11 DEF AppendFinished
<1>12. ASSUME NEW r \in Runs, CheckpointFinished(r) PROVE ContentOK'
  BY <1>12 DEF CheckpointFinished
<1>13. ASSUME NEW r \in Runs, ListRuns(r) PROVE ContentOK'
  BY <1>13 DEF ListRuns
<1>14. ASSUME NEW r \in Runs, PruneDone(r) PROVE ContentOK'
  BY <1>14 DEF PruneDone
<1>15. ASSUME NEW r \in Runs, Unlock(r) PROVE ContentOK'
  BY <1>15 DEF Unlock
<1>16. ASSUME NEW r \in Runs, Verify(r) PROVE ContentOK'
  BY <1>16 DEF Verify
<1>17. ASSUME NEW r \in Runs, Die(r) PROVE ContentOK'
  BY <1>17 DEF Die
<1>18. ASSUME NEW r \in Runs, NEW s \in Runs, RemoveRun(r, s) PROVE ContentOK'
  BY <1>18 DEF RemoveRun
<1>19. CASE PowerLoss
  BY <1>19 DEF PowerLoss
<1>20. CASE UNCHANGED vars BY <1>20 DEF vars
<1> QED BY <1>1, <1>2, <1>3, <1>4, <1>5, <1>6, <1>7, <1>8, <1>9, <1>10,
  <1>11, <1>12, <1>13, <1>14, <1>15, <1>16, <1>17, <1>18, <1>19, <1>20 DEF
  Next, Run


\* The newest summary stays where it is, or its run is old enough.
LEMMA VerifyStep ==
  ASSUME TypeOK, LockOK, LogOK, PruneOK, VerifyOK, [Next]_vars
  PROVE  VerifyOK'
<1> DEFINE Goal ==
      /\ \A r \in Runs : verifiedAt'[r] <= verifies'
      /\ lastVerified' # NoRun =>
           \/ /\ lastVerified' \in dirs' /\ verifies' # 0
              /\ verifiedAt'[lastVerified'] = verifies'
           \/ Older(lastVerified')
<1> SUFFICES Goal BY OlderStays DEF VerifyOK
<1>1. ASSUME NEW r \in Runs, Begin(r) PROVE Goal
  <2>1. UNCHANGED <<verifiedAt, verifies, lastVerified>> /\ dirs \subseteq dirs'
    BY <1>1 DEF Begin, historyVars, dirVars
  <2> QED BY <2>1 DEF VerifyOK
<1>2. ASSUME NEW r \in Runs, Refuse(r) PROVE Goal
  <2>1. UNCHANGED <<verifiedAt, verifies, lastVerified>> /\ dirs \subseteq dirs'
    BY <1>2 DEF Refuse, historyVars, dirVars
  <2> QED BY <2>1 DEF VerifyOK
<1>3. ASSUME NEW r \in Runs, Lock(r) PROVE Goal
  <2>1. UNCHANGED <<verifiedAt, verifies, lastVerified>> /\ dirs \subseteq dirs'
    BY <1>3 DEF Lock, historyVars, dirVars
  <2> QED BY <2>1 DEF VerifyOK
<1>4. ASSUME NEW r \in Runs, AppendStarted(r) PROVE Goal
  <2>1. UNCHANGED <<verifiedAt, verifies, lastVerified>> /\ dirs \subseteq dirs'
    BY <1>4 DEF AppendStarted, historyVars, dirVars
  <2> QED BY <2>1 DEF VerifyOK
<1>5. ASSUME NEW r \in Runs, CheckpointStarted(r) PROVE Goal
  <2>1. UNCHANGED <<verifiedAt, verifies, lastVerified>> /\ dirs \subseteq dirs'
    BY <1>5 DEF CheckpointStarted, historyVars, dirVars
  <2> QED BY <2>1 DEF VerifyOK
<1>6. ASSUME NEW r \in Runs, OpenManifest(r) PROVE Goal
  <2>1. UNCHANGED <<verifiedAt, verifies, lastVerified>> /\ dirs \subseteq dirs'
    BY <1>6 DEF OpenManifest, historyVars, dirVars
  <2> QED BY <2>1 DEF VerifyOK
<1>7. ASSUME NEW r \in Runs, Copy(r) PROVE Goal
  <2>1. UNCHANGED <<verifiedAt, verifies, lastVerified>> /\ dirs \subseteq dirs'
    BY <1>7 DEF Copy, historyVars, dirVars
  <2> QED BY <2>1 DEF VerifyOK
<1>8. ASSUME NEW r \in Runs, Hash(r) PROVE Goal
  <2>1. UNCHANGED <<verifiedAt, verifies, lastVerified>> /\ dirs \subseteq dirs'
    BY <1>8 DEF Hash, historyVars, dirVars
  <2> QED BY <2>1 DEF VerifyOK
<1>9. ASSUME NEW r \in Runs, Seal(r) PROVE Goal
  <2>1. UNCHANGED <<verifiedAt, verifies, lastVerified>> /\ dirs \subseteq dirs'
    BY <1>9 DEF Seal, historyVars, dirVars
  <2> QED BY <2>1 DEF VerifyOK
<1>10. ASSUME NEW r \in Runs, Abort(r) PROVE Goal
  <2>1. UNCHANGED <<verifiedAt, verifies, lastVerified>> /\ dirs \subseteq dirs'
    BY <1>10 DEF Abort, historyVars, dirVars
  <2> QED BY <2>1 DEF VerifyOK
<1>11. ASSUME NEW r \in Runs, AppendFinished(r) PROVE Goal
  <2>1. UNCHANGED <<verifiedAt, verifies, lastVerified>> /\ dirs \subseteq dirs'
    BY <1>11 DEF AppendFinished, historyVars, dirVars
  <2> QED BY <2>1 DEF VerifyOK
<1>12. ASSUME NEW r \in Runs, CheckpointFinished(r) PROVE Goal
  <2>1. UNCHANGED <<verifiedAt, verifies, lastVerified>> /\ dirs \subseteq dirs'
    BY <1>12 DEF CheckpointFinished, historyVars, dirVars
  <2> QED BY <2>1 DEF VerifyOK
<1>13. ASSUME NEW r \in Runs, ListRuns(r) PROVE Goal
  <2>1. UNCHANGED <<verifiedAt, verifies, lastVerified>> /\ dirs \subseteq dirs'
    BY <1>13 DEF ListRuns, historyVars, dirVars
  <2> QED BY <2>1 DEF VerifyOK
<1>14. ASSUME NEW r \in Runs, PruneDone(r) PROVE Goal
  <2>1. UNCHANGED <<verifiedAt, verifies, lastVerified>> /\ dirs \subseteq dirs'
    BY <1>14 DEF PruneDone, historyVars, dirVars
  <2> QED BY <2>1 DEF VerifyOK
<1>15. ASSUME NEW r \in Runs, Unlock(r) PROVE Goal
  <2>1. UNCHANGED <<verifiedAt, verifies, lastVerified>> /\ dirs \subseteq dirs'
    BY <1>15 DEF Unlock, historyVars, dirVars
  <2> QED BY <2>1 DEF VerifyOK
<1>16. ASSUME NEW r \in Runs, Verify(r) PROVE Goal
  <2>1. /\ verifies' = verifies + 1 /\ lastVerified' = r /\ dirs' = dirs
        /\ verifiedAt' = [verifiedAt EXCEPT ![r] = verifies + 1]
        /\ r \in dirs /\ r \in Runs
    BY <1>16 DEF Verify
  <2>2. /\ verifies \in Nat /\ \A q \in Runs : verifiedAt[q] \in Nat
        /\ verifiedAt \in [Runs -> 0..MaxVerifies]
    BY BoundAssumption DEF TypeOK
  <2>3. verifiedAt'[r] = verifies' BY <2>1, <2>2
  <2>4. \A q \in Runs : verifiedAt'[q] <= verifies'
    BY <2>1, <2>2 DEF VerifyOK
  <2> QED BY <2>1, <2>2, <2>3, <2>4
<1>17. ASSUME NEW r \in Runs, Die(r) PROVE Goal
  <2>1. UNCHANGED <<verifiedAt, verifies, lastVerified>> /\ dirs \subseteq dirs'
    BY <1>17 DEF Die, historyVars, dirVars
  <2> QED BY <2>1 DEF VerifyOK
<1>18. ASSUME NEW r \in Runs, NEW s \in Runs, RemoveRun(r, s) PROVE Goal
  <2>1. /\ UNCHANGED <<verifies, lastVerified>> /\ s \in doomed
        /\ verifiedAt' \in {verifiedAt, [verifiedAt EXCEPT ![s] = 0]}
        /\ dirs' \in {dirs, dirs \ {s}}
    BY <1>18 DEF RemoveRun
  <2>2. /\ verifies \in Nat /\ \A q \in Runs : verifiedAt[q] \in Nat
        /\ verifiedAt \in [Runs -> 0..MaxVerifies]
    BY BoundAssumption DEF TypeOK
  <2>3. Older(s) BY <2>1 DEF PruneOK
  <2>4. \A q \in Runs : verifiedAt'[q] <= verifies'
    BY <2>1, <2>2 DEF VerifyOK
  <2>5. CASE lastVerified = s BY <2>1, <2>3, <2>4, <2>5
  <2>6. CASE lastVerified # s
    <3>1. lastVerified # NoRun => lastVerified \in Runs BY DEF TypeOK
    <3>2. lastVerified # NoRun => verifiedAt'[lastVerified] = verifiedAt[lastVerified]
      BY <2>1, <2>2, <2>6, <3>1
    <3>3. lastVerified \in dirs => lastVerified \in dirs' BY <2>1, <2>6
    <3> QED BY <2>1, <2>4, <3>2, <3>3 DEF VerifyOK
  <2> QED BY <2>5, <2>6
<1>19. CASE PowerLoss
  <2>1. UNCHANGED <<verifiedAt, verifies, lastVerified>> /\ dirs \subseteq dirs'
    BY <1>19 DEF PowerLoss, historyVars, dirVars
  <2> QED BY <2>1 DEF VerifyOK
<1>20. CASE UNCHANGED vars BY <1>20 DEF vars, historyVars, dirVars, VerifyOK
<1> QED BY <1>1, <1>2, <1>3, <1>4, <1>5, <1>6, <1>7, <1>8, <1>9, <1>10,
  <1>11, <1>12, <1>13, <1>14, <1>15, <1>16, <1>17, <1>18, <1>19, <1>20 DEF
  Next, Run

\* What a step does to the records, for the count of those that are lost: a run
\* writes a line, or has it fsynced, or the power fails, or nothing is gained.
Writes(r, e) ==
  /\ pc[r] \in NotSaved(e) /\ UNCHANGED saved
  /\ \/ AppendLine(r, e) /\ pc' = [pc EXCEPT ![r] = e]
     \/ AppendFails(r, e) /\ pc' = [pc EXCEPT ![r] = "unlock"]
Saves(r, e) ==
  /\ pc[r] = e /\ Checkpoint(r, e)
  /\ pc' = [pc EXCEPT ![r] = IF e = "started" THEN "setup" ELSE "prune"]
  /\ UNCHANGED <<log, torn, tears>>
Quiet ==
  /\ UNCHANGED <<log, torn, tears, saved>>
  /\ synced' \in {synced, Complete}
  /\ \A q \in Runs, e \in Event :
       /\ pc[q] \notin NotSaved(e) => pc'[q] \notin NotSaved(e)
       /\ pc'[q] = e => pc[q] = e

\* Every step is one of the four.
LEMMA RecordSteps ==
  ASSUME TypeOK, [Next]_vars
  PROVE  Quiet \/ PowerLoss \/ \E r \in Runs, e \in Event : Writes(r, e) \/ Saves(r, e)
<1> DEFINE Goal ==
      Quiet \/ PowerLoss \/ \E r \in Runs, e \in Event : Writes(r, e) \/ Saves(r, e)
<1> SUFFICES Goal OBVIOUS
<1> USE PCTyped DEF Quiet, NotSaved, BeforeEnd, Event, PC, Alive, Step
<1>1. ASSUME NEW r \in Runs, Begin(r) PROVE Goal
  BY <1>1 DEF Begin, logVars, historyVars
<1>2. ASSUME NEW r \in Runs, Refuse(r) PROVE Goal
  BY <1>2 DEF Refuse, logVars, historyVars
<1>3. ASSUME NEW r \in Runs, Lock(r) PROVE Goal
  BY <1>3 DEF Lock, logVars, historyVars
<1>4. ASSUME NEW r \in Runs, AppendStarted(r) PROVE Goal
  <2>1. Writes(r, "started") BY <1>4 DEF AppendStarted, Writes
  <2> QED BY <2>1
<1>5. ASSUME NEW r \in Runs, CheckpointStarted(r) PROVE Goal
  <2>1. Quiet \/ Saves(r, "started") BY <1>5 DEF CheckpointStarted, Saves
  <2> QED BY <2>1
<1>6. ASSUME NEW r \in Runs, OpenManifest(r) PROVE Goal
  BY <1>6 DEF OpenManifest, logVars, historyVars
<1>7. ASSUME NEW r \in Runs, Copy(r) PROVE Goal
  BY <1>7 DEF Copy, logVars, historyVars
<1>8. ASSUME NEW r \in Runs, Hash(r) PROVE Goal
  BY <1>8 DEF Hash, logVars, historyVars
<1>9. ASSUME NEW r \in Runs, Seal(r) PROVE Goal
  BY <1>9 DEF Seal, logVars, historyVars
<1>10. ASSUME NEW r \in Runs, Abort(r) PROVE Goal
  BY <1>10 DEF Abort, logVars, historyVars
<1>11. ASSUME NEW r \in Runs, AppendFinished(r) PROVE Goal
  <2>1. Writes(r, "finished") BY <1>11 DEF AppendFinished, Writes
  <2> QED BY <2>1
<1>12. ASSUME NEW r \in Runs, CheckpointFinished(r) PROVE Goal
  <2>1. Quiet \/ Saves(r, "finished") BY <1>12 DEF CheckpointFinished, Saves
  <2> QED BY <2>1
<1>13. ASSUME NEW r \in Runs, ListRuns(r) PROVE Goal
  BY <1>13 DEF ListRuns, logVars, historyVars
<1>14. ASSUME NEW r \in Runs, PruneDone(r) PROVE Goal
  BY <1>14 DEF PruneDone, logVars, historyVars
<1>15. ASSUME NEW r \in Runs, Unlock(r) PROVE Goal
  BY <1>15 DEF Unlock, logVars, historyVars
<1>16. ASSUME NEW r \in Runs, Verify(r) PROVE Goal
  BY <1>16 DEF Verify, logVars, historyVars
<1>17. ASSUME NEW r \in Runs, Die(r) PROVE Goal
  BY <1>17 DEF Die, logVars, historyVars
<1>18. ASSUME NEW r \in Runs, NEW s \in Runs, RemoveRun(r, s) PROVE Goal
  BY <1>18 DEF RemoveRun, logVars
<1>19. CASE PowerLoss
  BY <1>19
<1>20. CASE UNCHANGED vars BY <1>20 DEF vars, logVars, historyVars
<1> QED BY <1>1, <1>2, <1>3, <1>4, <1>5, <1>6, <1>7, <1>8, <1>9, <1>10,
  <1>11, <1>12, <1>13, <1>14, <1>15, <1>16, <1>17, <1>18, <1>19, <1>20 DEF
  Next, Run

\* A set of records that gains one at most has one more member at most.
LEMMA CountFact ==
  ASSUME NEW A, NEW B, NEW x, A \subseteq Runs \X Event, B \subseteq A \cup {x}
  PROVE  /\ Cardinality(A) \in Nat /\ Cardinality(B) \in Nat
         /\ Cardinality(B) <= Cardinality(A) + 1
         /\ B \subseteq A => Cardinality(B) <= Cardinality(A)
<1>1. IsFiniteSet(Event)
  <2>1. Event = {"started"} \cup {"finished"} BY DEF Event
  <2> QED BY <2>1, FS_Singleton, FS_Union
<1>2. IsFiniteSet(A) BY <1>1, RunsAssumption, FS_Product, FS_Subset
<1>3. /\ IsFiniteSet(A \cup {x})
      /\ Cardinality(A \cup {x}) = IF x \in A THEN Cardinality(A)
                                               ELSE Cardinality(A) + 1
  BY <1>2, FS_AddElement
<1>4. IsFiniteSet(B) /\ Cardinality(B) <= Cardinality(A \cup {x})
  BY <1>3, FS_Subset
<1>5. Cardinality(A) \in Nat /\ Cardinality(B) \in Nat
  BY <1>2, <1>4, FS_CardinalityType
<1>6. B \subseteq A => Cardinality(B) <= Cardinality(A) BY <1>2, FS_Subset
<1> QED BY <1>3, <1>4, <1>5, <1>6

\* Records are checkpointed once, each after it is written.
LEMMA SavedStep ==
  ASSUME TypeOK, TearsOK, [Next]_vars
  PROVE  \A q \in Runs, e \in Event :
           <<q, e>> \in saved' => pc'[q] \notin NotSaved(e)
<1> DEFINE Goal == \A q \in Runs, e \in Event :
                     <<q, e>> \in saved' => pc'[q] \notin NotSaved(e)
<1>1. \A q \in Runs, e \in Event : <<q, e>> \in saved => pc[q] \notin NotSaved(e)
  BY DEF TearsOK
<1>2. CASE Quiet BY <1>1, <1>2 DEF Quiet
<1>3. CASE PowerLoss
  BY <1>1, <1>3, PCTyped DEF PowerLoss, NotSaved, BeforeEnd, Event, Alive
<1>4. ASSUME NEW r \in Runs, NEW d \in Event, Writes(r, d) PROVE Goal
  <2>1. pc[r] \in NotSaved(d) /\ saved' = saved BY <1>4 DEF Writes
  <2>2. /\ \A q \in Runs : q # r => pc'[q] = pc[q]
        /\ pc'[r] = d \/ pc'[r] = "unlock"
    BY <1>4, PCTyped DEF Writes
  <2>3. ASSUME NEW e \in Event, <<r, e>> \in saved PROVE pc'[r] \notin NotSaved(e)
    <3>1. pc[r] \notin NotSaved(e) BY <1>1, <2>3
    <3>2. e = "started" /\ d = "finished"
      BY <2>1, <3>1 DEF Event, NotSaved, BeforeEnd
    <3> QED BY <2>2, <3>2 DEF NotSaved
  <2> QED BY <1>1, <2>1, <2>2, <2>3
<1>5. ASSUME NEW r \in Runs, NEW d \in Event, Saves(r, d) PROVE Goal
  <2>1. pc[r] = d /\ saved' = saved \cup {<<r, d>>}
    BY <1>5 DEF Saves, Checkpoint
  <2>2. /\ \A q \in Runs : q # r => pc'[q] = pc[q]
        /\ pc'[r] = IF d = "started" THEN "setup" ELSE "prune"
    BY <1>5, PCTyped DEF Saves
  <2>3. ASSUME NEW e \in Event, <<r, e>> \in saved' PROVE pc'[r] \notin NotSaved(e)
    <3>1. e = d \/ pc[r] \notin NotSaved(e) BY <1>1, <2>1, <2>3
    <3>2. e = "started" \/ d = "finished"
      BY <2>1, <3>1 DEF Event, NotSaved, BeforeEnd
    <3> QED BY <2>2, <3>2 DEF NotSaved, BeforeEnd, Event
  <2>4. ASSUME NEW q \in Runs, q # r, NEW e \in Event, <<q, e>> \in saved'
        PROVE  pc'[q] \notin NotSaved(e)
    BY <1>1, <2>1, <2>2, <2>4
  <2> QED BY <2>3, <2>4
<1> QED BY <1>2, <1>3, <1>4, <1>5, RecordSteps

\* A line that is not fsynced has no checkpointed record.
Unsynced(i) == log[i].ok /\ i > synced => <<log[i].run, log[i].event>> \notin saved

LEMMA UnsyncedStep ==
  ASSUME TypeOK, LogOK, TearsOK, [Next]_vars
  PROVE  \A i \in 1..Len(log') : Unsynced(i)'
<1> DEFINE Goal == \A i \in 1..Len(log') : Unsynced(i)'
<1>1. /\ \A i \in 1..Len(log) : Unsynced(i)
      /\ \A q \in Runs, e \in Event : <<q, e>> \in saved => pc[q] \notin NotSaved(e)
  BY DEF TearsOK, Unsynced
<1>2. torn => synced < Len(log) BY DEF LogOK
<1>3. log \in Seq(Line) /\ Len(log) \in Nat /\ synced \in 0..Len(log)
  BY DEF TypeOK
<1>4. CASE Quiet
  <2>1. synced <= synced' BY <1>2, <1>3, <1>4 DEF Quiet, Complete
  <2>2. synced' \in Int BY <1>3, <1>4 DEF Quiet, Complete
  <2> QED BY <1>1, <1>3, <1>4, <2>1, <2>2 DEF Quiet, Unsynced
<1>5. CASE PowerLoss
  <2>1. \A i \in 1..Len(log') :
          log'[i].ok => i \in 1..Len(log) /\ log'[i] = log[i]
    BY <1>2, <1>5, PowerFact
  <2>2. saved' = saved /\ synced' \in Nat /\ synced <= synced'
    BY <1>3, <1>5 DEF PowerLoss
  <2> QED BY <1>1, <1>3, <2>1, <2>2 DEF Unsynced
<1>6. ASSUME NEW r \in Runs, NEW d \in Event, Writes(r, d) PROVE Goal
  <2>1. /\ synced' = synced
        /\ \A i \in 1..Len(log') : log'[i].ok =>
             \/ i \in 1..Len(log) /\ log'[i] = log[i]
             \/ log'[i] = [run |-> r, event |-> d, ok |-> TRUE]
    BY <1>2, <1>6, AppendFact DEF Writes
  <2>2. saved' = saved /\ <<r, d>> \notin saved BY <1>1, <1>6 DEF Writes
  <2>3. ASSUME NEW i \in 1..Len(log'),
               log'[i] = [run |-> r, event |-> d, ok |-> TRUE]
        PROVE  Unsynced(i)'
    BY <2>2, <2>3 DEF Unsynced
  <2>4. ASSUME NEW i \in 1..Len(log'), i \in 1..Len(log), log'[i] = log[i]
        PROVE  Unsynced(i)'
    BY <1>1, <2>1, <2>2, <2>4 DEF Unsynced
  <2> QED BY <2>1, <2>3, <2>4 DEF Unsynced
<1>7. ASSUME NEW r \in Runs, NEW d \in Event, Saves(r, d) PROVE Goal
  <2>1. log' = log /\ synced' = Len(log)
    BY <1>7 DEF Saves, Checkpoint
  <2> QED BY <1>3, <2>1 DEF Unsynced
<1> QED BY <1>4, <1>5, <1>6, <1>7, RecordSteps

\* A record that is checkpointed, or about to be, and that readers do not see.
Lost == (saved \cup Unsaved) \ OnRecord

\* Tears are what pays for lost records, one each.
LEMMA LostStep ==
  ASSUME TypeOK, LogOK, TearsOK, [Next]_vars
  PROVE  Cardinality(Lost') + (IF torn' THEN 1 ELSE 0) <= tears'
<1> DEFINE Goal == Cardinality(Lost') + (IF torn' THEN 1 ELSE 0) <= tears'
<1>1. /\ Cardinality(Lost) + (IF torn THEN 1 ELSE 0) <= tears
      /\ \A i \in 1..Len(log) : Unsynced(i)
  BY DEF TearsOK, Unsynced, Lost
<1>2. /\ torn => synced < Len(log)
      /\ torn => Unsaved = {}
  BY DEF LogOK, Unsaved, Event
<1>3. /\ log \in Seq(Line) /\ Len(log) \in Nat /\ synced \in 0..Len(log)
      /\ torn \in BOOLEAN /\ tears \in Nat
      /\ saved \subseteq Runs \X Event
  BY BoundAssumption DEF TypeOK
<1>4. Lost \subseteq Runs \X Event BY <1>3 DEF Lost, Unsaved
\* The lines that were fsynced, of records that were checkpointed.
<1>5. ASSUME NEW i \in Entries, <<log[i].run, log[i].event>> \in saved
      PROVE  i \in 1..synced /\ log[i].ok
  BY <1>1, <1>3, <1>5 DEF Entries, Unsynced
<1>6. ASSUME Lost' \subseteq Lost, tears' = tears, torn' = torn PROVE Goal
  <2>1. Cardinality(Lost') <= Cardinality(Lost) BY <1>4, <1>6, CountFact
  <2>2. Cardinality(Lost) \in Nat /\ Cardinality(Lost') \in Nat
    BY <1>4, <1>6, CountFact
  <2> QED BY <1>1, <1>3, <1>6, <2>1, <2>2
<1>7. ASSUME Lost' \subseteq Lost, tears' = tears + 1, torn' \in BOOLEAN PROVE Goal
  <2>1. Cardinality(Lost') <= Cardinality(Lost) BY <1>4, <1>7, CountFact
  <2>2. Cardinality(Lost) \in Nat /\ Cardinality(Lost') \in Nat
    BY <1>4, <1>7, CountFact
  <2> QED BY <1>1, <1>3, <1>7, <2>1, <2>2
<1>8. CASE Quiet
  <2>1. Unsaved' \subseteq Unsaved BY <1>8 DEF Quiet, Unsaved
  <2>2. OnRecord' = OnRecord BY <1>8 DEF Quiet, OnRecord, Entries
  <2>3. Lost' \subseteq Lost BY <1>8, <2>1, <2>2 DEF Quiet, Lost
  <2> QED BY <1>6, <1>8, <2>3 DEF Quiet
<1>9. CASE PowerLoss
  <2>1. Unsaved' = {} BY <1>9, PCTyped DEF PowerLoss, Unsaved, Event, Alive, PC
  <2>2. \A i \in 1..synced :
          log[i].ok => i <= Len(log') /\ log'[i] = log[i]
    BY <1>2, <1>9, PowerFact
  <2>3. ASSUME NEW x \in saved, x \in OnRecord PROVE x \in OnRecord'
    <3>1. PICK i \in Entries : x = <<log[i].run, log[i].event>>
      BY <2>3 DEF OnRecord
    <3>2. i \in 1..synced /\ log[i].ok BY <1>5, <2>3, <3>1
    <3>3. i \in Entries' /\ log'[i] = log[i]
      BY <1>3, <2>2, <3>2 DEF Entries
    <3> QED BY <3>1, <3>3 DEF OnRecord
  <2>4. saved' = saved /\ tears' = tears + 1 BY <1>9 DEF PowerLoss
  <2>5. torn' \in BOOLEAN BY <1>2, <1>9, PowerFact
  <2>6. Lost' \subseteq Lost BY <2>1, <2>3, <2>4 DEF Lost
  <2> QED BY <1>7, <2>4, <2>5, <2>6
<1>10. ASSUME NEW r \in Runs, NEW d \in Event, Saves(r, d) PROVE Goal
  <2>1. /\ UNCHANGED <<log, torn, tears>> /\ saved' = saved \cup {<<r, d>>}
        /\ pc[r] = d
        /\ pc' = [pc EXCEPT ![r] = IF d = "started" THEN "setup" ELSE "prune"]
    BY <1>10 DEF Saves, Checkpoint
  <2>2. <<r, d>> \in Unsaved BY <2>1 DEF Unsaved
  <2>3. Unsaved' \subseteq Unsaved
    BY <2>1, PCTyped DEF Unsaved, Event
  <2>4. OnRecord' = OnRecord BY <2>1 DEF OnRecord, Entries
  <2>5. Lost' \subseteq Lost BY <2>1, <2>2, <2>3, <2>4 DEF Lost
  <2> QED BY <1>6, <2>1, <2>5
<1>11. ASSUME NEW r \in Runs, NEW d \in Event, Writes(r, d) PROVE Goal
  <2>1. saved' = saved /\ torn' \in BOOLEAN BY <1>2, <1>11, AppendFact DEF Writes
  <2>2. /\ Len(log) <= Len(log') /\ Len(log') \in Nat
        /\ \A i \in 1..Len(log) : (torn => i < Len(log)) => log'[i] = log[i]
    <3>1. /\ log' \in Seq(Line) /\ Len(log) <= Len(log')
          /\ \A i \in 1..Len(log) : (torn => i < Len(log)) => log'[i] = log[i]
      BY <1>2, <1>11, AppendFact DEF Writes
    <3> QED BY <3>1
  \* What was on record is, but for the torn line, which is nobody's.
  <2>3. ASSUME NEW x \in saved \cup Unsaved, x \in OnRecord PROVE x \in OnRecord'
    <3>1. PICK i \in Entries : x = <<log[i].run, log[i].event>>
      BY <2>3 DEF OnRecord
    <3>2. torn => i < Len(log)
      <4>1. torn => x \in saved BY <1>2, <2>3
      <4> QED BY <1>2, <1>3, <1>5, <3>1, <4>1
    <3>3. i \in Entries' /\ log'[i] = log[i]
      BY <1>3, <2>2, <3>1, <3>2 DEF Entries
    <3> QED BY <3>1, <3>3 DEF OnRecord
  <2>4. CASE AppendFails(r, d) /\ pc' = [pc EXCEPT ![r] = "unlock"]
    <3>1. Unsaved' \subseteq Unsaved BY <2>4, PCTyped DEF Unsaved, Event
    <3>2. Lost' \subseteq Lost BY <2>1, <2>3, <3>1 DEF Lost
    <3>3. \/ tears' = tears /\ torn' = torn
          \/ tears' = tears + 1
      BY <2>4 DEF AppendFails, logVars
    <3> QED BY <1>6, <1>7, <2>1, <3>2, <3>3
  <2>5. CASE AppendLine(r, d) /\ pc' = [pc EXCEPT ![r] = d]
    <3> DEFINE line == [run |-> r, event |-> d, ok |-> TRUE]
    <3>1. log' = Written(line) /\ ~torn' /\ tears' = tears
      BY <2>5 DEF AppendLine
    <3>2. Unsaved' \subseteq Unsaved \cup {<<r, d>>}
      <4>1. \A q \in Runs : q # r => pc'[q] = pc[q] BY <2>5, PCTyped
      <4>2. pc'[r] = d BY <2>5, PCTyped
      <4>3. ASSUME NEW x \in Unsaved', x \notin Unsaved PROVE x = <<r, d>>
        <5>1. x \in Runs \X Event /\ pc'[x[1]] = x[2] BY <4>3 DEF Unsaved
        <5>2. x[1] \in Runs /\ x = <<x[1], x[2]>> BY <5>1
        <5>3. x[1] = r BY <4>1, <4>3, <5>1, <5>2 DEF Unsaved
        <5> QED BY <4>2, <5>1, <5>2, <5>3
      <4> QED BY <4>3
    <3>3. Lost' \subseteq Lost \cup {<<r, d>>} BY <2>1, <2>3, <3>2 DEF Lost
    <3>4. CASE torn
      <4>1. /\ Cardinality(Lost') <= Cardinality(Lost) + 1
            /\ Cardinality(Lost) \in Nat /\ Cardinality(Lost') \in Nat
        BY <1>4, <3>3, CountFact
      <4> QED BY <1>1, <1>3, <3>1, <3>4, <4>1
    <3>5. CASE ~torn
      <4>1. line \in Line BY DEF Line
      <4>2. /\ Len(log') = Len(log) + 1
            /\ log'[Len(log')] = line
        BY <1>3, <3>1, <3>5, <4>1, WrittenFact
      <4>3. Len(log') \in Entries' BY <1>3, <4>2 DEF Entries
      <4>4. <<r, d>> \in OnRecord' BY <4>2, <4>3 DEF OnRecord
      <4>5. Lost' \subseteq Lost BY <3>3, <4>4 DEF Lost
      <4>6. torn' = torn
        <5>1. torn = FALSE BY <1>3, <3>5
        <5>2. torn' = FALSE BY <2>5 DEF AppendLine
        <5> QED BY <5>1, <5>2
      <4> QED BY <1>6, <3>1, <4>5, <4>6
    <3> QED BY <3>4, <3>5
  <2> QED BY <1>11, <2>4, <2>5 DEF Writes
<1> QED BY <1>8, <1>9, <1>10, <1>11, RecordSteps

\* The three parts together.
LEMMA TearsStep ==
  ASSUME TypeOK, LogOK, TearsOK, [Next]_vars
  PROVE  TearsOK'
BY SavedStep, UnsyncedStep, LostStep DEF TearsOK, Unsynced, Lost

\* Every step keeps every part of the invariant.
LEMMA InvStep == ASSUME HistoryInv, [Next]_vars PROVE HistoryInv'
BY TypeStep, LockStep, LogStep, PruneStep, ContentStep, VerifyStep,
   TearsStep DEF HistoryInv

\* HistoryInv holds in every reachable state: one holder of the lock, lines of
\* runs.ndjson in the order of the runs' ends, removals of old runs only, and
\* manifests of the content their own runs have copied.
THEOREM HistoryIsInvariant == Spec => []HistoryInv
<1>1. Init => HistoryInv BY InvInit
<1>2. HistoryInv /\ [Next]_vars => HistoryInv' BY InvStep
<1> QED BY <1>1, <1>2, PTL DEF Spec

\* A manifest that is complete attests what its own run has copied.
THEOREM ManifestsAreTheirOwn == Spec => []ManifestsAreOwn
<1>1. HistoryInv => ManifestsAreOwn
  BY DEF HistoryInv, ContentOK, ManifestsAreOwn
<1> QED BY <1>1, HistoryIsInvariant, PTL

\* Retention has removed no run that fewer than Limit younger ones follow.
THEOREM YoungestAreSpared == Spec => []RetentionSparesYoungest
<1>1. HistoryInv => RetentionSparesYoungest
  BY DEF HistoryInv, PruneOK, RetentionSparesYoungest
<1> QED BY <1>1, HistoryIsInvariant, PTL

\* The last_verify of status is the newest verification, unless its run is old
\* enough to have been removed.
THEOREM LastVerifyIsTheNewest == Spec => []LastVerifyIsNewest
<1>1. ASSUME HistoryInv, lastVerified # NoRun, ~Older(lastVerified)
      PROVE  IsLastVerify(lastVerified)
  <2>1. /\ lastVerified \in dirs /\ verifies # 0
        /\ verifiedAt[lastVerified] = verifies
    BY <1>1 DEF HistoryInv, VerifyOK
  <2>2. \A s \in dirs : verifiedAt[s] <= verifies
    BY <1>1 DEF HistoryInv, VerifyOK, TypeOK
  <2> QED BY <2>1, <2>2 DEF IsLastVerify
<1>2. HistoryInv => LastVerifyIsNewest BY <1>1 DEF LastVerifyIsNewest
<1> QED BY <1>2, HistoryIsInvariant, PTL

\* The records that were checkpointed and that readers do not see are no more
\* than the torn lines and power losses there have been.
THEOREM TornLinesCostOneEach == Spec => []TornLineCostsOneRecord
<1>1. ASSUME HistoryInv PROVE TornLineCostsOneRecord
  <2>1. /\ Cardinality(Lost) + (IF torn THEN 1 ELSE 0) <= tears
        /\ saved \subseteq Runs \X Event /\ torn \in BOOLEAN /\ tears \in Nat
    BY <1>1, BoundAssumption DEF HistoryInv, TearsOK, TypeOK, Lost
  <2>2. saved \ OnRecord \subseteq Lost /\ Lost \subseteq Runs \X Event
    BY <2>1 DEF Lost, Unsaved
  <2>3. /\ Cardinality(saved \ OnRecord) <= Cardinality(Lost)
        /\ Cardinality(saved \ OnRecord) \in Nat /\ Cardinality(Lost) \in Nat
    BY <2>2, CountFact
  <2> QED BY <2>1, <2>3 DEF TornLineCostsOneRecord
<1>2. HistoryInv => TornLineCostsOneRecord BY <1>1
<1> QED BY <1>2, HistoryIsInvariant, PTL

\* The last_run of status is the run that finished last of those on record.
THEOREM LastRunIsTheLastToFinish == Spec => []LastRunFinishedLast
<1>1. ASSUME HistoryInv, NEW r \in Runs, NEW s \in Runs,
             IsLastRun(r), <<s, "finished">> \in OnRecord
      PROVE  endAt[s] <= endAt[r]
  <2>1. PICK i \in Entries :
          /\ log[i].run = r /\ log[i].event = "finished"
          /\ \A j \in Entries : log[j].event = "finished" => j <= i
    BY <1>1 DEF IsLastRun
  <2>2. PICK j \in Entries : <<log[j].run, log[j].event>> = <<s, "finished">>
    BY <1>1 DEF OnRecord
  <2>3. log[j].run = s /\ log[j].event = "finished" /\ j <= i
    BY <2>1, <2>2
  <2>4. /\ i \in 1..Len(log) /\ j \in 1..Len(log)
        /\ Finished(i) /\ Finished(j)
    BY <2>1, <2>2, <2>3 DEF Entries, Finished
  <2>5. endAt[log[j].run] <= endAt[log[i].run]
    BY <1>1, <2>3, <2>4 DEF HistoryInv, LogOK
  <2> QED BY <2>1, <2>3, <2>5
<1>2. HistoryInv => LastRunFinishedLast BY <1>1 DEF LastRunFinishedLast
<1> QED BY <1>2, HistoryIsInvariant, PTL


\* No step takes its directory from the holder of the lock.
LEMMA DirectoryStep ==
  ASSUME HistoryInv, [Next]_vars
  PROVE  \A q \in Runs : pc[q] \in Holding /\ q \in dirs => q \in dirs'
<1> DEFINE Goal ==
      \A q \in Runs : pc[q] \in Holding /\ q \in dirs => q \in dirs'
<1> SUFFICES Goal OBVIOUS
<1>1. ASSUME NEW r \in Runs, Begin(r) PROVE Goal
  BY <1>1 DEF Begin, dirVars
<1>2. ASSUME NEW r \in Runs, Refuse(r) PROVE Goal
  BY <1>2 DEF Refuse, dirVars
<1>3. ASSUME NEW r \in Runs, Lock(r) PROVE Goal
  BY <1>3 DEF Lock, dirVars
<1>4. ASSUME NEW r \in Runs, AppendStarted(r) PROVE Goal
  BY <1>4 DEF AppendStarted, dirVars
<1>5. ASSUME NEW r \in Runs, CheckpointStarted(r) PROVE Goal
  BY <1>5 DEF CheckpointStarted, dirVars
<1>6. ASSUME NEW r \in Runs, OpenManifest(r) PROVE Goal
  BY <1>6 DEF OpenManifest, dirVars
<1>7. ASSUME NEW r \in Runs, Copy(r) PROVE Goal
  BY <1>7 DEF Copy, dirVars
<1>8. ASSUME NEW r \in Runs, Hash(r) PROVE Goal
  BY <1>8 DEF Hash, dirVars
<1>9. ASSUME NEW r \in Runs, Seal(r) PROVE Goal
  BY <1>9 DEF Seal, dirVars
<1>10. ASSUME NEW r \in Runs, Abort(r) PROVE Goal
  BY <1>10 DEF Abort, dirVars
<1>11. ASSUME NEW r \in Runs, AppendFinished(r) PROVE Goal
  BY <1>11 DEF AppendFinished, dirVars
<1>12. ASSUME NEW r \in Runs, CheckpointFinished(r) PROVE Goal
  BY <1>12 DEF CheckpointFinished, dirVars
<1>13. ASSUME NEW r \in Runs, ListRuns(r) PROVE Goal
  BY <1>13 DEF ListRuns, dirVars
<1>14. ASSUME NEW r \in Runs, PruneDone(r) PROVE Goal
  BY <1>14 DEF PruneDone, dirVars
<1>15. ASSUME NEW r \in Runs, Unlock(r) PROVE Goal
  BY <1>15 DEF Unlock, dirVars
<1>16. ASSUME NEW r \in Runs, Verify(r) PROVE Goal
  BY <1>16 DEF Verify, dirVars
<1>17. ASSUME NEW r \in Runs, Die(r) PROVE Goal
  BY <1>17 DEF Die, dirVars
<1>18. ASSUME NEW r \in Runs, NEW s \in Runs, RemoveRun(r, s) PROVE Goal
  <2>1. ASSUME NEW q \in Runs, pc[q] \in Holding, q \in dirs
        PROVE  q \in dirs'
    <3>1. q = r
      BY <1>18, <2>1 DEF RemoveRun, HistoryInv, LockOK, Holding, PC
    <3>2. q # s BY <1>18, <3>1 DEF RemoveRun, HistoryInv, PruneOK
    <3>3. dirs' = dirs \/ dirs' = dirs \ {s} BY <1>18 DEF RemoveRun
    <3> QED BY <2>1, <3>2, <3>3
  <2> QED BY <2>1
<1>19. CASE PowerLoss
  BY <1>19 DEF PowerLoss, dirVars
<1>20. CASE UNCHANGED vars BY <1>20 DEF vars, dirVars
<1> QED BY <1>1, <1>2, <1>3, <1>4, <1>5, <1>6, <1>7, <1>8, <1>9, <1>10,
  <1>11, <1>12, <1>13, <1>14, <1>15, <1>16, <1>17, <1>18, <1>19, <1>20 DEF
  Next, Run

\* Whatever is removed, it is not the directory of the holder of the lock.
THEOREM HolderHasItsDirectory == Spec => HolderKeepsDirectory
<1>1. HistoryInv /\ [Next]_vars =>
        [\A r \in Runs : pc[r] \in Holding /\ r \in dirs => r \in dirs']_vars
  BY DirectoryStep
<1> QED BY <1>1, HistoryIsInvariant, PTL DEF Spec, HolderKeepsDirectory


\* No step touches a line that is fsynced and readable.
LEMMA DurableStep ==
  ASSUME HistoryInv, [Next]_vars
  PROVE  \A i \in 1..synced : log[i].ok => i <= Len(log') /\ log'[i] = log[i]
<1>1. TypeOK /\ (torn => synced < Len(log)) BY DEF HistoryInv, LogOK
<1>2. Len(log) \in Nat /\ synced \in 0..Len(log) BY <1>1 DEF TypeOK
<1>3. CASE log' = log BY <1>2, <1>3
<1>4. CASE PowerLoss BY <1>1, <1>4, PowerFact
<1>5. ASSUME NEW r \in Runs, NEW e \in Event,
             AppendLine(r, e) \/ AppendFails(r, e)
      PROVE  \A i \in 1..synced :
               log[i].ok => i <= Len(log') /\ log'[i] = log[i]
  <2>1. /\ log' \in Seq(Line) /\ Len(log) <= Len(log')
        /\ \A i \in 1..Len(log) : (torn => i < Len(log)) => log'[i] = log[i]
    BY <1>1, <1>5, AppendFact
  <2>2. \A i \in 1..synced : i \in 1..Len(log) /\ (torn => i < Len(log))
    BY <1>1, <1>2
  <2>3. Len(log') \in Nat BY <2>1
  <2> QED BY <1>2, <2>1, <2>2, <2>3
<1>6. "started" \in Event /\ "finished" \in Event BY DEF Event
<1> QED BY <1>3, <1>4, <1>5, <1>6, WritersOfLog DEF AppendStarted, AppendFinished


\* What is fsynced and readable stays readable, at its place, whatever later
\* runs append or tear and whatever a power loss leaves.
THEOREM DurableLinesDoStay == Spec => DurableLinesStay
<1>1. HistoryInv /\ [Next]_vars =>
        [\A i \in 1..synced :
           log[i].ok => i <= Len(log') /\ log'[i] = log[i]]_vars
  BY DurableStep
<1> QED BY <1>1, HistoryIsInvariant, PTL DEF Spec, DurableLinesStay

===============================================================================
