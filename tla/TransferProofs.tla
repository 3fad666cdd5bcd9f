---------------------------- MODULE TransferProofs ----------------------------
(***************************************************************************)
(* The walk of Transfer selects exactly what it should, for any tree, any    *)
(* normal forms and patterns, any changes during the walk and any faults;    *)
(* and what rsync prints of the selection is counted, for any names and any  *)
(* pipes, wherever the output is cut, rsync stops or rsync.log fails: never   *)
(* too high, and exactly by a transfer that succeeds.                        *)
(***************************************************************************)
EXTENDS Transfer, FiniteSetTheorems, SequenceTheorems, WellFoundedInduction,
        TLAPS

\* A set of naturals has a least member.
LEMMA LeastFact ==
  ASSUME NEW T, T \subseteq Nat, T # {}
  PROVE  \E i \in T : \A j \in T : i <= j
<1>1. IsWellFoundedOn({ss \in Nat \X Nat : ss[1] < ss[2]}, Nat)
  BY NatLessThanWellFounded, Zenon DEF OpToRel
<1> DEFINE R == {ss \in Nat \X Nat : ss[1] < ss[2]}
<1>2. IsWellFoundedOn(R, Nat) BY <1>1
<1>3. \A i, j \in T : <<j, i>> \in R <=> j < i OBVIOUS
<1> HIDE DEF R
<1>4. PICK i \in T : \A j \in T : <<j, i>> \notin R BY <1>2, WFMin
<1>5. \A j \in T : ~(j < i) BY <1>3, <1>4
<1> QED BY <1>5

\* No set of paths lies below itself: directories come before what is in them.
LEMMA TreeFact ==
  ASSUME NEW S, S \subseteq Paths, \A p \in S : Parent[p] # Root /\ Parent[p] \in S
  PROVE  S = {}
<1> SUFFICES ASSUME S # {} PROVE FALSE OBVIOUS
<1> DEFINE T == {i \in DOMAIN Order : Order[i] \in S}
<1>0. DOMAIN Order = 1..Len(Order) /\ Len(Order) \in Nat BY PathsAssumption
<1>1. DOMAIN Order \subseteq Nat BY <1>0
<1>2. T # {} BY PathsAssumption
<1>3. PICK j \in T : \A i \in T : j <= i BY <1>1, <1>2, LeastFact
<1>4. Parent[Order[j]] # Root /\ Parent[Order[j]] \in S BY <1>3
<1>5. PICK i \in 1..(j - 1) : Order[i] = Parent[Order[j]]
  BY <1>3, <1>4, PathsAssumption
<1>6. i \in DOMAIN Order /\ i < j
  <2>1. j \in 1..Len(Order) BY <1>0, <1>3
  <2> QED BY <1>0, <1>5, <2>1
<1>7. i \in T BY <1>4, <1>5, <1>6
<1> QED BY <1>1, <1>3, <1>6, <1>7

\* There are as many paths as places in their order.
LEMMA PathsAreFinite == IsFiniteSet(Paths)
<1>1. Order \in [1..Len(Order) -> Paths] /\ Len(Order) \in Nat
  BY PathsAssumption
<1>2. Order \in Surjection(1..Len(Order), Paths)
  BY <1>1, PathsAssumption DEF Surjection
<1>3. IsFiniteSet(1..Len(Order)) BY <1>1, FS_Interval
<1> QED BY <1>2, <1>3, FS_Surjection

\* A walk begins with nothing seen and nothing missed.
LEMMA WalkInit == ASSUME SelectionInit PROVE SelectionInv
<1>1. source \in [Paths -> Kind] /\ Rooted(source)
  BY DEF SelectionInit, Trees
<1>2. SelectionTypeOK
  BY <1>1, BoundAssumption DEF SelectionInit, SelectionTypeOK
<1>3. CollectorOK BY PathsAssumption DEF SelectionInit, CollectorOK
<1>4. WalkOK BY PathsAssumption DEF SelectionInit, WalkOK, Alone
<1> QED BY <1>2, <1>3, <1>4 DEF SelectionInv

\* A step of the walk, or of a program that changes the tree.
SelectionStep(c) == WalkStep(c) \/ Change \/ UNCHANGED selectionVars

\* An entry that is handled stays an entry.
LEMMA EntryFact ==
  ASSUME NEW e \in Entry
  PROVE  /\ e.path \in Paths /\ [e EXCEPT !.handled = TRUE] \in Entry
         /\ [e EXCEPT !.handled = TRUE].path = e.path
         /\ [e EXCEPT !.handled = TRUE].dir = e.dir
BY DEF Entry

\* What is listed is in the directory.
LEMMA ListingFact ==
  ASSUME SelectionTypeOK, NEW d
  PROVE  /\ Listing(d) \subseteq Entry
         /\ \A p \in Paths : Parent[p] = d /\ source[p] # "absent" =>
              \E e \in Listing(d) :
                e.path = p /\ ~e.handled /\ (source[p] = "dir" => e.dir)
<1>1. Listing(d) \subseteq Entry
  <2>1. \A p \in Paths : (source[p] = "dir") \in BOOLEAN OBVIOUS
  <2>2. \A p \in Paths, b \in BOOLEAN :
          [path |-> p, dir |-> b, handled |-> FALSE] \in Entry
    BY DEF Entry
  <2>3. \A p \in Paths :
          [path |-> p, dir |-> source[p] = "dir", handled |-> FALSE] \in Entry
    BY <2>1, <2>2
  <2> QED BY <2>3, Zenon DEF Listing
<1>2. ASSUME NEW p \in Paths, Parent[p] = d, source[p] # "absent"
      PROVE  \E e \in Listing(d) :
               e.path = p /\ ~e.handled /\ (source[p] = "dir" => e.dir)
  <2>1. [path |-> p, dir |-> source[p] = "dir", handled |-> FALSE] \in Listing(d)
    BY <1>2 DEF Listing
  <2> QED BY <2>1
<1> QED BY <1>1, <1>2

\* What a visit makes of a path.
LEMMA SelectFact ==
  ASSUME SelectionTypeOK, CollectorOK, NEW p \in Paths, Select(p)
  PROVE  /\ forms' \in [Paths -> SUBSET Paths]
         /\ accepted' \in [Paths -> Paths \cup {NoPath}]
         /\ skipped' \subseteq Paths
         /\ (CollectorOK)'
         /\ \A k \in Paths : forms[k] \subseteq forms'[k]
         /\ skipped \subseteq skipped' /\ skipped' \subseteq skipped \cup Excluded
         /\ Selectable(p) /\ Wanted(p) => p \in forms'[NFC[p]]
         /\ Selectable(p) /\ p \in Excluded => p \in skipped'
<1>1. NFC[p] \in Paths BY PathsAssumption
<1>2. /\ forms \in [Paths -> SUBSET Paths]
      /\ accepted \in [Paths -> Paths \cup {NoPath}] /\ skipped \subseteq Paths
  BY DEF SelectionTypeOK
<1>3. CASE Selectable(p) /\ Wanted(p) /\ Add(p) /\ UNCHANGED skipped
  <2> DEFINE k == NFC[p]
             seen == forms[k] \cup {p}
  <2>1. /\ forms' = [forms EXCEPT ![k] = seen]
        /\ accepted' = [accepted EXCEPT ![k] = IF seen = {p} THEN p ELSE NoPath]
    BY <1>3 DEF Add
  <2>2. /\ forms' \in [Paths -> SUBSET Paths]
        /\ accepted' \in [Paths -> Paths \cup {NoPath}]
    BY <1>1, <1>2, <2>1
  <2>3. /\ \A n \in Paths : n # k => forms'[n] = forms[n] /\ accepted'[n] = accepted[n]
        /\ forms'[k] = seen /\ accepted'[k] = IF seen = {p} THEN p ELSE NoPath
    BY <1>1, <1>2, <2>1
  <2>4. \A n \in Paths : \A q \in forms'[n] : NFC[q] = n /\ Wanted(q)
    BY <1>3, <2>3 DEF CollectorOK
  <2>5. \A n, q \in Paths : accepted'[n] = q <=> forms'[n] = {q}
    <3>1. \A q \in Paths : accepted'[k] = q <=> forms'[k] = {q}
      <4>1. CASE seen = {p} BY <2>3, <4>1
      <4>2. CASE seen # {p}
        <5>1. \A q \in Paths : accepted'[k] # q BY <2>3, <4>2, PathsAssumption
        <5>2. p \in seen OBVIOUS
        <5>3. \A q : forms'[k] # {q} BY <2>3, <4>2, <5>2
        <5> QED BY <5>1, <5>3
      <4> QED BY <4>1, <4>2
    <3> QED BY <2>3, <3>1 DEF CollectorOK
  <2>6. CollectorOK' BY <2>4, <2>5 DEF CollectorOK, Wanted
  <2>7. \A n \in Paths : forms[n] \subseteq forms'[n] BY <2>3
  <2> QED BY <1>1, <1>2, <1>3, <2>2, <2>3, <2>6, <2>7 DEF Wanted
<1>4. CASE /\ Selectable(p) /\ p \in Excluded
           /\ skipped' = skipped \cup {p} /\ UNCHANGED <<forms, accepted>>
  <2>1. CollectorOK' BY <1>4 DEF CollectorOK, Wanted
  <2> QED BY <1>2, <1>4, <2>1 DEF Wanted
<1>5. CASE /\ ~Selectable(p) \/ (p \notin Excluded /\ p \notin Included)
           /\ UNCHANGED <<forms, accepted, skipped>>
  <2>1. CollectorOK' BY <1>5 DEF CollectorOK, Wanted
  <2> QED BY <1>2, <1>5, <2>1 DEF Wanted
<1> QED BY <1>3, <1>4, <1>5 DEF Select

\* Every step keeps the types and the collector's books.
LEMMA TypesStep ==
  ASSUME SelectionTypeOK, CollectorOK, NEW c, SelectionStep(c)
  PROVE  SelectionTypeOK' /\ CollectorOK'
<1> USE DEF SelectionTypeOK, CollectorOK, Rooted
<1>1. CASE StartWalk(c)
  <2>1. Listing(Root) \subseteq Entry BY ListingFact
  <2> QED BY <1>1, <2>1 DEF StartWalk, Wanted
<1>2. CASE StartWalkFails(c)
  BY <1>2 DEF StartWalkFails, Wanted
<1>3. CASE FinishWalk
  BY <1>3 DEF FinishWalk, Wanted
<1>4. CASE Visit(c)
  <2>1. PICK e \in todo :
          /\ Select(e.path)
          /\ todo' = (todo \ {e}) \cup
                       (IF e.dir THEN {[e EXCEPT !.handled = TRUE]} ELSE {})
    BY <1>4 DEF Visit
  <2>2. e.path \in Paths /\ [e EXCEPT !.handled = TRUE] \in Entry
    BY EntryFact
  <2>3. todo' \subseteq Entry BY <2>1, <2>2
  <2>4. /\ forms' \in [Paths -> SUBSET Paths]
        /\ accepted' \in [Paths -> Paths \cup {NoPath}]
        /\ skipped' \subseteq Paths /\ CollectorOK'
    BY <2>1, <2>2, SelectFact
  <2> QED BY <1>4, <2>3, <2>4 DEF Visit
<1>5. CASE VisitFails(c)
  BY <1>5 DEF VisitFails, FailWalk, Wanted
<1>6. CASE ReadDirectory
  <2>1. PICK e \in todo : todo' = (todo \ {e}) \cup Listing(e.path)
    BY <1>6 DEF ReadDirectory
  <2>2. todo' \subseteq Entry BY <2>1, ListingFact
  <2> QED BY <1>6, <2>2 DEF ReadDirectory, Wanted
<1>7. CASE ReadDirectoryFails
  BY <1>7 DEF ReadDirectoryFails, FailWalk, Wanted
<1>8. CASE Change
  <2>1. PICK p \in Paths, k \in Kind :
          /\ Rooted([source EXCEPT ![p] = k])
          /\ source' = [source EXCEPT ![p] = k] /\ steady' = steady \ {p}
    BY <1>8 DEF Change
  <2>2. source' \in [Paths -> Kind] /\ Rooted(source)' BY <2>1
  <2>3. changes' \in 0..MaxChanges BY <1>8, BoundAssumption DEF Change
  <2> QED BY <1>8, <2>1, <2>2, <2>3 DEF Change, Wanted
<1>9. CASE UNCHANGED selectionVars BY <1>9 DEF selectionVars, Wanted
<1> QED BY <1>1, <1>2, <1>3, <1>4, <1>5, <1>6, <1>7, <1>8, <1>9 DEF SelectionStep, WalkStep

\* A change leaves what is beside it alone, and the directories of that.
LEMMA ChangeFact ==
  ASSUME SelectionTypeOK, WalkOK, Change
  PROVE  /\ Alone' \subseteq Alone
         /\ \A p \in Alone' : source'[p] = source[p]
         /\ \A p \in Alone' : Parent[p] # Root => Parent[p] \in steady'
<1>1. PICK c \in Paths, k \in Kind :
        /\ k # source[c] /\ Rooted([source EXCEPT ![c] = k])
        /\ source' = [source EXCEPT ![c] = k] /\ steady' = steady \ {c}
  BY DEF Change
<1>2. source \in [Paths -> Kind] /\ steady \subseteq Paths /\ Rooted(source)
  BY DEF SelectionTypeOK
<1>3. \A p \in Paths : p # c => source'[p] = source[p] BY <1>1, <1>2
<1>4. Alone' \subseteq Alone /\ c \notin Alone' BY <1>1, <1>2, <1>3 DEF Alone
<1>5. ASSUME NEW p \in Alone', Parent[p] # Root PROVE Parent[p] \in steady'
  <2>1. p \in Paths /\ p # c /\ source[p] # "absent" /\ source'[p] # "absent"
    BY <1>2, <1>4, <1>5 DEF Alone
  <2>2. source[Parent[p]] = "dir" /\ source'[Parent[p]] = "dir"
    BY <1>1, <1>2, <1>5, <2>1 DEF Rooted
  <2>3. Parent[p] # c BY <1>1, <1>2, <2>2
  <2>4. Parent[p] \in steady BY <1>4, <1>5 DEF WalkOK
  <2> QED BY <1>1, <2>3, <2>4
<1> QED BY <1>2, <1>3, <1>4, <1>5 DEF Alone

\* At the end of the walk nothing is left below a directory not yet read.
LEMMA EndFact ==
  ASSUME SelectionTypeOK, WalkOK, walk = "walking", todo = {}
  PROVE  \A p \in Alone : Handled(p)
<1>1. PICK below \in SUBSET Paths : Covered(below) BY DEF WalkOK
<1> DEFINE S == below \cap Alone
<1>2. ASSUME NEW p \in S PROVE Parent[p] # Root /\ Parent[p] \in S
  <2>1. Parent[p] # Root /\ Parent[p] \in below BY <1>1, <1>2 DEF Covered
  <2>2. p \in Paths /\ source[p] # "absent" BY <1>2 DEF Alone
  <2>3. source[Parent[p]] = "dir" BY <2>1, <2>2 DEF SelectionTypeOK, Rooted
  <2>4. Parent[p] \in steady BY <1>2, <2>1 DEF WalkOK
  <2> QED BY <2>1, <2>3, <2>4 DEF Alone
<1>3. S = {}
  <2> HIDE DEF S
  <2>1. S \subseteq Paths BY DEF S
  <2> QED BY <1>2, <2>1, TreeFact
<1> QED BY <1>1, <1>3 DEF Covered

\* Every step keeps what is left to do in sight.
LEMMA CoverStep ==
  ASSUME SelectionTypeOK, CollectorOK, WalkOK, NEW c, SelectionStep(c)
  PROVE  WalkOK'
<1> USE DEF WalkOK
<1>a. /\ steady \subseteq Paths /\ skipped \subseteq Paths /\ todo \subseteq Entry
      /\ source \in [Paths -> Kind] /\ Rooted(source)
  BY DEF SelectionTypeOK
<1>1. CASE StartWalk(c)
  <2>1. /\ walk' = "walking" /\ todo' = Listing(Root) /\ steady' = Paths
        /\ UNCHANGED <<source, skipped>>
    BY <1>1 DEF StartWalk
  <2> DEFINE below == {p \in Paths : Parent[p] # Root}
  <2>2. ASSUME NEW p \in Alone', Parent[p] = Root
        PROVE  \E e \in todo' : e.path = p /\ ~e.handled
    BY <2>1, <2>2, ListingFact DEF Alone
  <2>3. ASSUME NEW p \in Alone', Parent[p] # Root
        PROVE  Parent[p] \in below \/ \E e \in todo' : e.path = Parent[p] /\ e.dir
    <3>1. Parent[p] \in Paths /\ source[Parent[p]] = "dir"
      BY <1>a, <2>1, <2>3, PathsAssumption DEF Alone, Rooted
    <3> QED BY <2>1, <3>1, ListingFact
  <2>4. Covered(below)' BY <2>1, <2>2, <2>3 DEF Covered, Alone
  <2>5. \A p \in Alone' : Parent[p] # Root => Parent[p] \in steady'
    BY <2>1, PathsAssumption DEF Alone
  <2> QED BY <2>1, <2>4, <2>5
<1>2. CASE StartWalkFails(c)
  BY <1>2, <1>a DEF StartWalkFails, Alone
<1>3. CASE FinishWalk
  <2>1. \A p \in Alone : Handled(p) BY <1>3, EndFact DEF FinishWalk
  <2> QED BY <1>3, <2>1 DEF FinishWalk, Alone, Handled, Selectable, Wanted
<1>4. CASE Visit(c)
  <2>1. PICK e \in todo :
          /\ ~e.handled /\ Select(e.path)
          /\ todo' = (todo \ {e}) \cup
                       (IF e.dir THEN {[e EXCEPT !.handled = TRUE]} ELSE {})
    BY <1>4 DEF Visit
  <2>2. PICK below \in SUBSET Paths : Covered(below) BY <1>4 DEF Visit
  <2>3. walk' = "walking" /\ UNCHANGED <<source, steady>> BY <1>4 DEF Visit
  <2>4. e \in Entry /\ e.path \in Paths BY <1>a, <2>1, EntryFact
  <2>5. /\ \A k \in Paths : forms[k] \subseteq forms'[k]
        /\ skipped \subseteq skipped' /\ skipped' \subseteq skipped \cup Excluded
        /\ Selectable(e.path) /\ Wanted(e.path) => e.path \in forms'[NFC[e.path]]
        /\ Selectable(e.path) /\ e.path \in Excluded => e.path \in skipped'
    BY <2>1, <2>4, SelectFact
  <2>6. Alone' = Alone BY <2>3 DEF Alone
  <2>7. \A p \in Alone : Handled(p) \/ p = e.path => Handled(p)'
    BY <1>a, <2>3, <2>5, PathsAssumption DEF Handled, Selectable, Wanted, Alone
  <2>8. ASSUME NEW p \in Alone, p \notin below
        PROVE  Handled(p)' \/ \E f \in todo' : f.path = p /\ ~f.handled
    <3>1. CASE Handled(p) \/ p = e.path BY <2>7, <3>1
    <3>2. CASE ~Handled(p) /\ p # e.path
      <4>1. PICK f \in todo : f.path = p /\ ~f.handled
        BY <2>2, <2>8, <3>2 DEF Covered
      <4>2. f # e BY <3>2, <4>1
      <4> QED BY <2>1, <4>1, <4>2
    <3> QED BY <3>1, <3>2
  <2>9. ASSUME NEW d, NEW f \in todo, f.path = d, f.dir
        PROVE  \E g \in todo' : g.path = d /\ g.dir
    <3>1. CASE f # e BY <2>1, <2>9, <3>1
    <3>2. CASE f = e
      <4>1. [e EXCEPT !.handled = TRUE] \in todo' BY <2>1, <2>9, <3>2
      <4> QED BY <2>4, <2>9, <3>2, <4>1, EntryFact
    <3> QED BY <3>1, <3>2
  <2>10. ASSUME NEW p \in Alone, p \in below
         PROVE  /\ Parent[p] # Root
                /\ Parent[p] \in below \/ \E f \in todo' : f.path = Parent[p] /\ f.dir
    BY <2>2, <2>9, <2>10 DEF Covered
  <2>11. Covered(below)' BY <2>6, <2>8, <2>10 DEF Covered
  <2> QED BY <2>3, <2>5, <2>6, <2>11
<1>5. CASE VisitFails(c)
  BY <1>5, <1>a DEF VisitFails, FailWalk, Alone
<1>6. CASE ReadDirectory
  <2>1. PICK e \in todo : e.handled /\ todo' = (todo \ {e}) \cup Listing(e.path)
    BY <1>6 DEF ReadDirectory
  <2>2. PICK below \in SUBSET Paths : Covered(below) BY <1>6 DEF ReadDirectory
  <2>3. walk' = "walking" /\ UNCHANGED <<source, steady, forms, skipped>>
    BY <1>6 DEF ReadDirectory
  <2>4. Alone' = Alone BY <2>3 DEF Alone
  <2>5. \A p \in Paths : Handled(p)' <=> Handled(p)
    BY <2>3 DEF Handled, Selectable, Wanted
  <2> DEFINE rest == {p \in below : Parent[p] # e.path}
  <2>6. ASSUME NEW p \in Alone, Parent[p] = e.path
        PROVE  /\ \E f \in todo' : f.path = p /\ ~f.handled
               /\ source[p] = "dir" => \E f \in todo' : f.path = p /\ f.dir
    <3>1. PICK f \in Listing(e.path) :
            f.path = p /\ ~f.handled /\ (source[p] = "dir" => f.dir)
      BY <1>a, <2>6, ListingFact DEF Alone
    <3>2. f \in todo' BY <2>1
    <3> QED BY <3>1, <3>2
  <2>7. ASSUME NEW p \in Alone, p \notin rest
        PROVE  Handled(p)' \/ \E f \in todo' : f.path = p /\ ~f.handled
    <3>1. CASE Parent[p] = e.path BY <2>6, <2>7, <3>1
    <3>2. CASE p \notin below
      <4>1. Handled(p) \/ \E f \in todo : f.path = p /\ ~f.handled
        BY <2>2, <2>7, <3>2 DEF Covered
      <4>2. p \in Paths BY <1>a, <2>7 DEF Alone
      <4> QED BY <2>1, <2>5, <4>1, <4>2
    <3> QED BY <2>7, <3>1, <3>2
  <2>8. ASSUME NEW p \in Alone, p \in rest
        PROVE  /\ Parent[p] # Root
               /\ Parent[p] \in rest \/ \E f \in todo' : f.path = Parent[p] /\ f.dir
    <3>1. Parent[p] # Root /\ Parent[p] # e.path /\ p \in below
      BY <2>2, <2>8 DEF Covered
    <3>2. CASE Parent[p] \in below
      <4>1. source[Parent[p]] = "dir" /\ Parent[p] \in Alone
        BY <1>a, <2>8, <3>1 DEF Alone, Rooted
      <4>2. CASE Parent[Parent[p]] = e.path BY <2>6, <3>1, <4>1, <4>2
      <4> QED BY <3>1, <3>2, <4>2
    <3>3. CASE \E f \in todo : f.path = Parent[p] /\ f.dir
      BY <2>1, <3>1, <3>3
    <3> QED BY <2>2, <2>8, <3>1, <3>2, <3>3 DEF Covered
  <2>9. Covered(rest)' BY <2>4, <2>7, <2>8 DEF Covered
  <2>10. rest \in SUBSET Paths OBVIOUS
  <2> HIDE DEF rest
  <2> QED BY <2>3, <2>4, <2>9, <2>10
<1>7. CASE ReadDirectoryFails
  BY <1>7, <1>a DEF ReadDirectoryFails, FailWalk, Alone
<1>8. CASE Change
  <2>1. /\ Alone' \subseteq Alone
        /\ \A p \in Alone' : source'[p] = source[p]
        /\ \A p \in Alone' : Parent[p] # Root => Parent[p] \in steady'
    BY <1>8, ChangeFact
  <2>2. /\ walk = "walking" /\ walk' = "walking"
        /\ UNCHANGED <<todo, forms, skipped>>
    BY <1>8 DEF Change
  <2>3. PICK below \in SUBSET Paths : Covered(below) BY <2>2
  <2>4. ASSUME NEW p \in Alone' PROVE Handled(p)' <=> Handled(p)
    <3>1. source'[p] = source[p] BY <2>1, <2>4
    <3> QED BY <2>2, <3>1 DEF Handled, Selectable, Wanted
  <2>5. Covered(below)' BY <2>1, <2>2, <2>3, <2>4 DEF Covered
  <2>6. \E b \in SUBSET Paths : Covered(b)' BY <2>5
  <2>7. skipped' \subseteq Excluded BY <2>2
  <2> QED BY <2>1, <2>2, <2>6, <2>7
<1>9. CASE UNCHANGED selectionVars
  <2>1. UNCHANGED <<source, walk, todo, forms, skipped, steady>>
    BY <1>9 DEF selectionVars
  <2>2. Alone' = Alone BY <2>1 DEF Alone
  <2>3. \A p \in Paths : Handled(p)' <=> Handled(p)
    BY <2>1 DEF Handled, Selectable, Wanted
  <2>4. Alone \subseteq Paths BY <1>a DEF Alone
  <2>5. \A below \in SUBSET Paths : Covered(below) => Covered(below)'
    BY <2>1, <2>2, <2>3, <2>4 DEF Covered
  <2> QED BY <2>1, <2>2, <2>3, <2>4, <2>5
<1> QED BY <1>1, <1>2, <1>3, <1>4, <1>5, <1>6, <1>7, <1>8, <1>9 DEF SelectionStep, WalkStep

\* The steps of a run are steps of the walk, or leave it alone.
LEMMA RunStep == ASSUME [Next]_vars PROVE SelectionStep(cancelled)
<1> USE DEF SelectionStep
<1>1. CASE Cancel BY <1>1 DEF Cancel
<1>2. CASE Enumerate BY <1>2 DEF Enumerate
<1>3. CASE ChangeSource BY <1>3 DEF ChangeSource
<1>4. CASE Begin BY <1>4 DEF Begin
<1>5. CASE Feed BY <1>5 DEF Feed
<1>6. CASE Drain \/ DrainFails BY <1>6 DEF Drain, DrainFails
<1>7. CASE RsyncStep BY <1>7 DEF RsyncStep
<1>8. CASE RsyncStops BY <1>8 DEF RsyncStops
<1>9. CASE Return BY <1>9 DEF Return
<1>10. CASE UNCHANGED vars BY <1>10 DEF vars
<1> QED BY <1>1, <1>2, <1>3, <1>4, <1>5, <1>6, <1>7, <1>8, <1>9, <1>10 DEF Next

\* The tree, the collector's books and what the walk has still to do: whatever
\* changes in the tree meanwhile, nothing that was left alone is lost from sight.
THEOREM SelectionCorrect == Spec => []SelectionInv
<1>1. Init => SelectionInv BY WalkInit DEF Init
<1>2. SelectionInv /\ [Next]_vars => SelectionInv'
  BY RunStep, TypesStep, CoverStep DEF SelectionInv
<1> QED BY <1>1, <1>2, PTL DEF Spec

\* A walk that ends has as candidates exactly the files and links left alone that
\* the profile wants and that have no twin of the same normal form, and reports
\* the twins and what is excluded.
THEOREM SelectionIsExactCorrect == Spec => []SelectionIsExact
<1>1. ASSUME SelectionInv, walk = "done", NEW p \in steady, Selectable(p)
      PROVE  /\ Wanted(p) => (accepted[NFC[p]] = p <=> p \notin CollidingPaths)
             /\ Wanted(p) /\ accepted[NFC[p]] = p =>
                  \A q \in steady :
                    Selectable(q) /\ Wanted(q) /\ NFC[q] = NFC[p] => q = p
             /\ p \in skipped <=> p \in Excluded
  <2>1. /\ forms \in [Paths -> SUBSET Paths] /\ steady \subseteq Paths
        /\ \A k \in Paths : \A q \in forms[k] : NFC[q] = k /\ Wanted(q)
        /\ \A k, q \in Paths : accepted[k] = q <=> forms[k] = {q}
        /\ skipped \subseteq Excluded
    BY <1>1 DEF SelectionInv, SelectionTypeOK, CollectorOK, WalkOK
  <2>2. \A q \in steady : Selectable(q) => q \in Alone /\ Handled(q)
    BY <1>1 DEF SelectionInv, WalkOK, Alone, Selectable
  <2>3. \A q \in Paths : NFC[q] \in Paths BY PathsAssumption
  <2>4. ASSUME Wanted(p)
        PROVE  forms[NFC[p]] = {p} <=> p \notin CollidingPaths
    <3> DEFINE k == NFC[p]
    <3>1. p \in forms[k] /\ k \in Paths /\ p \in Paths
      BY <1>1, <2>1, <2>2, <2>3, <2>4 DEF Handled
    <3>2. IsFiniteSet(forms[k]) BY <2>1, <3>1, PathsAreFinite, FS_Subset
    <3>3. Cardinality(forms[k]) \in Nat BY <3>2, FS_CardinalityType
    <3>4. Cardinality(forms[k]) # 0 BY <3>1, <3>2, FS_EmptySet
    <3>5. Cardinality(forms[k]) = 1 <=> forms[k] = {p}
      BY <3>1, <3>2, FS_Singleton
    <3>6. p \in CollidingPaths <=> Cardinality(forms[k]) >= 2
      BY <2>1, <3>1 DEF CollidingPaths
    <3> QED BY <3>3, <3>4, <3>5, <3>6
  <2>5. ASSUME Wanted(p), accepted[NFC[p]] = p, NEW q \in steady,
               Selectable(q), Wanted(q), NFC[q] = NFC[p]
        PROVE  q = p
    <3>1. q \in forms[NFC[p]] BY <2>2, <2>5 DEF Handled
    <3>2. forms[NFC[p]] = {p} BY <1>1, <2>1, <2>3, <2>5
    <3> QED BY <3>1, <3>2
  <2>6. p \in skipped <=> p \in Excluded BY <1>1, <2>1, <2>2 DEF Handled
  <2> QED BY <1>1, <2>1, <2>3, <2>4, <2>5, <2>6
<1>2. SelectionInv => SelectionIsExact BY <1>1 DEF SelectionIsExact
<1> QED BY <1>2, SelectionCorrect, PTL

------------------------------------------------------------------------------
\* drainLines goes through a chunk piece by piece.
LEMMA DrainFact ==
  ASSUME NEW p, NEW chunk, Len(chunk) \in Nat
  PROVE  \E after :
           /\ after[0] = p
           /\ \A i \in 1..Len(chunk) : after[i] = P!Scan(after[i - 1], chunk[i])
           /\ P!DrainLines(p, chunk) = after[Len(chunk)]
<1> DEFINE Run(f, n) == f = [i \in 0..n |->
                               IF i = 0 THEN p ELSE P!Scan(f[i - 1], chunk[i])]
           Fails == {n \in Nat : ~\E f : Run(f, n)}
<1>1. Fails = {}
  <2> SUFFICES ASSUME Fails # {} PROVE FALSE OBVIOUS
  <2>1. PICK n \in Fails : \A m \in Fails : n <= m BY LeastFact
  <2>2. CASE n = 0
    <3> DEFINE f == [i \in 0..0 |-> p]
    <3>1. Run(f, 0) OBVIOUS
    <3> QED BY <2>2, <3>1
  <2>3. CASE n # 0
    <3>1. n - 1 \in Nat /\ n - 1 \notin Fails BY <2>1, <2>3
    <3>2. PICK f : Run(f, n - 1) BY <3>1
    <3> DEFINE g == [i \in 0..n |-> IF i = n THEN P!Scan(f[n - 1], chunk[n]) ELSE f[i]]
    <3>3. ASSUME NEW i \in 0..n
          PROVE  g[i] = IF i = 0 THEN p ELSE P!Scan(g[i - 1], chunk[i])
      <4>1. CASE i = n
        <5>1. i # 0 /\ i - 1 \in 0..n /\ i - 1 # n BY <2>3, <4>1
        <5>2. g[i - 1] = f[n - 1] BY <4>1, <5>1
        <5> QED BY <4>1, <5>1, <5>2
      <4>2. CASE i # n /\ i = 0
        <5>1. f[0] = p BY <3>1, <3>2
        <5> QED BY <4>2, <5>1
      <4>3. CASE i # n /\ i # 0
        <5>1. i \in 0..(n - 1) /\ i - 1 \in 0..n /\ i - 1 # n BY <4>3
        <5>2. f[i] = P!Scan(f[i - 1], chunk[i]) BY <3>2, <4>3, <5>1
        <5> QED BY <4>3, <5>1, <5>2
      <4> QED BY <4>1, <4>2, <4>3
    <3>4. Run(g, n) BY <3>3
    <3> QED BY <2>1, <3>4
  <2> QED BY <2>2, <2>3
<1> DEFINE after == CHOOSE f : Run(f, Len(chunk))
<1>2. Run(after, Len(chunk)) BY <1>1
<1>3. P!DrainLines(p, chunk) = after[Len(chunk)] BY DEF P!DrainLines
<1> HIDE DEF after
<1>4. after[0] = p BY <1>2
<1>5. \A i \in 1..Len(chunk) : after[i] = P!Scan(after[i - 1], chunk[i]) BY <1>2
<1> QED BY <1>3, <1>4, <1>5

\* Lines are left in order when the first of them, of k pieces, is taken away.
LEMMA NextLineFact ==
  ASSUME NEW s \in Seq(P!Piece), NEW t \in Seq(P!Piece), NEW k \in {1, 3},
         NEW current, NEW next,
         Len(s) = Len(t) + k, \A i \in DOMAIN t : t[i] = s[i + k],
         s[k] = P!Terminator, k = 3 => s[1].part = 1 /\ s[2].part = 2,
         P!WholeLines(s), P!InOrder(s, current),
         k = 3 /\ P!Begins(s[1], {"name", "update"}) /\ s[1].of \in Plain =>
           next = s[1].of
  PROVE  /\ P!WholeLines(t) /\ P!InOrder(t, next)
         /\ Cardinality(P!LastLines(s)) =
              Cardinality(P!LastLines(t)) +
                (IF k = 3 /\ P!Looks(s[1]) = "last" THEN 1 ELSE 0)
         /\ Cardinality(P!LastLines(t)) \in Nat
<1>0. /\ Len(s) \in Nat /\ Len(t) \in Nat
      /\ DOMAIN s = 1..Len(s) /\ DOMAIN t = 1..Len(t)
  OBVIOUS
<1>1. \A i \in DOMAIN t : i + k \in DOMAIN s /\ t[i] = s[i + k] BY <1>0
<1>2. P!WholeLines(t)
  <2> SUFFICES ASSUME NEW i \in DOMAIN t, i = 1 \/ t[i - 1] = P!Terminator
               PROVE  \/ t[i] = P!Terminator
                      \/ /\ t[i].part = 1 /\ t[i].line # "end" /\ i + 2 \in DOMAIN t
                         /\ t[i + 1] = [t[i] EXCEPT !.part = 2]
                         /\ t[i + 2] = P!Terminator
    BY DEF P!WholeLines
  <2>1. s[(i + k) - 1] = P!Terminator
    <3>1. CASE i = 1 BY <3>1
    <3>2. CASE i # 1
      <4>1. i - 1 \in DOMAIN t /\ (i - 1) + k = (i + k) - 1 BY <1>0, <3>2
      <4> QED BY <1>1, <3>2, <4>1
    <3> QED BY <3>1, <3>2
  <2>2. \/ s[i + k] = P!Terminator
        \/ /\ s[i + k].part = 1 /\ s[i + k].line # "end" /\ (i + k) + 2 \in DOMAIN s
           /\ s[(i + k) + 1] = [s[i + k] EXCEPT !.part = 2]
           /\ s[(i + k) + 2] = P!Terminator
    BY <1>1, <2>1 DEF P!WholeLines
  <2>3. CASE (i + k) + 2 \in DOMAIN s
    <3>1. i + 1 \in DOMAIN t /\ i + 2 \in DOMAIN t BY <1>0, <2>3
    <3>2. t[i + 1] = s[(i + k) + 1] /\ t[i + 2] = s[(i + k) + 2]
      <4>1. (i + 1) + k = (i + k) + 1 /\ (i + 2) + k = (i + k) + 2 BY <1>0
      <4> QED BY <1>1, <3>1, <4>1
    <3> QED BY <1>1, <2>2, <3>1, <3>2
  <2>4. CASE (i + k) + 2 \notin DOMAIN s BY <1>1, <2>2, <2>4
  <2> QED BY <2>3, <2>4
<1>3. P!InOrder(t, next)
  <2> SUFFICES ASSUME NEW i \in DOMAIN t,
                      P!Begins(t[i], {"update", "last"}), t[i].of \in Plain
               PROVE  IF i = 1 THEN next = t[i].of
                      ELSE /\ i > 3 /\ P!Begins(t[i - 3], {"name", "update"})
                           /\ t[i - 3].of = t[i].of
    BY DEF P!InOrder
  <2>1. i + k # 1 /\ i + k \in DOMAIN s /\ t[i] = s[i + k] BY <1>0, <1>1
  <2>2. /\ i + k > 3 /\ P!Begins(s[(i + k) - 3], {"name", "update"})
        /\ s[(i + k) - 3].of = t[i].of
    BY <2>1 DEF P!InOrder
  <2>3. P!Terminator.part = 3 BY DEF P!Terminator
  <2>4. s[(i + k) - 3].part = 1 BY <2>2 DEF P!Begins
  <2>5. (i + k) - 3 # k BY <2>3, <2>4
  <2>6. k = 3 => (i + k) - 3 # 2 BY <2>4
  <2>7. CASE i = 1 BY <1>0, <2>2, <2>7
  <2>8. CASE i # 1
    <3>1. i > 3 BY <1>0, <2>2, <2>5, <2>6, <2>8
    <3>2. i - 3 \in DOMAIN t /\ (i - 3) + k = (i + k) - 3 BY <1>0, <3>1
    <3>3. t[i - 3] = s[(i + k) - 3] BY <1>1, <3>2
    <3> QED BY <2>2, <2>8, <3>1, <3>3
  <2> QED BY <2>7, <2>8
<1>4. /\ Cardinality(P!LastLines(s)) = Cardinality(P!LastLines(t)) +
           (IF k = 3 /\ P!Looks(s[1]) = "last" THEN 1 ELSE 0)
      /\ Cardinality(P!LastLines(t)) \in Nat
  <2> DEFINE L == P!LastLines(t)
             M == {i + k : i \in L}
  <2>1. L \subseteq 1..Len(t) BY <1>0 DEF P!LastLines
  <2>2. IsFiniteSet(L)
    <3>1. IsFiniteSet(1..Len(t)) BY <1>0, FS_Interval
    <3> QED BY <2>1, <3>1, FS_Subset
  <2>3. Cardinality(M) = Cardinality(L) /\ IsFiniteSet(M)
    <3> DEFINE f == [i \in L |-> i + k]
    <3>1. f \in Bijection(L, M) BY <2>1 DEF Bijection, Injection, Surjection, IsInjective
    <3>2. ExistsBijection(L, M) BY <3>1 DEF ExistsBijection
    <3> QED BY <2>2, <3>2, FS_Bijection
  <2>4. \A i \in DOMAIN s : i > k => i - k \in DOMAIN t /\ s[i] = t[i - k]
    BY <1>0, <1>1
  <2>5. M \subseteq P!LastLines(s) BY <1>0, <1>1 DEF P!LastLines
  <2>6. \A i \in P!LastLines(s) : i > k => i \in M
    BY <1>0, <2>4 DEF P!LastLines
  <2>7. \A i \in P!LastLines(s) : i \in DOMAIN s /\ s[i].part = 1
    BY DEF P!LastLines
  <2>8. P!Terminator.part = 3 BY DEF P!Terminator
  <2>13. \A i \in P!LastLines(s) : P!Looks(s[i]) = "last" BY DEF P!LastLines
  <2>9. \A i \in P!LastLines(s) : i <= k => k = 3 /\ i = 1
    BY <1>0, <2>7, <2>8
  <2>10. CASE k = 3 /\ P!Looks(s[1]) = "last"
    <3>1. 1 \in P!LastLines(s) BY <1>0, <2>10 DEF P!LastLines
    <3>2. P!LastLines(s) = M \cup {1}
      <4>1. \A i \in P!LastLines(s) : i \in M \/ i = 1 BY <1>0, <2>6, <2>7, <2>9
      <4> QED BY <2>5, <3>1, <4>1
    <3>3. 1 \notin M BY <2>1
    <3>4. Cardinality(M \cup {1}) = Cardinality(M) + 1 BY <2>3, <3>3, FS_AddElement
    <3> QED BY <2>2, <2>3, <2>10, <3>2, <3>4, FS_CardinalityType
  <2>11. CASE ~(k = 3 /\ P!Looks(s[1]) = "last")
    <3>1. P!LastLines(s) = M
      <4>1. ASSUME NEW i \in P!LastLines(s) PROVE i \in M
        <5>1. i > k \/ i <= k BY <1>0, <2>7
        <5>2. ~(i <= k)
          <6>1. ASSUME i <= k PROVE FALSE
            <7>1. k = 3 /\ i = 1 BY <2>9, <6>1
            <7>2. P!Looks(s[1]) = "last" BY <2>13, <7>1
            <7> QED BY <2>11, <7>1, <7>2
          <6> QED BY <6>1
        <5> QED BY <2>6, <5>1, <5>2
      <4> QED BY <2>5, <4>1
    <3>2. Cardinality(L) + 0 = Cardinality(L) BY <2>2, FS_CardinalityType
    <3> QED BY <2>2, <2>3, <2>11, <3>1, <3>2, FS_CardinalityType
  <2> QED BY <2>10, <2>11
<1> QED BY <1>2, <1>3, <1>4

\* What handleLine makes of a line, or of the first piece of one.
LEMMA HandleFact ==
  ASSUME NEW p \in P!Parser, p.line # <<>>, Len(p.line) <= 2,
         p.line[1].part = 1, p.line[1].line # "end",
         P!Begins(p.line[1], {"update", "last"}) /\ p.line[1].of \in Plain =>
           p.currentFile = p.line[1].of,
         \A e \in p.events : P!NamesItsFile(e),
         NEW q, q = P!HandleLine(p)
  PROVE  /\ q \in P!Parser /\ q.line = <<>>
         /\ \A e \in q.events : P!NamesItsFile(e)
         /\ q.filesAttempted = p.filesAttempted +
              (IF Len(p.line) = 2 /\ P!Looks(p.line[1]) = "last" THEN 1 ELSE 0)
         /\ Len(p.line) = 2 /\ P!Begins(p.line[1], {"name", "update"})
              /\ p.line[1].of \in Plain => q.currentFile = p.line[1].of
<1> DEFINE l == p.line
           of == l[1].of
           r == [p EXCEPT !.line = <<>>]
<1>0. /\ l \in Seq(P!Piece) /\ Len(l) \in Nat /\ l[1] \in P!Piece /\ Len(l) # 0
      /\ p.currentFile \in Paths \cup {NoFile, Garbled}
      /\ p.events \subseteq P!Event /\ p.filesAttempted \in Nat
  BY DEF P!Parser
<1>1. of \in Paths \cup {NoFile} /\
      l[1].line \in {"heading", "name", "update", "last", "total"}
  BY <1>0 DEF P!Piece
<1>2. r \in P!Parser /\ r.line = <<>> /\ r.currentFile = p.currentFile
      /\ r.events = p.events /\ r.filesAttempted = p.filesAttempted
  <2>1. <<>> \in Seq(P!Piece) OBVIOUS
  <2> QED BY <2>1 DEF P!Parser
\* What an event adds.
<1>3. ASSUME NEW c \in P!Parser, c.line = <<>>, c.events = p.events,
             c.filesAttempted = p.filesAttempted,
             NEW kind \in {"started", "transferring", "completed", "summary"},
             NEW path \in Paths \cup {NoFile, Garbled},
             kind \in {"transferring", "completed"} /\ of \in Plain => path = of
      PROVE  LET e == P!Emit(c, kind, path, of) IN
             /\ e \in P!Parser /\ e.line = <<>> /\ e.currentFile = c.currentFile
             /\ \A x \in e.events : P!NamesItsFile(x)
             /\ e.filesAttempted = p.filesAttempted +
                                     (IF kind = "completed" THEN 1 ELSE 0)
  <2> DEFINE x == [kind |-> kind, path |-> path, of |-> of]
             e == P!Emit(c, kind, path, of)
  <2>1. x \in P!Event BY <1>1, <1>3 DEF P!Event
  <2>2. P!NamesItsFile(x) BY <1>3 DEF P!NamesItsFile
  <2>3. e = [c EXCEPT !.events = @ \cup {x},
                      !.filesAttempted = IF kind = "completed" THEN @ + 1 ELSE @]
    BY DEF P!Emit
  <2>4. c.events \cup {x} \in SUBSET P!Event
        /\ (IF kind = "completed" THEN c.filesAttempted + 1 ELSE c.filesAttempted) \in Nat
    BY <1>0, <1>3, <2>1
  <2> HIDE DEF x, e
  <2>5. e \in P!Parser BY <1>3, <2>3, <2>4 DEF P!Parser
  <2>6. /\ e.line = <<>> /\ e.currentFile = c.currentFile
        /\ e.events = p.events \cup {x}
        /\ e.filesAttempted = IF kind = "completed" THEN p.filesAttempted + 1
                              ELSE p.filesAttempted
    BY <1>3, <2>3 DEF P!Parser
  <2> USE DEF e
  <2> QED BY <1>0, <2>2, <2>5, <2>6
<1>4. p.filesAttempted + 0 = p.filesAttempted BY <1>0
<1>5. of \in Plain => of \in Paths BY FilesAssumption
<1>6. Garbled \notin Plain BY FilesAssumption
<1>7. Len(l) \in {1, 2}
  <2>1. Len(l) <= 2 /\ Len(l) \in Nat /\ Len(l) # 0 BY <1>0
  <2>2. \A m \in Nat : m # 0 /\ m <= 2 => m \in {1, 2} OBVIOUS
  <2> QED BY <2>1, <2>2
<1>8. q = CASE P!Shape(l) = "ignored" -> r
            [] P!Shape(l) = "summary" -> P!Emit(r, "summary", NoFile, of)
            [] P!Shape(l) = "name" ->
                 P!Emit([r EXCEPT !.currentFile = P!Name(l)], "started", P!Name(l), of)
            [] P!Shape(l) = "transferring" ->
                 P!Emit(r, "transferring", r.currentFile, of)
            [] P!Shape(l) = "completed" ->
                 [P!Emit(r, "completed", r.currentFile, of) EXCEPT !.currentFile = NoFile]
  BY DEF P!HandleLine
<1> HIDE DEF r
<1>14. /\ P!Looks(l[1]) \in {"heading", "name", "update", "last", "total"}
       /\ of \in Plain => P!Looks(l[1]) = l[1].line
       /\ P!Looks(l[1]) = "name" => of \in Plain /\ l[1].line = "name"
  BY <1>1 DEF P!Looks
<1>9. CASE P!Looks(l[1]) = "heading"
  <2>1. P!Shape(l) = "ignored" BY <1>9 DEF P!Shape
  <2>2. q = r BY <1>8, <2>1
  <2> QED BY <1>2, <1>4, <1>9, <1>14, <2>2 DEF P!Begins
<1>10. CASE P!Looks(l[1]) = "total"
  <2>1. P!Shape(l) = "summary" BY <1>10 DEF P!Shape
  <2>2. q = P!Emit(r, "summary", NoFile, of) BY <1>8, <2>1
  <2> QED BY <1>2, <1>3, <1>4, <1>10, <1>14, <2>2 DEF P!Begins
<1>11. CASE P!Looks(l[1]) = "update"
  <2>1. CASE Len(l) = 1
    <3>1. P!Shape(l) = "ignored" BY <1>11, <2>1 DEF P!Shape
    <3>2. q = r BY <1>8, <3>1
    <3> QED BY <1>2, <1>4, <1>11, <2>1, <3>2
  <2>2. CASE Len(l) = 2
    <3>1. P!Shape(l) = "transferring" BY <1>11, <2>2 DEF P!Shape
    <3>2. q = P!Emit(r, "transferring", r.currentFile, of) BY <1>8, <3>1
    <3>3. of \in Plain => r.currentFile = of BY <1>2, <1>11, <1>14 DEF P!Begins
    <3> QED BY <1>0, <1>2, <1>3, <1>4, <1>11, <3>2, <3>3
  <2> QED BY <1>7, <2>1, <2>2
<1>12. CASE P!Looks(l[1]) = "last"
  <2>1. of \in Plain => r.currentFile = of BY <1>2, <1>12, <1>14 DEF P!Begins
  <2>2. CASE Len(l) = 1
    <3>1. P!Shape(l) = "transferring" BY <1>12, <2>2 DEF P!Shape
    <3>2. q = P!Emit(r, "transferring", r.currentFile, of) BY <1>8, <3>1
    <3> QED BY <1>0, <1>2, <1>3, <1>4, <1>12, <2>1, <2>2, <3>2
  <2>3. CASE Len(l) = 2
    <3>1. P!Shape(l) = "completed" BY <1>12, <2>3 DEF P!Shape
    <3> DEFINE e == P!Emit(r, "completed", r.currentFile, of)
    <3>2. q = [e EXCEPT !.currentFile = NoFile] BY <1>8, <3>1
    <3>3. /\ e \in P!Parser /\ e.line = <<>> /\ \A x \in e.events : P!NamesItsFile(x)
          /\ e.filesAttempted = p.filesAttempted + 1
      BY <1>0, <1>2, <1>3, <2>1
    <3> HIDE DEF e
    <3>4. /\ q \in P!Parser /\ q.line = e.line /\ q.events = e.events
          /\ q.filesAttempted = e.filesAttempted
      BY <3>2, <3>3 DEF P!Parser
    <3> QED BY <1>12, <1>14, <2>3, <3>3, <3>4 DEF P!Begins
  <2> QED BY <1>7, <2>2, <2>3
<1>13. CASE P!Looks(l[1]) = "name"
  <2>1. P!Shape(l) = "name" BY <1>13 DEF P!Shape
  <2> DEFINE c == [r EXCEPT !.currentFile = P!Name(l)]
             e == P!Emit(c, "started", P!Name(l), of)
  <2>2. P!Name(l) \in Paths \cup {NoFile, Garbled} BY <1>1 DEF P!Name
  <2>3. /\ c \in P!Parser /\ c.line = <<>> /\ c.events = p.events
        /\ c.filesAttempted = p.filesAttempted /\ c.currentFile = P!Name(l)
    BY <1>2, <2>2 DEF P!Parser
  <2>4. q = e BY <1>8, <2>1
  <2> HIDE DEF c
  <2>5. /\ e \in P!Parser /\ e.line = <<>> /\ e.currentFile = c.currentFile
        /\ \A x \in e.events : P!NamesItsFile(x)
        /\ e.filesAttempted = p.filesAttempted + 0
    BY <1>3, <2>2, <2>3
  <2>6. Len(l) = 2 => P!Name(l) = of BY DEF P!Name
  <2> QED BY <1>13, <2>3, <2>4, <2>5, <2>6
<1> QED BY <1>9, <1>10, <1>11, <1>12, <1>13, <1>14

\* The instance of FiniteSets in RsyncPipe counts as the one here does.
LEMMA AddsFact ==
  ASSUME NEW p, NEW s, NEW n
  PROVE  P!Adds(p, s, n) <=>
           /\ P!WholeLines(s) /\ P!InOrder(s, p.currentFile)
           /\ p.filesAttempted + Cardinality(P!LastLines(s)) = n
<1>1. \A S : P!Cardinality(S) = Cardinality(S)
  BY DEF P!Cardinality, Cardinality
<1> QED BY <1>1 DEF P!Adds

\* A stream is taken apart at any place.
LEMMA JoinFact ==
  ASSUME NEW S, NEW u \in Seq(S), NEW v \in Seq(S)
  PROVE  /\ u \o v \in Seq(S) /\ Len(u \o v) = Len(u) + Len(v)
         /\ Len(u) \in Nat /\ Len(v) \in Nat
         /\ DOMAIN u = 1..Len(u) /\ DOMAIN v = 1..Len(v)
         /\ DOMAIN (u \o v) = 1..(Len(u) + Len(v))
         /\ \A i \in 1..Len(u) : (u \o v)[i] = u[i]
         /\ \A i \in 1..Len(v) : (u \o v)[i + Len(u)] = v[i]
<1>1. /\ u \o v \in Seq(S) /\ Len(u \o v) = Len(u) + Len(v)
      /\ Len(u) \in Nat /\ Len(v) \in Nat
  OBVIOUS
<1>2. \A i \in 1..Len(u) : (u \o v)[i] = u[i] OBVIOUS
<1>3. \A i \in 1..Len(v) : (u \o v)[i + Len(u)] = v[i] OBVIOUS
<1> QED BY <1>1, <1>2, <1>3

\* Where the parser has begun a line, it has one or two pieces of it.
LEMMA BegunFact ==
  ASSUME NEW l \in Seq(P!Piece), NEW s \in Seq(P!Piece), Len(l) # 0,
         Len(l) <= Len(s), \A i \in 1..Len(l) : s[i] = l[i],
         P!WholeLines(s), \A i \in DOMAIN l : l[i] # P!Terminator
  PROVE  /\ Len(l) <= 2 /\ l[1].part = 1 /\ l[1].line # "end" /\ s[1] = l[1]
         /\ 3 \in DOMAIN s /\ s[2].part = 2 /\ s[3] = P!Terminator
<1>1. /\ DOMAIN s = 1..Len(s) /\ Len(l) \in Nat /\ Len(s) \in Nat
      /\ DOMAIN l = 1..Len(l)
  OBVIOUS
<1>2. 1 \in DOMAIN s /\ 1 \in 1..Len(l) BY <1>1
<1>3. s[1] = l[1] /\ s[1] # P!Terminator BY <1>1, <1>2
<1>4. /\ s[1].part = 1 /\ s[1].line # "end" /\ 1 + 2 \in DOMAIN s
      /\ s[1 + 1] = [s[1] EXCEPT !.part = 2] /\ s[1 + 2] = P!Terminator
  BY <1>2, <1>3, Zenon DEF P!WholeLines
<1>5. s[2].part = 2
  <2>1. s[1] \in P!Piece BY <1>2
  <2> QED BY <1>4, <2>1 DEF P!Piece
<1>6. s[3] = P!Terminator /\ 3 \in DOMAIN s BY <1>4
<1>7. ~(3 <= Len(l))
  <2> SUFFICES ASSUME 3 <= Len(l) PROVE FALSE OBVIOUS
  <2>1. 3 \in 1..Len(l) BY <1>1
  <2> QED BY <1>1, <1>6, <2>1
<1>8. Len(l) <= 2 BY <1>1, <1>7
<1> QED BY <1>3, <1>4, <1>5, <1>6, <1>8

\* One piece more keeps the parser in step with rsync's output.
LEMMA ScanFact ==
  ASSUME NEW p \in P!Parser, NEW x \in P!Piece, NEW rest \in Seq(P!Piece),
         NEW n, P!StreamOK(p, <<x>> \o rest, n)
  PROVE  P!Scan(p, x) \in P!Parser /\ P!StreamOK(P!Scan(p, x), rest, n)
<1>1. PICK l : l = p.line OBVIOUS
<1>2. PICK s : s = l \o (<<x>> \o rest) OBVIOUS
<1>3. PICK q : q = P!Scan(p, x) OBVIOUS
<1>4. /\ l \in Seq(P!Piece) /\ p.filesAttempted \in Nat
      /\ p.currentFile \in Paths \cup {NoFile, Garbled} /\ p.events \subseteq P!Event
  BY <1>1 DEF P!Parser
<1>5. /\ \A e \in p.events : P!NamesItsFile(e)
      /\ \A i \in DOMAIN l : l[i] # P!Terminator
      /\ P!WholeLines(s) /\ P!InOrder(s, p.currentFile)
      /\ p.filesAttempted + Cardinality(P!LastLines(s)) = n
  <2>1. /\ \A e \in p.events : P!NamesItsFile(e)
        /\ \A i \in DOMAIN p.line : p.line[i] # P!Terminator
        /\ P!Adds(p, p.line \o (<<x>> \o rest), n)
    BY Zenon DEF P!StreamOK
  <2>2. P!Adds(p, s, n) BY <1>1, <1>2, <2>1, Zenon
  <2> QED BY <1>1, <2>1, <2>2, AddsFact, Zenon
<1>6. \* The stream with the new piece in its middle.
      /\ s \in Seq(P!Piece) /\ Len(s) = Len(rest) + (Len(l) + 1) /\ Len(l) \in Nat
      /\ Len(rest) \in Nat /\ s[Len(l) + 1] = x
      /\ \A i \in 1..Len(l) : s[i] = l[i]
      /\ \A i \in DOMAIN rest : rest[i] = s[i + (Len(l) + 1)]
  <2>1. PICK w : w = <<x>> \o rest OBVIOUS
  <2>2. /\ w \in Seq(P!Piece) /\ Len(w) = 1 + Len(rest) /\ w[1] = x
        /\ \A i \in 1..Len(rest) : w[i + 1] = rest[i]
    BY <2>1
  <2>3. /\ s \in Seq(P!Piece) /\ Len(s) = Len(l) + Len(w) /\ Len(l) \in Nat
        /\ \A i \in 1..Len(l) : s[i] = l[i]
        /\ \A i \in 1..Len(w) : s[i + Len(l)] = w[i]
    BY <1>2, <1>4, <2>1, <2>2, JoinFact
  <2>4. Len(rest) \in Nat /\ DOMAIN rest = 1..Len(rest) OBVIOUS
  <2>5. 1 \in 1..Len(w) /\ 1 + Len(l) = Len(l) + 1 BY <2>2, <2>3, <2>4
  <2>6. ASSUME NEW i \in DOMAIN rest PROVE rest[i] = s[i + (Len(l) + 1)]
    <3>1. i + 1 \in 1..Len(w) /\ (i + 1) + Len(l) = i + (Len(l) + 1)
      <4>1. i \in 1..Len(rest) /\ Len(w) = 1 + Len(rest) /\ Len(l) \in Nat
        BY <2>2, <2>3, <2>4
      <4> QED BY <2>4, <4>1
    <3> QED BY <2>2, <2>3, <2>4, <3>1
  <2> QED BY <2>2, <2>3, <2>4, <2>5, <2>6
<1>7. CASE x # P!Terminator
  <2>1. q = [p EXCEPT !.line = Append(l, x)] BY <1>1, <1>3, <1>7 DEF P!Scan
  <2>2. PICK m : m = Append(l, x) OBVIOUS
  <2>3. /\ m \in Seq(P!Piece) /\ Len(m) = Len(l) + 1 /\ m[Len(l) + 1] = x
        /\ \A i \in 1..Len(l) : m[i] = l[i]
    BY <1>4, <2>2
  <2>4. /\ q \in P!Parser /\ q.line = m /\ q.events = p.events
        /\ q.currentFile = p.currentFile /\ q.filesAttempted = p.filesAttempted
    BY <2>1, <2>2, <2>3 DEF P!Parser
  <2>5. m \o rest = s
    <3>1. <<x>> \in Seq(P!Piece) OBVIOUS
    <3>2. m = l \o <<x>> BY <1>4, <2>2, AppendIsConcat
    <3> QED BY <1>2, <1>4, <3>1, <3>2, ConcatAssociative
  <2>6. \A i \in DOMAIN m : m[i] # P!Terminator
    <3>1. DOMAIN m = 1..(Len(l) + 1) /\ DOMAIN l = 1..Len(l) BY <1>4, <2>3
    <3> QED BY <1>5, <1>6, <1>7, <2>3, <3>1
  <2>7. P!Adds(q, s, n) BY <1>5, <2>4, AddsFact
  <2>8. P!StreamOK(q, rest, n)
    BY <1>5, <2>4, <2>5, <2>6, <2>7, Zenon DEF P!StreamOK
  <2> QED BY <1>3, <2>4, <2>8
<1>8. CASE x = P!Terminator
  <2>1. q = P!HandleLine(p) BY <1>3, <1>8 DEF P!Scan
  <2>2. <<>> \o rest = rest OBVIOUS
  <2>3. \A i \in DOMAIN <<>> : <<>>[i] # P!Terminator OBVIOUS
  <2> DEFINE k == Len(l) + 1
  <2>6. /\ Len(s) = Len(rest) + k /\ s[k] = P!Terminator
        /\ \A i \in DOMAIN rest : rest[i] = s[i + k]
    BY <1>6, <1>8
  <2>7. <<>> \in Seq(P!Piece) OBVIOUS
  <2> HIDE DEF k
  <2>4. CASE l = <<>>
    <3>1. q = p BY <1>1, <2>1, <2>4 DEF P!HandleLine
    <3>2. k = 1 BY <2>4 DEF k
    <3>3. /\ P!WholeLines(rest) /\ P!InOrder(rest, p.currentFile)
          /\ Cardinality(P!LastLines(s)) = Cardinality(P!LastLines(rest)) + 0
          /\ Cardinality(P!LastLines(rest)) \in Nat
      <4>1. s \in Seq(P!Piece) BY <1>6
      <4>2. /\ k \in {1, 3}
            /\ k = 3 => s[1].part = 1 /\ s[2].part = 2
            /\ k = 3 /\ P!Begins(s[1], {"name", "update"}) /\ s[1].of \in Plain =>
                 p.currentFile = s[1].of
        BY <3>2
      <4>3. /\ P!WholeLines(rest) /\ P!InOrder(rest, p.currentFile)
            /\ Cardinality(P!LastLines(s)) = Cardinality(P!LastLines(rest)) +
                 (IF k = 3 /\ P!Looks(s[1]) = "last" THEN 1 ELSE 0)
            /\ Cardinality(P!LastLines(rest)) \in Nat
        BY <1>5, <2>6, <4>1, <4>2, NextLineFact, ZenonT(60)
      <4> QED BY <3>2, <4>3
    <3>4. Cardinality(P!LastLines(s)) = Cardinality(P!LastLines(rest)) BY <3>3
    <3>5. P!Adds(p, rest, n) BY <1>5, <3>3, <3>4, AddsFact
    <3>6. P!StreamOK(p, rest, n)
      BY <1>1, <1>5, <2>2, <2>4, <3>5, Zenon DEF P!StreamOK
    <3> QED BY <1>3, <3>1, <3>6
  <2>5. CASE l # <<>>
    <3>1. Len(l) # 0 /\ Len(l) <= Len(s) BY <1>4, <1>6, <2>5
    <3>2. /\ Len(l) <= 2 /\ l[1].part = 1 /\ l[1].line # "end" /\ s[1] = l[1]
          /\ 3 \in DOMAIN s /\ s[2].part = 2
      BY <1>4, <1>5, <1>6, <3>1, BegunFact
    <3>3. Len(l) = 2 /\ k = 3
      <4>1. P!Terminator.part = 3 BY DEF P!Terminator
      <4>2. Len(l) # 1
        <5> SUFFICES ASSUME Len(l) = 1 PROVE FALSE OBVIOUS
        <5>1. k = 2 BY DEF k
        <5> QED BY <2>6, <3>2, <4>1, <5>1
      <4>3. Len(l) \in Nat /\ Len(l) # 0 /\ Len(l) <= 2 BY <1>6, <3>1, <3>2
      <4>4. \A j \in Nat : j # 0 /\ j # 1 /\ j <= 2 => j = 2 OBVIOUS
      <4>5. Len(l) = 2 BY <4>2, <4>3, <4>4
      <4> QED BY <4>5 DEF k
    <3>4. P!Begins(l[1], {"update", "last"}) /\ l[1].of \in Plain =>
            p.currentFile = l[1].of
      <4>1. 1 \in DOMAIN s BY <1>6
      <4> QED BY <1>5, <3>2, <4>1 DEF P!InOrder
    <3>5. /\ q \in P!Parser /\ q.line = <<>>
          /\ \A e \in q.events : P!NamesItsFile(e)
          /\ q.filesAttempted = p.filesAttempted +
               (IF P!Looks(l[1]) = "last" THEN 1 ELSE 0)
          /\ P!Begins(l[1], {"name", "update"}) /\ l[1].of \in Plain =>
               q.currentFile = l[1].of
      BY <1>1, <1>5, <2>1, <2>5, <3>2, <3>3, <3>4, HandleFact
    <3>6. /\ P!WholeLines(rest) /\ P!InOrder(rest, q.currentFile)
          /\ Cardinality(P!LastLines(s)) = Cardinality(P!LastLines(rest)) +
               (IF P!Looks(l[1]) = "last" THEN 1 ELSE 0)
          /\ Cardinality(P!LastLines(rest)) \in Nat
      <4>1. s \in Seq(P!Piece) BY <1>6
      <4>2. /\ k \in {1, 3}
            /\ k = 3 => s[1].part = 1 /\ s[2].part = 2
            /\ k = 3 /\ P!Begins(s[1], {"name", "update"}) /\ s[1].of \in Plain =>
                 q.currentFile = s[1].of
        BY <3>2, <3>3, <3>5
      <4>3. /\ P!WholeLines(rest) /\ P!InOrder(rest, q.currentFile)
            /\ Cardinality(P!LastLines(s)) = Cardinality(P!LastLines(rest)) +
                 (IF k = 3 /\ P!Looks(s[1]) = "last" THEN 1 ELSE 0)
            /\ Cardinality(P!LastLines(rest)) \in Nat
        BY <1>5, <2>6, <4>1, <4>2, NextLineFact, ZenonT(60)
      <4>4. P!Looks(s[1]) = P!Looks(l[1]) BY <3>2
      <4> QED BY <3>3, <4>3, <4>4
    <3>7. q.filesAttempted + Cardinality(P!LastLines(rest)) = n
      <4>1. PICK d : d = IF P!Looks(l[1]) = "last" THEN 1 ELSE 0 OBVIOUS
      <4>2. d \in Nat BY <4>1
      <4>3. /\ q.filesAttempted = p.filesAttempted + d
            /\ Cardinality(P!LastLines(s)) = Cardinality(P!LastLines(rest)) + d
        BY <3>5, <3>6, <4>1
      <4> QED BY <1>4, <1>5, <3>6, <4>2, <4>3
    <3>8. P!Adds(q, rest, n) BY <3>6, <3>7, AddsFact
    <3>9. P!StreamOK(q, rest, n)
      BY <2>2, <2>3, <3>5, <3>8, Zenon DEF P!StreamOK
    <3> QED BY <1>3, <3>5, <3>9
  <2> QED BY <2>4, <2>5
<1> QED BY <1>7, <1>8

\* However many pieces come at once.
LEMMA WriteFact ==
  ASSUME NEW p \in P!Parser, NEW chunk \in Seq(P!Piece), NEW rest \in Seq(P!Piece),
         NEW n, P!StreamOK(p, chunk \o rest, n)
  PROVE  P!Write(p, chunk) \in P!Parser /\ P!StreamOK(P!Write(p, chunk), rest, n)
<1>1. Len(chunk) \in Nat /\ DOMAIN chunk = 1..Len(chunk) OBVIOUS
<1>2. PICK after :
        /\ after[0] = p
        /\ \A i \in 1..Len(chunk) : after[i] = P!Scan(after[i - 1], chunk[i])
        /\ P!DrainLines(p, chunk) = after[Len(chunk)]
  BY <1>1, DrainFact
<1> DEFINE Left(i) == SubSeq(chunk, i + 1, Len(chunk))
           Kept(i) == after[i] \in P!Parser /\ P!StreamOK(after[i], Left(i) \o rest, n)
           Fails == {i \in 0..Len(chunk) : ~Kept(i)}
<1>3. \A i \in 0..Len(chunk) : Left(i) \in Seq(P!Piece)
  <2> TAKE i \in 0..Len(chunk)
  <2>1. i + 1 \in Int /\ Len(chunk) \in Int
        /\ \A j \in (i + 1)..Len(chunk) : chunk[j] \in P!Piece
    BY <1>1
  <2> QED BY <2>1, SubSeqProperties
<1>4. Kept(0)
  <2>1. Left(0) = chunk BY SubSeqFull
  <2> QED BY <1>2, <2>1
<1>5. ASSUME NEW i \in 1..Len(chunk), Kept(i - 1) PROVE Kept(i)
  <2>1. i - 1 \in 0..Len(chunk) /\ i \in 0..Len(chunk) /\ (i - 1) + 1 = i
        /\ Len(chunk) \in i..Len(chunk)
    BY <1>1
  <2>2. Left(i - 1) = <<chunk[i]>> \o Left(i)
    BY <2>1, SubSeqRecursiveFirst
  <2>3. chunk[i] \in P!Piece /\ <<chunk[i]>> \in Seq(P!Piece) /\ Left(i) \in Seq(P!Piece)
    BY <1>1, <1>3, <2>1
  <2> HIDE DEF Left
  <2>4. Left(i - 1) \o rest = <<chunk[i]>> \o (Left(i) \o rest)
    <3>1. (<<chunk[i]>> \o Left(i)) \o rest = <<chunk[i]>> \o (Left(i) \o rest)
      BY <2>3, ConcatAssociative
    <3> QED BY <2>2, <3>1
  <2>5. Left(i) \o rest \in Seq(P!Piece) BY <2>3, ConcatProperties
  <2>6. after[i] = P!Scan(after[i - 1], chunk[i]) BY <1>2
  <2> QED BY <1>5, <2>3, <2>4, <2>5, <2>6, ScanFact
<1>6. Fails = {}
  <2> SUFFICES ASSUME Fails # {} PROVE FALSE OBVIOUS
  <2> HIDE DEF Kept
  <2>1. Fails \subseteq Nat BY <1>1
  <2>2. PICK i \in Fails : \A j \in Fails : i <= j BY <2>1, LeastFact
  <2>3. i # 0 BY <1>4, <2>2
  <2>4. i \in 1..Len(chunk) /\ i - 1 \in 0..Len(chunk) /\ ~(i <= i - 1)
    BY <1>1, <2>2, <2>3
  <2>5. Kept(i - 1) BY <2>2, <2>4
  <2> QED BY <1>5, <2>2, <2>4, <2>5
<1>7. Kept(Len(chunk)) BY <1>1, <1>6
<1>8. Left(Len(chunk)) \o rest = rest
  <2>1. Left(Len(chunk)) = <<>> BY <1>1, SubSeqEmpty
  <2> QED BY <2>1, ConcatEmptySeq
<1> HIDE DEF Left
<1> QED BY <1>2, <1>7, <1>8 DEF P!Write

\* The last line is the name of f, or progress of it.
Follows(s, f) ==
  /\ Len(s) >= 3 /\ P!Begins(s[Len(s) - 2], {"name", "update"})
  /\ s[Len(s) - 2].of = f

\* A line that is taken for the last one of a file.
Counts(kind, f) == kind = "last" \/ (kind = "name" /\ f \in ProgressLike)

\* A line rsync prints is one more line, and one more to count if it is taken for
\* the last of a file.  Progress has to follow the name of its file.
LEMMA PrintedFact ==
  ASSUME NEW s \in Seq(P!Piece), NEW kind \in {"heading", "name", "update", "last", "total"},
         NEW f \in Paths \cup {NoFile}, NEW p, NEW n, P!Adds(p, s, n),
         p.filesAttempted \in Nat,
         kind \in {"update", "last"} => Follows(s, f),
         NEW t, t = s \o P!Line(kind, f)
  PROVE  /\ t \in Seq(P!Piece)
         /\ P!Adds(p, t, IF Counts(kind, f) THEN n + 1 ELSE n)
         /\ kind \in {"name", "update"} => Follows(t, f)
<1> DEFINE a == [line |-> kind, of |-> f, part |-> 1]
           b == [line |-> kind, of |-> f, part |-> 2]
           m == Len(s)
<1>1. /\ a \in P!Piece /\ b \in P!Piece /\ P!Terminator \in P!Piece
      /\ a # P!Terminator /\ b # P!Terminator
      /\ b = [a EXCEPT !.part = 2]
      /\ a.line = kind /\ a.part = 1 /\ a.of = f /\ b.part = 2
      /\ P!Terminator.part = 3
  BY DEF P!Piece, P!Terminator
<1>2. P!Line(kind, f) = <<a, b, P!Terminator>> BY DEF P!Line
<1> HIDE DEF a, b
<1>3. /\ t \in Seq(P!Piece) /\ Len(t) = m + 3 /\ m \in Nat
      /\ \A i \in 1..m : t[i] = s[i]
      /\ t[m + 1] = a /\ t[m + 2] = b /\ t[m + 3] = P!Terminator
  <2>1. PICK w : w = <<a, b, P!Terminator>> OBVIOUS
  <2>2. /\ w \in Seq(P!Piece) /\ Len(w) = 3
        /\ w[1] = a /\ w[2] = b /\ w[3] = P!Terminator
    BY <1>1, <2>1
  <2>3. t = s \o w BY <1>2, <2>1
  <2>4. /\ t \in Seq(P!Piece) /\ Len(t) = m + 3 /\ m \in Nat
        /\ \A i \in 1..m : t[i] = s[i]
        /\ \A i \in 1..3 : t[i + m] = w[i]
    <3>1. w \in Seq(P!Piece) BY <2>2
    <3>2. /\ s \o w \in Seq(P!Piece) /\ Len(s \o w) = m + Len(w) /\ m \in Nat
          /\ \A i \in 1..m : (s \o w)[i] = s[i]
          /\ \A i \in 1..Len(w) : (s \o w)[i + m] = w[i]
      BY <3>1, JoinFact
    <3> QED BY <2>2, <2>3, <3>2
  <2>5. 1 + m = m + 1 /\ 2 + m = m + 2 /\ 3 + m = m + 3 BY <2>4
  <2> QED BY <2>2, <2>4, <2>5
<1>13. P!Looks(a) = "last" <=> Counts(kind, f)
  <2>1. kind = "name" /\ f \in ProgressLike => f \notin Plain
    BY FilesAssumption
  <2> QED BY <1>1, <2>1 DEF P!Looks, Counts
<1>4. DOMAIN t = 1..(m + 3) /\ DOMAIN s = 1..m BY <1>3
<1>5. \A i \in DOMAIN t : i \in DOMAIN s \/ i = m + 1 \/ i = m + 2 \/ i = m + 3
  BY <1>3, <1>4
<1>6. /\ P!WholeLines(s) /\ P!InOrder(s, p.currentFile)
      /\ p.filesAttempted + Cardinality(P!LastLines(s)) = n
  BY AddsFact
<1> HIDE DEF m
<1>7. P!WholeLines(t)
  <2> SUFFICES ASSUME NEW i \in DOMAIN t, i = 1 \/ t[i - 1] = P!Terminator
               PROVE  \/ t[i] = P!Terminator
                      \/ /\ t[i].part = 1 /\ t[i].line # "end" /\ i + 2 \in DOMAIN t
                         /\ t[i + 1] = [t[i] EXCEPT !.part = 2]
                         /\ t[i + 2] = P!Terminator
    BY DEF P!WholeLines
  <2>1. CASE i \in DOMAIN s
    <3>1. i = 1 \/ s[i - 1] = P!Terminator
      <4>1. i # 1 => i - 1 \in 1..m BY <1>3, <1>4, <2>1
      <4> QED BY <1>3, <4>1
    <3>2. \/ s[i] = P!Terminator
          \/ /\ s[i].part = 1 /\ s[i].line # "end" /\ i + 2 \in DOMAIN s
             /\ s[i + 1] = [s[i] EXCEPT !.part = 2] /\ s[i + 2] = P!Terminator
      BY <1>6, <2>1, <3>1 DEF P!WholeLines
    <3>3. t[i] = s[i] BY <1>3, <1>4, <2>1
    <3>4. i + 2 \in DOMAIN s =>
            i + 2 \in DOMAIN t /\ t[i + 1] = s[i + 1] /\ t[i + 2] = s[i + 2]
      BY <1>3, <1>4, <2>1
    <3> QED BY <3>2, <3>3, <3>4
  <2>2. CASE i = m + 1
    <3>1. i + 2 \in DOMAIN t /\ i + 1 = m + 2 /\ i + 2 = m + 3 BY <1>3, <1>4, <2>2
    <3>2. a.line # "end" BY <1>1
    <3>3. t[i] = a /\ t[i + 1] = b /\ t[i + 2] = P!Terminator BY <1>3, <2>2, <3>1
    <3> QED BY <1>1, <3>1, <3>2, <3>3
  <2>3. i # m + 2
    <3> SUFFICES ASSUME i = m + 2 PROVE FALSE OBVIOUS
    <3>1. i # 1 /\ i - 1 = m + 1 BY <1>3
    <3> QED BY <1>1, <1>3, <3>1
  <2>4. CASE i = m + 3 BY <1>3, <2>4
  <2> QED BY <1>5, <2>1, <2>2, <2>3, <2>4
<1>8. P!InOrder(t, p.currentFile)
  <2> SUFFICES ASSUME NEW i \in DOMAIN t,
                      P!Begins(t[i], {"update", "last"}), t[i].of \in Plain
               PROVE  IF i = 1 THEN p.currentFile = t[i].of
                      ELSE /\ i > 3 /\ P!Begins(t[i - 3], {"name", "update"})
                           /\ t[i - 3].of = t[i].of
    BY DEF P!InOrder
  <2>1. CASE i \in DOMAIN s
    <3>1. t[i] = s[i] /\ (i > 3 => t[i - 3] = s[i - 3]) BY <1>3, <1>4, <2>1
    <3> QED BY <1>6, <2>1, <3>1 DEF P!InOrder
  <2>2. CASE i = m + 1
    <3>1. kind \in {"update", "last"} BY <1>1, <1>3, <2>2 DEF P!Begins
    <3>2. m >= 3 /\ P!Begins(s[m - 2], {"name", "update"}) /\ s[m - 2].of = f
      BY <3>1 DEF m, Follows
    <3>3. i > 3 /\ i - 3 = m - 2 /\ m - 2 \in 1..m /\ i # 1 BY <1>3, <2>2, <3>2
    <3> QED BY <1>1, <1>3, <2>2, <3>2, <3>3
  <2>3. i # m + 2
    <3>1. t[m + 2].part # 1 BY <1>1, <1>3
    <3> QED BY <3>1 DEF P!Begins
  <2>4. i # m + 3 BY <1>1, <1>3 DEF P!Begins
  <2> QED BY <1>5, <2>1, <2>2, <2>3, <2>4
<1>9. Cardinality(P!LastLines(t)) = Cardinality(P!LastLines(s)) +
        (IF Counts(kind, f) THEN 1 ELSE 0) /\ Cardinality(P!LastLines(s)) \in Nat
  <2>1. IsFiniteSet(P!LastLines(s))
    <3>1. P!LastLines(s) \subseteq 1..m BY <1>4 DEF P!LastLines
    <3>2. m \in Int BY <1>3
    <3>3. IsFiniteSet(1..m) BY <3>2, FS_Interval
    <3> QED BY <3>1, <3>3, FS_Subset
  <2>2. Cardinality(P!LastLines(s)) \in Nat BY <2>1, FS_CardinalityType
  <2>3. \A i \in DOMAIN s : i \in DOMAIN t /\ t[i] = s[i] BY <1>3, <1>4
  <2>4. P!LastLines(s) \subseteq P!LastLines(t) BY <2>3 DEF P!LastLines
  <2>5. \A i \in P!LastLines(t) : i \in DOMAIN s => i \in P!LastLines(s)
    BY <2>3 DEF P!LastLines
  <2>6. \A i \in P!LastLines(t) : i # m + 2 /\ i # m + 3
    <3>1. t[m + 2].part # 1 BY <1>1, <1>3
    <3>2. t[m + 3].part # 1
      <4>1. t[m + 3] = P!Terminator BY <1>3
      <4>2. P!Terminator.part # 1 BY DEF P!Terminator
      <4> QED BY <4>1, <4>2, Zenon
    <3> QED BY <3>1, <3>2 DEF P!LastLines
  <2>7. P!LastLines(t) \subseteq DOMAIN t BY DEF P!LastLines
  <2>8. CASE Counts(kind, f)
    <3>1. m + 1 \in P!LastLines(t)
      <4>1. m + 1 \in DOMAIN t BY <1>3, <1>4
      <4>2. P!Looks(t[m + 1]) = "last" /\ t[m + 1].part = 1
        BY <1>1, <1>3, <1>13, <2>8
      <4> QED BY <4>1, <4>2 DEF P!LastLines
    <3>2. P!LastLines(t) = P!LastLines(s) \cup {m + 1}
      BY <1>5, <2>4, <2>5, <2>6, <2>7, <3>1
    <3>3. m + 1 \notin P!LastLines(s) BY <1>3, <1>4 DEF P!LastLines
    <3>4. Cardinality(P!LastLines(s) \cup {m + 1}) = Cardinality(P!LastLines(s)) + 1
      BY <2>1, <3>3, FS_AddElement
    <3> QED BY <2>2, <2>8, <3>2, <3>4
  <2>9. CASE ~Counts(kind, f)
    <3>1. m + 1 \notin P!LastLines(t) BY <1>3, <1>13, <2>9 DEF P!LastLines
    <3>2. P!LastLines(t) = P!LastLines(s)
      BY <1>5, <2>4, <2>5, <2>6, <2>7, <3>1
    <3>3. Cardinality(P!LastLines(s)) + 0 = Cardinality(P!LastLines(s)) BY <2>2
    <3> QED BY <2>2, <2>9, <3>2, <3>3
  <2> QED BY <2>8, <2>9
<1>10. p.filesAttempted + Cardinality(P!LastLines(t)) =
         IF Counts(kind, f) THEN n + 1 ELSE n
  BY <1>6, <1>9
<1>11. P!Adds(p, t, IF Counts(kind, f) THEN n + 1 ELSE n)
  BY <1>7, <1>8, <1>10, AddsFact
<1>12. kind \in {"name", "update"} => Follows(t, f)
  <2>1. Len(t) >= 3 /\ Len(t) - 2 = m + 1 BY <1>3
  <2> QED BY <1>1, <1>3, <2>1 DEF Follows, P!Begins
<1> QED BY <1>3, <1>11, <1>12

\* A blank line adds nothing.
LEMMA BlankFact ==
  ASSUME NEW s \in Seq(P!Piece), NEW p, NEW n, P!Adds(p, s, n),
         NEW t, t = s \o <<P!Terminator>>
  PROVE  t \in Seq(P!Piece) /\ P!Adds(p, t, n)
<1>1. /\ P!Terminator \in P!Piece /\ P!Terminator.part = 3
  BY DEF P!Piece, P!Terminator
<1>2. PICK m : m = Len(s) OBVIOUS
<1>3. /\ t \in Seq(P!Piece) /\ Len(t) = m + 1 /\ m \in Nat
      /\ \A i \in 1..m : t[i] = s[i]
      /\ t[m + 1] = P!Terminator
  <2>1. PICK w : w = <<P!Terminator>> OBVIOUS
  <2>2. w \in Seq(P!Piece) /\ Len(w) = 1 /\ w[1] = P!Terminator BY <1>1, <2>1
  <2>3. /\ s \o w \in Seq(P!Piece) /\ Len(s \o w) = Len(s) + Len(w)
        /\ Len(s) \in Nat
        /\ \A i \in 1..Len(s) : (s \o w)[i] = s[i]
        /\ \A i \in 1..Len(w) : (s \o w)[i + Len(s)] = w[i]
    <3>1. w \in Seq(P!Piece) BY <2>2
    <3> QED BY <3>1, JoinFact
  <2>4. 1 + m = m + 1 BY <1>2, <2>3
  <2> QED BY <1>2, <2>1, <2>2, <2>3, <2>4
<1>4. DOMAIN t = 1..(m + 1) /\ DOMAIN s = 1..m BY <1>2, <1>3
<1>5. /\ \A i \in DOMAIN t : i \in DOMAIN s \/ i = m + 1
      /\ \A i \in DOMAIN s : i \in DOMAIN t /\ t[i] = s[i]
  BY <1>3, <1>4
<1>6. /\ P!WholeLines(s) /\ P!InOrder(s, p.currentFile)
      /\ p.filesAttempted + Cardinality(P!LastLines(s)) = n
  BY AddsFact
<1>7. P!WholeLines(t)
  <2> SUFFICES ASSUME NEW i \in DOMAIN t, i = 1 \/ t[i - 1] = P!Terminator
               PROVE  \/ t[i] = P!Terminator
                      \/ /\ t[i].part = 1 /\ t[i].line # "end" /\ i + 2 \in DOMAIN t
                         /\ t[i + 1] = [t[i] EXCEPT !.part = 2]
                         /\ t[i + 2] = P!Terminator
    BY DEF P!WholeLines
  <2>1. CASE i \in DOMAIN s
    <3>1. i = 1 \/ s[i - 1] = P!Terminator
      <4>1. i # 1 => i - 1 \in 1..m BY <1>3, <1>4, <2>1
      <4> QED BY <1>3, <4>1
    <3>2. \/ s[i] = P!Terminator
          \/ /\ s[i].part = 1 /\ s[i].line # "end" /\ i + 2 \in DOMAIN s
             /\ s[i + 1] = [s[i] EXCEPT !.part = 2] /\ s[i + 2] = P!Terminator
      BY <1>6, <2>1, <3>1 DEF P!WholeLines
    <3>3. t[i] = s[i] BY <1>3, <1>4, <2>1
    <3>4. i + 2 \in DOMAIN s =>
            i + 2 \in DOMAIN t /\ t[i + 1] = s[i + 1] /\ t[i + 2] = s[i + 2]
      BY <1>3, <1>4, <2>1
    <3> QED BY <3>2, <3>3, <3>4
  <2>2. CASE i = m + 1 BY <1>3, <2>2
  <2> QED BY <1>5, <2>1, <2>2
<1>8. ~P!Begins(t[m + 1], {"update", "last"}) /\ t[m + 1].part # 1
  <2>1. t[m + 1].part # 1 BY <1>1, <1>3
  <2> QED BY <2>1 DEF P!Begins
<1>9. P!InOrder(t, p.currentFile)
  <2> SUFFICES ASSUME NEW i \in DOMAIN t,
                      P!Begins(t[i], {"update", "last"}), t[i].of \in Plain
               PROVE  IF i = 1 THEN p.currentFile = t[i].of
                      ELSE /\ i > 3 /\ P!Begins(t[i - 3], {"name", "update"})
                           /\ t[i - 3].of = t[i].of
    BY DEF P!InOrder
  <2>1. i \in DOMAIN s BY <1>5, <1>8
  <2>2. t[i] = s[i] /\ (i > 3 => t[i - 3] = s[i - 3]) BY <1>3, <1>4, <2>1
  <2> QED BY <1>6, <2>1, <2>2 DEF P!InOrder
<1>10. P!LastLines(t) = P!LastLines(s)
  <2>1. P!LastLines(s) \subseteq P!LastLines(t) BY <1>5 DEF P!LastLines
  <2>2. \A i \in P!LastLines(t) : i \in P!LastLines(s)
    BY <1>5, <1>8 DEF P!LastLines
  <2> QED BY <2>1, <2>2
<1>11. P!Adds(p, t, n) BY <1>6, <1>7, <1>9, <1>10, AddsFact
<1> QED BY <1>3, <1>11

\* What rsync prints of a file.
LEMMA PrintsFact ==
  ASSUME NEW s \in Seq(P!Piece), NEW p, NEW n, P!Adds(p, s, n),
         p.filesAttempted \in Nat, n \in Nat,
         NEW f \in Paths, NEW lines \in P!Prints(f)
  PROVE  /\ lines \in Seq(P!Piece)
         /\ P!Adds(p, s \o lines, n + (IF P!Completes(lines) THEN 1 ELSE 0)
                                     + (IF P!Disguises(lines) THEN 1 ELSE 0))
<1> f \in Paths \cup {NoFile} OBVIOUS
<1> DEFINE Of(w) == \A i \in DOMAIN w : w[i].line = "name" => w[i].of = f
\* The names among them are f's, and the first line is such a name.
           Named(w) == Of(w) /\ 1 \in DOMAIN w /\ w[1].line = "name" /\ w[1].of = f
<1>1. \A kind \in {"name", "update", "last"} :
        LET l == P!Line(kind, f) IN
        l \in Seq(P!Piece) /\ Len(l) = 3 /\ l[1].line = kind /\ l[1].of = f
        /\ l[2].line = kind /\ l[2].of = f /\ l[3] = P!Terminator
  <2> TAKE kind \in {"name", "update", "last"}
  <2>1. /\ [line |-> kind, of |-> f, part |-> 1] \in P!Piece
        /\ [line |-> kind, of |-> f, part |-> 2] \in P!Piece
        /\ P!Terminator \in P!Piece
    BY DEF P!Piece, P!Terminator
  <2> QED BY <2>1 DEF P!Line
<1>2. PICK a : a = P!Line("name", f) OBVIOUS
<1>3. PICK b : b = P!Line("update", f) OBVIOUS
<1>4. PICK c : c = P!Line("last", f) OBVIOUS
<1>5. /\ a \in Seq(P!Piece) /\ Len(a) = 3 /\ a[1].line = "name" /\ a[1].of = f
      /\ a[2].line = "name" /\ a[2].of = f /\ a[3] = P!Terminator
  BY <1>1, <1>2
<1>6. b \in Seq(P!Piece) /\ Len(b) = 3 /\ b[1].of = f /\ b[2].of = f
      /\ b[3] = P!Terminator
  BY <1>1, <1>3
<1>7. c \in Seq(P!Piece) /\ Len(c) = 3 /\ c[1].line = "last"
      /\ c[1].of = f /\ c[2].of = f /\ c[3] = P!Terminator
  BY <1>1, <1>4
<1>16. Named(a) /\ Of(b) /\ Of(c)
  <2>1. DOMAIN a = 1..3 /\ DOMAIN b = 1..3 /\ DOMAIN c = 1..3 BY <1>5, <1>6, <1>7
  <2>2. P!Terminator.line # "name" BY DEF P!Terminator
  <2>3. \A i \in 1..3 : i = 1 \/ i = 2 \/ i = 3 OBVIOUS
  <2>4. Of(a) BY <1>5, <2>1, <2>2, <2>3
  <2>5. Of(b) BY <1>6, <2>1, <2>2, <2>3
  <2>6. Of(c) BY <1>7, <2>1, <2>2, <2>3
  <2> QED BY <1>5, <2>1, <2>4, <2>5, <2>6
<1>17. ASSUME NEW u \in Seq(P!Piece), NEW w \in Seq(P!Piece), Named(u), Of(w)
       PROVE  u \o w \in Seq(P!Piece) /\ Named(u \o w)
  <2>1. PICK v : v = u \o w OBVIOUS
  <2>2. /\ v \in Seq(P!Piece) /\ Len(u) \in Nat /\ Len(w) \in Nat
        /\ DOMAIN v = 1..(Len(u) + Len(w)) /\ DOMAIN u = 1..Len(u)
        /\ DOMAIN w = 1..Len(w)
        /\ \A i \in 1..Len(u) : v[i] = u[i]
        /\ \A i \in 1..Len(w) : v[i + Len(u)] = w[i]
    BY <1>17, <2>1, JoinFact
  <2>3. ASSUME NEW i \in DOMAIN v, v[i].line = "name" PROVE v[i].of = f
    <3>1. CASE i \in 1..Len(u) BY <1>17, <2>2, <2>3, <3>1
    <3>2. CASE i \notin 1..Len(u)
      <4>1. i - Len(u) \in 1..Len(w) /\ (i - Len(u)) + Len(u) = i
        BY <2>2, <3>2
      <4>2. v[i] = w[i - Len(u)] BY <2>2, <4>1
      <4> QED BY <1>17, <2>2, <2>3, <4>1, <4>2
    <3> QED BY <3>1, <3>2
  <2>4. 1 \in DOMAIN v /\ v[1] = u[1] BY <1>17, <2>2
  <2>5. Named(v) BY <1>17, <2>3, <2>4
  <2> QED BY <2>1, <2>2, <2>5
<1>18. ASSUME NEW w, Named(w) PROVE P!Disguises(w) <=> f \in ProgressLike
  BY <1>18 DEF P!Disguises
<1> HIDE DEF Of, Named
<1>19. PICK k : k = n + (IF f \in ProgressLike THEN 1 ELSE 0) OBVIOUS
<1>20. k \in Nat BY <1>19
<1>8. lines = <<>> \/ lines = a \/ lines = a \o c \/ lines = (a \o b) \o c
  BY <1>2, <1>3, <1>4 DEF P!Prints
<1>9. PICK t : t = s \o a OBVIOUS
<1>10. t \in Seq(P!Piece) /\ P!Adds(p, t, k) /\ Follows(t, f)
  <2>1. t = s \o P!Line("name", f) BY <1>2, <1>9
  <2>2. /\ t \in Seq(P!Piece)
        /\ P!Adds(p, t, IF Counts("name", f) THEN n + 1 ELSE n)
        /\ "name" \in {"name", "update"} => Follows(t, f)
    <3>1. /\ "name" \in {"heading", "name", "update", "last", "total"}
          /\ "name" \in {"update", "last"} => Follows(s, f)
      OBVIOUS
    <3> QED BY <2>1, <3>1, PrintedFact, Zenon
  <2>3. k = IF Counts("name", f) THEN n + 1 ELSE n BY <1>19 DEF Counts
  <2> QED BY <2>2, <2>3
<1>11. CASE lines = <<>>
  <2>1. ~P!Completes(lines) /\ ~P!Disguises(lines)
    BY <1>11 DEF P!Completes, P!Disguises
  <2>2. s \o lines = s /\ n + 0 + 0 = n BY <1>11
  <2> QED BY <1>11, <2>1, <2>2
<1>12. CASE lines = a
  <2>1. \A i \in DOMAIN a : a[i].line # "last"
    <3>1. DOMAIN a = 1..3 BY <1>5
    <3>2. P!Terminator.line # "last" BY DEF P!Terminator
    <3> QED BY <1>5, <3>1, <3>2
  <2>2. ~P!Completes(lines) BY <1>12, <2>1 DEF P!Completes
  <2>3. P!Disguises(lines) <=> f \in ProgressLike BY <1>12, <1>16, <1>18
  <2>4. k = n + (IF P!Completes(lines) THEN 1 ELSE 0)
              + (IF P!Disguises(lines) THEN 1 ELSE 0)
    BY <1>19, <2>2, <2>3
  <2> QED BY <1>5, <1>9, <1>10, <1>12, <2>4
\* The last line of a file completes it.
<1>13. ASSUME NEW u \in Seq(P!Piece), NEW w \in Seq(P!Piece), P!Adds(p, u, k),
              Follows(u, f), Named(w), u = s \o w, lines = w \o c
       PROVE  /\ lines \in Seq(P!Piece)
              /\ P!Adds(p, s \o lines, n + (IF P!Completes(lines) THEN 1 ELSE 0)
                                          + (IF P!Disguises(lines) THEN 1 ELSE 0))
  <2>1. P!Adds(p, u \o c, k + 1)
    <3>1. u \o c = u \o P!Line("last", f) BY <1>4
    <3>2. "last" \in {"heading", "name", "update", "last", "total"} OBVIOUS
    <3>3. P!Adds(p, u \o c, IF Counts("last", f) THEN k + 1 ELSE k)
      BY <1>13, <3>1, <3>2, PrintedFact, Zenon
    <3>4. Counts("last", f) BY DEF Counts
    <3> QED BY <3>3, <3>4
  <2>2. s \o lines = u \o c
    <3>1. c \in Seq(P!Piece) BY <1>7
    <3>2. (s \o w) \o c = s \o (w \o c) BY <3>1, ConcatAssociative
    <3> QED BY <1>13, <3>2
  <2>3. /\ lines \in Seq(P!Piece) /\ Len(w) \in Nat
        /\ DOMAIN lines = 1..(Len(w) + Len(c))
        /\ \A i \in 1..Len(c) : lines[i + Len(w)] = c[i]
    <3>1. c \in Seq(P!Piece) BY <1>7
    <3>2. /\ w \o c \in Seq(P!Piece) /\ Len(w) \in Nat
          /\ DOMAIN (w \o c) = 1..(Len(w) + Len(c))
          /\ \A i \in 1..Len(c) : (w \o c)[i + Len(w)] = c[i]
      BY <3>1, JoinFact
    <3> QED BY <1>13, <3>2
  <2>4. 1 + Len(w) \in DOMAIN lines /\ lines[1 + Len(w)] = c[1] BY <1>7, <2>3
  <2>5. P!Completes(lines) BY <1>7, <2>4 DEF P!Completes
  <2>6. P!Disguises(lines) <=> f \in ProgressLike
    <3>1. c \in Seq(P!Piece) BY <1>7
    <3>2. Named(w \o c) BY <1>13, <1>16, <1>17, <3>1
    <3> QED BY <1>13, <1>18, <3>2
  <2>7. k + 1 = n + (IF P!Completes(lines) THEN 1 ELSE 0)
                  + (IF P!Disguises(lines) THEN 1 ELSE 0)
    BY <1>19, <2>5, <2>6
  <2> QED BY <2>1, <2>2, <2>3, <2>7
<1>14. CASE lines = a \o c BY <1>5, <1>9, <1>10, <1>13, <1>14, <1>16
<1>15. CASE lines = (a \o b) \o c
  <2>1. PICK u : u = t \o b OBVIOUS
  <2>2. u \in Seq(P!Piece) /\ P!Adds(p, u, k) /\ Follows(u, f)
    <3>1. u = t \o P!Line("update", f) BY <1>3, <2>1
    <3>2. /\ u \in Seq(P!Piece)
          /\ P!Adds(p, u, IF Counts("update", f) THEN k + 1 ELSE k)
          /\ "update" \in {"name", "update"} => Follows(u, f)
      <4>1. "update" \in {"heading", "name", "update", "last", "total"} OBVIOUS
      <4> QED BY <1>10, <3>1, <4>1, PrintedFact, Zenon
    <3>3. ~Counts("update", f) BY DEF Counts
    <3> QED BY <3>2, <3>3
  <2>3. PICK w : w = a \o b OBVIOUS
  <2>4. w \in Seq(P!Piece) /\ Named(w) BY <1>5, <1>6, <1>16, <1>17, <2>3
  <2>5. u = s \o w
    <3>1. a \in Seq(P!Piece) /\ b \in Seq(P!Piece) BY <1>5, <1>6
    <3>2. (s \o a) \o b = s \o (a \o b) BY <3>1, ConcatAssociative
    <3> QED BY <1>9, <2>1, <2>3, <3>2
  <2> QED BY <1>13, <1>15, <2>2, <2>3, <2>4, <2>5
<1> QED BY <1>8, <1>11, <1>12, <1>14, <1>15

\* A pipe that has not been used.
LEMMA PipeInitFact == ASSUME P!PipeInit PROVE P!PipeInv
<1>1. /\ toWrite = <<>> /\ stdin = <<>> /\ stdout = <<>> /\ queue = <<>> /\ out = <<>>
      /\ rsync = "none" /\ footer = FALSE /\ missed = FALSE /\ exitCode = 0
      /\ completed = 0 /\ disguised = 0 /\ copying = TRUE
      /\ parser.line = <<>> /\ parser.events = {} /\ parser.filesAttempted = 0
      /\ parser \in P!Parser
  <2>1. <<>> \in Seq(P!Piece) OBVIOUS
  <2> QED BY <2>1 DEF P!PipeInit, P!Parser
<1>2. P!PipeTypeOK
  <2>1. <<>> \in Seq(Paths) /\ <<>> \in Seq(P!Piece) /\ Len(<<>>) <= PipeSize
    BY FilesAssumption
  <2> QED BY <1>1, <2>1 DEF P!PipeTypeOK
<1>3. P!Adds(parser, <<>>, 0)
  <2>1. P!WholeLines(<<>>) /\ P!InOrder(<<>>, parser.currentFile)
    BY DEF P!WholeLines, P!InOrder
  <2>2. P!LastLines(<<>>) = {} BY DEF P!LastLines
  <2>3. Cardinality({}) = 0 BY FS_EmptySet
  <2>4. parser.filesAttempted + Cardinality(P!LastLines(<<>>)) = 0
    <3>1. Cardinality(P!LastLines(<<>>)) = 0 BY <2>2, <2>3
    <3>2. parser.filesAttempted = 0 BY <1>1
    <3> QED BY <3>1, <3>2
  <2> QED BY <2>1, <2>4, AddsFact
<1>4. P!StreamOK(parser, stdout \o out, P!Countable)
  <2>3. P!Countable = 0 BY <1>1 DEF P!Countable
  <2>1. parser.line \o (stdout \o out) = <<>> BY <1>1
  <2>2. \A i \in DOMAIN parser.line : parser.line[i] # P!Terminator BY <1>1
  <2> QED BY <1>1, <1>3, <2>1, <2>2, <2>3 DEF P!StreamOK
<1> QED BY <1>1, <1>2, <1>4 DEF P!PipeInv

\* What is printed goes to the end of the stream.
LEMMA PrintFact ==
  ASSUME NEW p \in P!Parser, NEW u \in Seq(P!Piece), NEW v \in Seq(P!Piece),
         NEW n, NEW k, P!StreamOK(p, u \o <<>>, n),
         \A s \in Seq(P!Piece) : P!Adds(p, s, n) => P!Adds(p, s \o v, k)
  PROVE  P!StreamOK(p, u \o v, k)
<1>1. /\ \A e \in p.events : P!NamesItsFile(e)
      /\ \A i \in DOMAIN p.line : p.line[i] # P!Terminator
      /\ P!Adds(p, p.line \o (u \o <<>>), n)
  BY DEF P!StreamOK
<1>2. PICK l : l = p.line OBVIOUS
<1>3. l \in Seq(P!Piece) BY <1>2 DEF P!Parser
<1>4. u \o <<>> = u /\ l \o u \in Seq(P!Piece)
  BY <1>3, ConcatProperties, ConcatEmptySeq
<1>5. P!Adds(p, (l \o u) \o v, k) BY <1>1, <1>2, <1>4
<1>6. (l \o u) \o v = l \o (u \o v) BY <1>3, ConcatAssociative
<1>7. P!Adds(p, p.line \o (u \o v), k) BY <1>2, <1>5, <1>6
<1> QED BY <1>1, <1>7 DEF P!StreamOK

\* What a step that touches neither the parser nor the output has to keep.
LEMMA QuietPipe ==
  ASSUME P!PipeInv, (P!PipeTypeOK)',
         UNCHANGED <<stdout, copying, out, rsync, exitCode, parser, completed, disguised>>
  PROVE  (P!PipeInv)'
<1>1. P!StreamOK(parser, stdout \o out, P!Countable)' <=>
        P!StreamOK(parser, stdout \o out, P!Countable)
  BY DEF P!StreamOK, P!Countable
<1>2. (P!Countable)' = P!Countable BY DEF P!Countable
<1> QED BY <1>1, <1>2 DEF P!PipeInv

\* The list goes through rsync's stdin, and the names through its queue.
LEMMA ListFact ==
  ASSUME P!PipeInv, P!Feed \/ P!RsyncRead
  PROVE  (P!PipeInv)'
<1>1. P!PipeTypeOK BY DEF P!PipeInv
<1>2. PipeSize \in Nat BY FilesAssumption
<1>3. CASE P!Feed
  <2>1. /\ toWrite' = Tail(toWrite) /\ stdin' = Append(stdin, Head(toWrite))
        /\ toWrite # <<>> /\ Len(stdin) < PipeSize
        /\ UNCHANGED <<stdout, copying, rsync, queue, out, footer, missed, exitCode,
                       parser, completed, disguised>>
    BY <1>3 DEF P!Feed
  <2>2. toWrite \in Seq(Paths) /\ stdin \in Seq(Paths) BY <1>1 DEF P!PipeTypeOK
  <2>3. Head(toWrite) \in Paths /\ Tail(toWrite) \in Seq(Paths)
    BY <2>1, <2>2, HeadTailProperties
  <2>4. /\ Append(stdin, Head(toWrite)) \in Seq(Paths)
        /\ Len(Append(stdin, Head(toWrite))) <= PipeSize
    BY <1>2, <2>1, <2>2, <2>3
  <2>5. (P!PipeTypeOK)' BY <1>1, <2>1, <2>3, <2>4 DEF P!PipeTypeOK
  <2> QED BY <2>1, <2>5, QuietPipe
<1>4. CASE P!RsyncRead
  <2>1. /\ stdin' = Tail(stdin) /\ queue' = Append(queue, Head(stdin)) /\ stdin # <<>>
        /\ UNCHANGED <<toWrite, stdout, copying, rsync, out, footer, missed, exitCode,
                       parser, completed, disguised>>
    BY <1>4 DEF P!RsyncRead
  <2>2. stdin \in Seq(Paths) /\ queue \in Seq(Paths) /\ Len(stdin) <= PipeSize
    BY <1>1 DEF P!PipeTypeOK
  <2>3. /\ Head(stdin) \in Paths /\ Tail(stdin) \in Seq(Paths)
        /\ Len(Tail(stdin)) = Len(stdin) - 1
    BY <2>1, <2>2, HeadTailProperties
  <2>4. Append(queue, Head(stdin)) \in Seq(Paths) BY <2>2, <2>3
  <2>5. Len(Tail(stdin)) <= PipeSize BY <1>2, <2>2, <2>3
  <2>6. (P!PipeTypeOK)' BY <1>1, <2>1, <2>3, <2>4, <2>5 DEF P!PipeTypeOK
  <2> QED BY <2>1, <2>6, QuietPipe
<1> QED BY <1>3, <1>4

\* rsync begins, goes on to another file, or comes to its summary: something new is
\* to be printed.
LEMMA OutFact ==
  ASSUME P!PipeInv,
         \/ P!Start(Candidates) /\ Candidates \in Seq(Paths)
         \/ P!RsyncFile \/ P!RsyncFooter
  PROVE  (P!PipeInv)'
<1>1. /\ P!PipeTypeOK /\ stdout \in Seq(P!Piece) /\ parser \in P!Parser
      /\ completed \in Nat /\ disguised \in Nat
  BY DEF P!PipeInv, P!PipeTypeOK
<1>2. parser.filesAttempted \in Nat BY <1>1 DEF P!Parser
<1>7. PICK n : n = P!Countable OBVIOUS
<1>8. n \in Nat BY <1>1, <1>7 DEF P!Countable
<1>3. ASSUME out = <<>>, rsync # "reaped",
             NEW v \in Seq(P!Piece), NEW k, out' = v, (P!Countable)' = k,
             UNCHANGED <<stdout, parser>>,
             \A s \in Seq(P!Piece) : P!Adds(parser, s, n) => P!Adds(parser, s \o v, k)
      PROVE  P!StreamOK(parser, stdout \o out, P!Countable)'
  <2>1. P!StreamOK(parser, stdout \o <<>>, n) BY <1>3, <1>7 DEF P!PipeInv
  <2>2. P!StreamOK(parser, stdout \o v, k) BY <1>1, <1>3, <2>1, PrintFact
  <2> QED BY <1>3, <2>2 DEF P!StreamOK
<1>4. CASE P!Start(Candidates) /\ Candidates \in Seq(Paths)
  <2>1. /\ rsync = "none" /\ rsync' = "running" /\ toWrite' = Candidates
        /\ out' = P!Line("heading", NoFile)
        /\ UNCHANGED <<stdin, stdout, copying, queue, footer, missed, exitCode,
                       parser, completed, disguised>>
    BY <1>4 DEF P!Start
  <2>2. out = <<>> BY <2>1 DEF P!PipeInv
  <2>3. P!Line("heading", NoFile) \in Seq(P!Piece)
    <3>1. /\ [line |-> "heading", of |-> NoFile, part |-> 1] \in P!Piece
          /\ [line |-> "heading", of |-> NoFile, part |-> 2] \in P!Piece
          /\ P!Terminator \in P!Piece
      BY DEF P!Piece, P!Terminator
    <3> QED BY <3>1 DEF P!Line
  <2>4. ASSUME NEW s \in Seq(P!Piece), P!Adds(parser, s, n)
        PROVE  P!Adds(parser, s \o P!Line("heading", NoFile), n)
    <3>1. PICK t : t = s \o P!Line("heading", NoFile) OBVIOUS
    <3>2. /\ "heading" \in {"heading", "name", "update", "last", "total"}
          /\ NoFile \in Paths \cup {NoFile}
          /\ "heading" \in {"update", "last"} => Follows(s, NoFile)
      OBVIOUS
    <3>3. P!Adds(parser, t, IF Counts("heading", NoFile) THEN n + 1 ELSE n)
      BY <1>2, <2>4, <3>1, <3>2, PrintedFact, Zenon
    <3>4. ~Counts("heading", NoFile) BY DEF Counts
    <3> QED BY <3>1, <3>3, <3>4
  <2>7. (P!Countable)' = n BY <1>7, <2>1 DEF P!Countable
  <2>5. P!StreamOK(parser, stdout \o out, P!Countable)'
    BY <1>3, <2>1, <2>2, <2>3, <2>4, <2>7
  <2>6. (P!PipeTypeOK)' BY <1>1, <1>4, <2>1, <2>3 DEF P!PipeTypeOK
  <2> QED BY <2>1, <2>5, <2>6 DEF P!PipeInv
<1>5. CASE P!RsyncFile
  <2>1. /\ rsync = "running" /\ out = <<>> /\ queue # <<>> /\ queue' = Tail(queue)
        /\ UNCHANGED <<toWrite, stdin, stdout, copying, rsync, footer, exitCode, parser>>
    BY <1>5 DEF P!RsyncFile
  <2>2. PICK lines \in P!Prints(Head(queue)) :
          /\ out' = lines
          /\ completed' = IF P!Completes(lines) THEN completed + 1 ELSE completed
          /\ disguised' = IF P!Disguises(lines) THEN disguised + 1 ELSE disguised
          /\ missed' \in IF P!Completes(lines) THEN {missed} ELSE {missed, TRUE}
    BY <1>5 DEF P!RsyncFile
  <2>3. Head(queue) \in Paths /\ Tail(queue) \in Seq(Paths)
    <3>1. queue \in Seq(Paths) BY <1>1 DEF P!PipeTypeOK
    <3> QED BY <2>1, <3>1, HeadTailProperties
  <2>5. ASSUME NEW s \in Seq(P!Piece), P!Adds(parser, s, n)
        PROVE  lines \in Seq(P!Piece) /\ P!Adds(parser, s \o lines, (P!Countable)')
    <3>1. /\ lines \in Seq(P!Piece)
          /\ P!Adds(parser, s \o lines, n + (IF P!Completes(lines) THEN 1 ELSE 0)
                                           + (IF P!Disguises(lines) THEN 1 ELSE 0))
      BY <1>2, <1>8, <2>3, <2>5, PrintsFact
    <3>2. (P!Countable)' = n + (IF P!Completes(lines) THEN 1 ELSE 0)
                             + (IF P!Disguises(lines) THEN 1 ELSE 0)
      <4>1. PICK d : d = (IF P!Completes(lines) THEN 1 ELSE 0) OBVIOUS
      <4>2. PICK e : e = (IF P!Disguises(lines) THEN 1 ELSE 0) OBVIOUS
      <4>3. d \in Nat /\ e \in Nat BY <4>1, <4>2
      <4>4. completed' = completed + d BY <1>1, <2>2, <4>1
      <4>5. disguised' = disguised + e BY <1>1, <2>2, <4>2
      <4>6. (P!Countable)' = (completed + disguised) + d + e
        BY <1>1, <4>3, <4>4, <4>5 DEF P!Countable
      <4> QED BY <1>7, <4>1, <4>2, <4>6 DEF P!Countable
    <3> QED BY <3>1, <3>2
  <2>6. lines \in Seq(P!Piece)
    <3>1. P!StreamOK(parser, stdout \o out, n) BY <1>7, <2>1 DEF P!PipeInv
    <3>2. P!Adds(parser, parser.line \o (stdout \o out), n)
      BY <3>1 DEF P!StreamOK
    <3>3. parser.line \o (stdout \o out) \in Seq(P!Piece)
      BY <1>1, <2>1 DEF P!Parser
    <3> QED BY <2>5, <3>2, <3>3
  <2>7. P!StreamOK(parser, stdout \o out, P!Countable)'
    BY <1>3, <2>1, <2>2, <2>5, <2>6
  <2>8. completed' \in Nat /\ disguised' \in Nat /\ missed' \in BOOLEAN
    <3>1. missed \in BOOLEAN BY <1>1 DEF P!PipeTypeOK
    <3>4. disguised' \in Nat BY <1>1, <2>2
    <3>2. CASE P!Completes(lines)
      <4>1. completed' = completed + 1 /\ missed' = missed BY <2>2, <3>2
      <4> QED BY <1>1, <3>1, <3>4, <4>1
    <3>3. CASE ~P!Completes(lines)
      <4>1. completed' = completed /\ missed' \in {missed, TRUE} BY <2>2, <3>3
      <4>2. completed' \in Nat BY <1>1, <4>1
      <4>3. missed' \in BOOLEAN BY <3>1, <4>1, Zenon
      <4> QED BY <3>4, <4>2, <4>3
    <3> QED BY <3>2, <3>3
  <2>9. (P!PipeTypeOK)'
    BY <1>1, <2>1, <2>2, <2>3, <2>6, <2>8 DEF P!PipeTypeOK
  <2> QED BY <2>1, <2>7, <2>9 DEF P!PipeInv
<1>6. CASE P!RsyncFooter
  <2> DEFINE total == P!Line("total", NoFile)
             blank == <<P!Terminator>>
  <2>1. /\ rsync = "running" /\ out = <<>> /\ footer' = TRUE /\ out' = blank \o total
        /\ UNCHANGED <<toWrite, stdin, stdout, copying, rsync, queue, missed,
                       exitCode, parser, completed, disguised>>
    BY <1>6 DEF P!RsyncFooter
  <2>2. blank \in Seq(P!Piece) /\ total \in Seq(P!Piece)
    <3>1. /\ [line |-> "total", of |-> NoFile, part |-> 1] \in P!Piece
          /\ [line |-> "total", of |-> NoFile, part |-> 2] \in P!Piece
          /\ P!Terminator \in P!Piece
      BY DEF P!Piece, P!Terminator
    <3> QED BY <3>1 DEF P!Line
  <2>3. ASSUME NEW s \in Seq(P!Piece), P!Adds(parser, s, n)
        PROVE  P!Adds(parser, s \o (blank \o total), n)
    <3>1. s \o blank \in Seq(P!Piece) /\ P!Adds(parser, s \o blank, n)
      BY <2>3, BlankFact
    <3>2. PICK t : t = (s \o blank) \o total OBVIOUS
    <3>3. /\ "total" \in {"heading", "name", "update", "last", "total"}
          /\ NoFile \in Paths \cup {NoFile}
          /\ "total" \in {"update", "last"} => Follows(s \o blank, NoFile)
      OBVIOUS
    <3>4. P!Adds(parser, t, IF Counts("total", NoFile) THEN n + 1 ELSE n)
      BY <1>2, <3>1, <3>2, <3>3, PrintedFact, Zenon
    <3> HIDE DEF total, blank
    <3>5. (s \o blank) \o total = s \o (blank \o total) BY <2>2, ConcatAssociative
    <3>6. ~Counts("total", NoFile) BY DEF Counts
    <3> QED BY <3>2, <3>4, <3>5, <3>6
  <2> HIDE DEF total, blank
  <2>4. blank \o total \in Seq(P!Piece) BY <2>2, ConcatProperties
  <2>7. (P!Countable)' = n BY <1>7, <2>1 DEF P!Countable
  <2>5. P!StreamOK(parser, stdout \o out, P!Countable)'
    BY <1>3, <2>1, <2>3, <2>4, <2>7
  <2>6. (P!PipeTypeOK)' BY <1>1, <2>1, <2>4 DEF P!PipeTypeOK
  <2> QED BY <2>1, <2>5, <2>6 DEF P!PipeInv
<1> QED BY <1>4, <1>5, <1>6

\* What rsync prints, and what the parser is given, was in the stream before.
LEMMA MoveFact ==
  ASSUME P!PipeInv, P!RsyncPrint \/ P!Drain \/ P!DrainFails
  PROVE  (P!PipeInv)'
<1>1. /\ P!PipeTypeOK /\ stdout \in Seq(P!Piece) /\ out \in Seq(P!Piece)
      /\ parser \in P!Parser /\ copying \in BOOLEAN
      /\ (copying => Len(stdout) <= PipeSize)
  BY DEF P!PipeInv, P!PipeTypeOK
<1>2. PipeSize \in Nat BY FilesAssumption
<1>3. CASE P!RsyncPrint
  <2>1. /\ rsync = "running" /\ out # <<>>
        /\ UNCHANGED <<toWrite, stdin, copying, rsync, queue, footer, missed, exitCode,
                       parser, completed, disguised>>
    BY <1>3 DEF P!RsyncPrint
  <2>2. /\ stdout' \o out' = stdout \o out
        /\ stdout' \in Seq(P!Piece) /\ out' \in Seq(P!Piece)
        /\ (copying => Len(stdout') <= PipeSize)
    <3>1. CASE /\ copying /\ Len(stdout) < PipeSize
               /\ stdout' = Append(stdout, Head(out)) /\ out' = Tail(out)
      <4>1. /\ Head(out) \in P!Piece /\ Tail(out) \in Seq(P!Piece)
            /\ out = <<Head(out)>> \o Tail(out)
        BY <1>1, <2>1
      <4>2. PICK x : x = Head(out) OBVIOUS
      <4>3. <<x>> \in Seq(P!Piece) BY <4>1, <4>2
      <4>4. Append(stdout, x) = stdout \o <<x>> BY <1>1, AppendIsConcat
      <4>5. (stdout \o <<x>>) \o Tail(out) = stdout \o (<<x>> \o Tail(out))
        BY <1>1, <4>1, <4>3, ConcatAssociative
      <4>6. stdout' \o out' = stdout \o out BY <3>1, <4>1, <4>2, <4>4, <4>5
      <4>7. Append(stdout, x) \in Seq(P!Piece) /\ Len(Append(stdout, x)) <= PipeSize
        BY <1>1, <1>2, <3>1, <4>1, <4>2
      <4> QED BY <3>1, <4>1, <4>2, <4>6, <4>7
    <3>2. CASE ~copying /\ stdout' = stdout \o out /\ out' = <<>>
      <4>1. stdout \o out \in Seq(P!Piece) BY <1>1, ConcatProperties
      <4>2. (stdout \o out) \o <<>> = stdout \o out BY <4>1, ConcatEmptySeq
      <4>3. <<>> \in Seq(P!Piece) OBVIOUS
      <4> QED BY <3>2, <4>1, <4>2, <4>3
    <3> QED BY <1>3, <3>1, <3>2 DEF P!RsyncPrint
  <2>3. P!StreamOK(parser, stdout \o out, P!Countable) BY <2>1 DEF P!PipeInv
  <2>4. P!StreamOK(parser, stdout \o out, P!Countable)'
    BY <2>1, <2>2, <2>3 DEF P!StreamOK, P!Countable
  <2>5. (P!PipeTypeOK)' BY <1>1, <2>1, <2>2 DEF P!PipeTypeOK
  <2> QED BY <2>1, <2>4, <2>5 DEF P!PipeInv
<1>4. CASE P!Drain \/ P!DrainFails
  <2>1. PICK k \in 1..Len(stdout) :
          /\ copying /\ copying' \in BOOLEAN
          /\ parser' = P!Write(parser, SubSeq(stdout, 1, k))
          /\ stdout' = SubSeq(stdout, k + 1, Len(stdout))
          /\ UNCHANGED <<toWrite, stdin, rsync, queue, out, footer, missed, exitCode,
                         completed, disguised>>
    BY <1>1, <1>4 DEF P!Drain, P!DrainFails, P!DrainUpTo
  <2> DEFINE u == SubSeq(stdout, 1, k)
             v == SubSeq(stdout, k + 1, Len(stdout))
  <2>2. Len(stdout) \in Nat /\ DOMAIN stdout = 1..Len(stdout) BY <1>1
  <2>3. u \in Seq(P!Piece)
    <3>1. \A i \in 1..k : stdout[i] \in P!Piece BY <1>1, <2>2
    <3> QED BY <2>2, <3>1, SubSeqProperties
  <2>4. v \in Seq(P!Piece) /\ Len(v) \in 0..Len(stdout)
    <3>1. \A i \in (k + 1)..Len(stdout) : stdout[i] \in P!Piece BY <1>1, <2>2
    <3>2. k + 1 \in Int /\ Len(stdout) \in Int BY <2>2
    <3>3. /\ v \in Seq(P!Piece)
          /\ Len(v) = IF k + 1 <= Len(stdout) THEN Len(stdout) - (k + 1) + 1 ELSE 0
      BY <3>1, <3>2, SubSeqProperties
    <3>4. k \in Nat /\ k >= 1 /\ k <= Len(stdout) BY <2>2
    <3>5. CASE k + 1 <= Len(stdout)
      <4>1. Len(v) = Len(stdout) - (k + 1) + 1 BY <3>3, <3>5
      <4> HIDE DEF v
      <4> QED BY <3>3, <3>4, <3>5, <4>1, <2>2
    <3>6. CASE ~(k + 1 <= Len(stdout))
      <4>1. Len(v) = 0 BY <3>3, <3>6
      <4> HIDE DEF v
      <4> QED BY <4>1, <2>2
    <3> QED BY <3>3, <3>5, <3>6
  <2>5. u \o v = stdout
    <3>1. /\ 1 \in 1..(Len(stdout) + 1) /\ k \in (1 - 1)..Len(stdout)
          /\ Len(stdout) \in k..Len(stdout)
      BY <2>2
    <3>2. u \o v = SubSeq(stdout, 1, Len(stdout))
      BY <1>1, <3>1, ConcatAdjacentSubSeq
    <3> QED BY <1>1, <3>2, SubSeqFull
  <2>6. parser' = P!Write(parser, u) /\ stdout' = v BY <2>1
  <2>7. stdout # <<>> BY <2>2, <2>1
  <2> HIDE DEF u, v
  <2>8. rsync # "reaped" BY <2>1, <2>7 DEF P!PipeInv
  <2>9. (u \o v) \o out = u \o (v \o out)
    <3>1. v \in Seq(P!Piece) /\ out \in Seq(P!Piece) BY <1>1, <2>4
    <3> QED BY <2>3, <3>1, ConcatAssociative
  <2>10. v \o out \in Seq(P!Piece) BY <1>1, <2>4, ConcatProperties
  <2>17. PICK n : n = P!Countable OBVIOUS
  <2>18. (P!Countable)' = n BY <2>1, <2>17 DEF P!Countable
  <2>11. P!StreamOK(parser, stdout \o out, n) BY <2>17, <2>8 DEF P!PipeInv
  <2>12. P!StreamOK(parser, u \o (v \o out), n) BY <2>5, <2>9, <2>11
  <2>13. /\ P!Write(parser, u) \in P!Parser
         /\ P!StreamOK(P!Write(parser, u), v \o out, n)
    BY <1>1, <2>3, <2>10, <2>12, WriteFact
  <2>14. P!StreamOK(parser, stdout \o out, P!Countable)'
    BY <2>1, <2>6, <2>13, <2>18 DEF P!StreamOK
  <2>15. Len(v) <= PipeSize BY <1>1, <1>2, <2>1, <2>2, <2>4
  <2>16. (P!PipeTypeOK)'
    BY <1>1, <2>1, <2>4, <2>6, <2>13, <2>15 DEF P!PipeTypeOK
  <2> QED BY <2>1, <2>8, <2>14, <2>16 DEF P!PipeInv
<1> QED BY <1>3, <1>4

\* The parser is never ahead of what rsync has printed.
LEMMA BoundFact ==
  ASSUME NEW p \in P!Parser, NEW s \in Seq(P!Piece), NEW n, P!StreamOK(p, s, n)
  PROVE  p.filesAttempted <= n
<1>1. PICK t : t = p.line \o s OBVIOUS
<1>2. t \in Seq(P!Piece) /\ p.filesAttempted \in Nat BY <1>1 DEF P!Parser
<1>3. P!Adds(p, t, n) BY <1>1 DEF P!StreamOK
<1>4. p.filesAttempted + Cardinality(P!LastLines(t)) = n BY <1>3, AddsFact
<1>5. Cardinality(P!LastLines(t)) \in Nat
  <2>1. P!LastLines(t) \subseteq 1..Len(t) /\ Len(t) \in Nat
    BY <1>2 DEF P!LastLines
  <2>2. IsFiniteSet(1..Len(t)) BY <2>1, FS_Interval
  <2> QED BY <2>1, <2>2, FS_Subset, FS_CardinalityType
<1> QED BY <1>2, <1>4, <1>5

\* Wherever rsync has stopped, the parser is left with at most the beginning of
\* one line, and of none if rsync has printed all it had to.
LEMMA FlushFact ==
  ASSUME NEW p \in P!Parser, NEW s \in Seq(P!Piece), NEW n,
         P!StreamOK(p, s, n)
  PROVE  /\ P!Flush(p) \in P!Parser
         /\ \A e \in P!Flush(p).events : P!NamesItsFile(e)
         /\ P!Flush(p).filesAttempted <= n
         /\ s = <<>> => P!Flush(p).filesAttempted = n
<1>1. /\ \A e \in p.events : P!NamesItsFile(e)
      /\ \A i \in DOMAIN p.line : p.line[i] # P!Terminator
      /\ P!Adds(p, p.line \o s, n)
  BY DEF P!StreamOK
<1>2. PICK l : l = p.line OBVIOUS
<1>3. l \in Seq(P!Piece) /\ p.filesAttempted \in Nat BY <1>2 DEF P!Parser
<1>5. PICK t : t = l \o s OBVIOUS
<1>6. /\ t \in Seq(P!Piece) /\ Len(t) = Len(l) + Len(s)
      /\ Len(l) \in Nat /\ Len(s) \in Nat
      /\ \A i \in 1..Len(l) : t[i] = l[i]
  BY <1>3, <1>5, JoinFact
<1>7. P!Adds(p, t, n) BY <1>1, <1>2, <1>5
<1>8. /\ P!WholeLines(t) /\ P!InOrder(t, p.currentFile)
      /\ p.filesAttempted + Cardinality(P!LastLines(t)) = n
  BY <1>7, AddsFact
<1>9. CASE l = <<>>
  <2>1. P!Flush(p) = p BY <1>2, <1>9 DEF P!Flush, P!HandleLine
  <2>2. ASSUME s = <<>> PROVE p.filesAttempted = n
    <3>1. t = <<>> BY <1>5, <1>9, <2>2
    <3>2. P!LastLines(t) = {} BY <3>1 DEF P!LastLines
    <3>3. Cardinality({}) = 0 BY FS_EmptySet
    <3>4. p.filesAttempted + 0 = n BY <1>8, <3>2, <3>3
    <3> QED BY <1>3, <3>4
  <2>3. p.filesAttempted <= n BY BoundFact
  <2> QED BY <1>1, <2>1, <2>2, <2>3
<1>10. CASE l # <<>>
  <2>1. Len(l) # 0 BY <1>3, <1>10, EmptySeq
  <2>2. Len(l) <= Len(t) BY <1>6
  <2>3. /\ Len(l) <= 2 /\ l[1].part = 1 /\ l[1].line # "end" /\ t[1] = l[1]
        /\ 3 \in DOMAIN t
    <3>1. \A i \in DOMAIN l : l[i] # P!Terminator BY <1>1, <1>2
    <3> QED BY <1>3, <1>6, <1>8, <2>1, <2>2, <3>1, BegunFact
  <2>4. P!Begins(l[1], {"update", "last"}) /\ l[1].of \in Plain =>
          p.currentFile = l[1].of
    <3>1. 1 \in DOMAIN t BY <1>6, <2>1, <2>2
    <3>2. P!Begins(t[1], {"update", "last"}) /\ t[1].of \in Plain =>
            p.currentFile = t[1].of
      BY <1>8, <3>1 DEF P!InOrder
    <3> QED BY <2>3, <3>2
  <2>5. PICK q : q = P!HandleLine(p) OBVIOUS
  <2>6. /\ q \in P!Parser /\ \A e \in q.events : P!NamesItsFile(e)
        /\ q.filesAttempted = p.filesAttempted +
             (IF Len(l) = 2 /\ P!Looks(l[1]) = "last" THEN 1 ELSE 0)
    BY <1>1, <1>2, <1>10, <2>3, <2>4, <2>5, HandleFact
  <2>7. s # <<>>
    <3>1. SUFFICES ASSUME s = <<>> PROVE FALSE OBVIOUS
    <3>2. Len(s) = 0 BY <3>1
    <3>3. Len(t) >= 3 BY <1>6, <2>3
    <3> QED BY <1>6, <2>3, <3>2, <3>3
  <2>8. q.filesAttempted <= n
    <3>1. IsFiniteSet(P!LastLines(t)) /\ Cardinality(P!LastLines(t)) \in Nat
      <4>1. P!LastLines(t) \subseteq 1..Len(t) /\ Len(t) \in Nat
        BY <1>6 DEF P!LastLines
      <4>2. IsFiniteSet(1..Len(t)) BY <4>1, FS_Interval
      <4> QED BY <4>1, <4>2, FS_Subset, FS_CardinalityType
    <3>2. ASSUME P!Looks(l[1]) = "last" PROVE Cardinality(P!LastLines(t)) # 0
      <4>1. 1 \in DOMAIN t BY <1>6, <2>1, <2>2
      <4>2. 1 \in P!LastLines(t) BY <2>3, <3>2, <4>1 DEF P!LastLines
      <4> QED BY <3>1, <4>2, FS_EmptySet
    <3> QED BY <1>3, <1>8, <2>6, <3>1, <3>2
  <2> QED BY <2>5, <2>6, <2>7, <2>8 DEF P!Flush
<1> QED BY <1>9, <1>10

\* rsync ends, of itself or killed, and is waited for.
LEMMA StopFact ==
  ASSUME P!PipeInv,
         \/ P!RsyncExit \/ P!RsyncStops("killed", -1) \/ P!RsyncStops("exited", 12)
         \/ P!Return
  PROVE  (P!PipeInv)'
<1>1. P!PipeTypeOK BY DEF P!PipeInv
<1>2. CASE P!RsyncExit
  <2>1. /\ rsync = "running" /\ out = <<>> /\ rsync' = "exited"
        /\ exitCode' = IF missed THEN 23 ELSE 0
        /\ UNCHANGED <<toWrite, stdin, stdout, copying, queue, out, footer, missed,
                       parser, completed, disguised>>
    BY <1>2 DEF P!RsyncExit
  <2>2. exitCode' \in {0, 23, 12, -1} BY <2>1
  <2>3. (P!PipeTypeOK)' BY <1>1, <2>1, <2>2 DEF P!PipeTypeOK
  <2>4. P!StreamOK(parser, stdout \o out, P!Countable) BY <2>1 DEF P!PipeInv
  <2>5. P!StreamOK(parser, stdout \o out, P!Countable)'
    BY <2>1, <2>4 DEF P!StreamOK, P!Countable
  <2> QED BY <2>1, <2>3, <2>5 DEF P!PipeInv
<1>3. ASSUME NEW how \in {"killed", "exited"}, NEW code \in {-1, 12},
             P!RsyncStops(how, code)
      PROVE  (P!PipeInv)'
  <2>1. /\ rsync = "running" /\ rsync' = how /\ exitCode' = code
        /\ UNCHANGED <<toWrite, stdin, stdout, copying, queue, out, footer, missed,
                       parser, completed, disguised>>
    BY <1>3 DEF P!RsyncStops
  <2>2. exitCode' \in {0, 23, 12, -1} /\ exitCode' \notin {0, 23} BY <2>1
  <2>3. (P!PipeTypeOK)' BY <1>1, <2>1, <2>2 DEF P!PipeTypeOK
  <2>4. P!StreamOK(parser, stdout \o out, P!Countable) BY <2>1 DEF P!PipeInv
  <2>5. P!StreamOK(parser, stdout \o out, P!Countable)'
    BY <2>1, <2>4 DEF P!StreamOK, P!Countable
  <2> QED BY <2>1, <2>2, <2>3, <2>5 DEF P!PipeInv
<1>4. CASE P!Return
  <2>1. /\ rsync \in {"exited", "killed"} /\ (copying => stdout = <<>>)
        /\ rsync' = "reaped" /\ toWrite' = <<>> /\ stdin' = <<>>
        /\ exitCode' = IF exitCode = 0 /\ ~copying THEN -1 ELSE exitCode
        /\ parser' = P!Flush(parser)
        /\ UNCHANGED <<stdout, copying, queue, out, footer, missed, completed, disguised>>
    BY <1>4 DEF P!Return
  <2>2. P!StreamOK(parser, stdout \o out, P!Countable) BY <2>1 DEF P!PipeInv
  <2>3. parser \in P!Parser /\ stdout \in Seq(P!Piece) /\ out \in Seq(P!Piece)
    BY <1>1 DEF P!PipeTypeOK
  <2>4. PICK s : s = stdout \o out OBVIOUS
  <2>5. s \in Seq(P!Piece) /\ P!StreamOK(parser, s, P!Countable)
    BY <2>2, <2>3, <2>4, ConcatProperties
  <2>6. /\ P!Flush(parser) \in P!Parser
        /\ \A e \in P!Flush(parser).events : P!NamesItsFile(e)
        /\ P!Flush(parser).filesAttempted <= P!Countable
        /\ s = <<>> => P!Flush(parser).filesAttempted = P!Countable
    BY <2>3, <2>5, FlushFact
  <2>7. (P!PipeTypeOK)'
    <3>1. <<>> \in Seq(Paths) /\ Len(<<>>) <= PipeSize BY FilesAssumption
    <3>2. exitCode' \in {0, 23, 12, -1} BY <1>1, <2>1 DEF P!PipeTypeOK
    <3> QED BY <1>1, <2>1, <2>6, <3>1, <3>2 DEF P!PipeTypeOK
  <2>8. exitCode \in {0, 23} => out = <<>> BY <2>1 DEF P!PipeInv
  <2>9. exitCode' \in {0, 23} => exitCode' = exitCode BY <2>1
  <2>10. exitCode' = 0 => copying
    <3>1. copying \in BOOLEAN BY <1>1 DEF P!PipeTypeOK
    <3> QED BY <2>1, <3>1
  <2>11. exitCode' \in {0, 23} /\ copying => s = <<>>
    BY <2>1, <2>4, <2>8, <2>9
  <2>12. (P!Countable)' = P!Countable BY <2>1 DEF P!Countable
  <2> QED BY <2>1, <2>6, <2>7, <2>8, <2>9, <2>10, <2>11, <2>12 DEF P!PipeInv
<1> QED BY <1>2, <1>3, <1>4

\* The list of candidates is made of paths, whatever was accepted.
LEMMA CandidatesFact == Candidates \in Seq(Paths)
<1> DEFINE Run(f, n) == f = [i \in 0..n |->
                               IF i = 0 THEN <<>>
                               ELSE IF accepted[Order[i]] = NoPath THEN f[i - 1]
                               ELSE Append(f[i - 1], Order[i])]
           Fails == {n \in 0..Len(Order) : ~\E f : Run(f, n)}
<1>0. Len(Order) \in Nat /\ \A i \in 1..Len(Order) : Order[i] \in Paths
  BY PathsAssumption
<1>1. Fails = {}
  <2> SUFFICES ASSUME Fails # {} PROVE FALSE OBVIOUS
  <2>0. Fails \subseteq Nat BY <1>0
  <2>1. PICK n \in Fails : \A m \in Fails : n <= m BY <2>0, LeastFact
  <2>2. CASE n = 0
    <3> DEFINE f == [i \in 0..0 |-> <<>>]
    <3>1. Run(f, 0) OBVIOUS
    <3> QED BY <2>2, <3>1
  <2>3. CASE n # 0
    <3>a. n \in 0..Len(Order) /\ ~(n <= n - 1) /\ n - 1 \in 0..Len(Order)
      <4>1. n \in 0..Len(Order) BY <2>1
      <4> QED BY <1>0, <2>3, <4>1
    <3>1. n - 1 \in 0..Len(Order) /\ n - 1 \notin Fails
      <4> HIDE DEF Fails
      <4> QED BY <2>1, <3>a
    <3>2. PICK f : Run(f, n - 1) BY <3>1
    <3> DEFINE last == IF accepted[Order[n]] = NoPath THEN f[n - 1]
                       ELSE Append(f[n - 1], Order[n])
               g == [i \in 0..n |-> IF i = n THEN last ELSE f[i]]
    <3>3. ASSUME NEW i \in 0..n
          PROVE  g[i] = IF i = 0 THEN <<>>
                        ELSE IF accepted[Order[i]] = NoPath THEN g[i - 1]
                        ELSE Append(g[i - 1], Order[i])
      <4>1. CASE i = n
        <5>1. i # 0 /\ i - 1 \in 0..n /\ i - 1 # n BY <2>3, <4>1
        <5>2. g[i - 1] = f[n - 1] BY <4>1, <5>1
        <5> QED BY <4>1, <5>1, <5>2
      <4>2. CASE i # n /\ i = 0
        <5>1. f[0] = <<>> BY <3>1, <3>2
        <5> QED BY <4>2, <5>1
      <4>3. CASE i # n /\ i # 0
        <5>1. i \in 0..(n - 1) /\ i - 1 \in 0..n /\ i - 1 # n BY <4>3
        <5>2. f[i] = IF accepted[Order[i]] = NoPath THEN f[i - 1]
                     ELSE Append(f[i - 1], Order[i])
          BY <3>2, <4>3, <5>1
        <5>3. g[i] = f[i] /\ g[i - 1] = f[i - 1] BY <4>3, <5>1
        <5> QED BY <4>3, <5>2, <5>3
      <4> QED BY <4>1, <4>2, <4>3
    <3> HIDE DEF last
    <3>4. Run(g, n) BY <3>3
    <3> QED BY <2>1, <3>4
  <2> QED BY <2>2, <2>3
<1> DEFINE among == CHOOSE f : Run(f, Len(Order))
<1>2. Run(among, Len(Order))
  <2>1. Len(Order) \in 0..Len(Order) BY <1>0
  <2>2. \E f : Run(f, Len(Order)) BY <1>1, <2>1
  <2> HIDE DEF Run
  <2> QED BY <2>2
<1>3. Candidates = among[Len(Order)] BY DEF Candidates
<1> HIDE DEF among
<1>a. \A i \in 0..Len(Order) :
        among[i] = IF i = 0 THEN <<>>
                   ELSE IF accepted[Order[i]] = NoPath THEN among[i - 1]
                   ELSE Append(among[i - 1], Order[i])
  BY <1>2
<1>4. /\ among[0] = <<>>
      /\ \A i \in 1..Len(Order) :
           among[i] = IF accepted[Order[i]] = NoPath THEN among[i - 1]
                      ELSE Append(among[i - 1], Order[i])
  BY <1>0, <1>a
<1> DEFINE Bad == {i \in 0..Len(Order) : among[i] \notin Seq(Paths)}
<1>5. Bad = {}
  <2> SUFFICES ASSUME Bad # {} PROVE FALSE OBVIOUS
  <2>0. Bad \subseteq Nat BY <1>0
  <2>1. PICK n \in Bad : \A m \in Bad : n <= m BY <2>0, LeastFact
  <2>2. n # 0
    <3>1. among[n] \notin Seq(Paths) /\ <<>> \in Seq(Paths) BY <2>1
    <3> QED BY <1>4, <3>1
  <2>3. n \in 1..Len(Order) /\ n - 1 \in 0..Len(Order) /\ ~(n <= n - 1)
    BY <1>0, <2>1, <2>2
  <2>4. among[n - 1] \in Seq(Paths) BY <2>1, <2>3
  <2>5. Order[n] \in Paths BY <1>0, <2>3
  <2>6. Append(among[n - 1], Order[n]) \in Seq(Paths) BY <2>4, <2>5
  <2> QED BY <1>4, <2>1, <2>3, <2>4, <2>6
<1>6. Len(Order) \in 0..Len(Order) BY <1>0
<1> QED BY <1>3, <1>5, <1>6

\* Every step of a run is a step of the pipe that keeps it, or leaves it alone.
LEMMA PipeStep ==
  ASSUME SelectionInv, P!PipeInv, [Next]_vars
  PROVE  (P!PipeInv)'
<1>1. ASSUME UNCHANGED pipeVars PROVE (P!PipeInv)'
  <2>1. UNCHANGED <<toWrite, stdin, stdout, copying, rsync, queue, out, footer,
                    missed, exitCode, parser, completed, disguised>>
    BY <1>1 DEF pipeVars
  <2>2. (P!PipeTypeOK)' BY <2>1 DEF P!PipeInv, P!PipeTypeOK
  <2> QED BY <2>1, <2>2, QuietPipe
<1>2. CASE Cancel BY <1>1, <1>2 DEF Cancel
<1>3. CASE Enumerate BY <1>1, <1>3 DEF Enumerate
<1>4. CASE ChangeSource BY <1>1, <1>4 DEF ChangeSource
<1>5. CASE Begin
  <2>1. CASE P!Start(Candidates) BY <2>1, CandidatesFact, OutFact
  <2> QED BY <1>1, <1>5, <2>1 DEF Begin
<1>6. CASE Feed BY <1>6, ListFact DEF Feed
<1>7. CASE Drain \/ DrainFails BY <1>7, MoveFact DEF Drain, DrainFails
<1>8. CASE RsyncStep
  <2>1. P!RsyncRead \/ P!RsyncFile \/ P!RsyncPrint \/ P!RsyncFooter \/ P!RsyncExit
    BY <1>8 DEF RsyncStep, P!RsyncStep
  <2> QED BY <2>1, ListFact, OutFact, MoveFact, StopFact
<1>9. CASE RsyncStops BY <1>9, StopFact DEF RsyncStops
<1>10. CASE Return BY <1>10, StopFact DEF Return
<1>11. CASE UNCHANGED vars BY <1>1, <1>11 DEF vars
<1> QED BY <1>2, <1>3, <1>4, <1>5, <1>6, <1>7, <1>8, <1>9, <1>10, <1>11 DEF Next

\* A phase goes through these places.
LEMMA PhaseStep ==
  ASSUME pc \in {"enumerate", "enumerated", "transfer", "transferred", "aborted"},
         cancelled \in BOOLEAN, [Next]_vars
  PROVE  /\ pc' \in {"enumerate", "enumerated", "transfer", "transferred", "aborted"}
         /\ cancelled' \in BOOLEAN
BY DEF Next, Cancel, Enumerate, ChangeSource, Begin, Feed, Drain, DrainFails,
       RsyncStep, RsyncStops, Return, vars

\* The walk's books, and the stream of what rsync has printed: the parser has
\* counted, and has still to read, as many last lines as rsync has begun, whole
\* and in order; what it has not when rsync.log has failed is lost, and then T1
\* does not succeed.
THEOREM TransferCorrect == Spec => []TransferInv
<1>1. Init => TransferInv BY WalkInit, PipeInitFact DEF Init, TransferInv
<1>2. TransferInv /\ [Next]_vars => TransferInv'
  <2> SUFFICES ASSUME TransferInv, [Next]_vars PROVE TransferInv' OBVIOUS
  <2>1. SelectionInv' BY RunStep, TypesStep, CoverStep DEF TransferInv, SelectionInv
  <2>2. (P!PipeInv)' BY PipeStep DEF TransferInv
  <2> QED BY <2>1, <2>2, PhaseStep DEF TransferInv
<1> QED BY <1>1, <1>2, PTL DEF Spec

\* progress.go gives progress of a file with an ordinary name to that file, counts
\* no file that rsync has not begun to call complete, but for names that look like
\* its saying so, and if T1 succeeds, or fails for files rsync could not read while
\* rsync.log could be written, counts every one of them: for any names, any pipes
\* and any cut of the output, wherever rsync stops and rsync.log fails.
THEOREM ProgressIsExactCorrect == Spec => []ProgressIsExact
<1>1. TransferInv => ProgressIsExact
  <2> SUFFICES ASSUME P!PipeInv PROVE P!ProgressIsExact
    BY DEF TransferInv, ProgressIsExact
  <2>1. CASE rsync = "reaped" BY <2>1 DEF P!PipeInv, P!ProgressIsExact
  <2>2. CASE rsync # "reaped"
    <3>1. P!StreamOK(parser, stdout \o out, P!Countable) BY <2>2 DEF P!PipeInv
    <3>2. parser \in P!Parser /\ stdout \in Seq(P!Piece) /\ out \in Seq(P!Piece)
      BY DEF P!PipeInv, P!PipeTypeOK
    <3>3. stdout \o out \in Seq(P!Piece) BY <3>2, ConcatProperties
    <3>4. parser.filesAttempted <= P!Countable BY <3>1, <3>2, <3>3, BoundFact
    <3>5. \A e \in parser.events : P!NamesItsFile(e) BY <3>1 DEF P!StreamOK
    <3> QED BY <2>2, <3>4, <3>5 DEF P!ProgressIsExact
  <2> QED BY <2>1, <2>2
<1> QED BY <1>1, TransferCorrect, PTL
=============================================================================
