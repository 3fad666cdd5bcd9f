------------------------------ MODULE Selection ------------------------------
(***************************************************************************)
(* The enumeration of the source: filepath.WalkDir with the callback of      *)
(* selection.Walk, and the collector that sets names apart whose normal      *)
(* forms collide, while programs go on changing the tree.                    *)
(*                                                                           *)
(* A path is a raw relative path, and its normal form is one of the paths.   *)
(* What the glob patterns say of a name is given by Excluded and Included.   *)
(* A directory changes only while it is empty, so a path that was left alone *)
(* has had its directories all along, and no link takes its place, which     *)
(* os.ReadDir would follow.                                                  *)
(***************************************************************************)
EXTENDS Integers, Sequences, FiniteSets

CONSTANTS
  Paths, NoPath,
  Root,                \* the source root, not one of the paths
  Parent,              \* the directory of a path
  Order,               \* the paths in lexical order, as WalkDir meets them
  NFC,                 \* the normal form of a path
  Excluded, Included,  \* what the patterns of the profile match
  KindsOf,             \* what a path may be
  MaxChanges,          \* bound on the changes to the tree during the walk
  WalkFaults           \* "io": a system call of the walk may fail

Kind == {"absent", "file", "symlink", "dir", "other"}

ASSUME PathsAssumption ==
  /\ NoPath \notin Paths /\ Root \notin Paths
  /\ Parent \in [Paths -> Paths \cup {Root}]
  /\ NFC \in [Paths -> Paths]
  /\ Order \in Seq(Paths)
  /\ \A p \in Paths : \E i \in DOMAIN Order : Order[i] = p
  /\ \A i, j \in DOMAIN Order : Order[i] = Order[j] => i = j
  /\ \A j \in DOMAIN Order :
       Parent[Order[j]] # Root => \E i \in 1..(j - 1) : Order[i] = Parent[Order[j]]
  /\ KindsOf \in [Paths -> SUBSET Kind]
  /\ \A p \in Paths : ~({"dir", "symlink"} \subseteq KindsOf[p])

ASSUME BoundAssumption == MaxChanges \in Nat

VARIABLES
  source,      \* what is at each path
  walk,        \* "idle", "walking", "done" or "failed"
  todo,        \* the entries that WalkDir has read and not yet handled
  forms,       \* rawForms: the raw paths seen of each normal form
  accepted,    \* the raw path of a candidate, by normal form
  skipped,
  changes,
  \* history
  steady       \* paths that have not changed since the walk began

selectionVars ==
  <<source, walk, todo, forms, accepted, skipped, changes, steady>>

IsDir(d) == d = Root \/ (d \in Paths /\ source[d] = "dir")

Rooted(tree) ==
  \A p \in Paths :
    tree[p] # "absent" /\ Parent[p] # Root => tree[Parent[p]] = "dir"

Trees ==
  {t \in [Paths -> Kind] : Rooted(t) /\ \A p \in Paths : t[p] \in KindsOf[p]}

SelectionInit ==
  /\ source \in Trees
  /\ walk = "idle" /\ todo = {}
  /\ forms = [k \in Paths |-> {}] /\ accepted = [k \in Paths |-> NoPath]
  /\ skipped = {} /\ changes = 0 /\ steady = Paths

(***************************************************************************)
(* filepath.WalkDir reads a directory after it has called back for it, in    *)
(* lexical order, and trusts what the reading said of an entry's type; the   *)
(* callback calls Lstat once more.                                           *)
(***************************************************************************)
Entry == [path : Paths, dir : BOOLEAN, handled : BOOLEAN]

Listing(d) ==
  {[path |-> p, dir |-> source[p] = "dir", handled |-> FALSE] :
     p \in {q \in Paths : Parent[q] = d /\ source[q] # "absent"}}

\* The entry that WalkDir comes to next.
Before(p, q) == \E i, j \in DOMAIN Order : i < j /\ Order[i] = p /\ Order[j] = q
First(e) == \A f \in todo : ~Before(f.path, e.path)

\* Any error of the callback, a cancelled context included, ends the walk and
\* the phase: what was collected is given up.
FailWalk ==
  /\ walk = "walking"
  /\ walk' = "failed" /\ todo' = {}
  /\ UNCHANGED <<source, forms, accepted, skipped, changes, steady>>

MayFailWalk(cancelled) == "io" \in WalkFaults \/ cancelled

StartWalk(cancelled) ==
  /\ walk = "idle" /\ ~cancelled
  /\ walk' = "walking" /\ todo' = Listing(Root)
  /\ steady' = Paths
  /\ UNCHANGED <<source, forms, accepted, skipped, changes>>

\* The root cannot be resolved or read.
StartWalkFails(cancelled) ==
  /\ walk = "idle" /\ MayFailWalk(cancelled)
  /\ walk' = "failed"
  /\ UNCHANGED <<source, todo, forms, accepted, skipped, changes, steady>>

\* The first of two twins stays.
AddKeepsFirst(p) ==
  LET seen == forms[NFC[p]] \cup {p}
  IN  /\ forms' = [forms EXCEPT ![NFC[p]] = seen]
      /\ accepted' = [accepted EXCEPT ![NFC[p]] =
                        IF seen = {p} THEN p ELSE @]

\* Two twins cancel out, the third is new.
AddForgets(p) ==
  LET old == accepted[NFC[p]]
  IN  /\ forms' = [forms EXCEPT ![NFC[p]] = @ \cup {p}]
      /\ accepted' = [accepted EXCEPT ![NFC[p]] =
                        IF old = NoPath THEN p ELSE NoPath]

\* candidateCollector.add: the first raw form of a normal form is a candidate,
\* and a second takes it back.
Add(p) ==
  LET seen == forms[NFC[p]] \cup {p}
  IN  /\ forms' = [forms EXCEPT ![NFC[p]] = seen]
      /\ accepted' = [accepted EXCEPT ![NFC[p]] =
                        IF seen = {p} THEN p ELSE NoPath]

Selectable(p) == source[p] \in {"file", "symlink"}
Wanted(p) == p \notin Excluded /\ p \in Included

\* What the callback does with an entry that Lstat has found.
Select(p) ==
  \/ /\ Selectable(p) /\ Wanted(p)
     /\ Add(p) /\ UNCHANGED skipped
  \/ /\ Selectable(p) /\ p \in Excluded
     /\ skipped' = skipped \cup {p} /\ UNCHANGED <<forms, accepted>>
  \/ /\ ~Selectable(p) \/ (p \notin Excluded /\ p \notin Included)
     /\ UNCHANGED <<forms, accepted, skipped>>

Visit(cancelled) ==
  /\ walk = "walking" /\ ~cancelled
  /\ \E e \in todo :
       /\ First(e) /\ ~e.handled
       /\ source[e.path] # "absent"
       /\ Select(e.path)
       /\ todo' = (todo \ {e}) \cup
                    (IF e.dir THEN {[e EXCEPT !.handled = TRUE]} ELSE {})
  /\ UNCHANGED <<source, walk, changes, steady>>

VisitFails(cancelled) ==
  /\ \E e \in todo :
       /\ First(e) /\ ~e.handled
       /\ source[e.path] = "absent" \/ MayFailWalk(cancelled)
  /\ FailWalk

ReadDirectory ==
  /\ walk = "walking"
  /\ \E e \in todo :
       /\ First(e) /\ e.handled /\ IsDir(e.path)
       /\ todo' = (todo \ {e}) \cup Listing(e.path)
  /\ UNCHANGED <<source, walk, forms, accepted, skipped, changes, steady>>

ReadDirectoryFails ==
  /\ \E e \in todo :
       /\ First(e) /\ e.handled
       /\ ~IsDir(e.path) \/ MayFailWalk(FALSE)
  /\ FailWalk

FinishWalk ==
  /\ walk = "walking" /\ todo = {}
  /\ walk' = "done"
  /\ UNCHANGED <<source, todo, forms, accepted, skipped, changes, steady>>

\* A program creates, replaces or removes what is at a path.
Change ==
  /\ walk = "walking" /\ changes < MaxChanges
  /\ \E p \in Paths, k \in Kind :
       /\ k # source[p] /\ k \in KindsOf[p]
       /\ Rooted([source EXCEPT ![p] = k])
       /\ source' = [source EXCEPT ![p] = k]
       /\ steady' = steady \ {p}
  /\ changes' = changes + 1
  /\ UNCHANGED <<walk, todo, forms, accepted, skipped>>

WalkStep(cancelled) ==
  \/ StartWalk(cancelled) \/ StartWalkFails(cancelled) \/ FinishWalk
  \/ Visit(cancelled) \/ VisitFails(cancelled)
  \/ ReadDirectory \/ ReadDirectoryFails

\* The candidates, sorted by their normal forms.
Candidates ==
  LET among[i \in 0..Len(Order)] ==
        IF i = 0 THEN <<>>
        ELSE IF accepted[Order[i]] = NoPath THEN among[i - 1]
        ELSE Append(among[i - 1], Order[i])
  IN  among[Len(Order)]

CollidingPaths ==
  UNION {forms[k] : k \in {n \in Paths : Cardinality(forms[n]) >= 2}}

------------------------------------------------------------------------------
SelectionTypeOK ==
  /\ source \in [Paths -> Kind] /\ Rooted(source)
  /\ walk \in {"idle", "walking", "done", "failed"}
  /\ todo \subseteq Entry
  /\ forms \in [Paths -> SUBSET Paths]
  /\ accepted \in [Paths -> Paths \cup {NoPath}]
  /\ skipped \subseteq Paths /\ steady \subseteq Paths
  /\ changes \in 0..MaxChanges

\* What the collector keeps between two entries: raw forms under their normal
\* form, and a candidate exactly where there is one raw form (selection.go,
\* "a second distinct raw form for the same key demotes BOTH").
CollectorOK ==
  /\ \A k \in Paths : \A p \in forms[k] : NFC[p] = k /\ Wanted(p)
  /\ \A k, p \in Paths : accepted[k] = p <=> forms[k] = {p}

Alone == {p \in steady : source[p] # "absent"}

\* What the callback should have made of a path.
Handled(p) ==
  Selectable(p) =>
    /\ Wanted(p) => p \in forms[NFC[p]]
    /\ p \in Excluded => p \in skipped

\* A path is handled, or listed, or it is one of those below a directory that is
\* listed and not yet read.
Covered(below) ==
  \A p \in Alone :
    /\ p \notin below =>
         Handled(p) \/ \E e \in todo : e.path = p /\ ~e.handled
    /\ p \in below =>
         /\ Parent[p] # Root
         /\ Parent[p] \in below \/ \E e \in todo : e.path = Parent[p] /\ e.dir

\* Why the walk misses nothing that was left alone.
WalkOK ==
  /\ skipped \subseteq Excluded
  /\ \A p \in Alone : Parent[p] # Root => Parent[p] \in steady
  /\ walk = "walking" => \E below \in SUBSET Paths : Covered(below)
  /\ walk = "done" => \A p \in Alone : Handled(p)

\* Each part is kept by every step, given the parts before it.
SelectionInv == SelectionTypeOK /\ CollectorOK /\ WalkOK

\* selection.go:56-62: once the walk is done, every file or link that was left
\* alone and that the profile wants is a candidate or reported as colliding,
\* never both, and a candidate has no such twin; what the profile excludes is
\* reported.  A change elsewhere in the tree, at any moment, costs nothing.
SelectionIsExact ==
  walk = "done" =>
    \A p \in {q \in steady : Selectable(q)} :
      /\ Wanted(p) => (accepted[NFC[p]] = p <=> p \notin CollidingPaths)
      /\ Wanted(p) /\ accepted[NFC[p]] = p =>
           \A q \in steady : Selectable(q) /\ Wanted(q) /\ NFC[q] = NFC[p] => q = p
      /\ p \in skipped <=> p \in Excluded
=============================================================================
