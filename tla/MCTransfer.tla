----------------------------- MODULE MCTransfer -----------------------------
(* Bounds for TLC: three raw forms of one name, another file, a directory    *)
(* with a file, and an excluded file.  One name looks like a summary, one like *)
(* an update and one like the last line of a file (Transfer.cfg).  Once the    *)
(* transfer has begun, what the walk has left beside the candidates is out of  *)
(* view.                                                                       *)
EXTENDS Transfer, TLC

CONSTANTS a, a2, a3, b, d, s, x

MCParent == [p \in Paths |-> IF p = s THEN d ELSE Root]
MCOrder == <<a, a2, a3, b, d, s, x>>
MCNFC == [p \in Paths |-> IF p \in {a2, a3} THEN a ELSE p]
MCKindsOf ==
  [p \in Paths |->
    (IF p = x THEN {} ELSE {"absent"}) \cup
    (CASE p = d -> {"dir", "file"}
       [] p = a2 -> {"symlink", "other"}
       [] OTHER -> {"file"})]
MCIncluded == Paths \ {x}

\* What the parser has said is checked event by event, and nothing depends on it
\* later; the counts are compared with each other only.
PipeView ==
  <<toWrite, stdin, stdout, copying, rsync, queue, out, footer, missed, exitCode,
    parser.line, parser.currentFile, {e \in parser.events : ~P!NamesItsFile(e)},
    completed + disguised - parser.filesAttempted>>

View ==
  IF pc \in {"enumerate", "enumerated"} THEN <<pc, cancelled, selectionVars, PipeView>>
  ELSE <<pc, cancelled, Candidates, PipeView>>
=============================================================================
