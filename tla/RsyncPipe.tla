------------------------------ MODULE RsyncPipe ------------------------------
(***************************************************************************)
(* One invocation of rsync: the goroutine that writes the list of files to   *)
(* its stdin, rsync itself, and the goroutine of os/exec that hands what     *)
(* rsync prints, in pieces cut anywhere, to the parser, whose events phase   *)
(* T1 counts.  The two pipes are bounded, and rsync may print before it has  *)
(* read the whole list, or stop at any point.  The parser writes to rsync.log *)
(* on the volume first, which may fail and ends the reading.                 *)
(*                                                                           *)
(* A line is two pieces and its terminator, \r or \n.  A name is Plain, or   *)
(* looks like a line of the summary ("sent x"), or like progress with or     *)
(* without the tail of a last line, or is passed over ("sending x", or one   *)
(* that begins with a blank).                                                *)
(***************************************************************************)
EXTENDS Integers, Sequences, FiniteSets

CONSTANTS
  Files, NoFile,
  Garbled,             \* a piece of a name
  Plain, SummaryLike, ProgressLike, UpdateLike,  \* kinds of names
  PipeSize             \* of both pipes

VARIABLES
  toWrite, stdin, stdout,
  copying,        \* os/exec reads stdout; else it is closed, and holds what is lost
  rsync,          \* "none", "running", "exited", "killed" or "reaped"
  queue,          \* names rsync has read
  out,            \* what it is about to print
  footer,         \* it has begun its last lines
  missed,         \* it could not transfer a file
  exitCode,
  parser,         \* its line buffer and currentFile, and what T1 made of it
  \* history
  completed,      \* the files whose last line rsync has begun to print
  disguised       \* the names it has printed that look like such a line

pipeVars == <<toWrite, stdin, stdout, copying, rsync, queue, out, footer, missed,
              exitCode, parser, completed, disguised>>

Piece == [line : {"heading", "name", "update", "last", "total", "end"},
          of : Files \cup {NoFile}, part : 1..3]
Event == [kind : {"started", "transferring", "completed", "summary"},
          path : Files \cup {NoFile, Garbled}, of : Files \cup {NoFile}]
Parser == [line : Seq(Piece), currentFile : Files \cup {NoFile, Garbled},
           events : SUBSET Event, filesAttempted : Nat]

Terminator == [line |-> "end", of |-> NoFile, part |-> 3]
Line(kind, f) ==
  <<[line |-> kind, of |-> f, part |-> 1],
    [line |-> kind, of |-> f, part |-> 2], Terminator>>

\* What rsync prints of a file: nothing, if it is up to date; its name alone,
\* if it cannot be read; or its name and its progress.
Prints(f) ==
  {<<>>, Line("name", f), Line("name", f) \o Line("last", f),
   Line("name", f) \o Line("update", f) \o Line("last", f)}
Completes(lines) ==
  \E i \in DOMAIN lines : lines[i].line = "last"
Disguises(lines) ==
  \E i \in DOMAIN lines : lines[i].line = "name" /\ lines[i].of \in ProgressLike

PipeInit ==
  /\ toWrite = <<>> /\ stdin = <<>> /\ stdout = <<>> /\ copying = TRUE
  /\ rsync = "none" /\ queue = <<>> /\ out = <<>>
  /\ footer = FALSE /\ missed = FALSE /\ exitCode = 0
  /\ parser = [line |-> <<>>, currentFile |-> NoFile,
               events |-> {}, filesAttempted |-> 0]
  /\ completed = 0 /\ disguised = 0

------------------------------------------------------------------------------
\* The kind of line that one with this first piece is taken for.
Looks(piece) ==
  IF piece.line # "name" \/ piece.of \in Plain THEN piece.line
  ELSE IF piece.of \in ProgressLike THEN "last"
  ELSE IF piece.of \in UpdateLike THEN "update"
  ELSE IF piece.of \in SummaryLike THEN "total" ELSE "heading"

\* handleLine: what a line, or a piece of one, is taken for.  The last line of
\* a file without its tail is an update like any other.
Shape(l) ==
  LET kind == Looks(l[1])
      whole == Len(l) = 2
      begun == l[1].part = 1
  IN  CASE ~begun -> "name"
        [] begun /\ kind = "last" -> IF whole THEN "completed" ELSE "transferring"
        [] begun /\ kind = "update" -> IF whole THEN "transferring" ELSE "ignored"
        [] begun /\ kind = "heading" -> "ignored"
        [] begun /\ kind = "total" -> "summary"
        [] begun /\ kind = "name" -> "name"

Emit(p, kind, path, of) ==
  [p EXCEPT !.events = @ \cup {[kind |-> kind, path |-> path, of |-> of]},
            !.filesAttempted = IF kind = "completed" THEN @ + 1 ELSE @]

Name(l) == IF Len(l) = 2 /\ l[1].part = 1 THEN l[1].of ELSE Garbled

HandleLine(p) ==
  LET l == p.line
      q == [p EXCEPT !.line = <<>>]
      of == l[1].of
  IN  IF l = <<>> THEN p
      ELSE CASE Shape(l) = "ignored" -> q
             [] Shape(l) = "summary" -> Emit(q, "summary", NoFile, of)
             [] Shape(l) = "name" ->
                  Emit([q EXCEPT !.currentFile = Name(l)], "started", Name(l), of)
             [] Shape(l) = "transferring" ->
                  Emit(q, "transferring", q.currentFile, of)
             [] Shape(l) = "completed" ->
                  [Emit(q, "completed", q.currentFile, of)
                     EXCEPT !.currentFile = NoFile]

\* A terminator ends the buffered line, the tail stays buffered.
Scan(p, piece) ==
  IF piece = Terminator THEN HandleLine(p)
  ELSE [p EXCEPT !.line = Append(@, piece)]

DrainLines(p, chunk) ==
  LET after[i \in 0..Len(chunk)] ==
        IF i = 0 THEN p ELSE Scan(after[i - 1], chunk[i])
  IN  after[Len(chunk)]

\* The tail is taken for a line.
WriteHandlesTail(p, chunk) == HandleLine(DrainLines(p, chunk))

\* Whatever becomes of the chunk in rsync.log, it is parsed.
Write(p, chunk) == DrainLines(p, chunk)

Flush(p) == HandleLine(p)
------------------------------------------------------------------------------
Start(list) ==
  /\ rsync = "none" /\ list # <<>>
  /\ rsync' = "running" /\ toWrite' = list
  /\ out' = Line("heading", NoFile)
  /\ UNCHANGED <<stdin, stdout, copying, queue, footer, missed, exitCode, parser,
                 completed, disguised>>

\* The writing goroutine; the end of the list closes rsync's stdin.
Feed ==
  /\ rsync = "running" /\ toWrite # <<>> /\ Len(stdin) < PipeSize
  /\ stdin' = Append(stdin, Head(toWrite)) /\ toWrite' = Tail(toWrite)
  /\ UNCHANGED <<stdout, copying, rsync, queue, out, footer, missed, exitCode, parser,
                 completed, disguised>>

\* rsync is one thread here: it does not read while it waits to print.
RsyncRead ==
  /\ rsync = "running" /\ out = <<>> /\ stdin # <<>>
  /\ queue' = Append(queue, Head(stdin)) /\ stdin' = Tail(stdin)
  /\ UNCHANGED <<toWrite, stdout, copying, rsync, out, footer, missed, exitCode, parser,
                 completed, disguised>>

RsyncFile ==
  /\ rsync = "running" /\ out = <<>> /\ queue # <<>>
  /\ queue' = Tail(queue)
  /\ \E lines \in Prints(Head(queue)) :
       /\ out' = lines
       /\ completed' = IF Completes(lines) THEN completed + 1 ELSE completed
       /\ disguised' = IF Disguises(lines) THEN disguised + 1 ELSE disguised
       /\ missed' \in IF Completes(lines) THEN {missed} ELSE {missed, TRUE}
  /\ UNCHANGED <<toWrite, stdin, stdout, copying, rsync, footer, exitCode, parser>>

\* To a closed pipe it prints in vain, and without waiting.
RsyncPrint ==
  /\ rsync = "running" /\ out # <<>>
  /\ \/ /\ copying /\ Len(stdout) < PipeSize
        /\ stdout' = Append(stdout, Head(out)) /\ out' = Tail(out)
     \/ ~copying /\ stdout' = stdout \o out /\ out' = <<>>
  /\ UNCHANGED <<toWrite, stdin, copying, rsync, queue, footer, missed, exitCode, parser,
                 completed, disguised>>

RsyncFooter ==
  /\ rsync = "running" /\ ~footer
  /\ toWrite = <<>> /\ stdin = <<>> /\ queue = <<>> /\ out = <<>>
  /\ footer' = TRUE
  /\ out' = <<Terminator>> \o Line("total", NoFile)
  /\ UNCHANGED <<toWrite, stdin, stdout, copying, rsync, queue, missed, exitCode, parser,
                 completed, disguised>>

RsyncExit ==
  /\ rsync = "running" /\ footer /\ out = <<>>
  /\ rsync' = "exited"
  /\ exitCode' = IF missed THEN 23 ELSE 0
  /\ UNCHANGED <<toWrite, stdin, stdout, copying, queue, out, footer, missed, parser,
                 completed, disguised>>

\* rsync gives up on its own (12 stands for any other code), as it may when its
\* output is closed, or is killed for a cancelled context.
RsyncStops(how, code) ==
  /\ rsync = "running"
  /\ rsync' = how /\ exitCode' = code
  /\ UNCHANGED <<toWrite, stdin, stdout, copying, queue, out, footer, missed, parser,
                 completed, disguised>>

DrainUpTo(n) ==
  /\ copying
  /\ parser' = Write(parser, SubSeq(stdout, 1, n))
  /\ stdout' = SubSeq(stdout, n + 1, Len(stdout))
  /\ UNCHANGED <<toWrite, stdin, rsync, queue, out, footer, missed, exitCode,
                 completed, disguised>>

\* What rsync prints is read once the list is written.
DrainLater ==
  toWrite = <<>> /\ UNCHANGED copying /\ \E n \in 1..Len(stdout) : DrainUpTo(n)

\* One read of os/exec's goroutine, and the parser's Write.
Drain == UNCHANGED copying /\ \E n \in 1..Len(stdout) : DrainUpTo(n)

\* Write parses the chunk, but returns the error of rsync.log: os/exec stops at it
\* and closes the pipe.
DrainFails == copying' = FALSE /\ \E n \in 1..Len(stdout) : DrainUpTo(n)

\* Wait returns once rsync has ended and its output is read or closed; the
\* writer's next write fails and is ignored.  If rsync has succeeded, the error
\* of the copying is Wait's, which is no ExitError.
Return ==
  /\ rsync \in {"exited", "killed"}
  /\ copying => stdout = <<>>
  /\ rsync' = "reaped" /\ toWrite' = <<>> /\ stdin' = <<>>
  /\ exitCode' = IF exitCode = 0 /\ ~copying THEN -1 ELSE exitCode
  /\ parser' = Flush(parser)
  /\ UNCHANGED <<stdout, copying, queue, out, footer, missed, completed, disguised>>

RsyncStep == RsyncRead \/ RsyncFile \/ RsyncPrint \/ RsyncFooter \/ RsyncExit

------------------------------------------------------------------------------
PipeTypeOK ==
  /\ toWrite \in Seq(Files) /\ stdin \in Seq(Files) /\ queue \in Seq(Files)
  /\ stdout \in Seq(Piece) /\ out \in Seq(Piece)
  /\ Len(stdin) <= PipeSize /\ copying \in BOOLEAN /\ (copying => Len(stdout) <= PipeSize)
  /\ rsync \in {"none", "running", "exited", "killed", "reaped"}
  /\ footer \in BOOLEAN /\ missed \in BOOLEAN
  /\ exitCode \in {0, 23, 12, -1}
  /\ parser \in Parser /\ completed \in Nat /\ disguised \in Nat

\* Progress of a file with an ordinary name carries that name.
NamesItsFile(e) ==
  e.kind \in {"transferring", "completed"} /\ e.of \in Plain => e.path = e.of

Begins(piece, kinds) == piece.line \in kinds /\ piece.part = 1

\* Where a line may begin there is a whole one, or a blank one.
WholeLines(s) ==
  \A i \in DOMAIN s :
    i = 1 \/ s[i - 1] = Terminator =>
      \/ s[i] = Terminator
      \/ /\ s[i].part = 1 /\ s[i].line # "end" /\ i + 2 \in DOMAIN s
         /\ s[i + 1] = [s[i] EXCEPT !.part = 2] /\ s[i + 2] = Terminator

\* Progress follows the name of its file, or other progress of it.
InOrder(s, current) ==
  \A i \in DOMAIN s :
    Begins(s[i], {"update", "last"}) /\ s[i].of \in Plain =>
      IF i = 1 THEN current = s[i].of
      ELSE i > 3 /\ Begins(s[i - 3], {"name", "update"}) /\ s[i - 3].of = s[i].of

LastLines(s) == {i \in DOMAIN s : s[i].part = 1 /\ Looks(s[i]) = "last"}

\* The lines of s, of which the parser has read the beginning, with the files it
\* has counted and those it will count: n in all.
Adds(p, s, n) ==
  /\ WholeLines(s) /\ InOrder(s, p.currentFile)
  /\ p.filesAttempted + Cardinality(LastLines(s)) = n

\* A parser with what it has still to read, or would have if its pipe had not been
\* closed: the line it has begun goes on there.
StreamOK(p, pieces, n) ==
  /\ \A e \in p.events : NamesItsFile(e)
  /\ \A i \in DOMAIN p.line : p.line[i] # Terminator
  /\ Adds(p, p.line \o pieces, n)

Countable == completed + disguised

\* Why the count is right wherever the output was cut, and never too high.
PipeInv ==
  /\ PipeTypeOK
  /\ rsync # "reaped" => StreamOK(parser, stdout \o out, Countable)
  /\ rsync = "none" => out = <<>>
  /\ rsync = "reaped" /\ copying => stdout = <<>>
  /\ rsync \in {"exited", "killed", "reaped"} /\ exitCode \in {0, 23} => out = <<>>
  /\ rsync = "reaped" =>
       /\ \A e \in parser.events : NamesItsFile(e)
       /\ parser.filesAttempted <= Countable
       /\ exitCode \in {0, 23} /\ copying => parser.filesAttempted = Countable
       /\ exitCode = 0 => copying

\* progress.go, wherever rsync's output was cut into pieces, and however it
\* ended: progress of a file with an ordinary name carries that name; no file is
\* counted that rsync has not begun to call complete, but for the names that look
\* like its saying so; and a T1 that succeeds has counted every one of them.  If
\* rsync fails for files it could not read (23) the count is exact as well, unless
\* rsync.log failed: progress.go:107-109, "does NOT stop parsing", is true of that
\* one chunk only, os/exec never hands over another.
ProgressIsExact ==
  /\ \A e \in parser.events : NamesItsFile(e)
  /\ parser.filesAttempted <= Countable
  /\ rsync = "reaped" /\ (exitCode = 0 \/ (exitCode = 23 /\ copying)) =>
       parser.filesAttempted = Countable
=============================================================================
