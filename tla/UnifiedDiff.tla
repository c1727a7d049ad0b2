----------------------------- MODULE UnifiedDiff -----------------------------
(***************************************************************************)
(* parse_unified_diff of review.py: which right-side lines of a pull       *)
(* request's diff were added, and so may carry a finding.  A step reads    *)
(* one line; the diff is whatever sequence of lines is read.  A line is    *)
(* told apart by its first characters only, so two lines can look alike:   *)
(* inside a hunk "+++ b/x" is an added line.  The parser takes its lines   *)
(* from str.splitlines, which also cuts a line at a form feed, a lone      *)
(* carriage return and other boundaries inside it: the pieces after the    *)
(* first are read like lines although the text has no such lines.          *)
(***************************************************************************)
EXTENDS Integers, FiniteSetsExt, Sequences

CONSTANTS
  Paths,      \* right-side paths that _right_side_path accepts
  Unsupported,   \* right-side names git writes and it refuses: /dev/null, quoted
  NoPath,     \* no current path, and a name git does not write: not b/, unsafe
  Headers,    \* hunk headers [o, n, s]: old count, new count, new start
  MaxLines,   \* bound: lines of a diff
  MaxCuts     \* bound: pieces that splitlines cuts off

\* An omitted count is 1: the header "@@ -3 +4 @@" is [o |-> 1, n |-> 1, s |-> 4].
ASSUME DiffAssumption ==
  /\ NoPath \notin Paths \cup Unsupported /\ Paths \cap Unsupported = {}
  /\ Headers \subseteq [o : Nat, n : Nat, s : Nat]
  /\ MaxLines \in Nat /\ MaxCuts \in Nat

VARIABLES
  lines,         \* the lines of the diff's text, as far as it was read
  cuts,          \* how many pieces were cut off lines of the text
  verdict,       \* "reading", "parsed", or "refused" (DiffValidationError)
  current_path,
  in_hunk,
  old_remaining,
  new_remaining,
  new_line,
  added          \* added right-side lines of each path seen

counters == <<in_hunk, old_remaining, new_remaining, new_line>>
diffVars == <<lines, cuts, verdict, current_path, counters, added>>

\* "git" is "diff --git ...", "file" is "+++ ..." with what it names
\* (_right_side_path raises unless it is one of Paths), "hunk" is
\* "@@ ..." with its header, "badhunk" one that the pattern does not match, " ",
\* "-" and "+" are the markers, "eof" is "\ No newline at end of file", "blank"
\* an empty line and "other" any other line.
Plain == {"git", "badhunk", " ", "-", "+", "eof", "blank", "other"}
DiffLines ==
  [kind : Plain]
    \cup [kind : {"file"}, path : Paths \cup Unsupported \cup {NoPath}]
    \cup [kind : {"hunk"}, header : Headers]

DiffTypeOK ==
  /\ lines \in Seq(DiffLines) /\ cuts \in 0..MaxCuts
  /\ verdict \in {"reading", "parsed", "refused"}
  /\ current_path \in Paths \cup {NoPath}
  /\ in_hunk \in BOOLEAN
  /\ old_remaining \in Int /\ new_remaining \in Int /\ new_line \in Nat
  /\ added \in [Paths -> SUBSET Nat]

DiffInit ==
  /\ lines = <<>> /\ cuts = 0
  /\ verdict = "reading"
  /\ current_path = NoPath
  /\ in_hunk = FALSE
  /\ old_remaining = 0 /\ new_remaining = 0 /\ new_line = 0
  /\ added = [p \in Paths |-> {}]

HunkFinishedNewSideOnly == in_hunk => new_remaining = 0

\* finish_hunk raises unless the hunk has exactly the lines it declared.
HunkFinished == in_hunk => old_remaining = 0 /\ new_remaining = 0

Refuse ==
  /\ verdict' = "refused"
  /\ UNCHANGED <<current_path, counters, added>>

GitLine ==
  IF HunkFinished
  THEN /\ in_hunk' = FALSE
       /\ current_path' = NoPath
       /\ UNCHANGED <<verdict, old_remaining, new_remaining, new_line, added>>
  ELSE Refuse

FileLine(path) ==
  IF path \in Paths
  THEN current_path' = path /\ UNCHANGED <<verdict, counters, added>>
  ELSE Refuse

HunkLine(header) ==
  IF HunkFinished /\ current_path # NoPath
  THEN /\ in_hunk' = TRUE
       /\ old_remaining' = header.o
       /\ new_remaining' = header.n
       /\ new_line' = header.s
       /\ UNCHANGED <<verdict, current_path, added>>
  ELSE Refuse

\* The counts are checked after a context or removed line was counted.
ContextLine ==
  IF old_remaining >= 1 /\ new_remaining >= 1
  THEN /\ old_remaining' = old_remaining - 1
       /\ new_remaining' = new_remaining - 1
       /\ new_line' = new_line + 1
       /\ UNCHANGED <<verdict, current_path, in_hunk, added>>
  ELSE Refuse

RemovedLine ==
  IF old_remaining >= 1
  THEN /\ old_remaining' = old_remaining - 1
       /\ UNCHANGED <<verdict, current_path, in_hunk, new_remaining, new_line, added>>
  ELSE Refuse

AddedLineKeepsPosition ==
  IF new_remaining > 0
  THEN /\ added' = [added EXCEPT ![current_path] = @ \cup {new_line}]
       /\ new_remaining' = new_remaining - 1
       /\ UNCHANGED <<verdict, current_path, in_hunk, old_remaining, new_line>>
  ELSE Refuse

AddedLine ==
  IF new_remaining > 0
  THEN /\ added' = [added EXCEPT ![current_path] = @ \cup {new_line}]
       /\ new_remaining' = new_remaining - 1
       /\ new_line' = new_line + 1
       /\ UNCHANGED <<verdict, current_path, in_hunk, old_remaining>>
  ELSE Refuse

Ignored == UNCHANGED <<verdict, current_path, counters, added>>

\* The line that says what the lines at i belong to: the nearest header before.
Owner(i) ==
  LET before == {j \in 1..(i - 1) : lines[j].kind \in {"git", "hunk"}}
  IN  IF before = {} THEN 0 ELSE Max(before)

InBody(i) ==
  /\ lines[i].kind \notin {"git", "hunk", "badhunk"}
  /\ Owner(i) # 0 /\ lines[Owner(i)].kind = "hunk"

\* The body of the loop, in the order of its tests.
ParseLine(l) ==
  \/ l.kind = "git" /\ GitLine
  \/ l.kind = "file" /\ ~in_hunk /\ FileLine(l.path)
  \/ l.kind = "hunk" /\ HunkLine(l.header)
  \/ l.kind = "badhunk" /\ Refuse
  \/ l.kind \notin {"git", "file", "hunk", "badhunk"} /\ ~in_hunk /\ Ignored
  \/ l.kind = "eof" /\ in_hunk /\ Ignored
  \/ l.kind = " " /\ in_hunk /\ ContextLine
  \/ l.kind = "-" /\ in_hunk /\ RemovedLine
  \/ l.kind \in {"+", "file"} /\ in_hunk /\ AddedLine
  \/ l.kind \in {"blank", "other"} /\ in_hunk /\ Refuse

\* A line of the text, or its first piece, which begins as the line does.
ReadLine(l) ==
  /\ verdict = "reading" /\ Len(lines) < MaxLines
  /\ lines' = Append(lines, l) /\ UNCHANGED cuts
  /\ ParseLine(l)

\* A further piece that splitlines cut off the last line of the text; it can
\* look like anything.  Git quotes such characters in names, so the line is one
\* of a hunk: file contents, or the heading after the second "@@".
ReadPiece(l) ==
  /\ verdict = "reading" /\ cuts < MaxCuts
  /\ lines # <<>> /\ (lines[Len(lines)].kind = "hunk" \/ InBody(Len(lines)))
  /\ cuts' = cuts + 1 /\ UNCHANGED lines
  /\ ParseLine(l)

\* The lines are used up: the last hunk is finished, and the added lines of
\* every path are the result.
EndOfDiff ==
  /\ verdict = "reading"
  /\ IF HunkFinished
     THEN /\ verdict' = "parsed"
          /\ in_hunk' = FALSE
          /\ UNCHANGED <<current_path, old_remaining, new_remaining, new_line, added>>
     ELSE Refuse
  /\ UNCHANGED <<lines, cuts>>

\* ParsedDiff.validate_result for the locations [path, line] of a review.
ValidateResult(findings) ==
  \A f \in findings : f.path \in Paths /\ f.line \in added[f.path]

-----------------------------------------------------------------------------
\* What a git diff means, read off the lines of its text alone.

Body(h) == {i \in 1..Len(lines) : InBody(i) /\ Owner(i) = h}
IsAdded(i) == InBody(i) /\ lines[i].kind \in {"+", "file"}
OldSide(h) == {i \in Body(h) : lines[i].kind \in {" ", "-"}}
NewSide(h) == {i \in Body(h) : lines[i].kind = " " \/ IsAdded(i)}

\* The file a hunk belongs to: the last "+++" of its "diff --git" section.
FileOf(h) ==
  LET section == {j \in 1..(h - 1) : lines[j].kind = "git"}
      names == {j \in 1..(h - 1) : lines[j].kind = "file" /\ ~InBody(j)
                                     /\ \A g \in section : g < j}
  IN  IF names = {} THEN NoPath ELSE lines[Max(names)].path

\* The right-side position of a line in the body of a hunk.
RightSide(i) ==
  lines[Owner(i)].header.s + Cardinality({k \in NewSide(Owner(i)) : k < i})

TrueAdded ==
  {[path |-> FileOf(Owner(i)), line |-> RightSide(i)] :
     i \in {i \in 1..Len(lines) : IsAdded(i)}}

HunkAt == {h \in 1..Len(lines) : lines[h].kind = "hunk"}

\* A hunk has ended where another line that starts something follows it.
Ended(h) == \E j \in (h + 1)..Len(lines) : lines[j].kind \in {"git", "hunk", "badhunk"}

\* Git's format: every hunk follows the name of its file and has the lines it
\* declares; in a diff that is not complete, the last one may still lack some.
WellFormed(complete) ==
  /\ \A i \in 1..Len(lines) :
       /\ lines[i].kind # "badhunk"
       /\ (lines[i].kind = "file" /\ ~InBody(i)) => lines[i].path # NoPath
       /\ InBody(i) => lines[i].kind \notin {"blank", "other"}
  /\ \A h \in HunkAt :
       /\ FileOf(h) # NoPath
       /\ Cardinality(OldSide(h)) <= lines[h].header.o
       /\ Cardinality(NewSide(h)) <= lines[h].header.n
       /\ (complete \/ Ended(h)) =>
            /\ Cardinality(OldSide(h)) = lines[h].header.o
            /\ Cardinality(NewSide(h)) = lines[h].header.n

\* Every file is one whose name the parser supports.
Supported ==
  \A i \in 1..Len(lines) : lines[i].kind = "file" /\ ~InBody(i) => lines[i].path \in Paths

\* Where no line is cut, parse_unified_diff refuses a diff at the first line that
\* makes it malformed or names a file it does not support, or at its end when
\* the last hunk is short, and never another one.
RefusesExactlyUnreadable ==
  [][cuts' = 0 =>
       (verdict' = "refused" <=>
          ~(Supported' /\ IF lines' = lines THEN WellFormed(TRUE)' ELSE WellFormed(FALSE)'))]_diffVars

\* Where no line is cut, the added lines parse_unified_diff returns are the
\* right-side positions of the added lines of the diff, counted independently
\* from the text, also with several hunks and files, zero counts and added lines
\* that look like headers.  Of a diff with a cut line this is not so.
AddedLinesAreTrue ==
  verdict = "parsed" /\ cuts = 0 =>
    TrueAdded = {[path |-> pair[1], line |-> pair[2]] :
                   pair \in UNION {{p} \X added[p] : p \in Paths}}

\* A diff as git writes it begins with a "diff --git" line.
GitDiff(complete) == WellFormed(complete) /\ (lines # <<>> => lines[1].kind = "git")

\* review.py, parse_unified_diff: "Parse added right-side line locations from a
\* complete git unified diff."  It would not refuse one: neither a text that
\* begins as one does, nor a complete one at its end.
ParsesGitDiffs ==
  [][verdict' = "refused" =>
       IF <<lines, cuts>>' = <<lines, cuts>> THEN ~GitDiff(TRUE)' ELSE ~GitDiff(FALSE)']_diffVars
=============================================================================
