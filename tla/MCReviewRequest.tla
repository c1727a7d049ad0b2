--------------------------- MODULE MCReviewRequest ---------------------------
(***************************************************************************)
(* Diffs of up to seven lines over two files, with headers that declare    *)
(* nothing, one line (the omitted count) or two on a side; in short ones   *)
(* a piece is cut off a line.                                              *)
(***************************************************************************)
EXTENDS ReviewRequest, TLC

CONSTANTS f, g, deleted

MCPaths == {f, g}
MCUnsupported == {deleted}
Header(o, n, s) == [o |-> o, n |-> n, s |-> s]
MCHeaders == {Header(0, 1, 1), Header(1, 1, 1), Header(1, 2, 3), Header(1, 0, 2)}
MCLocations == {[path |-> f, line |-> 1], [path |-> f, line |-> 4], [path |-> g, line |-> 1]}

\* Between hunks at most one line that the parser skips (it skips all kinds
\* alike); no empty section; the first file is f, and so is the look-alike of one.
LittleNoise ==
  lines # <<>> =>
    LET last == lines[Len(lines)] IN
    /\ \A k \in {"other", "eof"} : Cardinality({i \in 1..Len(lines) : lines[i].kind = k}) <= 1
    /\ last.kind = "file" /\ in_hunk => last.path = f
    /\ ~in_hunk => last.kind \notin {" ", "-", "+", "eof", "blank"}
    /\ last.kind = "git" /\ Len(lines) > 1 => lines[Len(lines) - 1].kind # "git"
    /\ last.kind = "file" /\ ~in_hunk /\ Len(lines) <= 3 => last.path # g

\* OpenAI is asked about diffs that add two lines, and about very short ones.
AskedAbout ==
  at # "parse" => Len(lines) <= 3 \/ Cardinality(UNION {{p} \X added[p] : p \in Paths}) >= 2

\* Short diffs are enough where a line is cut or the revision came back.
ShortWhereSpecial == cuts > 0 \/ returned => Len(lines) <= 3

Interesting == LittleNoise /\ AskedAbout /\ ShortWhereSpecial
=============================================================================
