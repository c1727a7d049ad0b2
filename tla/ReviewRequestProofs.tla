------------------------- MODULE ReviewRequestProofs -------------------------
(***************************************************************************)
(* Proofs about ReviewRequest for every set of paths, headers and          *)
(* locations and any length of a diff: as long as no line was cut, the     *)
(* parser's counters are right after every line, so it refuses exactly the *)
(* diffs that are malformed or name a file it does not support, and finds  *)
(* exactly the added lines; a published review comments only on those      *)
(* lines, of the build's revision unless that one came back; a failure has *)
(* a cause.                                                                *)
(***************************************************************************)
EXTENDS ReviewRequest, FiniteSetTheorems, WellFoundedInduction, TLAPS

-----------------------------------------------------------------------------
(* What the parser's state says about the lines read so far.               *)

\* The header that governs the next line.
Current == Owner(Len(lines) + 1)

SectionOK == in_hunk <=> Current # 0 /\ lines[Current].kind = "hunk"

PathOK ==
  /\ current_path = FileOf(Len(lines) + 1)
  /\ in_hunk => current_path = FileOf(Current) /\ current_path # NoPath

CountsOK ==
  in_hunk =>
    /\ old_remaining = lines[Current].header.o - Cardinality(OldSide(Current))
    /\ new_remaining = lines[Current].header.n - Cardinality(NewSide(Current))
    /\ new_line = lines[Current].header.s + Cardinality(NewSide(Current))

\* The added lines found so far.
Pairs(lists) ==
  {[path |-> pair[1], line |-> pair[2]] : pair \in UNION {{p} \X lists[p] : p \in Paths}}
Found == Pairs(added)

\* A diff that the parser is to take.
Readable(complete) == WellFormed(complete) /\ Supported

ParserOK ==
  verdict = "reading" /\ cuts = 0 =>
    SectionOK /\ PathOK /\ CountsOK /\ TrueAdded = Found /\ Readable(FALSE)

DiffInv == DiffTypeOK /\ ParserOK /\ AddedLinesAreTrue

-----------------------------------------------------------------------------
(* The review around the parser.                                           *)

\* Until the diff is parsed nobody was asked; then it does not change.
StageOK ==
  /\ at \in {"identify", "download", "confirm"} => verdict = "reading" /\ lines = <<>>
  /\ at \in {"ask", "wait", "publish", "published"} => verdict = "parsed"
  /\ broker # "idle" => verdict = "parsed" /\ at \in {"wait", "publish", "published", "failed"}
  /\ broker = "idle" => attempt = 0

\* Where the revision did not come back, the one confirmed is the one downloaded.
RevisionOK ==
  /\ at = "confirm" /\ revision = Expected => fetched = Expected \/ returned
  /\ at \in {"parse", "ask", "wait", "publish", "published"} => fetched = Expected \/ returned

BrokerOK ==
  /\ broker = "calling" => attempt < MaxAttempts
  /\ broker = "rejects" => why # {}
  /\ broker = "fails" => why # {} \/ attempt = MaxAttempts
  /\ broker = "answers" => ValidateResult(findings)
  /\ at \in {"publish", "published"} => broker = "answers"
  /\ at = "published" => posted = findings

IInv ==
  /\ TypeOK /\ DiffInv /\ StageOK /\ RevisionOK /\ BrokerOK
  /\ ReviewIsOfTheBuild /\ FailureHasCause
-----------------------------------------------------------------------------
(* The greatest element of a bounded set.                                  *)

LEMMA MaxIs ==
  ASSUME NEW S, S \subseteq Nat, NEW m \in S, \A y \in S : y <= m
  PROVE  Max(S) = m
<1>1. \A y \in S : m >= y
  OBVIOUS
<1>2. \A x \in S : (\A y \in S : x >= y) => x = m
  BY <1>1
<1> QED BY <1>1, <1>2 DEF Max

LEMMA MaxExists ==
  ASSUME NEW S, S \subseteq Nat, S # {}, NEW n \in Nat, \A y \in S : y <= n
  PROVE  Max(S) \in S /\ \A y \in S : y <= Max(S)
<1> DEFINE T == {n - y : y \in S}
<1>0. \A y \in S : y \in Nat /\ n - y \in Nat
  OBVIOUS
<1>1. T \subseteq Nat /\ T # {}
  BY <1>0
<1>2. PICK x \in T : \A y \in T : ~(<<y, x>> \in OpToRel(<, Nat))
  BY <1>1, WFMin, NatLessThanWellFounded
<1>3. PICK m \in S : x = n - m
  OBVIOUS
<1>4. ASSUME NEW y \in S PROVE y <= m
  <2>1. n - y \in T /\ n - y \in Nat /\ x \in Nat
    BY <1>1
  <2>2. ~(n - y < x)
    BY <1>2, <2>1 DEF OpToRel
  <2> QED BY <1>3, <2>2
<1> QED BY <1>4, MaxIs

-----------------------------------------------------------------------------
(* One more line changes nothing about the lines before it.                *)

\* l is read after n lines.
Reads(l, n) ==
  /\ l \in DiffLines
  /\ n \in Nat /\ Len(lines) = n /\ Len(lines') = n + 1
  /\ \A i \in 1..n : lines[i] \in DiffLines /\ lines'[i] = lines[i]
  /\ lines'[n + 1] = l

\* What the kind of a line says about its fields.
LEMMA LineFields ==
  ASSUME NEW l \in DiffLines
  PROVE  /\ l.kind \in Plain \cup {"file", "hunk"}
         /\ l.kind = "file" => l.path \in Paths \cup Unsupported \cup {NoPath}
         /\ l.kind = "hunk" => l.header \in Headers /\ l.header.o \in Nat /\ l.header.n \in Nat
                               /\ l.header.s \in Nat
<1>1. CASE l \in [kind : Plain]
  BY <1>1 DEF Plain
<1>2. CASE l \in [kind : {"file"}, path : Paths \cup Unsupported \cup {NoPath}]
  BY <1>2
<1>3. CASE l \in [kind : {"hunk"}, header : Headers]
  BY <1>3, DiffAssumption
<1> QED BY <1>1, <1>2, <1>3 DEF DiffLines

LEMMA ReadLineReads ==
  ASSUME DiffTypeOK, NEW l \in DiffLines, ReadLine(l), NEW n, n = Len(lines)
  PROVE  Reads(l, n) /\ lines' \in Seq(DiffLines)
<1>1. lines \in Seq(DiffLines) /\ lines' = Append(lines, l)
  BY DEF DiffTypeOK, ReadLine
<1> QED BY <1>1 DEF Reads

\* The header that governs a line is one before it, the last of them.
LEMMA OwnerIs ==
  ASSUME NEW i \in Nat \ {0}
  PROVE  /\ Owner(i) \in 0..(i - 1)
         /\ Owner(i) # 0 => lines[Owner(i)].kind \in {"git", "hunk"}
         /\ \A j \in 1..(i - 1) : lines[j].kind \in {"git", "hunk"} => j <= Owner(i)
<1> DEFINE before == {j \in 1..(i - 1) : lines[j].kind \in {"git", "hunk"}}
<1>1. CASE before = {}
  <2>1. Owner(i) = 0
    BY <1>1 DEF Owner
  <2> QED BY <1>1, <2>1
<1>2. CASE before # {}
  <2>1. before \subseteq Nat /\ i - 1 \in Nat /\ \A y \in before : y <= i - 1
    OBVIOUS
  <2>2. Max(before) \in before /\ \A y \in before : y <= Max(before)
    BY <1>2, <2>1, MaxExists
  <2>3. Owner(i) = Max(before)
    BY <1>2 DEF Owner
  <2> QED BY <2>2, <2>3
<1> QED BY <1>1, <1>2

LEMMA OwnerKept ==
  ASSUME NEW l, NEW n, Reads(l, n), NEW i \in 1..(n + 1)
  PROVE  Owner(i)' = Owner(i)
<1>1. \A j \in 1..(i - 1) : lines'[j] = lines[j]
  BY DEF Reads
<1>2. {j \in 1..(i - 1) : lines'[j].kind \in {"git", "hunk"}}
        = {j \in 1..(i - 1) : lines[j].kind \in {"git", "hunk"}}
  BY <1>1
<1> QED BY <1>2 DEF Owner

LEMMA InBodyKept ==
  ASSUME NEW l, NEW n, Reads(l, n), NEW i \in 1..n
  PROVE  InBody(i)' = InBody(i) /\ IsAdded(i)' = IsAdded(i)
<1>0. n \in Nat /\ i \in 1..(n + 1) /\ i \in Nat \ {0} /\ lines'[i] = lines[i]
  BY DEF Reads
<1>1. Owner(i)' = Owner(i) /\ lines'[i] = lines[i] /\ Owner(i) \in 0..(i - 1)
  BY <1>0, OwnerKept, OwnerIs
<1>2. Owner(i) # 0 => lines'[Owner(i)] = lines[Owner(i)]
  BY <1>0, <1>1 DEF Reads
<1>3. InBody(i)' = InBody(i)
  BY <1>1, <1>2 DEF InBody
<1> QED BY <1>1, <1>3 DEF IsAdded

\* The file names that a hunk at h may belong to.
Names(h) ==
  {j \in 1..(h - 1) : lines[j].kind = "file" /\ ~InBody(j)
                        /\ \A g \in {k \in 1..(h - 1) : lines[k].kind = "git"} : g < j}

LEMMA FileOfKept ==
  ASSUME NEW l, NEW n, Reads(l, n), NEW h \in 1..(n + 1)
  PROVE  FileOf(h)' = FileOf(h)
<1>1. \A j \in 1..(h - 1) : lines'[j] = lines[j] /\ InBody(j)' = InBody(j)
  BY InBodyKept DEF Reads
<1>2. Names(h)' = Names(h)
  BY <1>1 DEF Names
<1>3. CASE Names(h) = {}
  BY <1>2, <1>3 DEF FileOf, Names
<1>4. CASE Names(h) # {}
  <2>1. Names(h) \subseteq Nat /\ h - 1 \in Nat /\ (\A y \in Names(h) : y <= h - 1)
        /\ Names(h) \subseteq 1..(h - 1)
    BY DEF Names, Reads
  <2>2. Max(Names(h)) \in 1..(h - 1)
    BY <1>4, <2>1, MaxExists
  <2>3. lines'[Max(Names(h))] = lines[Max(Names(h))]
    BY <1>1, <2>2
  <2>4. FileOf(h) = lines[Max(Names(h))].path
    BY <1>4 DEF FileOf, Names
  <2>5. FileOf(h)' = lines'[Max(Names(h)')].path
    BY <1>2, <1>4 DEF FileOf, Names
  <2> QED BY <1>2, <2>3, <2>4, <2>5
<1> QED BY <1>3, <1>4

-----------------------------------------------------------------------------
(* What one more line adds.                                                *)

LEMMA CurrentBefore ==
  ASSUME NEW n \in Nat, Len(lines) = n
  PROVE  /\ Current \in 0..n
         /\ Current # 0 => lines[Current].kind \in {"git", "hunk"}
         /\ \A j \in 1..n : lines[j].kind \in {"git", "hunk"} => j <= Current
<1>1. n + 1 \in Nat \ {0} /\ (n + 1) - 1 = n /\ Owner(n + 1) = Current
  BY DEF Current
<1> QED BY <1>1, OwnerIs

LEMMA CurrentIs ==
  ASSUME NEW l, NEW n, Reads(l, n)
  PROVE  /\ Current \in 0..n
         /\ Current # 0 => /\ lines[Current].kind \in {"git", "hunk"}
                           /\ lines'[Current] = lines[Current]
         /\ \A j \in 1..n : lines[j].kind \in {"git", "hunk"} => j <= Current
         /\ Owner(n + 1) = Current /\ Owner(n + 1)' = Current
<1>1. n \in Nat /\ Len(lines) = n /\ n + 1 \in 1..(n + 1)
  BY DEF Reads
<1>2. Owner(n + 1) = Current /\ Owner(n + 1)' = Owner(n + 1)
  BY <1>1, OwnerKept DEF Current
<1>3. Current \in 0..n
  BY <1>1, CurrentBefore
<1>4. Current # 0 => lines'[Current] = lines[Current]
  BY <1>1, <1>3 DEF Reads
<1> QED BY <1>1, <1>2, <1>3, <1>4, CurrentBefore

\* A "diff --git" or "@@" line governs what follows it.
LEMMA NextCurrent ==
  ASSUME NEW l, NEW n, Reads(l, n)
  PROVE  Current' = IF l.kind \in {"git", "hunk"} THEN n + 1 ELSE Current
<1> DEFINE before == {j \in 1..n : lines[j].kind \in {"git", "hunk"}}
           after == {j \in 1..(n + 1) : lines'[j].kind \in {"git", "hunk"}}
<1>1. n \in Nat /\ (n + 1) - 1 = n /\ (n + 1 + 1) - 1 = n + 1 /\ Len(lines) = n
      /\ Len(lines') = n + 1
  BY DEF Reads
<1>2. Current = IF before = {} THEN 0 ELSE Max(before)
  BY <1>1 DEF Current, Owner
<1>3. Current' = IF after = {} THEN 0 ELSE Max(after)
  BY <1>1 DEF Current, Owner
<1>4. after = IF l.kind \in {"git", "hunk"} THEN before \cup {n + 1} ELSE before
  BY <1>1 DEF Reads
<1>5. CASE l.kind \in {"git", "hunk"}
  <2>1. after \subseteq Nat /\ n + 1 \in after /\ \A y \in after : y <= n + 1
    BY <1>1, <1>4, <1>5
  <2>2. Max(after) = n + 1
    BY <2>1, MaxIs
  <2> QED BY <1>3, <1>5, <2>1, <2>2
<1> QED BY <1>2, <1>3, <1>4, <1>5

InHunk == Current # 0 /\ lines[Current].kind = "hunk"

LEMMA NextInBody ==
  ASSUME NEW l, NEW n, Reads(l, n)
  PROVE  /\ InBody(n + 1)' <=> l.kind \notin {"git", "hunk", "badhunk"} /\ InHunk
         /\ IsAdded(n + 1)' <=> l.kind \in {"+", "file"} /\ InHunk
<1>1. Owner(n + 1)' = Current /\ (Current # 0 => lines'[Current] = lines[Current])
  BY CurrentIs
<1>2. lines'[n + 1] = l
  BY DEF Reads
<1>3. InBody(n + 1)' <=> l.kind \notin {"git", "hunk", "badhunk"} /\ InHunk
  BY <1>1, <1>2 DEF InBody, InHunk
<1> QED BY <1>2, <1>3 DEF IsAdded

\* The file of a hunk that would come next.
LEMMA NextFile ==
  ASSUME NEW l, NEW n, Reads(l, n)
  PROVE  FileOf(n + 2)' = IF l.kind = "git" THEN NoPath
                          ELSE IF l.kind = "file" /\ ~InHunk THEN l.path ELSE FileOf(n + 1)
<1>0. n \in Nat /\ (n + 2) - 1 = n + 1 /\ (n + 1) - 1 = n /\ lines'[n + 1] = l
      /\ n + 1 \in 1..(n + 1)
  BY DEF Reads
<1>1. \A j \in 1..n : lines'[j] = lines[j] /\ InBody(j)' = InBody(j)
  BY InBodyKept DEF Reads
<1>2. InBody(n + 1)' <=> l.kind \notin {"git", "hunk", "badhunk"} /\ InHunk
  BY NextInBody
<1>3. CASE l.kind = "git"
  <2>1. Names(n + 2)' = {}
    BY <1>0, <1>3 DEF Names
  <2> QED BY <1>3, <2>1 DEF FileOf, Names
<1>4. CASE l.kind = "file" /\ ~InHunk
  <2>1. n + 1 \in Names(n + 2)'
    BY <1>0, <1>1, <1>2, <1>4 DEF Names
  <2>2. Names(n + 2)' \subseteq Nat /\ \A y \in Names(n + 2)' : y <= n + 1
    BY <1>0 DEF Names
  <2>3. Max(Names(n + 2)') = n + 1
    BY <2>1, <2>2, MaxIs
  <2>4. FileOf(n + 2)' = lines'[Max(Names(n + 2)')].path
    BY <2>1 DEF FileOf, Names
  <2> QED BY <1>0, <1>4, <2>3, <2>4
<1>5. CASE l.kind # "git" /\ ~(l.kind = "file" /\ ~InHunk)
  <2>1. Names(n + 2)' = Names(n + 1)'
    BY <1>0, <1>2, <1>5 DEF Names
  <2>2. FileOf(n + 2)' = FileOf(n + 1)'
    BY <2>1 DEF FileOf, Names
  <2> QED BY <1>0, <1>5, <2>2, FileOfKept
<1> QED BY <1>3, <1>4, <1>5

LEMMA OneMore ==
  ASSUME NEW n \in Nat, NEW S, S \subseteq 1..n, NEW T, T \subseteq 1..(n + 1),
         \A j \in 1..n : j \in T <=> j \in S, NEW P \in BOOLEAN, n + 1 \in T <=> P
  PROVE  T = IF P THEN S \cup {n + 1} ELSE S
<1>1. 1..(n + 1) = (1..n) \cup {n + 1} /\ n + 1 \notin 1..n
  OBVIOUS
<1>2. CASE P
  BY <1>1, <1>2
<1>3. CASE ~P
  BY <1>1, <1>3
<1> QED BY <1>2, <1>3

\* The hunk that is open gets the line; no other hunk changes.
LEMMA NextSides ==
  ASSUME NEW l, NEW n, Reads(l, n), NEW h \in 1..(n + 1)
  PROVE  /\ OldSide(h)' = IF InHunk /\ h = Current /\ l.kind \in {" ", "-"}
                          THEN OldSide(h) \cup {n + 1} ELSE OldSide(h)
         /\ NewSide(h)' = IF InHunk /\ h = Current /\ l.kind \in {" ", "+", "file"}
                          THEN NewSide(h) \cup {n + 1} ELSE NewSide(h)
         /\ OldSide(h) \subseteq 1..n /\ NewSide(h) \subseteq 1..n
<1>0. n \in Nat /\ Len(lines) = n /\ Len(lines') = n + 1 /\ lines'[n + 1] = l
  BY DEF Reads
<1>1. \A j \in 1..n : /\ lines'[j] = lines[j] /\ Owner(j)' = Owner(j)
                      /\ InBody(j)' = InBody(j) /\ IsAdded(j)' = IsAdded(j)
  BY <1>0, InBodyKept, OwnerKept DEF Reads
<1>2. /\ InBody(n + 1)' <=> l.kind \notin {"git", "hunk", "badhunk"} /\ InHunk
      /\ IsAdded(n + 1)' <=> l.kind \in {"+", "file"} /\ InHunk
      /\ Owner(n + 1)' = Current
  BY NextInBody, CurrentIs
<1>3. \A j \in 1..n : j \in Body(h)' <=> j \in Body(h)
  BY <1>0, <1>1 DEF Body
<1>4. n + 1 \in Body(h)' <=> l.kind \notin {"git", "hunk", "badhunk"} /\ InHunk /\ h = Current
  BY <1>0, <1>2 DEF Body
<1>5. Body(h)' \subseteq 1..(n + 1) /\ Body(h) \subseteq 1..n
  BY <1>0 DEF Body
<1>6. OldSide(h) \subseteq 1..n /\ NewSide(h) \subseteq 1..n
  BY <1>5 DEF OldSide, NewSide
<1>7. ASSUME NEW j \in 1..n
      PROVE  (j \in OldSide(h)' <=> j \in OldSide(h)) /\ (j \in NewSide(h)' <=> j \in NewSide(h))
  BY <1>1, <1>3 DEF OldSide, NewSide
<1>8. /\ n + 1 \in OldSide(h)' <=> InHunk /\ h = Current /\ l.kind \in {" ", "-"}
      /\ n + 1 \in NewSide(h)' <=> InHunk /\ h = Current /\ l.kind \in {" ", "+", "file"}
  BY <1>0, <1>2, <1>4 DEF OldSide, NewSide
<1>9. OldSide(h)' \subseteq 1..(n + 1) /\ NewSide(h)' \subseteq 1..(n + 1)
  BY <1>5 DEF OldSide, NewSide
<1>10. OldSide(h)' = IF InHunk /\ h = Current /\ l.kind \in {" ", "-"}
                     THEN OldSide(h) \cup {n + 1} ELSE OldSide(h)
  BY <1>0, <1>6, <1>7, <1>8, <1>9, OneMore
<1>11. NewSide(h)' = IF InHunk /\ h = Current /\ l.kind \in {" ", "+", "file"}
                     THEN NewSide(h) \cup {n + 1} ELSE NewSide(h)
  BY <1>0, <1>6, <1>7, <1>8, <1>9, OneMore
<1> QED BY <1>6, <1>10, <1>11

\* So its counts grow by one.
LEMMA NextCounts ==
  ASSUME NEW l, NEW n, Reads(l, n), NEW h \in 1..(n + 1)
  PROVE  /\ Cardinality(OldSide(h)) \in Nat /\ Cardinality(NewSide(h)) \in Nat
         /\ Cardinality(OldSide(h)') = IF InHunk /\ h = Current /\ l.kind \in {" ", "-"}
                          THEN Cardinality(OldSide(h)) + 1 ELSE Cardinality(OldSide(h))
         /\ Cardinality(NewSide(h)') = IF InHunk /\ h = Current /\ l.kind \in {" ", "+", "file"}
                          THEN Cardinality(NewSide(h)) + 1 ELSE Cardinality(NewSide(h))
<1>0. n \in Nat
  BY DEF Reads
<1>1. OldSide(h) \subseteq 1..n /\ NewSide(h) \subseteq 1..n
  BY NextSides
<1>2. IsFiniteSet(1..n)
  BY <1>0, FS_Interval
<1>3. IsFiniteSet(OldSide(h)) /\ IsFiniteSet(NewSide(h))
  BY <1>1, <1>2, FS_Subset
<1>4. n + 1 \notin OldSide(h) /\ n + 1 \notin NewSide(h)
  BY <1>0, <1>1
<1>5. /\ Cardinality(OldSide(h) \cup {n + 1}) = Cardinality(OldSide(h)) + 1
      /\ Cardinality(NewSide(h) \cup {n + 1}) = Cardinality(NewSide(h)) + 1
  BY <1>3, <1>4, FS_AddElement
<1>6. Cardinality(OldSide(h)) \in Nat /\ Cardinality(NewSide(h)) \in Nat
  BY <1>3, FS_CardinalityType
<1> QED BY <1>5, <1>6, NextSides

\* A hunk that begins has no lines yet.
LEMMA NewHunkIsEmpty ==
  ASSUME NEW l, NEW n, Reads(l, n)
  PROVE  Cardinality(OldSide(n + 1)) = 0 /\ Cardinality(NewSide(n + 1)) = 0
<1>0. n \in Nat /\ Len(lines) = n
  BY DEF Reads
<1>1. Body(n + 1) = {}
  <2>1. \A i \in 1..n : Owner(i) \in 0..(i - 1)
    BY <1>0, OwnerIs
  <2> QED BY <1>0, <2>1 DEF Body
<1>2. OldSide(n + 1) = {} /\ NewSide(n + 1) = {}
  BY <1>1 DEF OldSide, NewSide
<1> QED BY <1>2, FS_EmptySet

\* The right-side position of an earlier line stays, that of the new one is
\* counted from what its hunk has so far.
LEMMA NextRightSide ==
  ASSUME NEW l, NEW n, Reads(l, n), NEW i \in 1..(n + 1), IsAdded(i)'
  PROVE  RightSide(i)' = IF i = n + 1
                         THEN lines[Current].header.s + Cardinality(NewSide(Current))
                         ELSE RightSide(i)
<1>0. n \in Nat
  BY DEF Reads
<1>1. Owner(i)' = Owner(i) /\ Owner(i) \in 0..(i - 1)
  BY <1>0, OwnerKept, OwnerIs
<1>2. Owner(i) # 0
  BY <1>1 DEF IsAdded, InBody
<1> DEFINE h == Owner(i)
<1>3. h \in 1..n /\ lines'[h] = lines[h]
  BY <1>0, <1>1, <1>2 DEF Reads
<1>4. RightSide(i) = lines[h].header.s + Cardinality({k \in NewSide(h) : k < i})
  BY DEF RightSide
<1>5. PICK hh \in 1..(n + 1) : hh = h
  BY <1>0, <1>3
<1>6. /\ NewSide(hh) \subseteq 1..n
      /\ NewSide(hh)' = NewSide(hh) \/ NewSide(hh)' = NewSide(hh) \cup {n + 1}
  BY NextSides
<1>7. RightSide(i)' = lines'[hh].header.s + Cardinality({k \in NewSide(hh)' : k < i})
  BY <1>1, <1>5 DEF RightSide
<1>8. {k \in NewSide(hh)' : k < i} = {k \in NewSide(hh) : k < i}
  BY <1>0, <1>6
<1>9. CASE i = n + 1
  <2>1. h = Current
    BY <1>9, CurrentIs
  <2>2. {k \in NewSide(hh) : k < i} = NewSide(hh)
    BY <1>0, <1>6, <1>9
  <2> QED BY <1>3, <1>5, <1>7, <1>8, <1>9, <2>1, <2>2
<1> QED BY <1>3, <1>4, <1>5, <1>7, <1>8, <1>9

\* So the added lines of the text grow by at most one.
LEMMA NextTrueAdded ==
  ASSUME NEW l, NEW n, Reads(l, n)
  PROVE  TrueAdded' = IF l.kind \in {"+", "file"} /\ InHunk
                      THEN TrueAdded \cup
                             {[path |-> FileOf(Current),
                               line |-> lines[Current].header.s + Cardinality(NewSide(Current))]}
                      ELSE TrueAdded
<1> DEFINE old == {i \in 1..n : IsAdded(i)}
           new == {i \in 1..(n + 1) : IsAdded(i)'}
           item(i) == [path |-> FileOf(Owner(i)), line |-> RightSide(i)]
           last == [path |-> FileOf(Current),
                    line |-> lines[Current].header.s + Cardinality(NewSide(Current))]
<1>0. n \in Nat /\ Len(lines) = n /\ Len(lines') = n + 1
  BY DEF Reads
<1>1. TrueAdded = {item(i) : i \in old}
  BY <1>0 DEF TrueAdded
<1>2. TrueAdded' = {item(i)' : i \in new}
  BY <1>0 DEF TrueAdded
<1>3. ASSUME NEW i \in new PROVE item(i)' = IF i = n + 1 THEN last ELSE item(i)
  <2>1. RightSide(i)' = IF i = n + 1
                        THEN lines[Current].header.s + Cardinality(NewSide(Current))
                        ELSE RightSide(i)
    BY NextRightSide
  <2>2. Owner(i)' = Owner(i) /\ Owner(i) \in 0..(i - 1) /\ (i = n + 1 => Owner(i) = Current)
    BY <1>0, OwnerKept, OwnerIs, CurrentIs
  <2>3. Owner(i) # 0
    BY <2>2 DEF IsAdded, InBody
  <2>4. PICK h \in 1..(n + 1) : h = Owner(i)
    BY <1>0, <2>2, <2>3
  <2>5. FileOf(h)' = FileOf(h)
    BY FileOfKept
  <2>6. FileOf(Owner(i))' = FileOf(h)'
    BY <2>2, <2>4
  <2> QED BY <2>1, <2>2, <2>4, <2>5, <2>6
<1>4. /\ \A i \in 1..n : i \in new <=> i \in old
      /\ n + 1 \in new <=> l.kind \in {"+", "file"} /\ InHunk
  BY <1>0, InBodyKept, NextInBody
<1>5. new = IF l.kind \in {"+", "file"} /\ InHunk THEN old \cup {n + 1} ELSE old
  BY <1>0, <1>4
<1>6. \A i \in old : i # n + 1
  BY <1>0
<1> HIDE DEF old, new, item, last
<1>7. \A x : x \in TrueAdded' <=> x \in IF l.kind \in {"+", "file"} /\ InHunk
                                        THEN TrueAdded \cup {last} ELSE TrueAdded
  BY <1>1, <1>2, <1>3, <1>5, <1>6
<1>8. TrueAdded' = IF l.kind \in {"+", "file"} /\ InHunk THEN TrueAdded \cup {last} ELSE TrueAdded
  BY <1>7
<1> QED BY <1>8 DEF last

-----------------------------------------------------------------------------
(* When one more line leaves the diff readable.                            *)

OldCount == Cardinality(OldSide(Current))
NewCount == Cardinality(NewSide(Current))

LineFits(l, n) ==
  /\ l.kind # "badhunk"
  /\ l.kind = "file" /\ ~InHunk => l.path \in Paths
  /\ l.kind = "hunk" => FileOf(n + 1) # NoPath
  /\ InHunk =>
       /\ l.kind \notin {"blank", "other"}
       /\ l.kind \in {" ", "-"} => OldCount < lines[Current].header.o
       /\ l.kind \in {" ", "+", "file"} => NewCount < lines[Current].header.n
       /\ l.kind \in {"git", "hunk"} => /\ OldCount = lines[Current].header.o
                                        /\ NewCount = lines[Current].header.n

LEMMA RoomForOne ==
  ASSUME NEW a \in Nat, NEW b \in Nat
  PROVE  a + 1 <= b <=> a < b
OBVIOUS

\* Every hunk but the open one is followed by another header.
LEMMA OthersEnded ==
  ASSUME NEW n \in Nat, Len(lines) = n, NEW h \in HunkAt, ~(InHunk /\ h = Current)
  PROVE  Ended(h)
<1>0. h \in 1..n /\ lines[h].kind = "hunk"
  BY DEF HunkAt
<1>1. h <= Current /\ Current \in 0..n
  BY <1>0, CurrentBefore
<1>2. h # Current /\ Current # 0
  BY <1>0, <1>1 DEF InHunk
<1>3. Current \in (h + 1)..n /\ lines[Current].kind \in {"git", "hunk"}
  BY <1>0, <1>1, <1>2, CurrentBefore
<1> QED BY <1>0, <1>3 DEF Ended

\* What Readable(FALSE)' asks of line i and of the hunk at h.
LineOK(i) ==
  /\ lines[i].kind # "badhunk"
  /\ (lines[i].kind = "file" /\ ~InBody(i)) => lines[i].path \in Paths
  /\ InBody(i) => lines[i].kind \notin {"blank", "other"}

HunkOK(h, complete) ==
  /\ FileOf(h) # NoPath
  /\ Cardinality(OldSide(h)) <= lines[h].header.o
  /\ Cardinality(NewSide(h)) <= lines[h].header.n
  /\ (complete \/ Ended(h)) =>
       /\ Cardinality(OldSide(h)) = lines[h].header.o
       /\ Cardinality(NewSide(h)) = lines[h].header.n

LEMMA ReadableIs ==
  ASSUME NEW complete
  PROVE  Readable(complete) <=> /\ \A i \in 1..Len(lines) : LineOK(i)
                                /\ \A h \in HunkAt : HunkOK(h, complete)
BY DiffAssumption DEF Readable, Supported, WellFormed, LineOK, HunkOK

\* The lines before the new one are judged as before.
LEMMA NextLineOK ==
  ASSUME NEW l, NEW n, Reads(l, n), NEW i \in 1..(n + 1)
  PROVE  LineOK(i)' <=> IF i = n + 1
                        THEN /\ l.kind # "badhunk"
                             /\ l.kind = "file" /\ ~InHunk => l.path \in Paths
                             /\ InHunk => l.kind \notin {"blank", "other"}
                        ELSE LineOK(i)
<1>0. n \in Nat /\ lines'[n + 1] = l
  BY DEF Reads
<1>1. CASE i = n + 1
  <2>1. InBody(i)' <=> l.kind \notin {"git", "hunk", "badhunk"} /\ InHunk
    BY <1>1, NextInBody
  <2>2. lines'[i] = l
    BY <1>0, <1>1
  <2> QED BY <1>1, <2>1, <2>2 DEF LineOK
<1>2. CASE i # n + 1
  <2>1. i \in 1..n
    BY <1>0, <1>2
  <2>2. lines'[i] = lines[i] /\ InBody(i)' = InBody(i)
    BY <2>1, InBodyKept DEF Reads
  <2> QED BY <1>2, <2>2 DEF LineOK
<1> QED BY <1>1, <1>2

\* A hunk ends with the next header.
LEMMA NextEnded ==
  ASSUME NEW l, NEW n, Reads(l, n), NEW h \in 1..n
  PROVE  Ended(h)' <=> Ended(h) \/ l.kind \in {"git", "hunk", "badhunk"}
<1>0. n \in Nat /\ Len(lines) = n /\ Len(lines') = n + 1 /\ lines'[n + 1] = l
      /\ \A i \in 1..n : lines'[i] = lines[i]
  BY DEF Reads
<1>1. (h + 1)..(n + 1) = ((h + 1)..n) \cup {n + 1} /\ (h + 1)..n \subseteq 1..n
  BY <1>0
<1>2. Ended(h)' <=> \E j \in (h + 1)..(n + 1) : lines'[j].kind \in {"git", "hunk", "badhunk"}
  BY <1>0 DEF Ended
<1>3. Ended(h) <=> \E j \in (h + 1)..n : lines'[j].kind \in {"git", "hunk", "badhunk"}
  BY <1>0, <1>1 DEF Ended
<1> QED BY <1>0, <1>1, <1>2, <1>3

\* A complete hunk stays as it is.
LEMMA ClosedHunkKept ==
  ASSUME NEW l, NEW n, Reads(l, n), NEW h \in HunkAt, ~(InHunk /\ h = Current)
  PROVE  HunkOK(h, FALSE)' <=> HunkOK(h, FALSE)
<1>0. n \in Nat /\ Len(lines) = n /\ h \in 1..n /\ h \in 1..(n + 1)
  BY DEF Reads, HunkAt
<1>1. Ended(h) /\ Ended(h)'
  BY <1>0, OthersEnded, NextEnded
<1>2. FileOf(h)' = FileOf(h) /\ lines'[h] = lines[h]
  BY <1>0, FileOfKept DEF Reads
<1>3. OldSide(h)' = OldSide(h) /\ NewSide(h)' = NewSide(h)
  BY <1>0, NextSides
<1> QED BY <1>1, <1>2, <1>3 DEF HunkOK

\* The open hunk takes the line if it has room for it.
LEMMA OpenHunkNext ==
  ASSUME NEW l, NEW n, Reads(l, n), InHunk, NEW h, h = Current, HunkOK(h, FALSE),
         \A i \in 1..n : LineOK(i), l.kind # "badhunk"
  PROVE  HunkOK(h, FALSE)' <=>
           /\ l.kind \in {" ", "-"} => OldCount < lines[Current].header.o
           /\ l.kind \in {" ", "+", "file"} => NewCount < lines[Current].header.n
           /\ l.kind \in {"git", "hunk"} => /\ OldCount = lines[Current].header.o
                                            /\ NewCount = lines[Current].header.n
<1>0. n \in Nat /\ h \in 1..n /\ h \in 1..(n + 1) /\ lines[h] \in DiffLines
  BY CurrentIs DEF Reads, InHunk
<1> DEFINE o == lines[h].header.o
           m == lines[h].header.n
<1>1. o \in Nat /\ m \in Nat
  BY <1>0, LineFields DEF InHunk
<1>2. FileOf(h)' = FileOf(h) /\ lines'[h] = lines[h] /\ FileOf(h) # NoPath
  BY <1>0, FileOfKept DEF Reads, HunkOK
<1>3. /\ OldCount \in Nat /\ NewCount \in Nat
      /\ Cardinality(OldSide(h)') = IF l.kind \in {" ", "-"} THEN OldCount + 1 ELSE OldCount
      /\ Cardinality(NewSide(h)') = IF l.kind \in {" ", "+", "file"} THEN NewCount + 1 ELSE NewCount
  BY <1>0, NextCounts DEF OldCount, NewCount
<1>4. ~Ended(h)
  <2>1. n = Len(lines) /\ \A j \in 1..n : lines[j].kind \in {"git", "hunk"} => j <= h
    BY CurrentIs DEF Reads
  <2>2. \A j \in (h + 1)..n : j \in 1..n /\ ~(j <= h)
    BY <1>0
  <2> QED BY <2>1, <2>2 DEF Ended, LineOK
<1>5. Ended(h)' <=> l.kind \in {"git", "hunk"}
  BY <1>0, <1>4, NextEnded
<1>6. OldCount <= o /\ NewCount <= m
  BY DEF HunkOK, OldCount, NewCount
<1>7. HunkOK(h, FALSE)' <=>
        /\ Cardinality(OldSide(h)') <= o /\ Cardinality(NewSide(h)') <= m
        /\ l.kind \in {"git", "hunk"} => Cardinality(OldSide(h)') = o /\ Cardinality(NewSide(h)') = m
  BY <1>2, <1>5 DEF HunkOK
<1> HIDE DEF o, m
<1>8. (OldCount + 1 <= o <=> OldCount < o) /\ (NewCount + 1 <= m <=> NewCount < m)
  BY <1>1, <1>3, RoomForOne
<1>9. HunkOK(h, FALSE)' <=>
        /\ l.kind \in {" ", "-"} => OldCount < o
        /\ l.kind \in {" ", "+", "file"} => NewCount < m
        /\ l.kind \in {"git", "hunk"} => OldCount = o /\ NewCount = m
  <2>1. CASE l.kind = " "
    BY <1>3, <1>6, <1>7, <1>8, <2>1
  <2>2. CASE l.kind = "-"
    BY <1>3, <1>6, <1>7, <1>8, <2>2
  <2>3. CASE l.kind \in {"+", "file"}
    BY <1>3, <1>6, <1>7, <1>8, <2>3
  <2>4. CASE l.kind \in {"git", "hunk"}
    BY <1>1, <1>3, <1>6, <1>7, <2>4
  <2>5. CASE l.kind \notin {" ", "-", "+", "file", "git", "hunk"}
    BY <1>1, <1>3, <1>6, <1>7, <2>5
  <2> QED BY <2>1, <2>2, <2>3, <2>4, <2>5
<1> QED BY <1>9 DEF o, m

\* A line leaves a diff readable exactly if it fits.
LEMMA NextReadable ==
  ASSUME NEW l, NEW n, Reads(l, n), Readable(FALSE)
  PROVE  Readable(FALSE)' <=> LineFits(l, n)
<1>0. n \in Nat /\ Len(lines) = n /\ Len(lines') = n + 1 /\ lines'[n + 1] = l
      /\ 1..(n + 1) = (1..n) \cup {n + 1} /\ n + 1 \notin 1..n
      /\ \A i \in 1..n : lines'[i] = lines[i]
  BY DEF Reads
<1>1. (\A i \in 1..n : LineOK(i)) /\ (\A h \in HunkAt : HunkOK(h, FALSE))
  BY <1>0, ReadableIs
<1>2. Readable(FALSE)' <=> /\ \A i \in 1..(n + 1) : LineOK(i)'
                           /\ \A h \in HunkAt' : HunkOK(h, FALSE)'
  BY <1>0, DiffAssumption DEF Readable, Supported, WellFormed, LineOK, HunkOK
<1>3. (\A i \in 1..(n + 1) : LineOK(i)') <=>
        /\ l.kind # "badhunk"
        /\ l.kind = "file" /\ ~InHunk => l.path \in Paths
        /\ InHunk => l.kind \notin {"blank", "other"}
  BY <1>0, <1>1, NextLineOK
<1>4. HunkAt' = IF l.kind = "hunk" THEN HunkAt \cup {n + 1} ELSE HunkAt
  BY <1>0 DEF HunkAt
<1>5. ASSUME l.kind = "hunk" PROVE HunkOK(n + 1, FALSE)' <=> FileOf(n + 1) # NoPath
  <2>0. n + 1 \in 1..(n + 1)
    BY <1>0
  <2>1. FileOf(n + 1)' = FileOf(n + 1)
    BY <2>0, FileOfKept
  <2>2. Cardinality(OldSide(n + 1)') = 0 /\ Cardinality(NewSide(n + 1)') = 0
    BY <1>5, <2>0, NextCounts, NewHunkIsEmpty
  <2>3. ~Ended(n + 1)'
    <3>1. \A j \in (n + 1 + 1)..(n + 1) : FALSE
      BY <1>0
    <3> QED BY <1>0, <3>1 DEF Ended
  <2>4. l.header.o \in Nat /\ l.header.n \in Nat
    BY <1>5, LineFields DEF Reads
  <2> QED BY <1>0, <2>1, <2>2, <2>3, <2>4 DEF HunkOK
<1>6. ASSUME InHunk, l.kind # "badhunk"
      PROVE  /\ Current \in HunkAt
             /\ \E h \in HunkAt : h = Current /\ (HunkOK(h, FALSE)' <=>
                  /\ l.kind \in {" ", "-"} => OldCount < lines[Current].header.o
                  /\ l.kind \in {" ", "+", "file"} => NewCount < lines[Current].header.n
                  /\ l.kind \in {"git", "hunk"} => /\ OldCount = lines[Current].header.o
                                                   /\ NewCount = lines[Current].header.n)
  <2>1. Current \in HunkAt
    BY <1>0, <1>6, CurrentIs DEF InHunk, HunkAt
  <2>2. PICK h \in HunkAt : h = Current
    BY <2>1
  <2> QED BY <1>1, <1>6, <2>1, <2>2, OpenHunkNext
<1>7. \A h \in HunkAt : ~(InHunk /\ h = Current) => HunkOK(h, FALSE)'
  BY <1>1, ClosedHunkKept
<1>8. CASE InHunk
  BY <1>2, <1>3, <1>4, <1>5, <1>6, <1>7, <1>8 DEF LineFits
<1>9. CASE ~InHunk
  BY <1>2, <1>3, <1>4, <1>5, <1>7, <1>9 DEF LineFits
<1> QED BY <1>8, <1>9

-----------------------------------------------------------------------------
(* The parser.                                                             *)

\* The elements of a set of pairs.
LEMMA PairsAre ==
  ASSUME NEW lists, NEW x
  PROVE  x \in Pairs(lists) <=> \E p \in Paths : \E k \in lists[p] : x = [path |-> p, line |-> k]
<1>1. ASSUME x \in Pairs(lists)
      PROVE  \E p \in Paths : \E k \in lists[p] : x = [path |-> p, line |-> k]
  <2>1. PICK pair \in UNION {{p} \X lists[p] : p \in Paths} :
          x = [path |-> pair[1], line |-> pair[2]]
    BY <1>1 DEF Pairs
  <2>2. PICK p \in Paths : pair \in {p} \X lists[p]
    BY <2>1
  <2>3. pair[1] = p /\ pair[2] \in lists[p]
    BY <2>2
  <2> QED BY <2>1, <2>3
<1>2. ASSUME NEW p \in Paths, NEW k \in lists[p], x = [path |-> p, line |-> k]
      PROVE  x \in Pairs(lists)
  <2>1. <<p, k>> \in {p} \X lists[p]
    OBVIOUS
  <2>2. <<p, k>> \in UNION {{q} \X lists[q] : q \in Paths}
    BY <2>1
  <2>3. x = [path |-> <<p, k>>[1], line |-> <<p, k>>[2]]
    BY <1>2
  <2> QED BY <2>2, <2>3 DEF Pairs
<1> QED BY <1>1, <1>2

\* One line more is found.
LEMMA NextFound ==
  ASSUME added \in [Paths -> SUBSET Nat], NEW p \in Paths, NEW k \in Nat,
         added' = [added EXCEPT ![p] = @ \cup {k}]
  PROVE  Found' = Found \cup {[path |-> p, line |-> k]} /\ added' \in [Paths -> SUBSET Nat]
<1>1. \A q \in Paths : added'[q] = IF q = p THEN added[p] \cup {k} ELSE added[q]
  OBVIOUS
<1>2. ASSUME NEW x
      PROVE  /\ x \in Found' <=> \E q \in Paths : \E j \in added'[q] : x = [path |-> q, line |-> j]
             /\ x \in Found <=> \E q \in Paths : \E j \in added[q] : x = [path |-> q, line |-> j]
  BY PairsAre DEF Found
<1>3. \A x : x \in Found' <=> x \in Found \cup {[path |-> p, line |-> k]}
  <2>1. ASSUME NEW x PROVE x \in Found' <=> x \in Found \/ x = [path |-> p, line |-> k]
    <3>1. CASE x \in Found'
      BY <1>1, <1>2, <3>1
    <3>2. CASE x \in Found
      BY <1>1, <1>2, <3>2
    <3>3. CASE x = [path |-> p, line |-> k]
      BY <1>1, <1>2, <3>3
    <3> QED BY <3>1, <3>2, <3>3
  <2> QED BY <2>1
<1>4. added' \in [Paths -> SUBSET Nat]
  OBVIOUS
<1> QED BY <1>3, <1>4

\* What is known while lines are read.
LEMMA ReadingFacts ==
  ASSUME DiffTypeOK, ParserOK, verdict = "reading", cuts = 0, NEW l \in DiffLines, ReadLine(l),
         NEW n, n = Len(lines)
  PROVE  /\ Reads(l, n) /\ lines' \in Seq(DiffLines)
         /\ in_hunk \in BOOLEAN /\ (in_hunk <=> InHunk)
         /\ current_path = FileOf(n + 1) /\ current_path \in Paths \cup {NoPath}
         /\ TrueAdded = Found /\ Readable(FALSE)
         /\ old_remaining \in Int /\ new_remaining \in Int /\ new_line \in Nat
         /\ added \in [Paths -> SUBSET Nat]
         /\ in_hunk => /\ Current \in 1..n
                       /\ current_path = FileOf(Current) /\ current_path \in Paths
                       /\ OldCount \in Nat /\ NewCount \in Nat
                       /\ lines[Current].header.o \in Nat /\ lines[Current].header.n \in Nat
                       /\ lines[Current].header.s \in Nat
                       /\ old_remaining = lines[Current].header.o - OldCount
                       /\ new_remaining = lines[Current].header.n - NewCount
                       /\ new_line = lines[Current].header.s + NewCount
<1>1. Reads(l, n) /\ lines' \in Seq(DiffLines)
  BY ReadLineReads
<1>2. SectionOK /\ PathOK /\ CountsOK /\ TrueAdded = Found /\ Readable(FALSE)
  BY DEF ParserOK
<1>3. in_hunk <=> InHunk
  BY <1>2 DEF SectionOK, InHunk
<1>4. in_hunk => Current \in 1..n /\ lines[Current] \in DiffLines /\ n \in Nat
  BY <1>1, <1>3, CurrentIs DEF InHunk, Reads
<1>5. in_hunk => OldCount \in Nat /\ NewCount \in Nat
  <2>1. ASSUME in_hunk PROVE Current \in 1..(n + 1)
    BY <1>4, <2>1
  <2> QED BY <1>1, <2>1, NextCounts DEF OldCount, NewCount
<1>6. in_hunk => /\ lines[Current].header.o \in Nat /\ lines[Current].header.n \in Nat
                 /\ lines[Current].header.s \in Nat
  BY <1>3, <1>4, LineFields DEF InHunk
<1>7. in_hunk => /\ old_remaining = lines[Current].header.o - OldCount
                 /\ new_remaining = lines[Current].header.n - NewCount
                 /\ new_line = lines[Current].header.s + NewCount
  BY <1>2 DEF CountsOK, OldCount, NewCount
<1>8. current_path = FileOf(n + 1) /\ (in_hunk => current_path = FileOf(Current) /\ current_path # NoPath)
  BY <1>2 DEF PathOK
<1>9. /\ in_hunk \in BOOLEAN /\ current_path \in Paths \cup {NoPath}
      /\ old_remaining \in Int /\ new_remaining \in Int /\ new_line \in Nat
      /\ added \in [Paths -> SUBSET Nat]
  BY DEF DiffTypeOK
<1> QED BY <1>1, <1>2, <1>3, <1>4, <1>5, <1>6, <1>7, <1>8, <1>9

LEMMA Remaining ==
  ASSUME NEW a \in Nat, NEW b \in Nat
  PROVE  /\ (a = b <=> b - a = 0) /\ (a < b <=> b - a >= 1) /\ (a < b <=> b - a > 0)
         /\ (b - a) - 1 = b - (a + 1) /\ (b + a) + 1 = b + (a + 1)
OBVIOUS

\* The parser goes on exactly with a line that fits.
LEMMA RefusesMisfits ==
  ASSUME DiffTypeOK, ParserOK, verdict = "reading", cuts = 0, NEW l \in DiffLines, ReadLine(l),
         NEW n, n = Len(lines)
  PROVE  verdict' = IF LineFits(l, n) THEN "reading" ELSE "refused"
<1>0. /\ in_hunk \in BOOLEAN /\ (in_hunk <=> InHunk)
      /\ current_path = FileOf(n + 1)
  BY ReadingFacts
<1>a. ASSUME in_hunk
      PROVE  /\ OldCount = lines[Current].header.o <=> old_remaining = 0
             /\ NewCount = lines[Current].header.n <=> new_remaining = 0
             /\ OldCount < lines[Current].header.o <=> old_remaining >= 1
             /\ NewCount < lines[Current].header.n <=> new_remaining >= 1
             /\ NewCount < lines[Current].header.n <=> new_remaining > 0
  <2>1. /\ OldCount \in Nat /\ NewCount \in Nat
        /\ lines[Current].header.o \in Nat /\ lines[Current].header.n \in Nat
        /\ old_remaining = lines[Current].header.o - OldCount
        /\ new_remaining = lines[Current].header.n - NewCount
    BY <1>a, ReadingFacts
  <2> QED BY <2>1, Remaining
<1>1. CASE l.kind = "git"
  <2>1. LineFits(l, n) <=> HunkFinished
    BY <1>0, <1>a, <1>1 DEF LineFits, HunkFinished
  <2>2. GitLine
    BY <1>1 DEF ReadLine, ParseLine
  <2> QED BY <2>1, <2>2 DEF GitLine, Refuse
<1>2. CASE l.kind = "file" /\ ~in_hunk
  <2>1. LineFits(l, n) <=> l.path \in Paths
    BY <1>0, <1>2 DEF LineFits
  <2>2. FileLine(l.path)
    BY <1>2 DEF ReadLine, ParseLine
  <2> QED BY <2>1, <2>2 DEF FileLine, Refuse
<1>3. CASE l.kind = "hunk"
  <2>1. LineFits(l, n) <=> HunkFinished /\ current_path # NoPath
    BY <1>0, <1>a, <1>3 DEF LineFits, HunkFinished
  <2>2. HunkLine(l.header)
    BY <1>3 DEF ReadLine, ParseLine
  <2> QED BY <2>1, <2>2 DEF HunkLine, Refuse
<1>4. CASE l.kind = "badhunk"
  BY <1>4 DEF LineFits, ReadLine, ParseLine, Refuse
<1>5. CASE l.kind \notin {"git", "file", "hunk", "badhunk"} /\ ~in_hunk
  BY <1>0, <1>5 DEF LineFits, ReadLine, ParseLine, Ignored
<1>6. CASE l.kind = "eof" /\ in_hunk
  BY <1>0, <1>6 DEF LineFits, ReadLine, ParseLine, Ignored
<1>7. CASE l.kind = " " /\ in_hunk
  <2>1. LineFits(l, n) <=> old_remaining >= 1 /\ new_remaining >= 1
    BY <1>0, <1>a, <1>7 DEF LineFits
  <2>2. ContextLine
    BY <1>7 DEF ReadLine, ParseLine
  <2> QED BY <2>1, <2>2 DEF ContextLine, Refuse
<1>8. CASE l.kind = "-" /\ in_hunk
  <2>1. LineFits(l, n) <=> old_remaining >= 1
    BY <1>0, <1>a, <1>8 DEF LineFits
  <2>2. RemovedLine
    BY <1>8 DEF ReadLine, ParseLine
  <2> QED BY <2>1, <2>2 DEF RemovedLine, Refuse
<1>9. CASE l.kind \in {"+", "file"} /\ in_hunk
  <2>1. LineFits(l, n) <=> new_remaining > 0
    BY <1>0, <1>a, <1>9 DEF LineFits
  <2>2. AddedLine
    BY <1>9 DEF ReadLine, ParseLine
  <2> QED BY <2>1, <2>2 DEF AddedLine, Refuse
<1>10. CASE l.kind \in {"blank", "other"} /\ in_hunk
  BY <1>0, <1>10 DEF LineFits, ReadLine, ParseLine, Refuse
<1> QED BY <1>1, <1>2, <1>3, <1>4, <1>5, <1>6, <1>7, <1>8, <1>9, <1>10, LineFields DEF Plain

\* parse_unified_diff refuses a line exactly if no readable diff begins so.
LEMMA RefusesExactly ==
  ASSUME DiffTypeOK, ParserOK, verdict = "reading", cuts = 0, NEW l \in DiffLines, ReadLine(l)
  PROVE  verdict' \in {"reading", "refused"} /\ (verdict' = "refused" <=> ~Readable(FALSE)')
<1>1. PICK n : n = Len(lines)
  OBVIOUS
<1>2. Reads(l, n) /\ Readable(FALSE)
  BY <1>1, ReadingFacts
<1> QED BY <1>1, <1>2, RefusesMisfits, NextReadable

\* Whatever the line or piece, the variables keep their types.
LEMMA ParseLineTypes ==
  ASSUME DiffTypeOK, verdict = "reading", NEW l \in DiffLines, ParseLine(l),
         lines' \in Seq(DiffLines), cuts' \in 0..MaxCuts
  PROVE  DiffTypeOK' /\ verdict' \in {"reading", "refused"}
<1>0. /\ in_hunk \in BOOLEAN /\ current_path \in Paths \cup {NoPath}
      /\ old_remaining \in Int /\ new_remaining \in Int /\ new_line \in Nat
      /\ added \in [Paths -> SUBSET Nat]
  BY DEF DiffTypeOK
<1>1. CASE Refuse
  BY <1>0, <1>1 DEF Refuse, counters, DiffTypeOK
<1>2. CASE Ignored
  BY <1>0, <1>2 DEF Ignored, counters, DiffTypeOK
<1>3. CASE GitLine /\ ~Refuse
  BY <1>0, <1>3 DEF GitLine, DiffTypeOK
<1>4. CASE l.kind = "file" /\ FileLine(l.path) /\ ~Refuse
  BY <1>0, <1>4 DEF FileLine, counters, DiffTypeOK
<1>5. CASE l.kind = "hunk" /\ HunkLine(l.header) /\ ~Refuse
  <2>1. /\ in_hunk' = TRUE /\ old_remaining' = l.header.o /\ new_remaining' = l.header.n
        /\ new_line' = l.header.s /\ UNCHANGED <<verdict, current_path, added>>
    BY <1>5 DEF HunkLine
  <2>2. old_remaining' \in Int /\ new_remaining' \in Int /\ new_line' \in Nat
    BY <1>5, <2>1, LineFields
  <2> QED BY <1>0, <2>1, <2>2 DEF DiffTypeOK
<1>6. CASE ContextLine /\ ~Refuse
  BY <1>0, <1>6 DEF ContextLine, DiffTypeOK
<1>7. CASE RemovedLine /\ ~Refuse
  BY <1>0, <1>7 DEF RemovedLine, DiffTypeOK
<1>8. CASE AddedLine /\ ~Refuse
  <2>1. /\ added' = [added EXCEPT ![current_path] = @ \cup {new_line}]
        /\ new_remaining' = new_remaining - 1 /\ new_line' = new_line + 1
        /\ UNCHANGED <<verdict, current_path, in_hunk, old_remaining>>
    BY <1>8 DEF AddedLine
  <2>2. added' \in [Paths -> SUBSET Nat]
    BY <1>0, <2>1
  <2>3. new_remaining' \in Int /\ new_line' \in Nat
    BY <1>0, <2>1
  <2> QED BY <1>0, <2>1, <2>2, <2>3 DEF DiffTypeOK
<1> QED BY <1>1, <1>2, <1>3, <1>4, <1>5, <1>6, <1>7, <1>8 DEF ParseLine

\* Every line read leaves the parser's state right.
LEMMA ReadKeepsSection ==
  ASSUME DiffTypeOK, ParserOK, verdict = "reading", cuts = 0, NEW l \in DiffLines, ReadLine(l),
         verdict' = "reading"
  PROVE  SectionOK' /\ PathOK'
<1>n. PICK n : n = Len(lines)
  OBVIOUS
<1>0. /\ Reads(l, n) /\ lines' \in Seq(DiffLines) /\ n \in Nat /\ Len(lines') = n + 1
      /\ in_hunk \in BOOLEAN /\ (in_hunk <=> InHunk)
      /\ current_path = FileOf(n + 1) /\ current_path \in Paths \cup {NoPath}
      /\ old_remaining \in Int /\ new_remaining \in Int /\ new_line \in Nat
      /\ added \in [Paths -> SUBSET Nat]
      /\ in_hunk => current_path = FileOf(Current) /\ current_path \in Paths
  BY <1>n, ReadingFacts DEF Reads
<1>1. Current' = IF l.kind \in {"git", "hunk"} THEN n + 1 ELSE Current
  BY <1>0, NextCurrent
<1>2. lines'[n + 1] = l /\ (Current # 0 => lines'[Current] = lines[Current])
      /\ Current \in 0..n
  BY <1>0, CurrentIs DEF Reads
<1>3. FileOf(n + 2)' = IF l.kind = "git" THEN NoPath
                       ELSE IF l.kind = "file" /\ ~InHunk THEN l.path ELSE FileOf(n + 1)
  BY <1>0, NextFile
<1>4. PathOK' <=> /\ current_path' = FileOf(n + 2)'
                  /\ in_hunk' => current_path' = FileOf(Current)' /\ current_path' # NoPath
  <2>1. Len(lines') + 1 = n + 2
    BY <1>0
  <2> QED BY <2>1 DEF PathOK
<1>5. SectionOK' <=> (in_hunk' <=> Current' # 0 /\ lines'[Current'].kind = "hunk")
  BY DEF SectionOK
<1>6. CASE l.kind = "git"
  <2>1. /\ in_hunk' = FALSE /\ current_path' = NoPath
        /\ UNCHANGED <<verdict, old_remaining, new_remaining, new_line, added>>
    BY <1>6 DEF ReadLine, ParseLine, GitLine, Refuse
  <2> QED BY <1>0, <1>1, <1>2, <1>3, <1>4, <1>5, <1>6, <2>1
<1>7. CASE l.kind = "file" /\ ~in_hunk
  <2>1. l.path \in Paths /\ current_path' = l.path /\ UNCHANGED <<verdict, counters, added>>
    BY <1>7 DEF ReadLine, ParseLine, FileLine, Refuse
  <2> QED BY <1>0, <1>1, <1>2, <1>3, <1>4, <1>5, <1>7, <2>1 DEF counters, InHunk
<1>8. CASE l.kind = "hunk"
  <2>1. /\ HunkFinished /\ current_path # NoPath
        /\ in_hunk' = TRUE /\ old_remaining' = l.header.o /\ new_remaining' = l.header.n
        /\ new_line' = l.header.s /\ UNCHANGED <<verdict, current_path, added>>
    BY <1>8 DEF ReadLine, ParseLine, HunkLine, Refuse
  <2>2. FileOf(Current)' = FileOf(n + 1)'
    BY <1>1, <1>8
  <2>3. FileOf(n + 1)' = FileOf(n + 1)
    BY <1>0, FileOfKept
  <2> QED BY <1>0, <1>1, <1>2, <1>3, <1>4, <1>5, <1>8, <2>1, <2>2, <2>3
<1>9. CASE l.kind \notin {"git", "hunk"} /\ ~(l.kind = "file" /\ ~in_hunk)
  <2>1. UNCHANGED <<verdict, current_path, in_hunk>>
    BY <1>9 DEF ReadLine, ParseLine, Ignored, ContextLine, RemovedLine, AddedLine, Refuse, counters
  <2>2. in_hunk => FileOf(Current)' = FileOf(Current)
    <3>1. ASSUME in_hunk, NEW h \in 1..(n + 1), h = Current PROVE FileOf(Current)' = FileOf(h)
      BY <1>0, <1>1, <1>9, <3>1, FileOfKept
    <3>2. in_hunk => Current \in 1..(n + 1)
      BY <1>0, <1>2 DEF InHunk
    <3> QED BY <3>1, <3>2
  <2> QED BY <1>0, <1>1, <1>2, <1>3, <1>4, <1>5, <1>9, <2>1, <2>2, DiffAssumption DEF InHunk
<1> QED BY <1>6, <1>7, <1>8, <1>9

LEMMA ReadKeepsCounts ==
  ASSUME DiffTypeOK, ParserOK, verdict = "reading", cuts = 0, NEW l \in DiffLines, ReadLine(l),
         verdict' = "reading"
  PROVE  CountsOK' /\ TrueAdded' = Found'
<1>n. PICK n : n = Len(lines)
  OBVIOUS
<1>0. /\ Reads(l, n) /\ n \in Nat
      /\ in_hunk \in BOOLEAN /\ (in_hunk <=> InHunk)
      /\ TrueAdded = Found /\ added \in [Paths -> SUBSET Nat] /\ new_line \in Nat
      /\ in_hunk => /\ Current \in 1..n
                    /\ current_path = FileOf(Current) /\ current_path \in Paths
                    /\ OldCount \in Nat /\ NewCount \in Nat
                    /\ lines[Current].header.o \in Nat /\ lines[Current].header.n \in Nat
                    /\ lines[Current].header.s \in Nat
                    /\ old_remaining = lines[Current].header.o - OldCount
                    /\ new_remaining = lines[Current].header.n - NewCount
                    /\ new_line = lines[Current].header.s + NewCount
  BY <1>n, ReadingFacts DEF Reads
<1>1. Current' = IF l.kind \in {"git", "hunk"} THEN n + 1 ELSE Current
  BY <1>0, NextCurrent
<1>2. lines'[n + 1] = l /\ (Current # 0 => lines'[Current] = lines[Current])
  BY <1>0, CurrentIs DEF Reads
<1>3. TrueAdded' = IF l.kind \in {"+", "file"} /\ InHunk
                   THEN TrueAdded \cup
                          {[path |-> FileOf(Current), line |-> lines[Current].header.s + NewCount]}
                   ELSE TrueAdded
  BY <1>0, NextTrueAdded DEF NewCount
<1>4. UNCHANGED added => Found' = Found
  BY DEF Found
<1>5. CASE l.kind = "hunk"
  <2>1. /\ old_remaining' = l.header.o /\ new_remaining' = l.header.n
        /\ new_line' = l.header.s /\ UNCHANGED added
    BY <1>5 DEF ReadLine, ParseLine, HunkLine, Refuse
  <2>2. n + 1 \in 1..(n + 1)
    BY <1>0
  <2>3. Cardinality(OldSide(n + 1)') = 0 /\ Cardinality(NewSide(n + 1)') = 0
    BY <1>0, <1>5, <2>2, NextCounts, NewHunkIsEmpty
  <2>4. OldSide(Current)' = OldSide(n + 1)' /\ NewSide(Current)' = NewSide(n + 1)'
        /\ lines'[Current'] = l
    BY <1>1, <1>2, <1>5
  <2>5. l.header.o \in Nat /\ l.header.n \in Nat /\ l.header.s \in Nat
    BY <1>5, LineFields
  <2>6. CountsOK'
    BY <2>1, <2>3, <2>4, <2>5 DEF CountsOK
  <2> QED BY <1>0, <1>3, <1>4, <1>5, <2>1, <2>6
<1>6. CASE l.kind # "hunk" /\ (l.kind = "git" \/ ~in_hunk)
  <2>1. in_hunk' = FALSE /\ UNCHANGED added
    BY <1>0, <1>6 DEF ReadLine, ParseLine, GitLine, FileLine, Ignored, Refuse, counters
  <2>2. CountsOK'
    BY <2>1 DEF CountsOK
  <2> QED BY <1>0, <1>3, <1>4, <1>6, <2>1, <2>2
<1>7. CASE l.kind \notin {"git", "hunk"} /\ in_hunk
  <2>1. PICK h \in 1..(n + 1) : h = Current
    BY <1>0, <1>7
  <2>2. Current' = h /\ lines'[h] = lines[h] /\ Current # 0
    BY <1>0, <1>1, <1>2, <1>7, <2>1 DEF InHunk
  <2>3. /\ Cardinality(OldSide(h)') = IF l.kind \in {" ", "-"} THEN OldCount + 1 ELSE OldCount
        /\ Cardinality(NewSide(h)') = IF l.kind \in {" ", "+", "file"} THEN NewCount + 1 ELSE NewCount
    BY <1>0, <1>7, <2>1, NextCounts DEF OldCount, NewCount
  <2>4. CountsOK' <=> (in_hunk' =>
          /\ old_remaining' = lines[h].header.o - Cardinality(OldSide(h)')
          /\ new_remaining' = lines[h].header.n - Cardinality(NewSide(h)')
          /\ new_line' = lines[h].header.s + Cardinality(NewSide(h)'))
    BY <2>2 DEF CountsOK
  <2>5. /\ old_remaining = lines[h].header.o - OldCount
        /\ new_remaining = lines[h].header.n - NewCount
        /\ new_line = lines[h].header.s + NewCount
        /\ old_remaining - 1 = lines[h].header.o - (OldCount + 1)
        /\ new_remaining - 1 = lines[h].header.n - (NewCount + 1)
        /\ new_line + 1 = lines[h].header.s + (NewCount + 1)
    <3>1. /\ OldCount \in Nat /\ NewCount \in Nat
          /\ lines[h].header.o \in Nat /\ lines[h].header.n \in Nat /\ lines[h].header.s \in Nat
          /\ old_remaining = lines[h].header.o - OldCount
          /\ new_remaining = lines[h].header.n - NewCount
          /\ new_line = lines[h].header.s + NewCount
      BY <1>0, <1>7, <2>1
    <3>2. (lines[h].header.o - OldCount) - 1 = lines[h].header.o - (OldCount + 1)
      BY <3>1, Remaining
    <3>3. (lines[h].header.n - NewCount) - 1 = lines[h].header.n - (NewCount + 1)
      BY <3>1, Remaining
    <3>4. (lines[h].header.s + NewCount) + 1 = lines[h].header.s + (NewCount + 1)
      BY <3>1, Remaining
    <3> QED BY <3>1, <3>2, <3>3, <3>4
  <2>6. CASE l.kind \in {"+", "file"}
    <3>1. /\ added' = [added EXCEPT ![current_path] = @ \cup {new_line}]
          /\ new_remaining' = new_remaining - 1 /\ new_line' = new_line + 1
          /\ UNCHANGED old_remaining
      BY <1>7, <2>6 DEF ReadLine, ParseLine, AddedLine, Refuse
    <3>2. Found' = Found \cup {[path |-> current_path, line |-> new_line]}
      BY <1>0, <1>7, <3>1, NextFound
    <3>3. CountsOK'
      BY <2>3, <2>4, <2>5, <2>6, <3>1
    <3> QED BY <1>0, <1>3, <1>7, <2>6, <3>2, <3>3
  <2>7. CASE l.kind = " "
    <3>1. /\ old_remaining' = old_remaining - 1 /\ new_remaining' = new_remaining - 1
          /\ new_line' = new_line + 1 /\ UNCHANGED added
      BY <1>7, <2>7 DEF ReadLine, ParseLine, ContextLine, Refuse
    <3>2. CountsOK'
      BY <2>3, <2>4, <2>5, <2>7, <3>1
    <3> QED BY <1>0, <1>3, <1>4, <2>7, <3>1, <3>2
  <2>8. CASE l.kind = "-"
    <3>1. old_remaining' = old_remaining - 1 /\ UNCHANGED <<new_remaining, new_line, added>>
      BY <1>7, <2>8 DEF ReadLine, ParseLine, RemovedLine, Refuse
    <3>2. CountsOK'
      BY <2>3, <2>4, <2>5, <2>8, <3>1
    <3> QED BY <1>0, <1>3, <1>4, <2>8, <3>1, <3>2
  <2>9. CASE l.kind \notin {"+", "file", " ", "-"}
    <3>1. UNCHANGED <<old_remaining, new_remaining, new_line, added>>
      BY <1>7, <2>9 DEF ReadLine, ParseLine, Ignored, Refuse, counters
    <3>2. CountsOK'
      BY <2>3, <2>4, <2>5, <2>9, <3>1
    <3> QED BY <1>0, <1>3, <1>4, <2>9, <3>1, <3>2
  <2> QED BY <2>6, <2>7, <2>8, <2>9
<1> QED BY <1>5, <1>6, <1>7

\* What a diff means depends on its lines only.
LEMMA MeaningKept ==
  ASSUME UNCHANGED lines
  PROVE  /\ TrueAdded' = TrueAdded /\ Current' = Current
         /\ Readable(TRUE)' = Readable(TRUE) /\ Readable(FALSE)' = Readable(FALSE)
         /\ \A h : /\ FileOf(h)' = FileOf(h)
                  /\ OldSide(h)' = OldSide(h) /\ NewSide(h)' = NewSide(h)
<1>1. \A i : Owner(i)' = Owner(i)
  BY DEF Owner
<1>2. \A i : InBody(i)' = InBody(i)
  BY <1>1 DEF InBody
<1>3. \A i : IsAdded(i)' = IsAdded(i)
  BY <1>2 DEF IsAdded
<1>4. \A h : Body(h)' = Body(h)
  BY <1>1, <1>2 DEF Body
<1>5. \A h : OldSide(h)' = OldSide(h) /\ NewSide(h)' = NewSide(h)
  BY <1>3, <1>4 DEF OldSide, NewSide
<1>6. \A h : FileOf(h)' = FileOf(h)
  BY <1>2 DEF FileOf
<1>7. \A i : RightSide(i)' = RightSide(i)
  BY <1>1, <1>5 DEF RightSide
<1>8. TrueAdded' = TrueAdded
  BY <1>1, <1>3, <1>6, <1>7 DEF TrueAdded
<1>9. (\A h : Ended(h)' = Ended(h)) /\ HunkAt' = HunkAt
  BY DEF Ended, HunkAt
<1>10. Readable(TRUE)' = Readable(TRUE) /\ Readable(FALSE)' = Readable(FALSE)
  BY <1>2, <1>5, <1>6, <1>9 DEF Readable, Supported, WellFormed
<1>11. Current' = Current
  BY <1>1 DEF Current
<1> QED BY <1>5, <1>6, <1>8, <1>10, <1>11

\* At the end of the lines only the last hunk can be short.
LEMMA EndsExactly ==
  ASSUME DiffTypeOK, ParserOK, EndOfDiff, cuts = 0
  PROVE  (verdict' = "refused" <=> ~Readable(TRUE)') /\ AddedLinesAreTrue'
<1>0. verdict = "reading" /\ UNCHANGED <<lines, cuts>>
  BY DEF EndOfDiff
<1>1. SectionOK /\ PathOK /\ CountsOK /\ TrueAdded = Found /\ Readable(FALSE)
  BY <1>0 DEF ParserOK
<1>2. PICK n \in Nat : n = Len(lines)
  BY DEF DiffTypeOK
<1>3. (\A i \in 1..n : LineOK(i)) /\ (\A h \in HunkAt : HunkOK(h, FALSE))
  BY <1>1, <1>2, ReadableIs
<1>4. Readable(TRUE) <=> \A h \in HunkAt : HunkOK(h, TRUE)
  BY <1>2, <1>3, ReadableIs
<1>5. \A h \in HunkAt : ~(InHunk /\ h = Current) => HunkOK(h, TRUE)
  BY <1>2, <1>3, OthersEnded DEF HunkOK
<1>6. in_hunk <=> InHunk
  BY <1>1 DEF SectionOK, InHunk
<1>7. ASSUME in_hunk
      PROVE  Current \in HunkAt /\ (HunkOK(Current, TRUE) <=> old_remaining = 0 /\ new_remaining = 0)
  <2>1. Current \in 1..n /\ Current \in HunkAt /\ lines[Current] \in DiffLines
    BY <1>2, <1>6, <1>7, CurrentBefore DEF InHunk, HunkAt, DiffTypeOK
  <2>2. lines[Current].header.o \in Nat /\ lines[Current].header.n \in Nat
    BY <1>6, <1>7, <2>1, LineFields DEF InHunk
  <2>3. OldCount \in Nat /\ NewCount \in Nat
    <3>1. OldSide(Current) \subseteq 1..n /\ NewSide(Current) \subseteq 1..n
      BY <1>2 DEF OldSide, NewSide, Body
    <3>2. IsFiniteSet(1..n)
      BY FS_Interval
    <3>3. IsFiniteSet(OldSide(Current)) /\ IsFiniteSet(NewSide(Current))
      BY <3>1, <3>2, FS_Subset
    <3> QED BY <3>3, FS_CardinalityType DEF OldCount, NewCount
  <2>4. /\ old_remaining = lines[Current].header.o - OldCount
        /\ new_remaining = lines[Current].header.n - NewCount
    BY <1>1, <1>7 DEF CountsOK, OldCount, NewCount
  <2>5. /\ OldCount = lines[Current].header.o <=> old_remaining = 0
        /\ NewCount = lines[Current].header.n <=> new_remaining = 0
    BY <2>2, <2>3, <2>4, Remaining
  <2>6. HunkOK(Current, FALSE)
    BY <1>3, <2>1
  <2> QED BY <2>1, <2>5, <2>6 DEF HunkOK, OldCount, NewCount
<1>8. Readable(TRUE) <=> HunkFinished
  BY <1>4, <1>5, <1>6, <1>7 DEF HunkFinished
<1>9. verdict' = IF HunkFinished THEN "parsed" ELSE "refused"
  BY DEF EndOfDiff, Refuse
<1>10. AddedLinesAreTrue'
  <2>1. UNCHANGED added
    BY DEF EndOfDiff, Refuse
  <2>2. TrueAdded' = Found'
    BY <1>0, <1>1, <2>1, MeaningKept DEF Found
  <2> QED BY <2>2 DEF AddedLinesAreTrue, Found, Pairs
<1> QED BY <1>0, <1>8, <1>9, <1>10, MeaningKept

LEMMA EndTypes ==
  ASSUME DiffTypeOK, EndOfDiff
  PROVE  DiffTypeOK' /\ verdict' \in {"parsed", "refused"} /\ UNCHANGED <<lines, cuts>>
<1>1. CASE Refuse
  BY <1>1 DEF DiffTypeOK, EndOfDiff, Refuse, counters
<1>2. CASE ~Refuse
  BY <1>2 DEF DiffTypeOK, EndOfDiff
<1> QED BY <1>1, <1>2

\* One line, a piece of one, or the end keeps the parser right.
LEMMA ParseKeepsDiffInv ==
  ASSUME DiffInv, (\E l \in DiffLines : ReadLine(l) \/ ReadPiece(l)) \/ EndOfDiff
  PROVE  DiffInv'
<1>0. DiffTypeOK /\ ParserOK /\ cuts \in 0..MaxCuts /\ MaxCuts \in Nat
  BY DiffAssumption DEF DiffInv, DiffTypeOK
<1>1. ASSUME NEW l \in DiffLines, ReadLine(l) PROVE DiffInv'
  <2>0. verdict = "reading" /\ ParseLine(l) /\ UNCHANGED cuts
    BY <1>1 DEF ReadLine
  <2>1. lines' \in Seq(DiffLines)
    BY <1>0, <1>1, ReadLineReads
  <2>2. DiffTypeOK' /\ verdict' \in {"reading", "refused"}
    BY <1>0, <2>0, <2>1, ParseLineTypes
  <2>3. ASSUME verdict' = "reading", cuts' = 0
        PROVE  SectionOK' /\ PathOK' /\ CountsOK' /\ TrueAdded' = Found' /\ Readable(FALSE)'
    <3>0. cuts = 0
      BY <2>0, <2>3
    <3>1. Readable(FALSE)'
      BY <1>0, <1>1, <2>0, <2>3, <3>0, RefusesExactly
    <3> QED BY <1>0, <1>1, <2>0, <2>3, <3>0, <3>1, ReadKeepsSection, ReadKeepsCounts
  <2> QED BY <2>2, <2>3 DEF DiffInv, ParserOK, AddedLinesAreTrue
<1>2. ASSUME NEW l \in DiffLines, ReadPiece(l) PROVE DiffInv'
  <2>0. /\ verdict = "reading" /\ ParseLine(l) /\ lines' = lines
        /\ cuts < MaxCuts /\ cuts' = cuts + 1
    BY <1>2 DEF ReadPiece
  <2>1. lines' \in Seq(DiffLines) /\ cuts' \in 0..MaxCuts /\ cuts' # 0
    BY <1>0, <2>0 DEF DiffTypeOK
  <2>2. DiffTypeOK'
    BY <1>0, <2>0, <2>1, ParseLineTypes
  <2> QED BY <2>1, <2>2 DEF DiffInv, ParserOK, AddedLinesAreTrue
<1>3. CASE EndOfDiff
  <2>1. DiffTypeOK' /\ verdict' \in {"parsed", "refused"} /\ UNCHANGED <<lines, cuts>>
    BY <1>0, <1>3, EndTypes
  <2>2. cuts = 0 => AddedLinesAreTrue'
    BY <1>0, <1>3, EndsExactly
  <2> QED BY <2>1, <2>2 DEF DiffInv, ParserOK, AddedLinesAreTrue
<1> QED BY <1>1, <1>2, <1>3

LEMMA InitDiffInv == DiffInit => DiffInv
<1> SUFFICES ASSUME DiffInit PROVE DiffInv
  OBVIOUS
<1>0. lines = <<>> /\ cuts = 0 /\ Len(lines) = 0 /\ Len(lines) + 1 = 1 /\ 1..Len(lines) = {} /\ 1..0 = {}
  BY DEF DiffInit
<1>1. DiffTypeOK
  <2>1. lines \in Seq(DiffLines)
    BY <1>0
  <2>2. added \in [Paths -> SUBSET Nat]
    BY DEF DiffInit
  <2>3. old_remaining \in Int /\ new_remaining \in Int /\ new_line \in Nat
    BY DEF DiffInit
  <2>5. in_hunk \in BOOLEAN
    BY DEF DiffInit
  <2>4. verdict \in {"reading", "parsed", "refused"} /\ current_path \in Paths \cup {NoPath}
    BY DEF DiffInit
  <2>6. cuts \in 0..MaxCuts
    BY <1>0, DiffAssumption
  <2> QED BY <2>1, <2>2, <2>3, <2>4, <2>5, <2>6 DEF DiffTypeOK
<1>2. Current = 0
  <2>1. Len(lines) \in Nat
    BY <1>0
  <2> QED BY <1>0, <2>1, CurrentBefore
<1>3. FileOf(1) = NoPath
  BY <1>0 DEF FileOf
<1>4. SectionOK /\ PathOK /\ CountsOK
  BY <1>0, <1>2, <1>3 DEF DiffInit, SectionOK, PathOK, CountsOK
<1>5. TrueAdded = {}
  BY <1>0 DEF TrueAdded
<1>6. Found = {}
  <2>1. \A x : x \notin Found
    BY PairsAre DEF Found, DiffInit
  <2> QED BY <2>1
<1>7. Readable(FALSE)
  BY <1>0 DEF Readable, Supported, WellFormed, HunkAt
<1> QED BY <1>1, <1>4, <1>5, <1>6, <1>7 DEF DiffInit, DiffInv, ParserOK, AddedLinesAreTrue

-----------------------------------------------------------------------------
(* The review.                                                             *)

\* A step that leaves the diff alone leaves all that is known of it.
LEMMA DiffKept ==
  ASSUME DiffInv, UNCHANGED diffVars
  PROVE  /\ DiffInv' /\ TrueAdded' = TrueAdded
         /\ \A found : ValidateResult(found)' = ValidateResult(found)
<1>0. UNCHANGED <<lines, cuts, verdict, current_path, in_hunk, old_remaining, new_remaining, new_line,
                  added>>
  BY DEF diffVars, counters
<1>1. /\ TrueAdded' = TrueAdded /\ Current' = Current /\ Readable(FALSE)' = Readable(FALSE)
      /\ \A h : /\ FileOf(h)' = FileOf(h)
                /\ OldSide(h)' = OldSide(h) /\ NewSide(h)' = NewSide(h)
  BY <1>0, MeaningKept
<1>2. Found' = Found
  BY <1>0 DEF Found
<1>3. DiffTypeOK'
  BY <1>0 DEF DiffInv, DiffTypeOK
<1>4. SectionOK' = SectionOK
  BY <1>0, <1>1 DEF SectionOK
<1>5. PathOK' = PathOK
  BY <1>0, <1>1 DEF PathOK
<1>6. CountsOK' = CountsOK
  BY <1>0, <1>1 DEF CountsOK
<1>7. ParserOK'
  BY <1>0, <1>1, <1>2, <1>4, <1>5, <1>6 DEF DiffInv, ParserOK
<1>8. AddedLinesAreTrue'
  BY <1>0, <1>1, <1>2 DEF DiffInv, AddedLinesAreTrue, Found, Pairs
<1>9. \A found : ValidateResult(found)' = ValidateResult(found)
  BY <1>0 DEF ValidateResult
<1> QED BY <1>1, <1>3, <1>7, <1>8, <1>9 DEF DiffInv

\* Findings that passed validate_result are on lines the diff adds.
LEMMA ValidatedIsTrue ==
  ASSUME DiffInv, verdict = "parsed", cuts = 0, findings \subseteq Locations, ValidateResult(findings)
  PROVE  findings \subseteq TrueAdded
<1>1. TrueAdded = Pairs(added)
  BY DEF DiffInv, AddedLinesAreTrue, Pairs
<1>2. ASSUME NEW x \in findings PROVE x \in Pairs(added)
  <2>1. x \in [path : Paths \cup {NoPath}, line : Nat]
    BY RequestAssumption
  <2>2. x.path \in Paths /\ x.line \in added[x.path]
    BY DEF ValidateResult
  <2>3. x = [path |-> x.path, line |-> x.line]
    BY <2>1
  <2> QED BY <2>2, <2>3, PairsAre
<1> QED BY <1>1, <1>2

LEMMA InitIInv == Init => IInv
<1> SUFFICES ASSUME Init PROVE IInv
  OBVIOUS
<1>1. DiffInv /\ verdict = "reading" /\ lines = <<>>
  BY InitDiffInv DEF Init, DiffInit
<1>2. TypeOK
  <2>1. returned \in BOOLEAN
    BY DEF Init
  <2> QED BY <1>1, <2>1, RequestAssumption DEF Init, TypeOK, DiffInv, Expected
<1>3. StageOK /\ RevisionOK /\ BrokerOK /\ ReviewIsOfTheBuild /\ FailureHasCause
  BY <1>1, RequestAssumption
     DEF Init, StageOK, RevisionOK, github, BrokerOK, ReviewIsOfTheBuild, FailureHasCause,
         diffVars, Expected
<1> QED BY <1>1, <1>2, <1>3 DEF IInv

\* The author pushes; a revision that comes back after the download is noted.
LEMMA PushKeeps == IInv /\ Push => IInv'
<1> SUFFICES ASSUME IInv, Push PROVE IInv'
  OBVIOUS
<1>0. TypeOK /\ DiffInv /\ UNCHANGED <<diffVars, review>>
  BY DEF IInv, Push
<1>1. DiffInv' /\ TrueAdded' = TrueAdded /\ ValidateResult(findings)' = ValidateResult(findings)
  BY <1>0, DiffKept DEF review, ValidateResult
<1>2. TypeOK'
  BY <1>0, <1>1, RequestAssumption DEF TypeOK, github, DiffInv, Push, review
<1>3. StageOK' /\ RevisionOK'
  BY <1>0, <1>1, RequestAssumption
     DEF IInv, TypeOK, StageOK, RevisionOK, github, Push, review, diffVars, Expected
<1>4. BrokerOK' /\ ReviewIsOfTheBuild' /\ FailureHasCause'
  BY <1>0, <1>1
     DEF IInv, BrokerOK, ReviewIsOfTheBuild, FailureHasCause, diffVars, review, Push
<1> QED BY <1>1, <1>2, <1>3, <1>4 DEF IInv

\* An exception with a cause ends the review.
LEMMA FailKeeps ==
  ASSUME IInv, NEW troubles, troubles \subseteq Troubles, Fail(troubles),
         troubles # {} \/ why # {} \/ attempt = MaxAttempts
  PROVE  IInv'
<1>0. /\ TypeOK /\ DiffInv /\ at' = "failed" /\ why' = why \cup troubles
      /\ UNCHANGED <<diffVars, github, fetched, broker, attempt, findings, posted>>
  BY DEF IInv, Fail, Blame
<1>1. DiffInv' /\ ValidateResult(findings)' = ValidateResult(findings)
  BY <1>0, DiffKept DEF ValidateResult
<1>2. TypeOK'
  BY <1>0, <1>1 DEF TypeOK, github, DiffInv
<1>3. StageOK' /\ RevisionOK'
  BY <1>0 DEF IInv, StageOK, RevisionOK, github, diffVars
<1>4. BrokerOK' /\ ReviewIsOfTheBuild' /\ FailureHasCause'
  BY <1>0, <1>1 DEF IInv, BrokerOK, ReviewIsOfTheBuild, FailureHasCause, github, diffVars
<1> QED BY <1>1, <1>2, <1>3, <1>4 DEF IInv

\* What is confirmed is the revision that was downloaded.
LEMMA VerifyKeeps ==
  ASSUME IInv, NEW from, NEW to, VerifyIdentity(from, to),
         <<from, to>> \in {<<"identify", "download">>, <<"confirm", "parse">>}
  PROVE  IInv'
<1>1. CASE Fail({"moved"}) \/ Fail({"unavailable"})
  BY <1>1, FailKeeps DEF Troubles
<1>2. CASE /\ at = from /\ revision = Expected /\ at' = to
           /\ UNCHANGED <<diffVars, github, fetched, broker, attempt, findings, posted, why>>
  <2>0. TypeOK /\ DiffInv
    BY DEF IInv
  <2>1. DiffInv' /\ ValidateResult(findings)' = ValidateResult(findings)
    BY <1>2, <2>0, DiffKept DEF ValidateResult
  <2>2. TypeOK'
    BY <1>2, <2>0, <2>1 DEF TypeOK, github, DiffInv
  <2>3. from = "confirm" => fetched = Expected \/ returned
    BY <1>2, <2>0 DEF IInv, RevisionOK, TypeOK, Expected
  <2>4. StageOK' /\ RevisionOK'
    BY <1>2, <2>3 DEF IInv, StageOK, RevisionOK, github, diffVars
  <2>5. BrokerOK' /\ ReviewIsOfTheBuild' /\ FailureHasCause'
    BY <1>2, <2>1 DEF IInv, BrokerOK, ReviewIsOfTheBuild, FailureHasCause, github, diffVars
  <2> QED BY <2>1, <2>2, <2>4, <2>5 DEF IInv
<1> QED BY <1>1, <1>2 DEF VerifyIdentity

LEMMA DownloadKeeps == IInv /\ Download => IInv'
<1> SUFFICES ASSUME IInv, Download PROVE IInv'
  OBVIOUS
<1>1. CASE Fail({"limit"}) \/ Fail({"unavailable"})
  BY <1>1, FailKeeps DEF Troubles
<1>2. CASE /\ at = "download" /\ fetched' = revision /\ at' = "confirm"
           /\ UNCHANGED <<diffVars, github, broker, attempt, findings, posted, why>>
  <2>0. TypeOK /\ DiffInv
    BY DEF IInv
  <2>1. DiffInv' /\ ValidateResult(findings)' = ValidateResult(findings)
    BY <1>2, <2>0, DiffKept DEF ValidateResult
  <2>2. TypeOK'
    BY <1>2, <2>0, <2>1 DEF TypeOK, github, DiffInv
  <2>3. StageOK' /\ RevisionOK'
    BY <1>2, <2>0, RequestAssumption DEF IInv, TypeOK, StageOK, RevisionOK, github, diffVars
  <2>4. BrokerOK' /\ ReviewIsOfTheBuild' /\ FailureHasCause'
    BY <1>2, <2>1 DEF IInv, BrokerOK, ReviewIsOfTheBuild, FailureHasCause, github, diffVars
  <2> QED BY <2>1, <2>2, <2>3, <2>4 DEF IInv
<1> QED BY <1>1, <1>2 DEF Download

LEMMA ParseKeeps == IInv /\ Parse => IInv'
<1> SUFFICES ASSUME IInv, Parse PROVE IInv'
  OBVIOUS
<1>0. TypeOK /\ DiffInv /\ at = "parse" /\ UNCHANGED <<github, review>>
  BY DEF IInv, Parse
<1>1. DiffInv'
  BY <1>0, ParseKeepsDiffInv DEF Parse
<1>2. TypeOK'
  BY <1>0, <1>1 DEF TypeOK, github, DiffInv, review
<1>3. broker = "idle" /\ attempt = 0
  BY <1>0 DEF IInv, StageOK, TypeOK
<1>4. StageOK' /\ RevisionOK'
  BY <1>0, <1>3 DEF IInv, StageOK, RevisionOK, github, review
<1>5. BrokerOK' /\ ReviewIsOfTheBuild' /\ FailureHasCause'
  BY <1>0, <1>3 DEF IInv, BrokerOK, ReviewIsOfTheBuild, FailureHasCause, github, diffVars, review
<1> QED BY <1>1, <1>2, <1>4, <1>5 DEF IInv

LEMMA ParsedKeeps == IInv /\ Parsed => IInv'
<1> SUFFICES ASSUME IInv, Parsed PROVE IInv'
  OBVIOUS
<1>1. CASE Fail({"limit"}) \/ Fail({"malformed"})
  BY <1>1, FailKeeps DEF Troubles
<1>2. CASE /\ at = "parse" /\ verdict = "parsed" /\ at' = "ask"
           /\ UNCHANGED <<diffVars, github, fetched, broker, attempt, findings, posted, why>>
  <2>0. TypeOK /\ DiffInv
    BY DEF IInv
  <2>1. DiffInv' /\ ValidateResult(findings)' = ValidateResult(findings)
    BY <1>2, <2>0, DiffKept DEF ValidateResult
  <2>2. TypeOK'
    BY <1>2, <2>0, <2>1 DEF TypeOK, github, DiffInv
  <2>3. StageOK' /\ RevisionOK'
    BY <1>2 DEF IInv, StageOK, RevisionOK, github, diffVars
  <2>4. BrokerOK' /\ ReviewIsOfTheBuild' /\ FailureHasCause'
    BY <1>2, <2>1 DEF IInv, BrokerOK, ReviewIsOfTheBuild, FailureHasCause, github, diffVars
  <2> QED BY <2>1, <2>2, <2>3, <2>4 DEF IInv
<1> QED BY <1>1, <1>2 DEF Parsed

LEMMA AskKeeps == IInv /\ Ask => IInv'
<1> SUFFICES ASSUME IInv, Ask PROVE IInv'
  OBVIOUS
<1>0. /\ TypeOK /\ DiffInv /\ at = "ask" /\ at' = "wait"
      /\ UNCHANGED <<diffVars, github, fetched, attempt, findings, posted>>
      /\ \/ broker' = "calling" /\ UNCHANGED why
         \/ broker' = "rejects" /\ why' = why \cup {"limit"}
  BY DEF IInv, Ask, Blame
<1>1. DiffInv'
  BY <1>0, DiffKept
<1>2. TypeOK'
  BY <1>0, <1>1 DEF TypeOK, github, DiffInv, Troubles
<1>3. broker = "idle" /\ attempt = 0 /\ verdict = "parsed" /\ (fetched = Expected \/ returned)
  BY <1>0 DEF IInv, StageOK, RevisionOK, github, TypeOK
<1>4. StageOK' /\ RevisionOK'
  BY <1>0, <1>3 DEF StageOK, RevisionOK, github, diffVars
<1>5. BrokerOK' /\ ReviewIsOfTheBuild' /\ FailureHasCause'
  BY <1>0, <1>3, RequestAssumption
     DEF IInv, BrokerOK, ReviewIsOfTheBuild, FailureHasCause, github, diffVars
<1> QED BY <1>1, <1>2, <1>4, <1>5 DEF IInv

\* One attempt: it answers with validated findings, is repeated, or was the last.
LEMMA CallOpenAIKeeps == IInv /\ CallOpenAI => IInv'
<1> SUFFICES ASSUME IInv, CallOpenAI PROVE IInv'
  OBVIOUS
<1>0. /\ TypeOK /\ DiffInv /\ broker = "calling" /\ attempt' = attempt + 1
      /\ UNCHANGED <<diffVars, at, github, fetched, posted>>
  BY DEF IInv, CallOpenAI
<1>1. /\ DiffInv' /\ TrueAdded' = TrueAdded
      /\ \A found : ValidateResult(found)' = ValidateResult(found)
  BY <1>0, DiffKept
<1>2. attempt < MaxAttempts /\ attempt \in 0..MaxAttempts /\ attempt' \in 0..MaxAttempts
  BY <1>0, RequestAssumption DEF IInv, BrokerOK, TypeOK
<1>3. verdict = "parsed" /\ at \in {"wait", "failed"}
  BY <1>0 DEF IInv, StageOK, BrokerOK
<1>4. /\ findings' \subseteq Locations /\ why' \subseteq Troubles /\ why \subseteq why'
      /\ broker' \in {"calling", "fails", "answers"}
      /\ broker' = "calling" => attempt' < MaxAttempts
      /\ broker' = "fails" => why' # {} \/ attempt' = MaxAttempts
      /\ broker' = "answers" => ValidateResult(findings)'
  <2>0. findings \subseteq Locations /\ why \subseteq Troubles
    BY <1>0 DEF TypeOK
  <2>r. ASSUME Retry, UNCHANGED why
        PROVE  /\ broker' \in {"calling", "fails"}
               /\ broker' = "calling" => attempt' < MaxAttempts
               /\ broker' = "fails" => attempt' = MaxAttempts
    BY <1>0, <1>2, <2>r, RequestAssumption DEF Retry
  <2>1. CASE broker' = "fails" /\ Blame({"fatal"}) /\ UNCHANGED findings
    BY <2>0, <2>1 DEF Blame, Troubles
  <2>2. CASE Retry /\ UNCHANGED <<findings, why>>
    BY <2>0, <2>2, <2>r
  <2>3. CASE \E f1, f2 \in Locations \cup {NoPath} :
               LET result == {f1, f2} \ {NoPath} IN
               /\ IF ValidateResult(result)
                  THEN broker' = "answers" /\ findings' = result
                  ELSE Retry /\ UNCHANGED findings
               /\ UNCHANGED why
    <3>1. PICK f1 \in Locations \cup {NoPath}, f2 \in Locations \cup {NoPath} :
            /\ IF ValidateResult({f1, f2} \ {NoPath})
               THEN broker' = "answers" /\ findings' = {f1, f2} \ {NoPath}
               ELSE Retry /\ UNCHANGED findings
            /\ UNCHANGED why
      BY <2>3
    <3>2. CASE ValidateResult({f1, f2} \ {NoPath})
      <4>1. findings' = {f1, f2} \ {NoPath} /\ broker' = "answers" /\ UNCHANGED why
        BY <3>1, <3>2
      <4>2. ValidateResult({f1, f2} \ {NoPath})'
        BY <1>1, <3>2
      <4>3. ValidateResult(findings)'
        BY <4>1, <4>2 DEF ValidateResult
      <4>4. findings' \subseteq Locations
        BY <4>1
      <4> QED BY <2>0, <4>1, <4>3, <4>4
    <3>3. CASE ~ValidateResult({f1, f2} \ {NoPath})
      BY <2>0, <2>r, <3>1, <3>3
    <3> QED BY <3>2, <3>3
  <2> QED BY <2>1, <2>2, <2>3 DEF CallOpenAI
<1>5. TypeOK'
  BY <1>0, <1>1, <1>2, <1>4 DEF TypeOK, github, DiffInv
<1>6. StageOK' /\ RevisionOK'
  BY <1>0, <1>3, <1>4 DEF IInv, StageOK, RevisionOK, github, diffVars
<1>7. BrokerOK'
  BY <1>0, <1>3, <1>4 DEF BrokerOK
<1>8. ReviewIsOfTheBuild' /\ FailureHasCause'
  BY <1>0, <1>2, <1>3, <1>4 DEF IInv, ReviewIsOfTheBuild, FailureHasCause, github, diffVars
<1> QED BY <1>1, <1>5, <1>6, <1>7, <1>8 DEF IInv

LEMMA BrokerStopsKeeps == IInv /\ BrokerStops => IInv'
<1> SUFFICES ASSUME IInv, BrokerStops PROVE IInv'
  OBVIOUS
<1>0. /\ TypeOK /\ DiffInv /\ broker = "calling" /\ broker' = "stopped"
      /\ why' = why \cup {"stopped"}
      /\ UNCHANGED <<diffVars, at, github, fetched, attempt, findings, posted>>
  BY DEF IInv, BrokerStops, Blame
<1>1. DiffInv' /\ TrueAdded' = TrueAdded
  BY <1>0, DiffKept
<1>2. TypeOK'
  BY <1>0, <1>1 DEF TypeOK, github, DiffInv, Troubles
<1>3. verdict = "parsed" /\ at \in {"wait", "failed"}
  BY <1>0 DEF IInv, StageOK, BrokerOK
<1>4. StageOK' /\ RevisionOK' /\ BrokerOK' /\ ReviewIsOfTheBuild' /\ FailureHasCause'
  BY <1>0, <1>3
     DEF IInv, StageOK, RevisionOK, github, BrokerOK, ReviewIsOfTheBuild, FailureHasCause,
                    diffVars
<1> QED BY <1>1, <1>2, <1>4 DEF IInv

\* The gateway's own validation never fails: it repeats the broker's.
LEMMA ReceiveKeeps == IInv /\ Receive => IInv'
<1> SUFFICES ASSUME IInv, Receive PROVE IInv'
  OBVIOUS
<1>0. TypeOK /\ DiffInv /\ at = "wait" /\ verdict = "parsed" /\ (fetched = Expected \/ returned)
  BY DEF IInv, Receive, StageOK, RevisionOK, github
<1>1. CASE broker \in {"rejects", "fails"} /\ Fail({})
  <2>1. why # {} \/ attempt = MaxAttempts
    BY <1>1 DEF IInv, BrokerOK
  <2> QED BY <1>1, <2>1, FailKeeps
<1>2. CASE Fail({"identity"})
  BY <1>2, FailKeeps DEF Troubles
<1>3. ~(broker = "answers" /\ ~ValidateResult(findings))
  BY DEF IInv, BrokerOK
<1>4. CASE /\ broker = "answers" /\ at' = "publish"
           /\ UNCHANGED <<diffVars, github, fetched, broker, attempt, findings, posted, why>>
  <2>1. DiffInv' /\ ValidateResult(findings)' = ValidateResult(findings)
    BY <1>0, <1>4, DiffKept DEF ValidateResult
  <2>2. TypeOK'
    BY <1>0, <1>4, <2>1 DEF TypeOK, github, DiffInv
  <2>3. StageOK' /\ RevisionOK'
    BY <1>0, <1>4 DEF IInv, StageOK, RevisionOK, github, diffVars
  <2>4. BrokerOK' /\ ReviewIsOfTheBuild' /\ FailureHasCause'
    BY <1>4, <2>1 DEF IInv, BrokerOK, ReviewIsOfTheBuild, FailureHasCause, github, diffVars
  <2> QED BY <2>1, <2>2, <2>3, <2>4 DEF IInv
<1> QED BY <1>1, <1>2, <1>3, <1>4 DEF Receive

LEMMA PublishKeeps == IInv /\ Publish => IInv'
<1> SUFFICES ASSUME IInv, Publish PROVE IInv'
  OBVIOUS
<1>0. /\ TypeOK /\ DiffInv /\ at = "publish" /\ verdict = "parsed" /\ (fetched = Expected \/ returned)
      /\ broker = "answers" /\ ValidateResult(findings)
  BY DEF IInv, Publish, StageOK, RevisionOK, github, BrokerOK
<1>1. CASE Fail({"unpublished"})
  BY <1>1, FailKeeps DEF Troubles
<1>2. CASE /\ at' = "published" /\ posted' = findings
           /\ UNCHANGED <<diffVars, github, fetched, broker, attempt, findings, why>>
  <2>1. /\ DiffInv' /\ ValidateResult(findings)' = ValidateResult(findings)
        /\ TrueAdded' = TrueAdded
    BY <1>0, <1>2, DiffKept DEF ValidateResult
  <2>2. TypeOK'
    BY <1>0, <1>2, <2>1 DEF TypeOK, github, DiffInv
  <2>3. StageOK' /\ RevisionOK'
    BY <1>0, <1>2 DEF IInv, StageOK, RevisionOK, github, diffVars
  <2>4. cuts = 0 => findings \subseteq TrueAdded
    BY <1>0, ValidatedIsTrue DEF TypeOK
  <2>5. ReviewIsOfTheBuild'
    BY <1>0, <1>2, <2>1, <2>4 DEF ReviewIsOfTheBuild, Expected, github, diffVars
  <2>6. BrokerOK' /\ FailureHasCause'
    BY <1>0, <1>2, <2>1 DEF IInv, BrokerOK, FailureHasCause
  <2> QED BY <2>1, <2>2, <2>3, <2>5, <2>6 DEF IInv
<1> QED BY <1>1, <1>2 DEF Publish

LEMMA StutterKeeps == IInv /\ UNCHANGED vars => IInv'
<1> SUFFICES ASSUME IInv, UNCHANGED vars PROVE IInv'
  OBVIOUS
<1>0. TypeOK /\ DiffInv /\ UNCHANGED <<diffVars, at, github, fetched, broker, attempt, findings,
                                       posted, why>>
  BY DEF IInv, vars, github
<1>1. DiffInv' /\ TrueAdded' = TrueAdded /\ ValidateResult(findings)' = ValidateResult(findings)
  BY <1>0, DiffKept DEF ValidateResult
<1>2. TypeOK'
  BY <1>0, <1>1 DEF TypeOK, github, DiffInv
<1>3. StageOK' /\ RevisionOK' /\ BrokerOK' /\ ReviewIsOfTheBuild' /\ FailureHasCause'
  BY <1>0, <1>1
     DEF IInv, StageOK, RevisionOK, github, BrokerOK, ReviewIsOfTheBuild, FailureHasCause,
                    diffVars
<1> QED BY <1>1, <1>2, <1>3 DEF IInv

LEMMA NextKeeps == IInv /\ [Next]_vars => IInv'
<1> SUFFICES ASSUME IInv, [Next]_vars PROVE IInv'
  OBVIOUS
<1>1. CASE VerifyIdentity("identify", "download") \/ VerifyIdentity("confirm", "parse")
  BY <1>1, VerifyKeeps
<1>2. CASE GiveUp
  BY <1>2, FailKeeps DEF GiveUp, Troubles
<1> QED BY <1>1, <1>2, DownloadKeeps, ParseKeeps, ParsedKeeps, AskKeeps, ReceiveKeeps, PublishKeeps,
           CallOpenAIKeeps, BrokerStopsKeeps, PushKeeps, StutterKeeps DEF Next, Gateway

-----------------------------------------------------------------------------
\* The invariant of the whole review, from the first push to the last comment.
THEOREM Invariant == Spec => []IInv
  BY InitIInv, NextKeeps, PTL DEF Spec

\* The parser, the broker and the gateway keep their types.
THEOREM TypeCorrect == Spec => []TypeOK
<1>1. IInv => TypeOK
  BY DEF IInv
<1> QED BY <1>1, Invariant, PTL

\* For a diff of any length, with any hunks, files and look-alike lines, of which
\* str.splitlines cuts no line, parse_unified_diff finds exactly the lines the
\* text adds, at their right-side positions.
THEOREM FindsTheAddedLines == Spec => []AddedLinesAreTrue
<1>1. IInv => AddedLinesAreTrue
  BY DEF IInv, DiffInv
<1> QED BY <1>1, Invariant, PTL

\* Of these diffs it refuses one at the first line that makes it malformed or
\* names a file it does not support (deleted, quoted), or at its end when the
\* last hunk is short, and never another one.
THEOREM RefusesTheUnreadable == Spec => RefusesExactlyUnreadable
<1> DEFINE Exact ==
      cuts' = 0 =>
        (verdict' = "refused" <=>
           ~(Supported' /\ IF lines' = lines THEN WellFormed(TRUE)' ELSE WellFormed(FALSE)'))
<1>1. ASSUME IInv, [Next]_vars PROVE [Exact]_diffVars
  <2>1. CASE UNCHANGED diffVars
    BY <2>1
  <2>2. CASE Parse
    <3>0. DiffTypeOK /\ ParserOK /\ cuts \in Nat
      BY <1>1, DiffAssumption DEF IInv, DiffInv, DiffTypeOK
    <3>1. ASSUME NEW l \in DiffLines, ReadLine(l) PROVE Exact
      <4>1. verdict = "reading" /\ UNCHANGED cuts
        BY <3>1 DEF ReadLine
      <4>2. Reads(l, Len(lines))
        BY <3>0, <3>1, ReadLineReads
      <4>3. lines' # lines
        BY <4>2 DEF Reads
      <4>4. cuts = 0 => (verdict' = "refused" <=> ~Readable(FALSE)')
        BY <3>0, <3>1, <4>1, RefusesExactly
      <4> QED BY <4>1, <4>3, <4>4 DEF Readable
    <3>2. ASSUME NEW l \in DiffLines, ReadPiece(l) PROVE Exact
      BY <3>0, <3>2 DEF ReadPiece
    <3>3. CASE EndOfDiff
      <4>1. UNCHANGED <<lines, cuts>>
        BY <3>3 DEF EndOfDiff
      <4>2. cuts = 0 => (verdict' = "refused" <=> ~Readable(TRUE)')
        BY <3>0, <3>3, EndsExactly
      <4> QED BY <4>1, <4>2 DEF Readable
    <3> QED BY <2>2, <3>1, <3>2, <3>3 DEF Parse
  <2> QED BY <1>1, <2>1, <2>2 DEF Next, Gateway, VerifyIdentity, Download, Parsed, Ask, GiveUp,
                                  Receive, Publish, CallOpenAI, BrokerStops, Push, Fail, vars
<1> QED BY <1>1, Invariant, PTL DEF Spec, RefusesExactlyUnreadable

\* A published review is of the build's revision, whenever the pull request
\* moves, unless it is back at that revision after another one was downloaded;
\* where no line of the diff was cut it comments only on lines the diff adds.
THEOREM ReviewsTheBuild == Spec => []ReviewIsOfTheBuild
<1>1. IInv => ReviewIsOfTheBuild
  BY DEF IInv
<1> QED BY <1>1, Invariant, PTL

\* A review fails only for a cause outside this code or after all attempts.
THEOREM FailuresHaveCauses == Spec => []FailureHasCause
<1>1. IInv => FailureHasCause
  BY DEF IInv
<1> QED BY <1>1, Invariant, PTL
=============================================================================
