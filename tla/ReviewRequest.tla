---------------------------- MODULE ReviewRequest ----------------------------
(***************************************************************************)
(* One AI review from its diff to its batched GitHub review: the gateway   *)
(* gets the diff (from the signed callback, or from GitHub when a passed   *)
(* build is reused), parses it, asks the review broker, which calls OpenAI *)
(* a bounded number of times, and validates the findings again before it   *)
(* publishes them.  Pushes to the pull request race the download and may   *)
(* go back to an earlier commit; the gateway's own timeout races the       *)
(* broker, which knows nothing of it.                                      *)
(***************************************************************************)
EXTENDS UnifiedDiff

CONSTANTS
  MaxAttempts,   \* OPENAI_MAX_RETRIES
  MaxRevision,   \* bound: revisions 0..MaxRevision of the pull request
  Locations      \* bound: the [path, line] a model may put a finding at

ASSUME RequestAssumption ==
  /\ MaxAttempts \in Nat \ {0}
  /\ MaxRevision \in Nat
  /\ Locations \subseteq [path : Paths \cup {NoPath}, line : Nat]

VARIABLES
  at,        \* where the gateway's review is
  revision,  \* GitHub: the revision (base and head) of the pull request
  returned,  \* history: it became Expected again after the download
  fetched,   \* the revision whose diff the gateway holds
  broker,    \* the broker's handler of the request
  attempt,   \* OpenAI calls of that handler
  findings,  \* the validated locations of the broker's result
  posted,    \* the comments of the published review
  why        \* history: what went wrong outside this code

vars == <<diffVars, at, revision, returned, fetched, broker, attempt, findings, posted, why>>
github == <<revision, returned>>
review == <<at, fetched, broker, attempt, findings, posted, why>>

\* The revision (base and head SHA) the build was made for.
Expected == 0
Troubles == {"moved", "unavailable", "limit", "malformed", "fatal", "timeout",
             "stopped", "identity", "unpublished"}

TypeOK ==
  /\ DiffTypeOK
  /\ at \in {"identify", "download", "confirm", "parse", "ask", "wait",
             "publish", "published", "failed"}
  /\ revision \in 0..MaxRevision /\ returned \in BOOLEAN
  /\ fetched \in {-1} \cup 0..MaxRevision
  /\ broker \in {"idle", "calling", "stopped", "rejects", "fails", "answers"}
  /\ attempt \in 0..MaxAttempts
  /\ findings \subseteq Locations
  /\ posted \subseteq Locations
  /\ why \subseteq Troubles

\* completion.diff comes with the callback of the build itself; a reused build
\* has none and downloads it.
Init ==
  /\ DiffInit
  /\ \/ at = "parse" /\ fetched = Expected
     \/ at = "identify" /\ fetched = -1
  /\ revision = Expected /\ returned = FALSE
  /\ broker = "idle"
  /\ attempt = 0
  /\ findings = {} /\ posted = {}
  /\ why = {}

Blame(troubles) == why' = why \cup troubles

\* An exception ends the request without a review.  record_failure publishes the
\* failure, except that a transport error of the identity GET or of the review
\* POST escapes it; what the retry loop does with those is AIReview's Raise.
Fail(troubles) ==
  /\ at' = "failed"
  /\ Blame(troubles)
  /\ UNCHANGED <<diffVars, github, fetched, broker, attempt, findings, posted>>

\* The author pushes, also back to a commit the pull request had before.  Later
\* pushes do not concern the request any more.
Push ==
  /\ at \in {"identify", "download", "confirm"}
  /\ revision' \in (0..MaxRevision) \ {revision}
  /\ returned' = (returned \/ (at = "confirm" /\ revision' = Expected))
  /\ UNCHANGED <<diffVars, review>>

-----------------------------------------------------------------------------
VerifyIdentityOnce(from, to) ==
  /\ at = from
  /\ \/ /\ revision = Expected \/ from = "confirm"
        /\ at' = to
        /\ UNCHANGED <<diffVars, github, fetched, broker, attempt, findings, posted, why>>
     \/ revision # Expected /\ Fail({"moved"})
     \/ Fail({"unavailable"})

\* verify_identity of pull_request_diff, before and after the download.
VerifyIdentity(from, to) ==
  /\ at = from
  /\ \/ /\ revision = Expected
        /\ at' = to
        /\ UNCHANGED <<diffVars, github, fetched, broker, attempt, findings, posted, why>>
     \/ revision # Expected /\ Fail({"moved"})
     \/ Fail({"unavailable"})

\* The diff GitHub streams is that of the revision it has now; it may be too
\* long, declared or counted, or not arrive.
Download ==
  /\ at = "download"
  /\ \/ /\ fetched' = revision
        /\ at' = "confirm"
        /\ UNCHANGED <<diffVars, github, broker, attempt, findings, posted, why>>
     \/ Fail({"limit"})
     \/ Fail({"unavailable"})

\* parse_unified_diff line by line; nothing is awaited meanwhile.
Parse ==
  /\ at = "parse"
  /\ \/ \E l \in DiffLines : ReadLine(l) \/ ReadPiece(l)
     \/ EndOfDiff
  /\ UNCHANGED <<github, review>>

\* A diff over policy.max_diff_bytes is not parsed; a parsed one is sent.
Parsed ==
  /\ at = "parse"
  /\ \/ verdict = "reading" /\ lines = <<>> /\ Fail({"limit"})
     \/ verdict = "refused" /\ Fail({"malformed"})
     \/ /\ verdict = "parsed"
        /\ at' = "ask"
        /\ UNCHANGED <<diffVars, github, fetched, broker, attempt, findings, posted, why>>

-----------------------------------------------------------------------------
\* The POST reaches the broker, whose own limits answer 422 (an empty diff is one
\* of them); it parses the diff with the same parser and so with the same result.
Ask ==
  /\ at = "ask"
  /\ at' = "wait"
  /\ \/ lines # <<>> /\ broker' = "calling" /\ UNCHANGED why
     \/ broker' = "rejects" /\ Blame({"limit"})
  /\ UNCHANGED <<diffVars, github, fetched, attempt, findings, posted>>

\* Another attempt, if one is left; otherwise OpenAIReviewError, answered 502.
Retry == broker' = IF attempt + 1 < MaxAttempts THEN "calling" ELSE "fails"

CallOpenAIGivesUpOnBadLocation ==
  /\ broker = "calling"
  /\ attempt' = attempt + 1
  /\ \/ broker' = "fails" /\ Blame({"fatal"}) /\ UNCHANGED findings
     \/ Retry /\ UNCHANGED <<findings, why>>
     \/ \E f1, f2 \in Locations \cup {NoPath} :
          LET result == {f1, f2} \ {NoPath} IN
          /\ IF ValidateResult(result)
             THEN broker' = "answers" /\ findings' = result
             ELSE broker' = "fails" /\ UNCHANGED findings
          /\ UNCHANGED why
  /\ UNCHANGED <<diffVars, at, github, fetched, posted>>

\* One attempt of OpenAIReviewClient.review: a rejected request is final, and so
\* is an error the loop does not name (a body that httpx cannot decode); a
\* timeout, a transport error, a transient status, too much or malformed output
\* and a finding that is not on an added line are tried again.
CallOpenAI ==
  /\ broker = "calling"
  /\ attempt' = attempt + 1
  /\ \/ broker' = "fails" /\ Blame({"fatal"}) /\ UNCHANGED findings
     \/ Retry /\ UNCHANGED <<findings, why>>
     \/ \E f1, f2 \in Locations \cup {NoPath} :
          LET result == {f1, f2} \ {NoPath} IN
          /\ IF ValidateResult(result)
             THEN broker' = "answers" /\ findings' = result
             ELSE Retry /\ UNCHANGED findings
          /\ UNCHANGED why
  /\ UNCHANGED <<diffVars, at, github, fetched, posted>>

\* The broker's container stops: nobody answers this request.
BrokerStops ==
  /\ broker = "calling"
  /\ broker' = "stopped"
  /\ Blame({"stopped"})
  /\ UNCHANGED <<diffVars, at, github, fetched, attempt, findings, posted>>

GiveUpNever == FALSE

\* The 90 s of ReviewBrokerClient end, or the connection breaks; the broker
\* goes on with what it is doing.
GiveUp == at = "wait" /\ Fail({"timeout"})

\* The answer: an error status, a result of another model or prompt, or one
\* whose findings the gateway validates against its own parse of the diff.
Receive ==
  /\ at = "wait"
  /\ \/ broker \in {"rejects", "fails"} /\ Fail({})
     \/ broker = "answers" /\ Fail({"identity"})
     \/ broker = "answers" /\ ~ValidateResult(findings) /\ Fail({})
     \/ /\ broker = "answers" /\ ValidateResult(findings)
        /\ at' = "publish"
        /\ UNCHANGED <<diffVars, github, fetched, broker, attempt, findings, posted, why>>

\* create_review posts all comments at once, or raises.
Publish ==
  /\ at = "publish"
  /\ \/ /\ at' = "published"
        /\ posted' = findings
        /\ UNCHANGED <<diffVars, github, fetched, broker, attempt, findings, why>>
     \/ Fail({"unpublished"})

-----------------------------------------------------------------------------
Gateway ==
  \/ VerifyIdentity("identify", "download")
  \/ Download
  \/ VerifyIdentity("confirm", "parse")
  \/ Parse \/ Parsed
  \/ Ask \/ GiveUp \/ Receive \/ Publish

Next == Gateway \/ CallOpenAI \/ BrokerStops \/ Push

\* Every await of the gateway has a timeout, and its parse is a bounded loop.
Fairness == WF_vars(Gateway)

Spec == Init /\ [][Next]_vars /\ Fairness

-----------------------------------------------------------------------------
\* A published review is of the revision the build was made for, although the
\* pull request moves while pull_request_diff downloads, unless it came back to
\* that revision before the second verify_identity, which compares SHAs and so
\* cannot tell; and each of its comments is on a line the diff really adds
\* (counted from the text), where splitlines cut none of its lines.
ReviewIsOfTheBuild ==
  at = "published" =>
    /\ fetched = Expected \/ returned
    /\ cuts = 0 => posted \subseteq TrueAdded

\* A review fails only for a cause outside this code, or after OpenAI was asked
\* as often as configured: no retryable answer ends the broker's loop early.
FailureHasCause == at = "failed" => why # {} \/ attempt = MaxAttempts

\* Every review ends, published or failed, also when the broker dies.
ReviewEnds == <>(at \in {"published", "failed"})

-----------------------------------------------------------------------------
(* What the documentation says and the code does not keep.                 *)

\* docs/architecture.md: the gateway "independently validates every proposed path
\* and added line before publishing one batched GitHub review".  splitlines also
\* cuts at characters that git leaves inside a line, in a complete diff too.
CommentsAreOnAddedLines == at = "published" /\ GitDiff(TRUE) => posted \subseteq TrueAdded

\* docs/architecture.md: the gateway "verifies the expected base and head
\* identities before and after the download".  A revision that went away and
\* came back passes both checks with another diff.
ReviewedIsExpected == at = "published" => fetched = Expected
=============================================================================
