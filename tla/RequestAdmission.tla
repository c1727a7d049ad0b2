-------------------------- MODULE RequestAdmission --------------------------
(***************************************************************************)
(* How a request gets to an operation: the security middleware of app.py   *)
(* with its sliding-window limiter, then the REST endpoint of the registry *)
(* or an MCP resource or tool.  The middleware awaits nothing before it    *)
(* calls the next handler, so its checks are one step; from there on the   *)
(* requests in flight interleave at their awaits.                          *)
(***************************************************************************)
EXTENDS Integers, Sequences

CONSTANTS
  Slots,      \* requests that can be in flight at once
  Tokens,     \* token ids of the secret file
  Stranger,   \* no bearer token, or one that matches no digest
  Scopes,     \* Scope
  Implied,    \* SCOPE_IMPLICATIONS
  Granted,    \* the scopes of each token
  Limit,      \* rate_limit_per_minute
  Window,     \* window_seconds, in ticks of the clock
  MaxTime     \* bound: ticks

ASSUME AdmissionAssumption ==
  /\ Stranger \notin Tokens
  /\ Implied \in [Scopes -> SUBSET Scopes]
  /\ Granted \in [Tokens -> SUBSET Scopes]
  /\ Limit \in Nat \ {0}
  /\ Window \in Nat \ {0}
  /\ MaxTime \in Nat

VARIABLES
  now,        \* time.monotonic()
  bucket,     \* SlidingWindowLimiter._requests
  request,    \* the request of each slot
  context,    \* current_principal in the context of each request's task
  admitted,   \* history: the instants at which a token's requests passed
  refused     \* history: first and last 429 of a token since then

vars == <<now, bucket, request, context, admitted, refused>>

\* request.state.principal, the operation's scope and how the request got in.
Handling(entry, token, scope) ==
  [at |-> "handling", entry |-> entry, token |-> token, scope |-> scope]
\* The operation is running for an authenticated token, as a principal.
Working(token, actor, scope) ==
  [at |-> "working", token |-> token, actor |-> actor, scope |-> scope]
Idle == [at |-> "idle"]
Answered == [at |-> "answered"]
Entries == {"rest", "mcp"}

RequestStates ==
  {Idle, Answered}
    \cup [at : {"handling"}, entry : Entries, token : Tokens, scope : Scopes]
    \cup [at : {"working"}, token : Tokens, actor : Tokens, scope : Scopes]

TypeOK ==
  /\ now \in 0..MaxTime
  /\ bucket \in [Tokens -> Seq(0..MaxTime)]
  /\ \A t \in Tokens : Len(bucket[t]) <= Limit
  /\ request \in [Slots -> RequestStates]
  /\ context \in [Slots -> Tokens \cup {Stranger}]
  /\ admitted \in [Tokens -> Seq(0..MaxTime)]
  /\ refused \in [Tokens -> [first : -1..MaxTime, last : -1..MaxTime]]

Never == [first |-> -1, last |-> -1]

Init ==
  /\ now = 0
  /\ bucket = [t \in Tokens |-> <<>>]
  /\ request = [s \in Slots |-> Idle]
  /\ context = [s \in Slots |-> Stranger]
  /\ admitted = [t \in Tokens |-> <<>>]
  /\ refused = [t \in Tokens |-> Never]

Tick ==
  /\ now < MaxTime
  /\ now' = now + 1
  /\ UNCHANGED <<bucket, request, context, admitted, refused>>

-----------------------------------------------------------------------------
ExpiredEarly(b, cutoff) ==
  CHOOSE i \in 0..Len(b) :
    /\ \A j \in 1..i : b[j] <= cutoff + 1
    /\ i < Len(b) => b[i + 1] > cutoff + 1

\* How many entries the loop of SlidingWindowLimiter.allow pops from the left.
Expired(b, cutoff) ==
  CHOOSE i \in 0..Len(b) :
    /\ \A j \in 1..i : b[j] <= cutoff
    /\ i < Len(b) => b[i + 1] > cutoff

Recent(t) == SubSeq(bucket[t], Expired(bucket[t], now - Window) + 1, Len(bucket[t]))

AllowTooFew(t) == Len(Recent(t)) < Limit - 1

Allow(t) == Len(Recent(t)) < Limit

RefuseAndCount(t) ==
  /\ bucket' = [bucket EXCEPT ![t] = Append(Tail(Recent(t)), now)]
  /\ refused' = [refused EXCEPT ![t] =
       [first |-> IF @ = Never THEN now ELSE @.first, last |-> now]]
  /\ UNCHANGED admitted

\* allow returns FALSE: the expired entries are gone, nothing is added.
RefuseByLimit(t) ==
  /\ bucket' = [bucket EXCEPT ![t] = Recent(t)]
  /\ refused' = [refused EXCEPT ![t] =
       [first |-> IF @ = Never THEN now ELSE @.first, last |-> now]]
  /\ UNCHANGED admitted

Admit(t) ==
  /\ bucket' = [bucket EXCEPT ![t] = Append(Recent(t), now)]
  /\ admitted' = [admitted EXCEPT ![t] = Append(@, now)]
  /\ refused' = [refused EXCEPT ![t] = Never]

Answer(s) == request' = [request EXCEPT ![s] = Answered]

\* security_middleware, in its order: the origin (403), HTTPS (400), a configured
\* authenticator (503) and the token (401) are refused before the limiter hears
\* of the request; an exempt path is passed on without it.
Refuse(s) ==
  /\ request[s] = Idle
  /\ Answer(s)
  /\ UNCHANGED <<now, bucket, context, admitted, refused>>

\* An authenticated request: over the limit (429), or passed on with its
\* principal in request.state and in the context.
Authenticated(s, t) ==
  /\ request[s] = Idle
  /\ \/ ~Allow(t) /\ RefuseByLimit(t) /\ Answer(s) /\ UNCHANGED context
     \/ /\ Allow(t) /\ Admit(t)
        /\ context' = [context EXCEPT ![s] = t]
        /\ \E e \in Entries, p \in Scopes :
             request' = [request EXCEPT ![s] = Handling(e, t, p)]
  /\ UNCHANGED now

-----------------------------------------------------------------------------
\* Principal.permits.
Permits(t, scope) == \E granted \in Granted[t] : scope \in Implied[granted]

CurrentPrincipalOfTheProcess(s) ==
  context[CHOOSE o \in Slots : context[o] # Stranger]

\* What current_principal.get() gives in the task of the request.
CurrentPrincipal(s) == context[s]

\* The REST endpoint takes the principal from request.state, an MCP resource or
\* tool from the context; both check the scope of the operation first.
Actor(s) == IF request[s].entry = "rest" THEN request[s].token ELSE CurrentPrincipal(s)

Dispatch(s) ==
  /\ request[s].at = "handling"
  /\ IF Permits(Actor(s), request[s].scope)
     THEN request' = [request EXCEPT ![s] = Working(@.token, Actor(s), @.scope)]
     ELSE Answer(s)
  /\ UNCHANGED <<now, bucket, context, admitted, refused>>

\* The operation has ended, with a result or an error, or the request was
\* refused; the middleware resets the context.
Finish(s) ==
  /\ request[s].at \in {"working", "answered"}
  /\ request' = [request EXCEPT ![s] = Idle]
  /\ context' = [context EXCEPT ![s] = Stranger]
  /\ UNCHANGED <<now, bucket, admitted, refused>>

Next ==
  \/ Tick
  \/ \E s \in Slots :
       Refuse(s) \/ Dispatch(s) \/ Finish(s) \/ \E t \in Tokens : Authenticated(s, t)

Spec == Init /\ [][Next]_vars

-----------------------------------------------------------------------------
\* SlidingWindowLimiter never lets more than Limit requests of a token pass
\* within less than a window: of any Limit + 1 consecutive ones, the last comes
\* a whole window after the first.
RateBounded ==
  \A t \in Tokens :
    \A i \in 1..(Len(admitted[t]) - Limit) :
      admitted[t][i + Limit] - admitted[t][i] >= Window

\* "Retry-After: 60" is honest: as long as a token is only refused, its refusals
\* lie within less than one window, so retrying does not prolong the wait.
RetryAfterHonest == \A t \in Tokens : refused[t].last - refused[t].first < Window

\* The deque of SlidingWindowLimiter forgets only what no longer counts: a request
\* passes exactly when fewer than Limit requests of its token have passed within
\* the last window, as RateLimit says of the whole history.
Ideal == INSTANCE RateLimit

ImplementsRateLimit == Ideal!Spec

\* An operation runs for the token its request was authenticated with, over REST
\* and over MCP and whatever else is in flight, and only with a scope that the
\* token was granted.
ActsForItsCaller ==
  \A s \in Slots :
    request[s].at = "working" =>
      /\ request[s].actor = request[s].token
      /\ Permits(request[s].token, request[s].scope)
=============================================================================
