----------------------------- MODULE RateLimit -----------------------------
(***************************************************************************)
(* What the limiter promises a token, without saying how: of the instants  *)
(* at which its requests have passed, only those less than a window ago    *)
(* count.  A request passes when they are fewer than the limit, and is     *)
(* refused only when they are not.                                         *)
(***************************************************************************)
EXTENDS Integers, Sequences, FiniteSets

CONSTANTS Tokens, Limit, Window, MaxTime

VARIABLES now, admitted, refused

InWindow(t) == {i \in 1..Len(admitted[t]) : admitted[t][i] > now - Window}
Full(t) == Cardinality(InWindow(t)) >= Limit

Never == [first |-> -1, last |-> -1]

Init ==
  /\ now = 0
  /\ admitted = [t \in Tokens |-> <<>>]
  /\ refused = [t \in Tokens |-> Never]

Tick == now < MaxTime /\ now' = now + 1 /\ UNCHANGED <<admitted, refused>>

Pass(t) ==
  /\ ~Full(t)
  /\ admitted' = [admitted EXCEPT ![t] = Append(@, now)]
  /\ refused' = [refused EXCEPT ![t] = Never]
  /\ UNCHANGED now

TooMany(t) ==
  /\ Full(t)
  /\ refused' = [refused EXCEPT ![t] =
       [first |-> IF @ = Never THEN now ELSE @.first, last |-> now]]
  /\ UNCHANGED <<now, admitted>>

Next == Tick \/ \E t \in Tokens : Pass(t) \/ TooMany(t)

Spec == Init /\ [][Next]_<<now, admitted, refused>>
=============================================================================
