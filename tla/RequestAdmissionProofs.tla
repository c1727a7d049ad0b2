----------------------- MODULE RequestAdmissionProofs -----------------------
(***************************************************************************)
(* TypeOK, RateBounded, RetryAfterHonest and ActsForItsCaller of           *)
(* RequestAdmission, and that it implements RateLimit, for any tokens,     *)
(* scopes, requests in flight, limit and window.                           *)
(***************************************************************************)
EXTENDS RequestAdmission, SequenceTheorems, FiniteSetTheorems, TLAPS

\* b, of length lb, is the end of a, of length la, and what comes before it in a
\* is at most c.
EndOf(b, lb, a, la, c) ==
  /\ lb <= la
  /\ \A i \in 1..lb : b[i] = a[(la - lb) + i]
  /\ \A i \in 1..(la - lb) : a[i] <= c

\* Of any limit + 1 consecutive entries of a, the last is w after the first.
SpacedOut(a, la, limit, w) == \A i \in 1..(la - limit) : a[i + limit] - a[i] >= w

\* The bucket of a token is the end of its history, and what is no longer in it
\* is a window old.
BucketIsSuffix(t) ==
  /\ EndOf(bucket[t], Len(bucket[t]), admitted[t], Len(admitted[t]), now - Window)
  /\ \A i \in 1..Len(admitted[t]) : admitted[t][i] <= now

\* While a token is refused its bucket is full of requests that were admitted
\* before the first refusal, and the last refusal found the oldest of them
\* still inside the window.
RefusedByOldest(t) ==
  \/ refused[t] = Never
  \/ /\ Len(bucket[t]) = Limit
     /\ refused[t].first >= bucket[t][1] /\ refused[t].last <= now
     /\ refused[t].last - bucket[t][1] < Window

\* A request in flight has its own principal in its context.
ContextIsCaller(s) == request[s].at = "handling" => context[s] = request[s].token

LimiterInv == \A t \in Tokens : BucketIsSuffix(t) /\ RefusedByOldest(t)
CallerInv == \A s \in Slots : ContextIsCaller(s)
IInv == TypeOK /\ LimiterInv /\ RateBounded /\ CallerInv /\ ActsForItsCaller

-----------------------------------------------------------------------------
(* Sequences of instants.                                                 *)

LEMMA LeastElement ==
  ASSUME NEW T, T \subseteq Nat, T # {}
  PROVE  \E x \in T : \A y \in T : x <= y
<1>1. PICK x \in T : \A y \in T : ~(<<y, x>> \in OpToRel(<, Nat))
  BY WFMin, NatLessThanWellFounded
<1>2. ASSUME NEW y \in T PROVE x <= y
  <2>1. x \in Nat /\ y \in Nat
    OBVIOUS
  <2>2. ~(y < x)
    BY <1>1, <2>1 DEF OpToRel
  <2> QED
    BY <2>1, <2>2
<1>3. QED
  BY <1>2

\* s2 is s, of length n, with x appended; r is b, of length lb, without its first
\* e entries, which are at most c.
Grown(s2, s, n, x) == s2[n + 1] = x /\ \A i \in 1..n : s2[i] = s[i]
Shrunk(r, b, lb, e, c) ==
  /\ \A i \in 1..(lb - e) : r[i] = b[e + i]
  /\ \A i \in 1..e : b[i] <= c

LEMMA SuffixShrinks ==
  ASSUME NEW a, NEW b, NEW r, NEW la \in Nat, NEW lb \in Nat, NEW e \in 0..lb, NEW c \in Int,
         EndOf(b, lb, a, la, c), Shrunk(r, b, lb, e, c)
  PROVE  EndOf(r, lb - e, a, la, c)
<1>1. ASSUME NEW i \in 1..(lb - e)
      PROVE  r[i] = a[(la - (lb - e)) + i]
  <2>1. e + i \in 1..lb /\ (la - lb) + (e + i) = (la - (lb - e)) + i
    OBVIOUS
  <2> QED
    BY <2>1 DEF EndOf, Shrunk
<1>2. ASSUME NEW i \in 1..(la - (lb - e))
      PROVE  a[i] <= c
  <2>1. CASE i <= la - lb
    BY <2>1 DEF EndOf
  <2>2. CASE i > la - lb
    <3>1. i - (la - lb) \in 1..e /\ i - (la - lb) \in 1..lb /\ (la - lb) + (i - (la - lb)) = i
      BY <2>2
    <3> QED
      BY <3>1 DEF EndOf, Shrunk
  <2> QED
    BY <2>1, <2>2
<1>3. QED
  BY <1>1, <1>2 DEF EndOf

LEMMA HistoryGrows ==
  ASSUME NEW a, NEW r, NEW a2, NEW r2, NEW la \in Nat, NEW lr \in Nat,
         NEW n \in Int, NEW w \in Nat, NEW limit \in Nat, lr < limit,
         \A i \in 1..la : a[i] \in Int,
         EndOf(r, lr, a, la, n - w), SpacedOut(a, la, limit, w),
         Grown(a2, a, la, n), Grown(r2, r, lr, n)
  PROVE  EndOf(r2, lr + 1, a2, la + 1, n - w) /\ SpacedOut(a2, la + 1, limit, w)
<1>1. ASSUME NEW i \in 1..(lr + 1)
      PROVE  r2[i] = a2[(la - lr) + i]
  <2>1. CASE i = lr + 1
    <3>1. (la - lr) + (lr + 1) = la + 1
      OBVIOUS
    <3> QED
      BY <2>1, <3>1 DEF Grown
  <2>2. CASE i \in 1..lr
    <3>1. (la - lr) + i \in 1..la
      BY <2>2 DEF EndOf
    <3> QED
      BY <2>2, <3>1 DEF EndOf, Grown
  <2> QED
    BY <2>1, <2>2
<1>2. ASSUME NEW i \in 1..(la - lr)
      PROVE  a2[i] <= n - w
  <2>1. i \in 1..la
    OBVIOUS
  <2> QED
    BY <2>1 DEF EndOf, Grown
<1>3. ASSUME NEW i \in 1..(la + 1 - limit)
      PROVE  a2[i + limit] - a2[i] >= w
  <2>1. CASE i = la + 1 - limit
    <3>1. i \in 1..(la - lr) /\ i \in 1..la /\ i + limit = la + 1
      BY <2>1 DEF EndOf
    <3>2. a2[i] = a[i] /\ a[i] \in Int /\ a[i] <= n - w /\ a2[i + limit] = n
      BY <3>1 DEF EndOf, Grown
    <3> QED
      BY <3>2
  <2>2. CASE i # la + 1 - limit
    <3>1. i \in 1..(la - limit) /\ i \in 1..la /\ i + limit \in 1..la
      BY <2>2
    <3> QED
      BY <3>1 DEF SpacedOut, Grown
  <2> QED
    BY <2>1, <2>2
<1>4. (la + 1) - (lr + 1) = la - lr /\ lr + 1 <= la + 1
  BY DEF EndOf
<1>5. QED
  BY <1>1, <1>2, <1>3, <1>4 DEF EndOf, SpacedOut

-----------------------------------------------------------------------------
(* What the loop of SlidingWindowLimiter.allow leaves in the bucket.       *)

LEMMA ExpiredIsPrefix ==
  ASSUME NEW b, NEW n \in Nat, Len(b) = n, \A j \in 1..n : b[j] \in Int, NEW cutoff \in Int
  PROVE  /\ Expired(b, cutoff) \in 0..n
         /\ \A j \in 1..Expired(b, cutoff) : b[j] <= cutoff
         /\ Expired(b, cutoff) < n => b[Expired(b, cutoff) + 1] > cutoff
<1> DEFINE T == {i \in 0..n : i < n => b[i + 1] > cutoff}
<1>1. n \in T /\ T \subseteq Nat
  OBVIOUS
<1>2. PICK i \in T : \A k \in T : i <= k
  BY <1>1, LeastElement
<1>3. i \in 0..n /\ (i < n => b[i + 1] > cutoff)
  OBVIOUS
<1>4. ASSUME NEW j \in 1..i
      PROVE  b[j] <= cutoff
  <2>1. j \in 1..n /\ j - 1 \in 0..n /\ j - 1 < n /\ (j - 1) + 1 = j /\ ~(i <= j - 1)
    BY <1>3
  <2>2. j - 1 \notin T
    BY <1>2, <2>1
  <2>3. b[j] \in Int /\ ~(b[j] > cutoff)
    BY <2>1, <2>2
  <2> QED
    BY <2>3
<1>5. \E m \in 0..n :
        /\ \A j \in 1..m : b[j] <= cutoff
        /\ m < n => b[m + 1] > cutoff
  BY <1>3, <1>4
<1>6. Expired(b, cutoff) = CHOOSE m \in 0..n :
        /\ \A j \in 1..m : b[j] <= cutoff
        /\ m < n => b[m + 1] > cutoff
  BY DEF Expired
<1>7. QED
  BY <1>5, <1>6

\* Recent(t) is the bucket without its expired entries.
LEMMA RecentIsSuffix ==
  ASSUME TypeOK, NEW t \in Tokens
  PROVE  \E e \in 0..Len(bucket[t]) :
           /\ Recent(t) \in Seq(0..MaxTime)
           /\ Len(Recent(t)) = Len(bucket[t]) - e
           /\ \A i \in 1..(Len(bucket[t]) - e) : Recent(t)[i] = bucket[t][e + i]
           /\ \A i \in 1..e : bucket[t][i] <= now - Window
           /\ e < Len(bucket[t]) => Recent(t)[1] > now - Window
<1> DEFINE b == bucket[t]
           n == Len(bucket[t])
           e == Expired(b, now - Window)
<1>1. b \in Seq(0..MaxTime) /\ now - Window \in Int
  BY AdmissionAssumption DEF TypeOK
<1>2. n \in Nat /\ \A j \in 1..n : b[j] \in 0..MaxTime /\ b[j] \in Int
  BY <1>1, AdmissionAssumption
<1>3. /\ e \in 0..n
      /\ \A j \in 1..e : b[j] <= now - Window
      /\ e < n => b[e + 1] > now - Window
  BY <1>1, <1>2, ExpiredIsPrefix
<1>4. Recent(t) = SubSeq(b, e + 1, n)
  BY DEF Recent
<1> HIDE DEF e, n, b
<1>5. e + 1 \in Int /\ n \in Int /\ \A i \in (e + 1)..n : b[i] \in 0..MaxTime
  BY <1>2, <1>3
<1>6. /\ SubSeq(b, e + 1, n) \in Seq(0..MaxTime)
      /\ Len(SubSeq(b, e + 1, n)) = IF e + 1 <= n THEN n - (e + 1) + 1 ELSE 0
      /\ \A i \in 1..(n - (e + 1) + 1) : SubSeq(b, e + 1, n)[i] = b[(e + 1) + i - 1]
  BY <1>5, SubSeqProperties
<1>7. n - (e + 1) + 1 = n - e /\ (IF e + 1 <= n THEN n - (e + 1) + 1 ELSE 0) = n - e
  BY <1>2, <1>3
<1>8. \A i \in 1..(n - e) : (e + 1) + i - 1 = e + i
  BY <1>2, <1>3
<1>9. \A i \in 1..(n - e) : Recent(t)[i] = b[e + i]
  BY <1>4, <1>6, <1>7, <1>8
<1>10. e < n => Recent(t)[1] > now - Window
  <2> SUFFICES ASSUME e < n PROVE Recent(t)[1] > now - Window
    OBVIOUS
  <2>1. 1 \in 1..(n - e)
    BY <1>2, <1>3
  <2>2. Recent(t)[1] = b[e + 1]
    BY <1>9, <2>1
  <2> QED
    BY <1>3, <2>2
<1>11. QED
  BY <1>3, <1>4, <1>6, <1>7, <1>9, <1>10 DEF n, b

-----------------------------------------------------------------------------
(* The limiter: a request of a token is refused or admitted.               *)

\* Nothing about the limiter changes for any other token.
Only(t) ==
  /\ now' = now
  /\ bucket' \in [Tokens -> Seq(0..MaxTime)]
  /\ admitted' \in [Tokens -> Seq(0..MaxTime)]
  /\ refused' \in [Tokens -> [first : -1..MaxTime, last : -1..MaxTime]]
  /\ \A x \in Tokens \ {t} :
       bucket'[x] = bucket[x] /\ admitted'[x] = admitted[x] /\ refused'[x] = refused[x]

Spaced(t) == SpacedOut(admitted[t], Len(admitted[t]), Limit, Window)

LimiterKept(t) ==
  BucketIsSuffix(t)' /\ RefusedByOldest(t)' /\ Len(bucket'[t]) <= Limit /\ Spaced(t)'

LEMMA TypesOf ==
  ASSUME IInv, NEW t \in Tokens
  PROVE  /\ bucket[t] \in Seq(0..MaxTime) /\ admitted[t] \in Seq(0..MaxTime)
         /\ Len(bucket[t]) \in Nat /\ Len(admitted[t]) \in Nat /\ Len(bucket[t]) <= Limit
         /\ \A i \in 1..Len(admitted[t]) : admitted[t][i] \in Int
         /\ now \in 0..MaxTime /\ Limit \in Nat \ {0} /\ Window \in Nat \ {0} /\ MaxTime \in Nat
         /\ refused[t] \in [first : -1..MaxTime, last : -1..MaxTime]
         /\ BucketIsSuffix(t) /\ RefusedByOldest(t) /\ Spaced(t)
<1>1. bucket[t] \in Seq(0..MaxTime) /\ admitted[t] \in Seq(0..MaxTime)
  BY DEF IInv, TypeOK
<1>2. \A i \in 1..Len(admitted[t]) : admitted[t][i] \in Int
  BY <1>1, AdmissionAssumption
<1>3. QED
  BY <1>1, <1>2, AdmissionAssumption DEF IInv, TypeOK, LimiterInv, RateBounded, Spaced, SpacedOut

LEMMA RefuseKeeps ==
  ASSUME IInv, NEW t \in Tokens, ~Allow(t), RefuseByLimit(t), now' = now
  PROVE  Only(t) /\ LimiterKept(t)
<1> DEFINE b == bucket[t]
           r == Recent(t)
           entry == [first |-> IF refused[t] = Never THEN now ELSE refused[t].first, last |-> now]
<1>1. PICK e \in 0..Len(b) :
           /\ r \in Seq(0..MaxTime)
           /\ Len(r) = Len(b) - e
           /\ \A i \in 1..(Len(b) - e) : r[i] = b[e + i]
           /\ e < Len(b) => r[1] > now - Window
  BY RecentIsSuffix DEF IInv
<1>2. ~(Len(r) < Limit)
  BY DEF Allow
<1>3. e = 0 /\ Len(r) = Limit /\ Len(b) = Limit
  <2> HIDE DEF r
  <2> QED
    BY <1>1, <1>2, TypesOf
<1>4. r \in Seq(0..MaxTime) /\ b \in Seq(0..MaxTime) /\ Len(b) \in Nat
      /\ \A i \in 1..Len(b) : r[i] = b[i]
  <2>1. \A i \in 1..Len(b) : 0 + i = i
    BY TypesOf
  <2>2. Len(b) - 0 = Len(b)
    BY TypesOf
  <2> QED
    BY <1>1, <1>3, <2>1, <2>2, TypesOf
<1>5. r = b
  BY <1>3, <1>4, SeqEqual
<1>6. bucket' = bucket /\ admitted' = admitted
  BY <1>5 DEF RefuseByLimit, IInv, TypeOK
<1>7. refused' = [refused EXCEPT ![t] = entry]
  BY DEF RefuseByLimit
<1>8. entry \in [first : -1..MaxTime, last : -1..MaxTime]
  <2>1. refused[t].first \in -1..MaxTime /\ now \in -1..MaxTime
    BY TypesOf
  <2> QED
    BY <2>1
<1> HIDE DEF entry
<1>9. Only(t) /\ refused'[t] = entry
  BY <1>6, <1>7, <1>8 DEF Only, IInv, TypeOK
<1>10. BucketIsSuffix(t)' /\ Spaced(t)' /\ Len(bucket'[t]) <= Limit
  BY <1>6, TypesOf DEF BucketIsSuffix, Spaced
<1>11. b[1] \in Int /\ b[1] > now - Window /\ b[1] <= now
  <2>1. 1 \in 1..Len(b) /\ 0 < Len(b)
    BY <1>3, TypesOf
  <2>2. b[1] \in Int /\ b[1] > now - Window
    BY <1>1, <1>3, <1>5, <2>1, TypesOf
  <2>3. (Len(admitted[t]) - Len(b)) + 1 \in 1..Len(admitted[t])
    <3> DEFINE la == Len(admitted[t])
               lb == Len(b)
    <3>1. la \in Nat /\ lb \in Nat /\ lb <= la /\ 0 < lb
      BY <2>1, TypesOf DEF BucketIsSuffix, EndOf
    <3> HIDE DEF la, lb
    <3>2. (la - lb) + 1 \in 1..la
      BY <3>1
    <3> QED
      BY <3>2 DEF la, lb
  <2>4. b[1] <= now
    BY <2>1, <2>3, TypesOf DEF BucketIsSuffix, EndOf
  <2> QED
    BY <2>2, <2>4
<1>12. entry.last = now /\ entry.first >= b[1]
  <2>1. CASE refused[t] = Never
    BY <1>11, <2>1, TypesOf DEF entry
  <2>2. CASE refused[t] # Never
    BY <1>11, <2>2, TypesOf DEF entry, RefusedByOldest
  <2> QED
    BY <2>1, <2>2
<1>13. RefusedByOldest(t)'
  <2>1. now - b[1] < Window
    BY <1>11, TypesOf
  <2>2. Len(bucket'[t]) = Limit /\ bucket'[t][1] = b[1] /\ now' = now
    BY <1>3, <1>6
  <2>3. /\ refused'[t].first >= bucket'[t][1]
        /\ refused'[t].last <= now'
        /\ refused'[t].last - bucket'[t][1] < Window
    BY <1>9, <1>12, <2>1, <2>2, TypesOf
  <2> QED
    BY <2>2, <2>3 DEF RefusedByOldest
<1>14. QED
  BY <1>9, <1>10, <1>13 DEF LimiterKept

LEMMA AdmitKeeps ==
  ASSUME IInv, NEW t \in Tokens, Allow(t), Admit(t), now' = now
  PROVE  Only(t) /\ LimiterKept(t)
<1> DEFINE b == bucket[t]
           a == admitted[t]
           r == Recent(t)
           la == Len(admitted[t])
           lb == Len(bucket[t])
           b2 == Append(r, now)
           a2 == Append(a, now)
<1>1. PICK e \in 0..lb :
           /\ r \in Seq(0..MaxTime)
           /\ Len(r) = lb - e
           /\ \A i \in 1..(lb - e) : r[i] = b[e + i]
           /\ \A i \in 1..e : b[i] <= now - Window
  BY RecentIsSuffix DEF IInv
<1>2. Len(r) < Limit
  BY DEF Allow
<1>3. bucket' = [bucket EXCEPT ![t] = b2] /\ admitted' = [admitted EXCEPT ![t] = a2]
      /\ refused' = [refused EXCEPT ![t] = Never]
  BY DEF Admit
<1> HIDE DEF r
<1>4. now \in 0..MaxTime /\ a \in Seq(0..MaxTime)
  BY TypesOf
<1>5. b2 \in Seq(0..MaxTime) /\ Len(b2) = Len(r) + 1 /\ Grown(b2, r, Len(r), now)
  <2>1. r \in Seq(0..MaxTime)
    BY <1>1
  <2> QED
    BY <1>4, <2>1, AppendProperties DEF Grown
<1>6. a2 \in Seq(0..MaxTime) /\ Len(a2) = la + 1 /\ Grown(a2, a, la, now)
  BY <1>4, AppendProperties DEF Grown
<1> HIDE DEF b2, a2
<1>7. Only(t) /\ bucket'[t] = b2 /\ admitted'[t] = a2 /\ refused'[t] = Never
  <2>1. Never \in [first : -1..MaxTime, last : -1..MaxTime]
    BY TypesOf DEF Never
  <2> QED
    BY <1>3, <1>5, <1>6, <2>1 DEF Only, IInv, TypeOK
<1>8. /\ la \in Nat /\ lb \in Nat /\ Window \in Nat /\ Limit \in Nat
      /\ now \in Int /\ now - Window \in Int
      /\ \A i \in 1..la : a[i] \in Int
  BY TypesOf
<1>9. EndOf(b, lb, a, la, now - Window) /\ SpacedOut(a, la, Limit, Window)
      /\ \A i \in 1..la : a[i] <= now
  BY TypesOf DEF BucketIsSuffix, Spaced
<1> HIDE DEF la, lb, a, b
<1>10. EndOf(r, lb - e, a, la, now - Window)
  <2>1. Shrunk(r, b, lb, e, now - Window)
    BY <1>1 DEF Shrunk
  <2> QED
    BY <1>8, <1>9, <2>1, SuffixShrinks
<1> DEFINE lr == lb - e
<1>11. lr \in Nat /\ lr < Limit /\ Len(r) = lr
  BY <1>1, <1>2, <1>8
<1> HIDE DEF lr
<1>12. EndOf(r, lr, a, la, now - Window) /\ Grown(b2, r, lr, now)
  BY <1>5, <1>10, <1>11 DEF lr
<1>13. EndOf(b2, lr + 1, a2, la + 1, now - Window) /\ SpacedOut(a2, la + 1, Limit, Window)
  BY <1>6, <1>8, <1>9, <1>11, <1>12, HistoryGrows
<1>14. \A i \in 1..(la + 1) : a2[i] <= now
  <2> TAKE i \in 1..(la + 1)
  <2>1. CASE i = la + 1
    BY <1>6, <1>8, <2>1 DEF Grown
  <2>2. CASE i # la + 1
    <3>1. i \in 1..la
      BY <1>8, <2>2
    <3> QED
      BY <1>6, <1>9, <3>1 DEF Grown
  <2> QED
    BY <2>1, <2>2
<1>15. Len(b2) = lr + 1 /\ lr + 1 <= Limit
  BY <1>5, <1>8, <1>11
<1>16. BucketIsSuffix(t)'
  BY <1>6, <1>7, <1>13, <1>14, <1>15 DEF BucketIsSuffix
<1>17. QED
  BY <1>6, <1>7, <1>13, <1>15, <1>16 DEF LimiterKept, RefusedByOldest, Spaced

\* The properties of the limiter hold for all tokens again.
LEMMA LimiterKeeps ==
  ASSUME IInv, NEW t \in Tokens, Only(t), LimiterKept(t)
  PROVE  LimiterInv' /\ RateBounded' /\ (\A x \in Tokens : Len(bucket'[x]) <= Limit)
<1>1. ASSUME NEW x \in Tokens
      PROVE  BucketIsSuffix(x)' /\ RefusedByOldest(x)' /\ Spaced(x)' /\ Len(bucket'[x]) <= Limit
  <2>1. CASE x = t
    BY <2>1 DEF LimiterKept
  <2>2. CASE x # t
    BY <2>2, TypesOf DEF Only, BucketIsSuffix, RefusedByOldest, Spaced
  <2> QED
    BY <2>1, <2>2
<1>2. QED
  BY <1>1 DEF LimiterInv, RateBounded, Spaced, SpacedOut

LEMMA LimiterUnchanged ==
  ASSUME IInv, UNCHANGED <<bucket, admitted, refused>>, now' \in Nat, now' >= now
  PROVE  LimiterInv' /\ RateBounded'
<1>1. ASSUME NEW t \in Tokens
      PROVE  BucketIsSuffix(t)' /\ RefusedByOldest(t)'
  <2>1. ASSUME NEW x \in Int
        PROVE  (x <= now - Window => x <= now' - Window) /\ (x <= now => x <= now')
    BY TypesOf
  <2>2. BucketIsSuffix(t)'
    <3>1. \A i \in 1..(Len(admitted[t]) - Len(bucket[t])) : i \in 1..Len(admitted[t])
      BY TypesOf DEF BucketIsSuffix, EndOf
    <3> QED
      BY <2>1, <3>1, TypesOf DEF BucketIsSuffix, EndOf
  <2>3. RefusedByOldest(t)'
    <3>1. refused[t].last \in Int
      BY TypesOf
    <3> QED
      BY <2>1, <3>1, TypesOf DEF RefusedByOldest
  <2> QED
    BY <2>2, <2>3
<1>2. QED
  BY <1>1 DEF LimiterInv, RateBounded, IInv

-----------------------------------------------------------------------------
(* The requests: one changes at a time, and keeps its own principal.       *)

RequestKept(s) ==
  /\ request' \in [Slots -> RequestStates] /\ context' \in [Slots -> Tokens \cup {Stranger}]
  /\ \A x \in Slots \ {s} : request'[x] = request[x] /\ context'[x] = context[x]
  /\ ContextIsCaller(s)'
  /\ request'[s].at = "working" =>
       request'[s].actor = request'[s].token /\ Permits(request'[s].token, request'[s].scope)

LEMMA CallersKept ==
  ASSUME IInv, NEW s \in Slots, RequestKept(s)
  PROVE  CallerInv' /\ ActsForItsCaller'
<1>1. CallerInv'
  BY DEF RequestKept, IInv, CallerInv, ContextIsCaller
<1>2. ActsForItsCaller'
  BY DEF RequestKept, IInv, ActsForItsCaller, Permits
<1>3. QED
  BY <1>1, <1>2

\* A refused request keeps nothing.
LEMMA AnswerKeeps ==
  ASSUME IInv, NEW s \in Slots, Answer(s), UNCHANGED context
  PROVE  RequestKept(s)
<1>1. Answered \in RequestStates /\ Answered.at = "answered"
  BY DEF Answered, RequestStates
<1>2. QED
  BY <1>1 DEF Answer, RequestKept, IInv, TypeOK, ContextIsCaller

LEMMA TickStep == ASSUME IInv, Tick PROVE IInv'
<1> USE DEF Tick
<1>1. TypeOK' /\ now' \in Nat /\ now' >= now
  BY AdmissionAssumption DEF IInv, TypeOK
<1>2. LimiterInv' /\ RateBounded'
  BY <1>1, LimiterUnchanged
<1>3. CallerInv' /\ ActsForItsCaller'
  BY DEF IInv, CallerInv, ContextIsCaller, ActsForItsCaller, Permits
<1>4. QED
  BY <1>1, <1>2, <1>3 DEF IInv

LEMMA SameLimiterStep ==
  ASSUME IInv, NEW s \in Slots, RequestKept(s), UNCHANGED <<now, bucket, admitted, refused>>
  PROVE  IInv'
<1>1. TypeOK' /\ now' \in Nat /\ now' >= now
  BY AdmissionAssumption DEF IInv, TypeOK, RequestKept
<1>2. QED
  BY <1>1, LimiterUnchanged, CallersKept DEF IInv

LEMMA RefuseStep == ASSUME IInv, NEW s \in Slots, Refuse(s) PROVE IInv'
<1>1. RequestKept(s)
  BY AnswerKeeps DEF Refuse
<1>2. QED
  BY <1>1, SameLimiterStep DEF Refuse

LEMMA DispatchStep == ASSUME IInv, NEW s \in Slots, Dispatch(s) PROVE IInv'
<1>1. request[s] \in [at : {"handling"}, entry : Entries, token : Tokens, scope : Scopes]
  BY DEF Dispatch, IInv, TypeOK, RequestStates, Idle, Answered
<1>2. Actor(s) = request[s].token
  BY <1>1 DEF Actor, CurrentPrincipal, IInv, CallerInv, ContextIsCaller
<1>3. RequestKept(s)
  <2>1. CASE Permits(Actor(s), request[s].scope)
    <3> DEFINE new == Working(request[s].token, Actor(s), request[s].scope)
    <3>1. request' = [request EXCEPT ![s] = new] /\ context' = context
      BY <2>1 DEF Dispatch
    <3>2. /\ new \in RequestStates
          /\ new.at = "working" /\ new.token = request[s].token /\ new.actor = new.token
          /\ new.scope = request[s].scope
      BY <1>1, <1>2 DEF Working, RequestStates
    <3> HIDE DEF new
    <3> QED
      BY <1>2, <2>1, <3>1, <3>2 DEF RequestKept, IInv, TypeOK, ContextIsCaller
  <2>2. CASE ~Permits(Actor(s), request[s].scope)
    BY <2>2, AnswerKeeps DEF Dispatch
  <2> QED
    BY <2>1, <2>2
<1>4. QED
  BY <1>3, SameLimiterStep DEF Dispatch

LEMMA FinishStep == ASSUME IInv, NEW s \in Slots, Finish(s) PROVE IInv'
<1>1. RequestKept(s)
  BY DEF Finish, RequestKept, IInv, TypeOK, ContextIsCaller, Idle, RequestStates
<1>2. QED
  BY <1>1, SameLimiterStep DEF Finish

LEMMA AuthenticatedStep ==
  ASSUME IInv, NEW s \in Slots, NEW t \in Tokens, Authenticated(s, t)
  PROVE  IInv'
<1>1. Only(t) /\ LimiterKept(t)
  BY RefuseKeeps, AdmitKeeps DEF Authenticated
<1>2. RequestKept(s)
  <2>1. CASE Answer(s) /\ UNCHANGED context
    BY <2>1, AnswerKeeps
  <2>2. ASSUME NEW e \in Entries, NEW p \in Scopes,
               request' = [request EXCEPT ![s] = Handling(e, t, p)],
               context' = [context EXCEPT ![s] = t]
        PROVE  RequestKept(s)
    <3> DEFINE new == Handling(e, t, p)
    <3>1. new \in RequestStates /\ new.at = "handling" /\ new.token = t
      BY DEF Handling, RequestStates
    <3> HIDE DEF new
    <3> QED
      BY <2>2, <3>1 DEF new, RequestKept, IInv, TypeOK, ContextIsCaller
  <2> QED
    BY <2>1, <2>2 DEF Authenticated
<1>3. LimiterInv' /\ RateBounded' /\ (\A x \in Tokens : Len(bucket'[x]) <= Limit)
  BY <1>1, LimiterKeeps
<1>4. TypeOK'
  BY <1>1, <1>2, <1>3 DEF TypeOK, Only, RequestKept, IInv
<1>5. QED
  BY <1>2, <1>3, <1>4, CallersKept DEF IInv

-----------------------------------------------------------------------------
LEMMA InitInv == Init => IInv
<1> SUFFICES ASSUME Init PROVE IInv
  OBVIOUS
<1> USE AdmissionAssumption DEF Init
<1>1. TypeOK
  BY DEF TypeOK, RequestStates, Never
<1>2. LimiterInv
  BY DEF LimiterInv, BucketIsSuffix, EndOf, RefusedByOldest
<1>3. RateBounded
  BY DEF RateBounded
<1>4. CallerInv /\ ActsForItsCaller
  BY DEF CallerInv, ContextIsCaller, ActsForItsCaller, Idle
<1>5. QED
  BY <1>1, <1>2, <1>3, <1>4 DEF IInv

LEMMA NextInv == IInv /\ [Next]_vars => IInv'
<1> SUFFICES ASSUME IInv, [Next]_vars PROVE IInv'
  OBVIOUS
<1>1. CASE UNCHANGED vars
  BY <1>1 DEF vars, IInv, TypeOK, LimiterInv, BucketIsSuffix, EndOf, RefusedByOldest,
     RateBounded, CallerInv, ContextIsCaller, ActsForItsCaller, Permits
<1>2. QED
  BY <1>1, TickStep, RefuseStep, DispatchStep, FinishStep, AuthenticatedStep DEF Next

\* The inductive invariant of the middleware and the limiter: it holds initially
\* and every request and every tick of the clock keeps it.
THEOREM Invariant == Spec => []IInv
  BY InitInv, NextInv, PTL DEF Spec

\* The limiter, the requests in flight and their contexts keep their types, and
\* no bucket ever holds more than Limit entries.
THEOREM TypeCorrect == Spec => []TypeOK
<1>1. IInv => TypeOK
  BY DEF IInv
<1>2. QED
  BY <1>1, Invariant, PTL

\* SlidingWindowLimiter.allow: of any Limit + 1 consecutive admitted requests of a
\* token the last comes a whole window after the first, for every limit and window.
THEOREM RateIsBounded == Spec => []RateBounded
<1>1. IInv => RateBounded
  BY DEF IInv
<1>2. QED
  BY <1>1, Invariant, PTL

\* The 429 of security_middleware promises a retry after one window: the refusals
\* of a token since its last admitted request lie within less than that.
THEOREM RefusalsAreShort == Spec => []RetryAfterHonest
<1>1. ASSUME IInv, NEW t \in Tokens
      PROVE  refused[t].last - refused[t].first < Window
  <2>1. CASE refused[t] = Never
    BY <2>1, AdmissionAssumption DEF Never
  <2>2. CASE refused[t] # Never
    <3>1. 1 \in 1..Len(bucket[t])
      BY <1>1, <2>2, TypesOf DEF RefusedByOldest
    <3>2. bucket[t][1] \in Int
      BY <1>1, <3>1, TypesOf
    <3>3. refused[t].first \in Int /\ refused[t].last \in Int /\ Window \in Int
      BY <1>1, TypesOf
    <3>4. refused[t].first >= bucket[t][1] /\ refused[t].last - bucket[t][1] < Window
      BY <1>1, <2>2, TypesOf DEF RefusedByOldest
    <3> QED
      BY <3>2, <3>3, <3>4
  <2> QED
    BY <2>1, <2>2
<1>2. IInv => RetryAfterHonest
  BY <1>1 DEF RetryAfterHonest
<1>3. QED
  BY <1>2, Invariant, PTL

\* A REST endpoint and an MCP tool run as the token their own request was
\* authenticated with, whatever else is in flight, and with a scope it permits.
THEOREM RunsAsCaller == Spec => []ActsForItsCaller
<1>1. IInv => ActsForItsCaller
  BY DEF IInv
<1>2. QED
  BY <1>1, Invariant, PTL

-----------------------------------------------------------------------------
(* RequestAdmission implements RateLimit: the bucket, once its expired     *)
(* entries are popped, is what the whole history has in the window.  That  *)
(* needs the history to be in order, since the loop looks at the oldest    *)
(* entry only.                                                             *)

InOrder(a, la) == \A i, j \in 1..la : i <= j => a[i] <= a[j]
HistoryInOrder == \A t \in Tokens : InOrder(admitted[t], Len(admitted[t]))

LEMMA OrderGrows ==
  ASSUME NEW a, NEW a2, NEW la \in Nat, NEW n \in Int,
         InOrder(a, la), Grown(a2, a, la, n), \A i \in 1..la : a[i] <= n
  PROVE  InOrder(a2, la + 1)
<1> SUFFICES ASSUME NEW i \in 1..(la + 1), NEW j \in 1..(la + 1), i <= j
             PROVE  a2[i] <= a2[j]
  BY DEF InOrder
<1>1. CASE j = la + 1 /\ i = la + 1
  BY <1>1 DEF Grown
<1>2. CASE j = la + 1 /\ i \in 1..la
  BY <1>2 DEF Grown
<1>3. CASE j \in 1..la /\ i \in 1..la
  BY <1>3 DEF Grown, InOrder
<1>4. QED
  BY <1>1, <1>2, <1>3

LEMMA AdmitInOrder ==
  ASSUME IInv, HistoryInOrder, NEW t \in Tokens, Admit(t)
  PROVE  HistoryInOrder'
<1> DEFINE a == admitted[t]
           la == Len(admitted[t])
           a2 == Append(a, now)
<1>1. /\ a \in Seq(0..MaxTime) /\ la \in Nat /\ now \in 0..MaxTime /\ now \in Int
      /\ \A i \in 1..la : a[i] <= now
  BY TypesOf DEF BucketIsSuffix
<1>2. a2 \in Seq(0..MaxTime) /\ Len(a2) = la + 1 /\ Grown(a2, a, la, now)
  BY <1>1, AppendProperties DEF Grown
<1>3. admitted' = [admitted EXCEPT ![t] = a2]
  BY DEF Admit
<1>4. InOrder(a, la)
  BY DEF HistoryInOrder
<1> HIDE DEF a, la, a2
<1>5. InOrder(a2, la + 1)
  BY <1>1, <1>2, <1>4, OrderGrows
<1>6. \A x \in Tokens : admitted'[x] = IF x = t THEN a2 ELSE admitted[x]
  BY <1>3 DEF IInv, TypeOK
<1>7. QED
  BY <1>2, <1>5, <1>6 DEF HistoryInOrder

LEMMA NextInOrder == IInv /\ HistoryInOrder /\ [Next]_vars => HistoryInOrder'
<1> SUFFICES ASSUME IInv, HistoryInOrder, [Next]_vars PROVE HistoryInOrder'
  OBVIOUS
<1>1. CASE UNCHANGED admitted
  BY <1>1 DEF HistoryInOrder
<1>2. CASE \E t \in Tokens : Admit(t)
  BY <1>2, AdmitInOrder
<1>3. QED
  BY <1>1, <1>2 DEF Next, Tick, Refuse, Dispatch, Finish, Authenticated, RefuseByLimit, vars

\* r, of length lr, is the end of a, and all it leaves out is too old; then it is
\* what a has in the window, if its first entry is.
LEMMA EndIsWindow ==
  ASSUME NEW a, NEW r, NEW la \in Nat, NEW lr \in Nat, NEW c \in Int,
         \A i \in 1..la : a[i] \in Int,
         InOrder(a, la), EndOf(r, lr, a, la, c), lr > 0 => r[1] > c
  PROVE  {i \in 1..la : a[i] > c} = ((la - lr) + 1)..la
<1>1. ASSUME NEW i \in ((la - lr) + 1)..la
      PROVE  i \in 1..la /\ a[i] > c
  <2>1. /\ lr > 0 /\ 1 \in 1..lr /\ i \in 1..la
        /\ (la - lr) + 1 \in 1..la /\ (la - lr) + 1 <= i
    BY DEF EndOf
  <2>2. a[(la - lr) + 1] > c
    BY <2>1 DEF EndOf
  <2>3. a[(la - lr) + 1] <= a[i] /\ a[i] \in Int /\ a[(la - lr) + 1] \in Int
    BY <2>1 DEF InOrder
  <2> QED
    BY <2>1, <2>2, <2>3
<1>2. ASSUME NEW i \in 1..la, a[i] > c
      PROVE  i \in ((la - lr) + 1)..la
  <2>1. a[i] \in Int /\ ~(a[i] <= c)
    BY <1>2
  <2>2. i \notin 1..(la - lr)
    BY <2>1 DEF EndOf
  <2> QED
    BY <2>2 DEF EndOf
<1>3. QED
  BY <1>1, <1>2

\* Allow of the deque is the limiter's promise about the whole history.
LEMMA AllowIsNotFull ==
  ASSUME IInv, HistoryInOrder, NEW t \in Tokens
  PROVE  Allow(t) <=> ~Ideal!Full(t)
<1> DEFINE b == bucket[t]
           a == admitted[t]
           r == Recent(t)
           la == Len(admitted[t])
           lb == Len(bucket[t])
           c == now - Window
<1>1. PICK e \in 0..lb :
           /\ Len(r) = lb - e
           /\ \A i \in 1..(lb - e) : r[i] = b[e + i]
           /\ \A i \in 1..e : b[i] <= c
           /\ e < lb => r[1] > c
  BY RecentIsSuffix DEF IInv
<1>2. /\ la \in Nat /\ lb \in Nat /\ c \in Int /\ Limit \in Nat
      /\ \A i \in 1..la : a[i] \in Int
  BY TypesOf
<1>3. EndOf(b, lb, a, la, c) /\ InOrder(a, la)
  BY TypesOf DEF BucketIsSuffix, HistoryInOrder
<1>4. Allow(t) <=> Len(r) < Limit
  BY DEF Allow
<1>5. Ideal!InWindow(t) = {i \in 1..la : a[i] > c}
  BY DEF Ideal!InWindow
<1>6. Ideal!Full(t) <=> Cardinality(Ideal!InWindow(t)) >= Limit
  BY DEF Ideal!Full, Ideal!Cardinality, Cardinality
<1> HIDE DEF a, b, r, la, lb, c
<1>7. EndOf(r, lb - e, a, la, c)
  <2>1. Shrunk(r, b, lb, e, c)
    BY <1>1 DEF Shrunk
  <2> QED
    BY <1>2, <1>3, <2>1, SuffixShrinks
<1> DEFINE lr == lb - e
<1>8. lr \in Nat /\ Len(r) = lr /\ (lr > 0 => r[1] > c) /\ EndOf(r, lr, a, la, c) /\ lr <= la
  BY <1>1, <1>2, <1>7 DEF EndOf
<1> HIDE DEF lr
<1>9. Ideal!InWindow(t) = ((la - lr) + 1)..la
  BY <1>2, <1>3, <1>5, <1>8, EndIsWindow
<1>10. Cardinality(((la - lr) + 1)..la) = lr
  <2>1. (la - lr) + 1 \in Int /\ la \in Int
    BY <1>2, <1>8
  <2>2. Cardinality(((la - lr) + 1)..la)
          = IF (la - lr) + 1 > la THEN 0 ELSE la - ((la - lr) + 1) + 1
    BY <2>1, FS_Interval
  <2> QED
    BY <1>2, <1>8, <2>2
<1>11. QED
  BY <1>2, <1>4, <1>6, <1>8, <1>9, <1>10

LEMMA StepImplements ==
  IInv /\ HistoryInOrder /\ [Next]_vars => [Ideal!Next]_<<now, admitted, refused>>
<1> SUFFICES ASSUME IInv, HistoryInOrder, [Next]_vars,
                    ~UNCHANGED <<now, admitted, refused>>
             PROVE  Ideal!Next
  OBVIOUS
<1>1. CASE Tick
  BY <1>1 DEF Tick, Ideal!Next, Ideal!Tick
<1>2. ASSUME NEW s \in Slots, NEW t \in Tokens, Authenticated(s, t)
      PROVE  Ideal!Next
  <2>1. CASE Allow(t) /\ Admit(t)
    <3>1. Ideal!Pass(t)
      BY <1>2, <2>1, AllowIsNotFull DEF Authenticated, Admit, Ideal!Pass, Never, Ideal!Never
    <3> QED
      BY <3>1 DEF Ideal!Next
  <2>2. CASE ~Allow(t) /\ RefuseByLimit(t)
    <3>1. Ideal!TooMany(t)
      BY <1>2, <2>2, AllowIsNotFull
      DEF Authenticated, RefuseByLimit, Ideal!TooMany, Never, Ideal!Never
    <3> QED
      BY <3>1 DEF Ideal!Next
  <2> QED
    BY <1>2, <2>1, <2>2 DEF Authenticated
<1>3. QED
  BY <1>1, <1>2 DEF Next, Refuse, Dispatch, Finish, vars

\* SlidingWindowLimiter implements RateLimit: it refuses a request exactly when
\* Limit requests of its token have passed within the last window, although it
\* keeps no more than Limit instants and pops only from the left.
THEOREM LimiterRefinement == Spec => ImplementsRateLimit
<1>1. Init => Ideal!Init /\ HistoryInOrder
  BY DEF Init, Ideal!Init, Never, Ideal!Never, HistoryInOrder, InOrder
<1>2. QED
  BY <1>1, NextInOrder, StepImplements, Invariant, PTL
  DEF Spec, ImplementsRateLimit, Ideal!Spec
=============================================================================
