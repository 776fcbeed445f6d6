------------------------- MODULE ProbeThrottleProofs -------------------------
(***************************************************************************)
(* Proofs about ProbeThrottle for any number of processes and callers, any *)
(* concurrency, interval and jitter.                                       *)
(***************************************************************************)
EXTENDS ProbeThrottle, TLAPS

\* Every reachable state has the right types.
THEOREM TypeCorrect == Spec => []TypeOK
<1>1. Init => TypeOK
  BY LimitAssumption DEF Init, TypeOK, Stages
<1>2. TypeOK /\ [Next]_vars => TypeOK'
  <2> SUFFICES ASSUME TypeOK, [Next]_vars PROVE TypeOK'
    OBVIOUS
  <2> USE LimitAssumption DEF TypeOK, Stages
  <2>1. ASSUME NEW t \in Tasks, StartOperation(t) PROVE TypeOK'
    <3>1. ThrottlerOf(t) \in Throttlers
      BY DEF Tasks, ThrottlerOf
    <3>2. NextStartAfter(ThrottlerOf(t)) \in Nat
      BY <3>1 DEF NextStartAfter
    <3>3. Append(starts[ThrottlerOf(t)], clock) \in Seq(Nat)
      BY <3>1
    <3>4. QED
      BY <2>1, <3>1, <3>2, <3>3 DEF StartOperation
  <2>2. CASE Tick
    BY <2>2 DEF Tick
  <2>3. ASSUME NEW t \in Tasks, Call(t) PROVE TypeOK'
    BY <2>3 DEF Call
  <2>4. ASSUME NEW t \in Tasks, AcquirePlace(t) PROVE TypeOK'
    BY <2>4 DEF AcquirePlace
  <2>5. ASSUME NEW t \in Tasks, Sleep(t) PROVE TypeOK'
    BY <2>5 DEF Sleep, Tasks, ThrottlerOf
  <2>6. ASSUME NEW t \in Tasks, Finish(t) PROVE TypeOK'
    BY <2>6 DEF Finish
  <2>7. CASE UNCHANGED vars
    BY <2>7 DEF vars
  <2>8. QED
    BY <2>1, <2>2, <2>3, <2>4, <2>5, <2>6, <2>7 DEF Next, Step, TakeToken, Wake
<1>3. QED
  BY <1>1, <1>2, PTL DEF Spec

-----------------------------------------------------------------------------
\* The two parts of TokenInv, which most actions disturb one at a time.
Ahead(h) == \A i \in DOMAIN starts[h] :
  nextStart[h] >= starts[h][i] + (Len(starts[h]) + 1 - i) * Interval
SleepOK(t) == pc[t] = "sleeping" =>
  /\ wake[t] = nextStart[ThrottlerOf(t)]
  /\ \A u \in Tasks : pc[u] = "sleeping" /\ ThrottlerOf(u) = ThrottlerOf(t) => u = t

\* An operation starts at most one jitter before it is due, and nobody of its
\* throttler sleeps when it has started: the tokens stay ahead and spaced.
LEMMA StartKeepsTokens ==
  ASSUME TypeOK, TokenInv, StartsSpaced, NEW t \in Tasks, StartOperation(t),
         clock + Jitter >= nextStart[ThrottlerOf(t)],
         \A u \in Tasks : pc[u] = "sleeping" /\ ThrottlerOf(u) = ThrottlerOf(t) => u = t
  PROVE  TokenInv' /\ StartsSpaced'
<1> DEFINE h == ThrottlerOf(t)
           n == Len(starts[h])
<1> USE LimitAssumption
<1>1. h \in Throttlers /\ n \in Nat /\ clock \in Nat /\ nextStart[h] \in Nat
  BY DEF Tasks, ThrottlerOf, TypeOK
<1>2. starts' = [starts EXCEPT ![h] = Append(@, clock)]
  BY DEF StartOperation
<1>3. /\ nextStart' = [nextStart EXCEPT ![h] = NextStartAfter(h)]
      /\ NextStartAfter(h) \in Nat
      /\ NextStartAfter(h) >= nextStart[h] + Interval
      /\ NextStartAfter(h) >= clock + Interval
  BY <1>1 DEF StartOperation, NextStartAfter
<1>4. /\ Len(starts'[h]) = n + 1
      /\ DOMAIN starts'[h] = 1..(n + 1)
      /\ starts'[h][n + 1] = clock
      /\ DOMAIN starts[h] = 1..n
      /\ \A i \in 1..n : starts'[h][i] = starts[h][i] /\ starts[h][i] \in Nat
  BY <1>1, <1>2 DEF TypeOK
<1>5. \A k \in Throttlers : k # h =>
        starts'[k] = starts[k] /\ nextStart'[k] = nextStart[k]
  BY <1>2, <1>3 DEF TypeOK
<1>6. \A i \in 1..n :
        nextStart[h] >= starts[h][i] + (n + 1 - i) * Interval
  BY <1>1 DEF TokenInv, TypeOK
<1>a. /\ nextStart'[h] = NextStartAfter(h)
      /\ \A i, j \in 1..n :
           i < j => starts[h][j] + Jitter >= starts[h][i] + (j - i) * Interval
      /\ clock + Jitter >= nextStart[h]
  BY <1>1, <1>3, <1>4 DEF TypeOK, StartsSpaced
<1> HIDE DEF h, n
<1>7. ASSUME NEW i \in 1..(n + 1)
      PROVE  nextStart'[h] >= starts'[h][i] + (n + 2 - i) * Interval
  <2>2. CASE i = n + 1
    <3>1. (n + 2 - i) * Interval = Interval
      BY <1>1, <2>2
    <3>2. QED
      BY <1>a, <1>3, <1>4, <2>2, <3>1
  <2>3. CASE i \in 1..n
    <3>1. (n + 2 - i) * Interval = (n + 1 - i) * Interval + Interval
      BY <1>1, <2>3
    <3>2. (n + 1 - i) * Interval \in Int
      BY <1>1, <2>3
    <3>3. nextStart[h] >= starts[h][i] + (n + 1 - i) * Interval
      BY <1>6, <2>3
    <3>4. /\ nextStart'[h] \in Nat
          /\ nextStart'[h] >= nextStart[h] + Interval
      BY <1>a, <1>3
    <3>5. starts'[h][i] = starts[h][i] /\ starts[h][i] \in Nat
      BY <1>4, <2>3
    <3>6. nextStart'[h] >= starts[h][i] + ((n + 1 - i) * Interval + Interval)
      BY <1>1, <3>2, <3>3, <3>4, <3>5
    <3>7. QED
      BY <3>1, <3>5, <3>6
  <2>4. QED
    BY <1>1, <2>2, <2>3
<1>8. ASSUME NEW k \in Throttlers PROVE Ahead(k)'
  <2>1. CASE k = h
    <3>1. ASSUME NEW i \in 1..(n + 1)
          PROVE  nextStart'[h] >= starts'[h][i] + (Len(starts'[h]) + 1 - i) * Interval
      <4>1. Len(starts'[h]) + 1 - i = n + 2 - i
        BY <1>1, <1>4
      <4>2. QED
        BY <1>7, <4>1
    <3>2. QED
      BY <1>4, <2>1, <3>1 DEF Ahead
  <2>2. CASE k # h
    BY <1>5, <2>2 DEF Ahead, TokenInv
  <2>3. QED
    BY <2>1, <2>2
<1>9. ASSUME NEW u \in Tasks PROVE SleepOK(u)'
  <2>1. SUFFICES ASSUME pc'[u] = "sleeping"
                 PROVE  /\ wake'[u] = nextStart'[ThrottlerOf(u)]
                        /\ \A v \in Tasks : pc'[v] = "sleeping"
                             /\ ThrottlerOf(v) = ThrottlerOf(u) => v = u
    BY DEF SleepOK
  <2>2. \A v \in Tasks : pc'[v] = "sleeping" => pc[v] = "sleeping" /\ v # t
    BY DEF StartOperation, TypeOK
  <2>3. ThrottlerOf(u) # h
    BY <2>1, <2>2 DEF h
  <2>4. ThrottlerOf(u) \in Throttlers /\ wake'[u] = wake[u]
    BY <2>1, <2>2 DEF StartOperation, TypeOK, Tasks, ThrottlerOf
  <2>5. QED
    BY <1>5, <2>1, <2>2, <2>3, <2>4 DEF TokenInv
<1>10. TokenInv'
  BY <1>8, <1>9 DEF TokenInv, Ahead, SleepOK
<1>11. ASSUME NEW i \in 1..(n + 1), NEW j \in 1..(n + 1), i < j
       PROVE  starts'[h][j] + Jitter >= starts'[h][i] + (j - i) * Interval
  <2>1. CASE j = n + 1
    <3>1. i \in 1..n /\ j - i = n + 1 - i
      BY <1>1, <1>11, <2>1
    <3>2. (n + 1 - i) * Interval \in Int
      BY <1>1, <3>1
    <3>3. starts'[h][j] = clock /\ (j - i) * Interval = (n + 1 - i) * Interval
      BY <1>4, <2>1, <3>1
    <3>4. /\ nextStart[h] >= starts[h][i] + (n + 1 - i) * Interval
          /\ starts'[h][i] = starts[h][i]
          /\ starts[h][i] \in Nat
      BY <1>4, <1>6, <3>1
    <3>5. clock + Jitter >= starts[h][i] + (n + 1 - i) * Interval
      BY <1>a, <1>1, <3>2, <3>4
    <3>6. QED
      BY <3>3, <3>4, <3>5
  <2>2. CASE j \in 1..n
    <3>1. i \in 1..n
      BY <1>1, <1>11, <2>2
    <3>2. starts[h][j] + Jitter >= starts[h][i] + (j - i) * Interval
      BY <1>a, <1>11, <2>2, <3>1
    <3>3. QED
      BY <1>4, <2>2, <3>1, <3>2
  <2>3. QED
    BY <1>1, <2>1, <2>2
<1>12. StartsSpaced'
  <2>1. SUFFICES ASSUME NEW k \in Throttlers, NEW i \in DOMAIN starts'[k],
                        NEW j \in DOMAIN starts'[k], i < j
                 PROVE  starts'[k][j] + Jitter >= starts'[k][i] + (j - i) * Interval
    BY DEF StartsSpaced
  <2>2. CASE k = h
    BY <1>4, <1>11, <2>1, <2>2
  <2>3. CASE k # h
    BY <1>5, <2>1, <2>3 DEF StartsSpaced
  <2>4. QED
    BY <2>2, <2>3
<1>13. QED
  BY <1>10, <1>12

\* Every step keeps the tokens ahead of the starts and the starts spaced.
LEMMA TokenStep ==
  TypeOK /\ TokenInv /\ StartsSpaced /\ [Next]_vars => TokenInv' /\ StartsSpaced'
<1> SUFFICES ASSUME TypeOK, TokenInv, StartsSpaced, [Next]_vars
             PROVE  TokenInv' /\ StartsSpaced'
  OBVIOUS
<1>1. ASSUME UNCHANGED <<nextStart, starts, wake>>,
             \A u \in Tasks : pc'[u] = "sleeping" => pc[u] = "sleeping"
      PROVE  TokenInv' /\ StartsSpaced'
  BY <1>1 DEF TokenInv, StartsSpaced
<1>2. CASE Tick
  BY <1>1, <1>2 DEF Tick
<1>3. ASSUME NEW t \in Tasks, Call(t) PROVE TokenInv' /\ StartsSpaced'
  BY <1>1, <1>3 DEF Call, TypeOK
<1>4. ASSUME NEW t \in Tasks, AcquirePlace(t) PROVE TokenInv' /\ StartsSpaced'
  BY <1>1, <1>4 DEF AcquirePlace, TypeOK
<1>5. ASSUME NEW t \in Tasks, TakeToken(t) PROVE TokenInv' /\ StartsSpaced'
  <2>1. clock + Jitter >= nextStart[ThrottlerOf(t)]
    BY <1>5, LimitAssumption DEF TakeToken, TypeOK, Tasks, ThrottlerOf
  <2>2. \A u \in Tasks : pc[u] = "sleeping" /\ ThrottlerOf(u) = ThrottlerOf(t) => u = t
    BY <1>5 DEF TakeToken, RateLockHeld
  <2>3. QED
    BY <1>5, <2>1, <2>2, StartKeepsTokens DEF TakeToken
<1>6. ASSUME NEW t \in Tasks, Wake(t) PROVE TokenInv' /\ StartsSpaced'
  <2>1. wake[t] = nextStart[ThrottlerOf(t)]
    BY <1>6 DEF Wake, TokenInv
  <2>2. \A u \in Tasks : pc[u] = "sleeping" /\ ThrottlerOf(u) = ThrottlerOf(t) => u = t
    BY <1>6 DEF Wake, TokenInv
  <2>3. QED
    BY <1>6, <2>1, <2>2, StartKeepsTokens DEF Wake
<1>7. ASSUME NEW t \in Tasks, Sleep(t) PROVE TokenInv' /\ StartsSpaced'
  <2>1. UNCHANGED <<nextStart, starts>>
    BY <1>7 DEF Sleep
  <2>2. ASSUME NEW u \in Tasks, pc'[u] = "sleeping"
        PROVE  /\ wake'[u] = nextStart[ThrottlerOf(u)]
               /\ \A v \in Tasks : pc'[v] = "sleeping"
                    /\ ThrottlerOf(v) = ThrottlerOf(u) => v = u
    <3>1. \A v \in Tasks : pc'[v] = "sleeping" => v = t \/ pc[v] = "sleeping"
      BY <1>7 DEF Sleep, TypeOK
    <3>2. \A v \in Tasks : pc[v] = "sleeping" => ThrottlerOf(v) # ThrottlerOf(t)
      BY <1>7 DEF Sleep, RateLockHeld
    <3>3. CASE u = t
      BY <1>7, <3>1, <3>2, <3>3 DEF Sleep, TypeOK
    <3>4. CASE u # t
      BY <1>7, <2>2, <3>1, <3>2, <3>4 DEF Sleep, TypeOK, TokenInv
    <3>5. QED
      BY <3>3, <3>4
  <2>3. QED
    BY <2>1, <2>2 DEF TokenInv, StartsSpaced
<1>8. ASSUME NEW t \in Tasks, Finish(t) PROVE TokenInv' /\ StartsSpaced'
  BY <1>1, <1>8 DEF Finish, TypeOK
<1>9. CASE UNCHANGED vars
  BY <1>1, <1>9 DEF vars
<1>10. QED
  BY <1>2, <1>3, <1>4, <1>5, <1>6, <1>7, <1>8, <1>9 DEF Next, Step

\* The time of the next start is ahead of every start so far, and a sleeping
\* task wakes for it alone.
THEOREM TokenInvariant == Spec => [](TokenInv /\ StartsSpaced)
<1>1. Init => TokenInv /\ StartsSpaced
  BY DEF Init, TokenInv, StartsSpaced
<1>2. QED
  BY <1>1, TokenStep, TypeCorrect, PTL DEF Spec

\* Starts keep their distance, for any rate, jitter and number of callers.
THEOREM SpacingHolds == Spec => []StartsSpaced
<1>1. QED
  BY TokenInvariant, PTL

=============================================================================
