---------------------------- MODULE ProbeThrottle ----------------------------
(***************************************************************************)
(* The local rate limit of the CTS probe: CtsProbeThrottler.run, called by *)
(* the tasks of one or of several processes, each with a throttler of its  *)
(* own.                                                                    *)
(*                                                                         *)
(* A task takes a place of the semaphore, then the rate lock; under the    *)
(* lock it sleeps until the next permitted start and moves that time on by *)
(* one interval.  It keeps its place until its operation is over.  A task  *)
(* that does not have to sleep goes from the lock to its operation without *)
(* an await in between, so that is one step here.                          *)
(***************************************************************************)
EXTENDS Integers, Sequences, FiniteSets

CONSTANTS
  Throttlers,   \* one for each process that probes
  Callers,      \* the calls of run that each throttler serves
  Concurrency,  \* CtsProbeRateLimitConfig.concurrency
  Interval,     \* 1.0 / requests_per_second
  Jitter,       \* how early the event loop may wake a sleeping task
  MaxClock      \* bound of the model: calls come in until then

\* What CtsProbeRateLimitConfig.__post_init__ checks.
ASSUME LimitAssumption ==
  /\ IsFiniteSet(Callers)
  /\ Concurrency \in Nat \ {0}
  /\ Interval \in Nat \ {0}
  /\ Jitter \in Nat
  /\ MaxClock \in Nat

Tasks == Throttlers \X Callers
ThrottlerOf(t) == t[1]

VARIABLES
  clock,      \* time.monotonic, the same for every process
  nextStart,  \* _next_start of each throttler
  pc,         \* where each task is
  wake,       \* when each task asked to be woken, 0 if it did not
  starts      \* history: when each throttler let operations start

vars == <<clock, nextStart, pc, wake, starts>>

Stages == {"new", "queued", "place", "sleeping", "running", "done"}

TypeOK ==
  /\ clock \in Nat
  /\ nextStart \in [Throttlers -> Nat]
  /\ pc \in [Tasks -> Stages]
  /\ wake \in [Tasks -> Nat]
  /\ starts \in [Throttlers -> Seq(Nat)]

Init ==
  /\ clock = 0
  /\ nextStart = [h \in Throttlers |-> 0]
  /\ pc = [t \in Tasks |-> "new"]
  /\ wake = [t \in Tasks |-> 0]
  /\ starts = [h \in Throttlers |-> <<>>]

\* Fault: a place is never given back.
OccupyingForever(h) ==
  {t \in Tasks : ThrottlerOf(t) = h /\ pc[t] \in {"place", "sleeping", "running", "done"}}

\* The tasks that hold a place of the semaphore.
Occupying(h) ==
  {t \in Tasks : ThrottlerOf(t) = h /\ pc[t] \in {"place", "sleeping", "running"}}

\* Only a sleeping task holds the rate lock across steps.
RateLockHeld(h) == \E t \in Tasks : ThrottlerOf(t) = h /\ pc[t] = "sleeping"

\* Faults: the next start is counted from this start, even an early one; it
\* is set back instead of on.
NextStartFromNow(h) == clock + Interval
\* "max(now, self._next_start) + interval"
NextStartAfter(h) ==
  (IF clock > nextStart[h] THEN clock ELSE nextStart[h]) + Interval

StartOperation(t) ==
  LET h == ThrottlerOf(t) IN
  /\ pc' = [pc EXCEPT ![t] = "running"]
  /\ nextStart' = [nextStart EXCEPT ![h] = NextStartAfter(h)]
  /\ starts' = [starts EXCEPT ![h] = Append(@, clock)]
  /\ wake' = [wake EXCEPT ![t] = 0]
  /\ UNCHANGED clock

-----------------------------------------------------------------------------
Call(t) ==
  /\ pc[t] = "new"
  /\ clock =< MaxClock
  /\ pc' = [pc EXCEPT ![t] = "queued"]
  /\ UNCHANGED <<clock, nextStart, wake, starts>>

AcquirePlace(t) ==
  /\ pc[t] = "queued"
  /\ Cardinality(Occupying(ThrottlerOf(t))) < Concurrency
  /\ pc' = [pc EXCEPT ![t] = "place"]
  /\ UNCHANGED <<clock, nextStart, wake, starts>>

\* The lock is free and the next start is due: the operation starts.
TakeToken(t) ==
  /\ pc[t] = "place"
  /\ ~RateLockHeld(ThrottlerOf(t))
  /\ clock >= nextStart[ThrottlerOf(t)]
  /\ StartOperation(t)

\* The lock is free and the next start is not due: the task sleeps.
Sleep(t) ==
  /\ pc[t] = "place"
  /\ ~RateLockHeld(ThrottlerOf(t))
  /\ clock < nextStart[ThrottlerOf(t)]
  /\ pc' = [pc EXCEPT ![t] = "sleeping"]
  /\ wake' = [wake EXCEPT ![t] = nextStart[ThrottlerOf(t)]]
  /\ UNCHANGED <<clock, nextStart, starts>>

\* asyncio.sleep returns, at most Jitter early but as late as it likes; the
\* code does not check again.
Wake(t) ==
  /\ pc[t] = "sleeping"
  /\ clock + Jitter >= wake[t]
  /\ StartOperation(t)

\* The operation returns or raises: the place is free again.
Finish(t) ==
  /\ pc[t] = "running"
  /\ pc' = [pc EXCEPT ![t] = "done"]
  /\ UNCHANGED <<clock, nextStart, wake, starts>>

\* Beyond MaxClock time passes only while somebody sleeps.
Tick ==
  /\ clock < MaxClock \/ \E t \in Tasks : clock < wake[t]
  /\ clock' = clock + 1
  /\ UNCHANGED <<nextStart, pc, wake, starts>>

Step(t) ==
  \/ AcquirePlace(t)
  \/ TakeToken(t)
  \/ Sleep(t)
  \/ Wake(t)
  \/ Finish(t)

Next ==
  \/ Tick
  \/ \E t \in Tasks : Call(t) \/ Step(t)

Spec == Init /\ [][Next]_vars

\* The event loop runs every task that can go on, operations end (the client
\* has a timeout), and time passes.  Nobody has to call.
Fairness == WF_vars(Tick) /\ \A t \in Tasks : WF_vars(Step(t))

FairSpec == Spec /\ Fairness

-----------------------------------------------------------------------------
\* The k-th next start comes at least k intervals later, less one jitter: an
\* early wake-up is never added to an earlier one, and the time during which
\* nobody asked is not made up for by a burst (_next_start in _wait_for_token).
StartsSpaced ==
  \A h \in Throttlers : \A i, j \in DOMAIN starts[h] :
    i < j => starts[h][j] + Jitter >= starts[h][i] + (j - i) * Interval

\* Why: every start so far is as many intervals before the next one as there
\* are starts from it on.  The time a task asked to be woken at stays the next
\* start of its throttler because at most one task sleeps, under the lock.
TokenInv ==
  /\ \A h \in Throttlers : \A i \in DOMAIN starts[h] :
       nextStart[h] >= starts[h][i] + (Len(starts[h]) + 1 - i) * Interval
  /\ \A t \in Tasks :
       pc[t] = "sleeping" =>
         /\ wake[t] = nextStart[ThrottlerOf(t)]
         /\ \A u \in Tasks :
              pc[u] = "sleeping" /\ ThrottlerOf(u) = ThrottlerOf(t) => u = t

\* Every call is served: the semaphore and the lock under it never leave
\* everybody waiting.
CallsServed == \A t \in Tasks : pc[t] = "queued" ~> pc[t] = "done"

=============================================================================
