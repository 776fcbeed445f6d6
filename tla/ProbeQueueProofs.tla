-------------------------- MODULE ProbeQueueProofs --------------------------
(***************************************************************************)
(* What holds of the probe queue for every number of surfaces, runners,    *)
(* attempts and crashes; and what holds besides when runs do not overlap:  *)
(* a job lives the life ProbeLifecycle states, the provider is not asked   *)
(* twice about a surface within the TTL nor before the backoff is over,    *)
(* and an auth error stops the queue.  Runs may die anywhere.              *)
(***************************************************************************)
EXTENDS ProbeQueue, FiniteSetTheorems, TLAPS

-----------------------------------------------------------------------------
(* The shape of the state. *)

\* The rows a SELECT returns are rows of the table.
LEMMA SelectedRowsTyped ==
  ASSUME TypeOK, NEW S \in SUBSET Jobs
  PROVE  {[job |-> j, attempts |-> attempts[j], notBefore |-> notBefore[j]] :
            j \in S} \in SUBSET Rows
BY DEF TypeOK, Rows

\* The backoff of a retry is a number of seconds.
LEMMA RetryTimeTyped ==
  ASSUME TypeOK, NEW r \in Runners, NEW w \in rows[r], ShouldRetry(r, w)
  PROVE  /\ w.attempts + 1 \in 1..MaxAttempts
         /\ now[r] + BackoffDelay(w.attempts + 1) \in Nat
<1>1. w \in Rows /\ now[r] \in Nat
  BY BoundsAssumption DEF TypeOK, Times
<1>2. w.attempts + 1 \in 1..MaxAttempts
  BY <1>1, PolicyAssumption DEF ShouldRetry, Rows
<1>3. BackoffDelay(w.attempts + 1) \in Nat
  BY <1>2, PolicyAssumption
<1> QED
  BY <1>1, <1>2, <1>3

\* A run that goes on or ends keeps the types of what it holds in memory.
LEMMA LeaveTyped ==
  ASSUME TypeOK, NEW r \in Runners, Leave(r)
  PROVE  /\ pc' \in [Runners -> Locations]
         /\ now' \in [Runners -> Times]
         /\ todo' \in [Runners -> SUBSET Surfaces]
         /\ rows' \in [Runners -> SUBSET Rows]
         /\ result' \in [Runners -> Outcomes \cup {"none"}]
BY BoundsAssumption DEF TypeOK, Leave, GoTo, Locations, Times

\* A run that dies leaves jobs behind.
LEMMA DieTyped ==
  ASSUME TypeOK, NEW r \in Runners, Die(r)
  PROVE  /\ pc' \in [Runners -> Locations]
         /\ now' \in [Runners -> Times]
         /\ todo' \in [Runners -> SUBSET Surfaces]
         /\ rows' \in [Runners -> SUBSET Rows]
         /\ result' \in [Runners -> Outcomes \cup {"none"}]
         /\ stranded \subseteq stranded' /\ stranded' \subseteq Jobs
<1>1. \A w \in rows[r] : w.job \in Jobs
  BY DEF TypeOK, Rows
<1> QED
  BY <1>1, LeaveTyped DEF Die, TypeOK

\* Going on to the next leased job, or ending after the last, keeps the types.
LEMMA NextJobTyped ==
  ASSUME TypeOK, NEW r \in Runners, NEW w \in rows[r], NextJob(r, w)
  PROVE  /\ pc' \in [Runners -> Locations]
         /\ now' \in [Runners -> Times]
         /\ todo' \in [Runners -> SUBSET Surfaces]
         /\ rows' \in [Runners -> SUBSET Rows]
         /\ result' \in [Runners -> Outcomes \cup {"none"}]
<1>1. CASE rows[r] = {w}
  BY <1>1, LeaveTyped DEF NextJob
<1>2. CASE rows[r] # {w}
  BY <1>2 DEF NextJob, TypeOK, GoTo, Locations
<1> QED
  BY <1>1, <1>2

\* update_probe_job keeps the types of the table.
LEMMA UpdateTyped ==
  ASSUME TypeOK, NEW j \in Jobs, NEW st \in Statuses,
         NEW n \in Nat, NEW t \in Nat, UpdateProbeJob(j, st, n, t)
  PROVE  /\ status' \in [Jobs -> Statuses]
         /\ attempts' \in [Jobs -> Nat]
         /\ notBefore' \in [Jobs -> Nat]
BY DEF TypeOK, UpdateProbeJob

\* Initially every variable has its type.
LEMMA TypeOKInit == Init => TypeOK
BY BoundsAssumption, PolicyAssumption
   DEF Init, TypeOK, Statuses, OpenStatuses, PausableStatuses, DueStatuses,
       ClosedStatuses, Times, Locations, Outcomes, Observations

\* Every statement of a run keeps the types.
LEMMA TypeOKStep ==
  ASSUME TypeOK, NEW r \in Runners, Step(r)
  PROVE  TypeOK'
<1> USE BoundsAssumption DEF TypeOK
<1>1. ASSUME NEW s \in Surfaces, CheckFresh(r, s)
      PROVE  TypeOK'
  BY <1>1 DEF CheckFresh, SkipSurface, GoTo, Locations, table
<1>2. ASSUME NEW s \in Surfaces, CheckOpen(r, s)
      PROVE  TypeOK'
  BY <1>2 DEF CheckOpen, SkipSurface, GoTo, Locations, table
<1>3. ASSUME NEW s \in Surfaces, InsertProbeJob(r, s)
      PROVE  TypeOK'
  <2>1. <<s, now[r]>> \in Jobs /\ now[r] \in Nat
    BY DEF Jobs, Times
  <2>2. status' \in [Jobs -> Statuses] /\ attempts' \in [Jobs -> Nat]
        /\ notBefore' \in [Jobs -> Nat]
    BY <1>3, <2>1, UpdateTyped
       DEF InsertProbeJob, table, Statuses, OpenStatuses, PausableStatuses,
           DueStatuses
  <2> QED
    BY <1>3, <2>2 DEF InsertProbeJob, GoTo, Locations
<1>4. CASE ScheduleDone(r)
  BY <1>4 DEF ScheduleDone, GoTo, Locations, table
<1>5. CASE SelectDueJobs(r)
  BY <1>5, SelectedRowsTyped DEF SelectDueJobs, GoTo, Locations, table
<1>6. CASE LeaseDueJobs(r)
  <2>1. status' \in [Jobs -> Statuses]
    BY <1>6 DEF LeaseDueJobs, Statuses, OpenStatuses, PausableStatuses
  <2>2. CASE Leased(r) = {}
    BY <1>6, <2>1, <2>2, LeaveTyped DEF LeaseDueJobs
  <2>3. CASE Leased(r) # {}
    BY <1>6, <2>1, <2>3 DEF LeaseDueJobs, Leased, GoTo, Locations
  <2> QED
    BY <2>2, <2>3
<1>7. ASSUME NEW w \in rows[r]
      PROVE  /\ Request(r, w) => TypeOK'
             /\ \A o \in Outcomes : InsertObservation(r, w, o) => TypeOK'
             /\ ObservationRejected(r, w) => TypeOK'
             /\ Succeed(r, w) => TypeOK'
             /\ Retry(r, w) => TypeOK'
             /\ Fail(r, w) => TypeOK'
             /\ AuthError(r, w) => TypeOK'
             /\ PausePendingJobs(r, w) => TypeOK'
  <2>1. w \in Rows /\ w.job \in Jobs /\ w.attempts \in Nat /\ w.notBefore \in Nat
        /\ w.attempts + 1 \in Nat
    BY DEF Rows
  <2> USE DEF Statuses, OpenStatuses, PausableStatuses, DueStatuses,
              ClosedStatuses
  <2>2. Request(r, w) => TypeOK'
    BY <2>1 DEF Request, GoTo, Locations, table
  <2>3. ASSUME NEW o \in Outcomes, InsertObservation(r, w, o)
        PROVE  TypeOK'
    BY <2>1, <2>3 DEF InsertObservation, GoTo, Locations, table, Observations
  <2>4. ObservationRejected(r, w) => TypeOK'
    BY DieTyped DEF ObservationRejected, table
  <2>5. Succeed(r, w) => TypeOK'
    BY <2>1, NextJobTyped, UpdateTyped DEF Succeed
  <2>6. Retry(r, w) => TypeOK'
    BY <2>1, NextJobTyped, UpdateTyped, RetryTimeTyped DEF Retry
  <2>7. Fail(r, w) => TypeOK'
    BY <2>1, NextJobTyped, UpdateTyped DEF Fail
  <2>8. AuthError(r, w) => TypeOK'
    BY <2>1, UpdateTyped DEF AuthError, GoTo, Locations
  <2>9. PausePendingJobs(r, w) => TypeOK'
    BY LeaveTyped DEF PausePendingJobs
  <2> QED
    BY <2>2, <2>3, <2>4, <2>5, <2>6, <2>7, <2>8, <2>9
<1> QED
  BY <1>1, <1>2, <1>3, <1>4, <1>5, <1>6, <1>7 DEF Step

\* The state always has the declared shape: statuses and locations are among
\* those the code names, and rows in memory are rows the table had.
THEOREM TypeCorrect == Spec => []TypeOK
<1>1. TypeOK /\ [Next]_vars => TypeOK'
  <2> SUFFICES ASSUME TypeOK, [Next]_vars PROVE TypeOK'
    OBVIOUS
  <2>1. CASE Tick
    BY <2>1, BoundsAssumption DEF Tick, TypeOK, table, process, Times
  <2>2. ASSUME NEW r \in Runners, Start(r) PROVE TypeOK'
    BY <2>2, BoundsAssumption DEF Start, TypeOK, GoTo, Locations, table
  <2>3. ASSUME NEW r \in Runners, Step(r) PROVE TypeOK'
    BY <2>3, TypeOKStep
  <2>4. ASSUME NEW r \in Runners, Crash(r) PROVE TypeOK'
    BY <2>4, DieTyped, BoundsAssumption DEF Crash, TypeOK, table
  <2>5. CASE UNCHANGED vars
    BY <2>5 DEF vars, table, process, TypeOK
  <2> QED
    BY <2>1, <2>2, <2>3, <2>4, <2>5 DEF Next
<1> QED
  BY <1>1, TypeOKInit, PTL DEF Spec

-----------------------------------------------------------------------------
(* The inductive invariant. *)

\* The loop over the leased rows is deterministic.
LEMMA NextRowUnique ==
  ASSUME TypeOK, RowsKeyed, NEW r \in Runners,
         NEW v \in rows[r], NEW w \in rows[r], NextRow(r, v), NextRow(r, w)
  PROVE  v = w
<1>1. v.job \in Jobs /\ w.job \in Jobs
  BY DEF TypeOK, Rows
<1>2. Before(v, w) /\ Before(w, v)
  BY DEF NextRow
<1>3. ASSUME NEW j \in Jobs
      PROVE  j = <<j[1], j[2]>> /\ j[1] \in Nat /\ j[2] \in Nat
  <2>1. PICK s \in Surfaces, t \in Times : j = <<s, t>>
    BY DEF Jobs
  <2>2. s \in Nat /\ t \in Nat
    BY BoundsAssumption DEF Times
  <2> QED
    BY <2>1, <2>2
<1>4. v.job[1] = w.job[1] /\ v.job[2] = w.job[2]
  BY <1>1, <1>2, <1>3 DEF Before, SurfaceOf, ScheduledAt
<1>5. v.job = w.job
  BY <1>1, <1>3, <1>4
<1> QED
  BY <1>5 DEF RowsKeyed

\* Steps that change neither tables nor rows in memory, and enter and leave
\* no location at which rows are leased, cannot disturb the invariant.
LEMMA QuietStep ==
  ASSUME TypeOK, QueueInv,
         UNCHANGED <<table, observations, requests, rows>>,
         \A q \in Runners : pc'[q] # pc[q] =>
           pc[q] \notin Holding /\ pc'[q] \notin Holding
  PROVE  QueueInv'
BY DEF QueueInv, RowsKeyed, LeaseExclusive, Held, JobOK, RowOK, Ahead,
       HasObservation, NextRow, table, Holding

\* A run that drops its rows cannot disturb the invariant either.
LEMMA DroppedRows ==
  ASSUME TypeOK, QueueInv, NEW r \in Runners, Leave(r),
         UNCHANGED <<table, observations, requests>>
  PROVE  QueueInv'
<1>1. /\ \A q \in Runners : q # r => pc'[q] = pc[q] /\ rows'[q] = rows[q]
      /\ rows'[r] = {}
  BY DEF Leave, GoTo, TypeOK
<1>2. \A q \in Runners : rows'[q] \subseteq rows[q]
  BY <1>1
<1>3. RowsKeyed'
  BY <1>2 DEF QueueInv, RowsKeyed
<1>4. LeaseExclusive'
  BY <1>1, <1>2 DEF QueueInv, LeaseExclusive, Held
<1>5. \A j \in Jobs : JobOK(j)'
  BY DEF QueueInv, JobOK, Ahead, HasObservation, table
<1>6. \A q \in Runners : \A w \in rows'[q] : RowOK(q, w)'
  BY <1>1 DEF QueueInv, RowOK, Ahead, HasObservation, NextRow, table
<1> QED
  BY <1>3, <1>4, <1>5, <1>6 DEF QueueInv

\* No job exists and no run has started.
LEMMA QueueInvInit == Init => QueueInv
BY BoundsAssumption, PolicyAssumption
   DEF Init, QueueInv, RowsKeyed, LeaseExclusive, Held, JobOK, RowOK, Ahead,
       HasObservation, Holding, Busy, DueStatuses

\* A new job has no attempts, no observations and no requests.
LEMMA InsertProbeJobInv ==
  ASSUME TypeOK, QueueInv, NEW r \in Runners, NEW s \in Surfaces,
         InsertProbeJob(r, s)
  PROVE  QueueInv'
<1> DEFINE j == <<s, now[r]>>
<1>1. CASE status[j] # "absent"
  <2>1. UNCHANGED table
    BY <1>1 DEF InsertProbeJob
  <2> QED
    BY <2>1, QuietStep DEF InsertProbeJob, GoTo, TypeOK, Holding
<1>2. CASE status[j] = "absent"
  <2>1. j \in Jobs
    BY DEF TypeOK, Jobs
  <2>2. /\ status' = [status EXCEPT ![j] = "scheduled"]
        /\ attempts' = [attempts EXCEPT ![j] = 0]
        /\ UNCHANGED <<observations, requests, rows>>
        /\ \A q \in Runners : pc'[q] # pc[q] =>
             pc[q] \notin Holding /\ pc'[q] \notin Holding
    BY <1>2 DEF InsertProbeJob, UpdateProbeJob, GoTo, TypeOK, Holding
  <2>3. attempts[j] = 0 /\ requests[j] = 0 /\ ~Ahead(j)
    BY <1>2, <2>1 DEF QueueInv, JobOK, Busy
  <2>4. attempts' = attempts
    BY <2>1, <2>2, <2>3 DEF TypeOK
  <2>5. \A q \in Runners : \A w \in rows[q] : w.job # j
    BY <1>2 DEF QueueInv, RowOK
  <2>6. ASSUME NEW k \in Jobs PROVE JobOK(k)'
    <3>1. JobOK(k) /\ requests' = requests /\ observations' = observations
      BY <2>2 DEF QueueInv
    <3>2. CASE k = j
      <4>1. status'[k] = "scheduled"
        BY <2>1, <2>2, <3>2 DEF TypeOK
      <4> QED
        BY <2>3, <2>4, <3>1, <3>2, <4>1, PolicyAssumption
           DEF JobOK, Ahead, HasObservation, Busy, DueStatuses
    <3>3. CASE k # j
      <4>1. status'[k] = status[k]
        BY <2>1, <2>2, <3>3 DEF TypeOK
      <4> QED
        BY <2>4, <3>1, <4>1 DEF JobOK, Ahead, HasObservation
    <3> QED
      BY <3>2, <3>3
  <2>7. \A q \in Runners : \A w \in rows[q] :
          w.job \in Jobs /\ status'[w.job] = status[w.job]
    BY <2>1, <2>2, <2>5 DEF TypeOK, Rows
  <2>8. \A q \in Runners : \A w \in rows'[q] : RowOK(q, w)'
    BY <2>2, <2>4, <2>7
       DEF QueueInv, RowOK, Ahead, HasObservation, NextRow, Holding
  <2> QED
    BY <2>2, <2>6, <2>8 DEF QueueInv, RowsKeyed, LeaseExclusive, Held
<1> QED
  BY <1>1, <1>2

\* The rows that were selected are as the table has them now.
LEMMA SelectDueJobsInv ==
  ASSUME TypeOK, QueueInv, NEW r \in Runners, SelectDueJobs(r)
  PROVE  QueueInv'
<1>1. /\ \A q \in Runners : q # r => pc'[q] = pc[q] /\ rows'[q] = rows[q]
      /\ pc'[r] = "lease"
      /\ UNCHANGED <<table, observations, requests>>
  BY DEF SelectDueJobs, GoTo, TypeOK
<1>2. \A w \in rows'[r] : /\ w.job \in Jobs
                          /\ w.attempts = attempts[w.job]
                          /\ status[w.job] \in DueStatuses
                          /\ w.notBefore = notBefore[w.job]
                          /\ w = [job |-> w.job, attempts |-> w.attempts,
                                  notBefore |-> w.notBefore]
  BY DEF SelectDueJobs, IsDue, TypeOK
<1>3. RowsKeyed'
  BY <1>1, <1>2 DEF QueueInv, RowsKeyed
<1>4. LeaseExclusive'
  BY <1>1 DEF QueueInv, LeaseExclusive, Held, Holding
<1>5. \A j \in Jobs : JobOK(j)'
  BY <1>1 DEF QueueInv, JobOK, Ahead, HasObservation, table
<1>6. \A q \in Runners : \A w \in rows'[q] : RowOK(q, w)'
  BY <1>1, <1>2
     DEF QueueInv, RowOK, Ahead, HasObservation, NextRow, table, DueStatuses,
         TypeOK
<1> QED
  BY <1>3, <1>4, <1>5, <1>6 DEF QueueInv

\* The re-check of the status gives each waiting job to one run only, and a
\* waiting job has no answer that its row does not count.
LEMMA LeaseDueJobsInv ==
  ASSUME TypeOK, QueueInv, NEW r \in Runners, LeaseDueJobs(r)
  PROVE  QueueInv'
<1> DEFINE given == {w.job : w \in Leased(r)}
<1>1. /\ \A q \in Runners : q # r => pc'[q] = pc[q] /\ rows'[q] = rows[q]
      /\ rows'[r] = Leased(r)
      /\ pc[r] = "lease"
      /\ Leased(r) # {} => pc'[r] = "request"
      /\ Leased(r) \subseteq rows[r]
      /\ UNCHANGED <<attempts, notBefore, observations, requests>>
  BY DEF LeaseDueJobs, Leave, GoTo, TypeOK, Leased
<1>2. \A j \in Jobs : status'[j] = IF j \in given THEN "running" ELSE status[j]
  BY DEF LeaseDueJobs
<1>3. \A j \in given : j \in Jobs /\ status[j] \in DueStatuses
  BY DEF Leased, TypeOK, Rows
<1>4. \A q \in Runners : \A w \in rows[q] : Held(q, w) =>
        w.job \in Jobs /\ w.job \notin given
  BY <1>3 DEF QueueInv, RowOK, Held, Holding, Busy, DueStatuses, TypeOK, Rows
<1>5. \A q \in Runners : \A w \in rows[q] : w.job \in Jobs /\ w.attempts \in Nat
  BY DEF TypeOK, Rows
<1>6. RowsKeyed'
  BY <1>1 DEF QueueInv, RowsKeyed
<1>7. LeaseExclusive'
  <2> SUFFICES ASSUME NEW p \in Runners, NEW q \in Runners,
                      NEW v \in rows'[p], NEW w \in rows'[q],
                      Held(p, v)', Held(q, w)', v.job = w.job
               PROVE  p = q /\ v = w
    BY DEF LeaseExclusive
  <2>1. CASE p = r /\ q = r
    BY <1>6, <2>1 DEF RowsKeyed
  <2>2. CASE p # r /\ q # r
    BY <1>1, <2>2 DEF QueueInv, LeaseExclusive, Held
  <2>3. CASE (p = r) # (q = r)
    BY <1>1, <1>4, <2>3 DEF Held
  <2> QED
    BY <2>1, <2>2, <2>3
<1>8. ASSUME NEW j \in Jobs PROVE JobOK(j)'
  <2>1. JobOK(j) /\ (Ahead(j)' <=> Ahead(j))
    BY <1>1 DEF QueueInv, Ahead, HasObservation
  <2>2. CASE j \in given
    BY <1>1, <1>2, <1>3, <2>1, <2>2
       DEF JobOK, HasObservation, Busy, DueStatuses
  <2>3. CASE j \notin given
    BY <1>1, <1>2, <2>1, <2>3 DEF JobOK, HasObservation
  <2> QED
    BY <2>2, <2>3
<1>9. ASSUME NEW q \in Runners, NEW w \in rows'[q] PROVE RowOK(q, w)'
  <2>1. w \in rows[q] /\ RowOK(q, w) /\ (Ahead(w.job)' <=> Ahead(w.job))
    BY <1>1 DEF QueueInv, Ahead, HasObservation
  <2>2. CASE q = r
    <3>1. w.job \in given /\ pc'[r] = "request"
      BY <1>1, <2>2
    <3>2. status[w.job] \in DueStatuses /\ JobOK(w.job)
      BY <1>3, <3>1 DEF QueueInv
    <3>3. ~Ahead(w.job) /\ attempts[w.job] < MaxAttempts
          /\ requests[w.job] =< attempts[w.job]
      BY <3>2 DEF JobOK, DueStatuses, Busy
    <3> QED
      BY <1>1, <1>2, <1>3, <2>1, <2>2, <3>1, <3>3 DEF RowOK, Busy
  <2>3. CASE q # r /\ pc[q] \in Holding
    <3>1. status'[w.job] = status[w.job]
      BY <1>2, <1>4, <2>1, <2>3 DEF Held
    <3> QED
      BY <1>1, <2>1, <2>3, <3>1 DEF RowOK, NextRow
  <2>4. CASE q # r /\ pc[q] \notin Holding
    BY <1>1, <1>2, <1>5, <2>1, <2>4 DEF RowOK, Holding
  <2> QED
    BY <2>2, <2>3, <2>4
<1> QED
  BY <1>6, <1>7, <1>8, <1>9 DEF QueueInv

\* A request is for the next attempt of a job that has one left.
LEMMA RequestInv ==
  ASSUME TypeOK, QueueInv, NEW r \in Runners, NEW w \in rows[r], Request(r, w)
  PROVE  QueueInv'
<1>1. /\ pc[r] = "request" /\ pc'[r] = "answer" /\ NextRow(r, w)
      /\ \A q \in Runners : q # r => pc'[q] = pc[q]
      /\ UNCHANGED <<table, observations, rows>>
  BY DEF Request, GoTo, TypeOK
<1>2. w.job \in Jobs /\ requests[w.job] \in Nat /\ attempts[w.job] \in Nat
  BY DEF TypeOK, Rows
<1>3. \A j \in Jobs :
        requests'[j] = IF j = w.job THEN requests[j] + 1 ELSE requests[j]
  BY DEF Request, TypeOK
<1>4. JobOK(w.job) /\ RowOK(r, w)
  BY <1>2 DEF QueueInv
<1>5. /\ status[w.job] \in Busy
      /\ attempts[w.job] < MaxAttempts
      /\ requests[w.job] =< attempts[w.job]
  BY <1>1, <1>4 DEF RowOK
<1>6. LeaseExclusive'
  BY <1>1 DEF QueueInv, LeaseExclusive, Held, Holding
<1>7. ASSUME NEW j \in Jobs PROVE JobOK(j)'
  <2>1. JobOK(j) /\ (Ahead(j)' <=> Ahead(j))
    BY <1>1 DEF QueueInv, Ahead, HasObservation, table
  <2>2. CASE j = w.job
    <3>1. requests'[j] =< attempts[j] \/ requests'[j] = attempts[j] + 1
      BY <1>2, <1>3, <1>5, <2>2
    <3> QED
      BY <1>1, <1>5, <2>1, <2>2, <3>1
         DEF JobOK, HasObservation, Busy, table
  <2>3. CASE j # w.job
    BY <1>1, <1>3, <2>1, <2>3 DEF JobOK, HasObservation, table
  <2> QED
    BY <2>2, <2>3
<1>8. ASSUME NEW q \in Runners, NEW v \in rows'[q] PROVE RowOK(q, v)'
  <2>1. v \in rows[q] /\ RowOK(q, v) /\ (Ahead(v.job)' <=> Ahead(v.job))
        /\ v.job \in Jobs
    BY <1>1 DEF QueueInv, Ahead, HasObservation, table, TypeOK, Rows
  <2>2. CASE v.job = w.job
    <3>1. CASE pc[q] \in Holding
      <4>1. q = r /\ v = w
        BY <1>1, <2>1, <2>2, <3>1
           DEF QueueInv, LeaseExclusive, Held, Holding
      <4> QED
        BY <1>1, <2>1, <4>1 DEF RowOK, NextRow, table
    <3>2. CASE pc[q] \notin Holding
      BY <1>1, <2>1, <3>2 DEF RowOK, Holding, table
    <3> QED
      BY <3>1, <3>2
  <2>3. CASE v.job # w.job
    <3>1. requests'[v.job] = requests[v.job]
      BY <1>3, <2>1, <2>3
    <3>2. CASE q = r
      <4>1. v # w /\ ~NextRow(r, v)
        BY <1>1, <2>1, <2>3, <3>2, NextRowUnique DEF QueueInv
      <4> QED
        BY <1>1, <2>1, <3>1, <3>2, <4>1 DEF RowOK, NextRow, table
    <3>3. CASE q # r
      BY <1>1, <2>1, <3>1, <3>3 DEF RowOK, NextRow, table
    <3> QED
      BY <3>2, <3>3
  <2> QED
    BY <2>2, <2>3
<1> QED
  BY <1>1, <1>6, <1>7, <1>8 DEF QueueInv, RowsKeyed

\* An observation is inserted only by a run whose row is not stale: had the
\* job got another answer since, that answer would have the same key.
LEMMA FreshRow ==
  ASSUME TypeOK, QueueInv, NEW r \in Runners, NEW w \in rows[r],
         ~HasObservation(w.job, w.attempts + 1)
  PROVE  w.attempts = attempts[w.job] /\ ~Ahead(w.job)
<1>1. /\ w.job \in Jobs /\ attempts[w.job] \in Nat /\ w.attempts \in Nat
      /\ w.attempts =< attempts[w.job]
  BY DEF QueueInv, RowOK, TypeOK, Rows
<1>2. ~(w.attempts < attempts[w.job])
  <2>1. \A k \in 1..attempts[w.job] : HasObservation(w.job, k)
    BY <1>1 DEF QueueInv, JobOK
  <2> QED
    BY <1>1, <2>1
<1> QED
  BY <1>1, <1>2 DEF Ahead

\* The observation of an attempt puts its job ahead of its row.
LEMMA InsertObservationInv ==
  ASSUME TypeOK, QueueInv, NEW r \in Runners, NEW w \in rows[r],
         NEW outcome \in Outcomes, InsertObservation(r, w, outcome)
  PROVE  QueueInv'
<1>1. /\ pc[r] = "answer" /\ pc'[r] = "update" /\ NextRow(r, w)
      /\ \A q \in Runners : q # r => pc'[q] = pc[q]
      /\ UNCHANGED <<table, requests, rows>>
  BY DEF InsertObservation, GoTo, TypeOK
<1>2. /\ w.job \in Jobs /\ attempts[w.job] \in Nat
      /\ w.attempts = attempts[w.job] /\ ~Ahead(w.job)
  BY FreshRow DEF InsertObservation, TypeOK, Rows
<1>3. \E o \in observations' :
        /\ observations' = observations \cup {o}
        /\ o.job = w.job
        /\ o.attempt = attempts[w.job] + 1
  <2> DEFINE new == [job |-> w.job, attempt |-> w.attempts + 1,
                     status |-> outcome, at |-> now[r]]
  <2>1. observations' = observations \cup {new} /\ new \in observations'
    BY DEF InsertObservation
  <2>2. new.job = w.job /\ new.attempt = attempts[w.job] + 1
    BY <1>2
  <2> HIDE DEF new
  <2> QED
    BY <2>1, <2>2
<1>4. \A j \in Jobs : \A k :
        HasObservation(j, k)' <=>
          HasObservation(j, k) \/ (j = w.job /\ k = attempts[w.job] + 1)
  BY <1>3 DEF HasObservation
<1>5. /\ status[w.job] \in Busy
      /\ attempts[w.job] < MaxAttempts
  BY <1>1 DEF QueueInv, RowOK
<1>6. \A j \in Jobs : Ahead(j)' <=> Ahead(j) \/ j = w.job
  BY <1>1, <1>4 DEF Ahead, table
<1>7. LeaseExclusive'
  BY <1>1 DEF QueueInv, LeaseExclusive, Held, Holding
<1>8. ASSUME NEW j \in Jobs PROVE JobOK(j)'
  <2>1. JobOK(j) /\ attempts[j] \in Nat
    BY DEF QueueInv, TypeOK
  <2>2. \A k \in 1..attempts[j] : HasObservation(j, k)'
    BY <1>4, <2>1 DEF JobOK
  <2>3. \A o \in observations' :
          o.job = j => o.attempt >= 1 /\ o.attempt =< attempts[j] + 1
    BY <1>2, <1>3, <2>1 DEF JobOK
  <2>4. Ahead(j)' => status[j] \in Busy
    BY <1>5, <1>6, <2>1 DEF JobOK
  <2> QED
    BY <1>1, <2>1, <2>2, <2>3, <2>4 DEF JobOK, table
<1>9. ASSUME NEW q \in Runners, NEW v \in rows'[q] PROVE RowOK(q, v)'
  <2>1. v \in rows[q] /\ RowOK(q, v) /\ v.job \in Jobs
    BY <1>1 DEF QueueInv, TypeOK, Rows
  <2>2. CASE v.job = w.job
    <3>1. CASE pc[q] \in Holding
      <4>1. q = r /\ v = w
        BY <1>1, <2>1, <2>2, <3>1
           DEF QueueInv, LeaseExclusive, Held, Holding
      <4>2. Ahead(v.job)' /\ NextRow(q, v)'
        BY <1>1, <1>2, <1>6, <4>1 DEF NextRow
      <4> QED
        BY <1>1, <1>2, <1>5, <2>1, <4>1, <4>2 DEF RowOK, table
    <3>2. CASE pc[q] \notin Holding
      BY <1>1, <2>1, <3>2 DEF RowOK, Holding, table
    <3> QED
      BY <3>1, <3>2
  <2>3. CASE v.job # w.job
    <3>1. Ahead(v.job)' <=> Ahead(v.job)
      BY <1>6, <2>1, <2>3
    <3>2. CASE q = r
      <4>1. v # w /\ ~NextRow(r, v)
        BY <1>1, <2>1, <2>3, <3>2, NextRowUnique DEF QueueInv
      <4> QED
        BY <1>1, <2>1, <3>1, <3>2, <4>1 DEF RowOK, NextRow, table
    <3>3. CASE q # r
      BY <1>1, <2>1, <3>1, <3>3 DEF RowOK, NextRow, table
    <3> QED
      BY <3>2, <3>3
  <2> QED
    BY <2>2, <2>3
<1> QED
  BY <1>1, <1>7, <1>8, <1>9 DEF QueueInv, RowsKeyed

\* The update that ends an attempt: the job counts the answer it is ahead by.
LEMMA UpdateInv ==
  ASSUME TypeOK, QueueInv, NEW r \in Runners, NEW w \in rows[r],
         pc[r] = "update", NextRow(r, w),
         NEW st \in ClosedStatuses \cup {"retry_scheduled"}, NEW t \in Nat,
         st = "retry_scheduled" => w.attempts + 1 < MaxAttempts,
         UpdateProbeJob(w.job, st, w.attempts + 1, t),
         UNCHANGED <<observations, requests>>,
         \/ NextJob(r, w)
         \/ st = "auth_error" /\ GoTo(r, "pause") /\ UNCHANGED rows
  PROVE  QueueInv'
<1> DEFINE j == w.job
<1>1. /\ j \in Jobs /\ attempts[j] \in Nat /\ requests[j] \in Nat
      /\ w.attempts = attempts[j]
      /\ JobOK(j) /\ Ahead(j) /\ attempts[j] < MaxAttempts
      /\ MaxAttempts \in Nat
  BY PolicyAssumption DEF QueueInv, RowOK, TypeOK, Rows
<1>2. \A k \in Jobs :
        /\ status'[k] = IF k = j THEN st ELSE status[k]
        /\ attempts'[k] = IF k = j THEN attempts[k] + 1 ELSE attempts[k]
  BY <1>1 DEF UpdateProbeJob, TypeOK
<1>3. /\ \A q \in Runners : q # r => pc'[q] = pc[q] /\ rows'[q] = rows[q]
      /\ \/ rows'[r] = rows[r] \ {w} /\ (rows'[r] = {} \/ pc'[r] = "request")
         \/ rows'[r] = rows[r] /\ pc'[r] = "pause" /\ st = "auth_error"
  BY DEF NextJob, Leave, GoTo, TypeOK
<1>4. \A k \in Jobs : k # j => (Ahead(k)' <=> Ahead(k))
  BY <1>2 DEF Ahead, HasObservation
<1>5. /\ \A k \in 1..attempts'[j] : HasObservation(j, k)
      /\ \A o \in observations : o.job = j =>
           o.attempt >= 1 /\ o.attempt =< attempts'[j]
  BY <1>1, <1>2 DEF JobOK, Ahead
<1>6. ~Ahead(j)'
  <2>1. ~HasObservation(j, attempts'[j] + 1)
    BY <1>1, <1>2, <1>5 DEF HasObservation
  <2> QED
    BY <2>1 DEF Ahead, HasObservation
<1>7. \A q \in Runners : rows'[q] \subseteq rows[q]
  BY <1>3
<1>8. RowsKeyed'
  BY <1>7 DEF QueueInv, RowsKeyed
<1>9. \A q \in Runners : \A v \in rows'[q] : Held(q, v)' => Held(q, v)
  BY <1>3 DEF Held, Holding
<1>10. LeaseExclusive'
  BY <1>7, <1>9 DEF QueueInv, LeaseExclusive
<1>11. ASSUME NEW k \in Jobs PROVE JobOK(k)'
  <2>1. CASE k = j
    <3>1. requests[j] =< attempts'[j]
      BY <1>1, <1>2 DEF JobOK
    <3>2. attempts'[j] =< MaxAttempts
          /\ (st = "retry_scheduled" => attempts'[j] < MaxAttempts)
      BY <1>1, <1>2
    <3>3. status'[j] = st /\ st # "absent" /\ st # "scheduled"
      BY <1>1, <1>2 DEF ClosedStatuses
    <3>4. /\ \A n \in 1..attempts'[j] : HasObservation(j, n)'
          /\ \A o \in observations' : o.job = j =>
               o.attempt >= 1 /\ o.attempt =< attempts'[j] + 1
      <4>1. \A o \in observations : o.attempt \in Nat
        BY DEF TypeOK, Observations
      <4> QED
        BY <1>1, <1>2, <1>5, <4>1 DEF HasObservation
    <3>5. requests' = requests
      OBVIOUS
    <3> QED
      BY <1>6, <2>1, <3>1, <3>2, <3>3, <3>4, <3>5 DEF JobOK, DueStatuses
  <2>2. CASE k # j
    BY <1>2, <1>4, <2>2 DEF QueueInv, JobOK, HasObservation
  <2> QED
    BY <2>1, <2>2
<1>12. ASSUME NEW q \in Runners, NEW v \in rows'[q] PROVE RowOK(q, v)'
  <2>1. v \in rows[q] /\ RowOK(q, v) /\ v.job \in Jobs /\ v.attempts \in Nat
        /\ attempts[v.job] \in Nat
    BY <1>7 DEF QueueInv, TypeOK, Rows
  <2>2. CASE v.job = j
    <3>1. CASE pc[q] \in Holding
      <4>1. q = r /\ v = w
        BY <2>1, <2>2, <3>1 DEF QueueInv, LeaseExclusive, Held, Holding
      <4>2. pc'[r] = "pause" /\ st = "auth_error"
        BY <1>3, <4>1
      <4> QED
        BY <1>1, <1>2, <2>1, <4>1, <4>2 DEF RowOK
    <3>2. CASE pc[q] \notin Holding
      <4>1. q # r /\ pc'[q] = pc[q]
        BY <1>3, <3>2 DEF Holding
      <4>2. v.attempts =< attempts'[v.job] /\ status'[v.job] # "absent"
        BY <1>1, <1>2, <2>1, <2>2 DEF RowOK, ClosedStatuses
      <4> QED
        BY <3>2, <4>1, <4>2 DEF RowOK, Holding
    <3> QED
      BY <3>1, <3>2
  <2>3. CASE v.job # j
    <3>1. /\ status'[v.job] = status[v.job]
          /\ attempts'[v.job] = attempts[v.job]
          /\ requests'[v.job] = requests[v.job]
          /\ (Ahead(v.job)' <=> Ahead(v.job))
      BY <1>2, <1>4, <2>1, <2>3
    <3>2. CASE q = r
      <4>1. v # w /\ ~NextRow(r, v)
        BY <2>1, <2>3, <3>2, NextRowUnique DEF QueueInv
      <4>2. pc'[r] = "request" \/ pc'[r] = "pause"
        BY <1>3, <3>2
      <4> QED
        BY <2>1, <3>1, <3>2, <4>1, <4>2 DEF RowOK
    <3>3. CASE q # r
      BY <1>3, <2>1, <3>1, <3>3 DEF RowOK, NextRow
    <3> QED
      BY <3>2, <3>3
  <2> QED
    BY <2>2, <2>3
<1> QED
  BY <1>8, <1>10, <1>11, <1>12 DEF QueueInv

\* A pause makes waiting and running jobs paused, and busy jobs stay busy.
LEMMA PausePendingJobsInv ==
  ASSUME TypeOK, QueueInv, NEW r \in Runners, NEW w \in rows[r],
         PausePendingJobs(r, w)
  PROVE  QueueInv'
<1>1. /\ \A q \in Runners : q # r => pc'[q] = pc[q] /\ rows'[q] = rows[q]
      /\ rows'[r] = {}
      /\ UNCHANGED <<attempts, notBefore, observations, requests>>
  BY DEF PausePendingJobs, Leave, GoTo, TypeOK
<1>2. \A j \in Jobs :
        \/ status'[j] = status[j]
        \/ status[j] \in PausableStatuses /\ status'[j] = "paused_auth"
  BY DEF PausePendingJobs
<1>3. \A q \in Runners : rows'[q] \subseteq rows[q]
  BY <1>1
<1>4. RowsKeyed' /\ LeaseExclusive'
  BY <1>1, <1>3 DEF QueueInv, RowsKeyed, LeaseExclusive, Held
<1>5. \A j \in Jobs : Ahead(j)' <=> Ahead(j)
  BY <1>1 DEF Ahead, HasObservation
<1>6. \A j \in Jobs : JobOK(j)'
  BY <1>1, <1>2, <1>5
     DEF QueueInv, JobOK, HasObservation, Busy, DueStatuses, PausableStatuses
<1>7. ASSUME NEW q \in Runners, NEW v \in rows'[q] PROVE RowOK(q, v)'
  <2>1. q # r /\ v \in rows[q] /\ v.job \in Jobs /\ RowOK(q, v)
    BY <1>1 DEF QueueInv, TypeOK, Rows
  <2> QED
    BY <1>1, <1>2, <1>5, <2>1 DEF RowOK, NextRow, Busy
<1> QED
  BY <1>4, <1>6, <1>7 DEF QueueInv

\* Every statement of a run keeps the invariant.
LEMMA QueueInvStep ==
  ASSUME TypeOK, QueueInv, NEW r \in Runners, Step(r)
  PROVE  QueueInv'
<1>1. ASSUME NEW s \in Surfaces, CheckFresh(r, s) \/ CheckOpen(r, s)
      PROVE  QueueInv'
  BY <1>1, QuietStep
     DEF CheckFresh, CheckOpen, SkipSurface, GoTo, TypeOK, Holding
<1>2. ASSUME NEW s \in Surfaces, InsertProbeJob(r, s)
      PROVE  QueueInv'
  BY <1>2, InsertProbeJobInv
<1>3. CASE ScheduleDone(r)
  BY <1>3, QuietStep DEF ScheduleDone, GoTo, TypeOK, Holding
<1>4. CASE SelectDueJobs(r)
  BY <1>4, SelectDueJobsInv
<1>5. CASE LeaseDueJobs(r)
  BY <1>5, LeaseDueJobsInv
<1>6. ASSUME NEW w \in rows[r],
             \/ Request(r, w)
             \/ \E outcome \in Outcomes : InsertObservation(r, w, outcome)
             \/ ObservationRejected(r, w)
             \/ Succeed(r, w)
             \/ Retry(r, w)
             \/ Fail(r, w)
             \/ AuthError(r, w)
             \/ PausePendingJobs(r, w)
      PROVE  QueueInv'
  <2>1. w.notBefore \in Nat
    BY DEF TypeOK, Rows
  <2>2. CASE Request(r, w)
    BY <2>2, RequestInv
  <2>3. ASSUME NEW outcome \in Outcomes, InsertObservation(r, w, outcome)
        PROVE  QueueInv'
    BY <2>3, InsertObservationInv
  <2>4. CASE ObservationRejected(r, w)
    BY <2>4, DroppedRows DEF ObservationRejected, Die
  <2>5. CASE Succeed(r, w)
    BY <2>1, <2>5, UpdateInv DEF Succeed, ClosedStatuses
  <2>6. CASE Retry(r, w)
    <3>1. now[r] + BackoffDelay(w.attempts + 1) \in Nat
          /\ w.attempts + 1 < MaxAttempts
      BY <2>6, RetryTimeTyped DEF Retry, ShouldRetry
    <3> QED
      BY <2>6, <3>1, UpdateInv DEF Retry
  <2>7. CASE Fail(r, w)
    BY <2>1, <2>7, UpdateInv DEF Fail, ClosedStatuses
  <2>8. CASE AuthError(r, w)
    BY <2>1, <2>8, UpdateInv DEF AuthError, ClosedStatuses
  <2>9. CASE PausePendingJobs(r, w)
    BY <2>9, PausePendingJobsInv
  <2> QED
    BY <1>6, <2>2, <2>3, <2>4, <2>5, <2>6, <2>7, <2>8, <2>9
<1> QED
  BY <1>1, <1>2, <1>3, <1>4, <1>5, <1>6 DEF Step

\* So does everything else that can happen.
LEMMA QueueInvNext == TypeOK /\ QueueInv /\ [Next]_vars => QueueInv'
<1> SUFFICES ASSUME TypeOK, QueueInv, [Next]_vars PROVE QueueInv'
  OBVIOUS
<1>1. CASE Tick
  BY <1>1, QuietStep DEF Tick, table, process
<1>2. ASSUME NEW r \in Runners, Start(r) PROVE QueueInv'
  BY <1>2, QuietStep DEF Start, GoTo, TypeOK, Holding
<1>3. ASSUME NEW r \in Runners, Step(r) PROVE QueueInv'
  BY <1>3, QueueInvStep
<1>4. ASSUME NEW r \in Runners, Crash(r) PROVE QueueInv'
  BY <1>4, DroppedRows DEF Crash, Die
<1>5. CASE UNCHANGED vars
  BY <1>5, QuietStep DEF vars, table, process
<1> QED
  BY <1>1, <1>2, <1>3, <1>4, <1>5 DEF Next

\* The invariant that carries the other results: rows in memory are never
\* newer than their jobs, a job from its lease to its update belongs to one
\* run, and its observations are ahead of its row only between the insert
\* and the update of the run that holds it, or once that run has died.
THEOREM QueueInvariant == Spec => []QueueInv
BY QueueInvInit, QueueInvNext, TypeCorrect, PTL DEF Spec

\* No two runs ever probe the same job at the same time, however many
\* processes run probe-cts and wherever they are killed.
THEOREM LeaseExclusion == Spec => []LeaseExclusive
<1>1. QueueInv => LeaseExclusive
  BY DEF QueueInv
<1> QED
  BY <1>1, QueueInvariant, PTL

\* The provider is asked about a job at most max_attempts times.
THEOREM RequestBound == Spec => []RequestsBounded
<1>1. TypeOK /\ QueueInv => RequestsBounded
  <2> SUFFICES ASSUME TypeOK, QueueInv, NEW j \in Jobs
               PROVE  requests[j] =< MaxAttempts
    BY DEF RequestsBounded
  <2>1. requests[j] \in Nat /\ attempts[j] \in Nat /\ MaxAttempts \in Nat
    BY PolicyAssumption DEF TypeOK
  <2> QED
    BY <2>1 DEF QueueInv, JobOK
<1> QED
  BY <1>1, QueueInvariant, TypeCorrect, PTL

\* The observations of a job are numbered without gaps and agree with its
\* attempt_count whenever the job waits or is closed.
THEOREM ObservationsMatchAttempts == Spec => []AttemptsRecorded
<1>1. TypeOK /\ QueueInv => AttemptsRecorded
  <2> SUFFICES ASSUME TypeOK, QueueInv, NEW j \in Jobs
               PROVE  /\ RecordedAttempts(j)
                           \in {1..attempts[j], 1..(attempts[j] + 1)}
                      /\ status[j] \in DueStatuses \cup ClosedStatuses =>
                           RecordedAttempts(j) = 1..attempts[j]
    BY DEF AttemptsRecorded
  <2>1. JobOK(j) /\ attempts[j] \in Nat
    BY DEF QueueInv, TypeOK
  <2>2. \A k : k \in RecordedAttempts(j) <=> HasObservation(j, k)
    BY DEF RecordedAttempts, HasObservation
  <2>3. \A k : HasObservation(j, k) => k \in 1..(attempts[j] + 1)
    BY <2>1 DEF JobOK, HasObservation, TypeOK, Observations
  <2>4. CASE Ahead(j)
    <3>1. \A k \in 1..(attempts[j] + 1) : HasObservation(j, k)
      BY <2>1, <2>4 DEF JobOK, Ahead
    <3>2. RecordedAttempts(j) = 1..(attempts[j] + 1)
      BY <2>2, <2>3, <3>1
    <3>3. status[j] \notin DueStatuses \cup ClosedStatuses
      BY <2>1, <2>4 DEF JobOK, Busy, DueStatuses, ClosedStatuses
    <3> QED
      BY <3>2, <3>3
  <2>5. CASE ~Ahead(j)
    <3>1. \A k : HasObservation(j, k) => k \in 1..attempts[j]
      BY <2>1, <2>3, <2>5 DEF Ahead
    <3>2. RecordedAttempts(j) = 1..attempts[j]
      BY <2>1, <2>2, <3>1 DEF JobOK
    <3> QED
      BY <3>2
  <2> QED
    BY <2>4, <2>5
<1> QED
  BY <1>1, QueueInvariant, TypeCorrect, PTL

-----------------------------------------------------------------------------
(* What a step may do to a job. *)

\* The update at the end of an attempt hits a job that is busy, and raises its
\* count by one.
LEMMA UpdateEffect ==
  ASSUME TypeOK, QueueInv, NEW r \in Runners, NEW w \in rows[r],
         pc[r] = "update", NextRow(r, w), NEW st \in Statuses, NEW t \in Nat,
         UpdateProbeJob(w.job, st, w.attempts + 1, t), NEW j \in Jobs
  PROVE  /\ attempts'[j] >= attempts[j]
         /\ status[j] \in ClosedStatuses =>
              status'[j] = status[j] /\ attempts'[j] = attempts[j]
<1>1. /\ w.job \in Jobs /\ attempts[j] \in Nat
      /\ status[w.job] \in Busy /\ w.attempts = attempts[w.job]
  BY DEF QueueInv, RowOK, TypeOK, Rows
<1>2. CASE j = w.job
  BY <1>1, <1>2 DEF UpdateProbeJob, TypeOK, Busy, ClosedStatuses
<1>3. CASE j # w.job
  BY <1>1, <1>3 DEF UpdateProbeJob, TypeOK
<1> QED
  BY <1>2, <1>3

\* What a statement of a run can do to the attempts and to a closed job.
LEMMA StepEffect ==
  ASSUME TypeOK, QueueInv, [Next]_vars, NEW j \in Jobs
  PROVE  /\ attempts'[j] >= attempts[j]
         /\ status[j] \in ClosedStatuses =>
              status'[j] = status[j] /\ attempts'[j] = attempts[j]
<1> DEFINE Harmless ==
      /\ attempts'[j] >= attempts[j]
      /\ status[j] \in ClosedStatuses =>
           status'[j] = status[j] /\ attempts'[j] = attempts[j]
<1> SUFFICES Harmless
  OBVIOUS
<1>1. attempts[j] \in Nat
  BY DEF TypeOK
<1>2. CASE UNCHANGED table
  BY <1>1, <1>2 DEF table
<1>3. ASSUME NEW r \in Runners, NEW s \in Surfaces, InsertProbeJob(r, s)
      PROVE  Harmless
  <2> DEFINE new == <<s, now[r]>>
  <2>1. CASE status[new] = "absent"
    <3>1. new \in Jobs
      BY DEF TypeOK, Jobs
    <3>2. UpdateProbeJob(new, "scheduled", 0, now[r])
      BY <1>3, <2>1 DEF InsertProbeJob
    <3> HIDE DEF new
    <3>3. attempts[new] = 0
      BY <2>1, <3>1 DEF QueueInv, JobOK
    <3>4. status[new] \notin ClosedStatuses
      BY <2>1 DEF ClosedStatuses
    <3>5. CASE j = new
      BY <3>1, <3>2, <3>3, <3>4, <3>5 DEF UpdateProbeJob, TypeOK
    <3>6. CASE j # new
      BY <1>1, <3>2, <3>6 DEF UpdateProbeJob, TypeOK
    <3> QED
      BY <3>5, <3>6
  <2>2. CASE status[new] # "absent"
    BY <1>2, <1>3, <2>2 DEF InsertProbeJob
  <2> QED
    BY <2>1, <2>2
<1>4. ASSUME NEW r \in Runners, LeaseDueJobs(r) PROVE Harmless
  BY <1>1, <1>4
     DEF LeaseDueJobs, Leased, TypeOK, ClosedStatuses, DueStatuses
<1>5. ASSUME NEW r \in Runners, NEW w \in rows[r],
             Succeed(r, w) \/ Retry(r, w) \/ Fail(r, w) \/ AuthError(r, w)
      PROVE  Harmless
  <2>1. pc[r] = "update" /\ NextRow(r, w)
    BY <1>5 DEF Succeed, Retry, Fail, AuthError
  <2>2. PICK st \in Statuses, t \in Nat :
          UpdateProbeJob(w.job, st, w.attempts + 1, t)
    <3>1. w.notBefore \in Nat
      BY DEF TypeOK, Rows
    <3>2. Retry(r, w) => now[r] + BackoffDelay(w.attempts + 1) \in Nat
      BY RetryTimeTyped DEF Retry
    <3> QED
      BY <1>5, <3>1, <3>2
         DEF Succeed, Retry, Fail, AuthError, Statuses, OpenStatuses,
             PausableStatuses, DueStatuses, ClosedStatuses
  <2> QED
    BY <2>1, <2>2, UpdateEffect
<1>6. ASSUME NEW r \in Runners, NEW w \in rows[r], PausePendingJobs(r, w)
      PROVE  Harmless
  BY <1>1, <1>6 DEF PausePendingJobs, PausableStatuses, DueStatuses,
                    ClosedStatuses
<1>7. ASSUME NEW r \in Runners, Step(r) PROVE Harmless
  <2>1. ASSUME NEW s \in Surfaces, CheckFresh(r, s) \/ CheckOpen(r, s)
        PROVE  UNCHANGED table
    BY <2>1 DEF CheckFresh, CheckOpen, SkipSurface
  <2>2. ScheduleDone(r) \/ SelectDueJobs(r) => UNCHANGED table
    BY DEF ScheduleDone, SelectDueJobs
  <2>3. ASSUME NEW w \in rows[r],
               \/ Request(r, w)
               \/ \E outcome \in Outcomes : InsertObservation(r, w, outcome)
               \/ ObservationRejected(r, w)
        PROVE  UNCHANGED table
    BY <2>3 DEF Request, InsertObservation, ObservationRejected, Die
  <2> HIDE DEF Harmless
  <2>4. ASSUME NEW s \in Surfaces,
               CheckFresh(r, s) \/ CheckOpen(r, s) \/ InsertProbeJob(r, s)
        PROVE  Harmless
    BY <1>2, <1>3, <2>1, <2>4
  <2>5. CASE ScheduleDone(r) \/ SelectDueJobs(r) \/ LeaseDueJobs(r)
    BY <1>2, <1>4, <2>2, <2>5
  <2>6. ASSUME NEW w \in rows[r],
               \/ Request(r, w)
               \/ \E outcome \in Outcomes : InsertObservation(r, w, outcome)
               \/ ObservationRejected(r, w)
               \/ Succeed(r, w)
               \/ Retry(r, w)
               \/ Fail(r, w)
               \/ AuthError(r, w)
               \/ PausePendingJobs(r, w)
        PROVE  Harmless
    BY <1>2, <1>5, <1>6, <2>3, <2>6
  <2> QED
    BY <1>7, <2>4, <2>5, <2>6 DEF Step
<1>8. CASE Tick \/ UNCHANGED vars \/ \E r \in Runners : Start(r) \/ Crash(r)
  BY <1>2, <1>8 DEF Tick, Start, Crash, Die, vars
<1> QED
  BY <1>7, <1>8 DEF Next

\* attempt_count never goes back, although runs write counts they read long
\* before.
THEOREM AttemptsGrow == Spec => AttemptsOnlyGrow
<1>1. TypeOK /\ QueueInv /\ [Next]_vars =>
        [\A j \in Jobs : attempts'[j] >= attempts[j]]_vars
  BY StepEffect
<1> QED
  BY <1>1, TypeCorrect, QueueInvariant, PTL DEF Spec, AttemptsOnlyGrow

\* A closed job is never touched again.
THEOREM ClosedForGood == Spec => ClosedJobsStayClosed
<1>1. TypeOK /\ QueueInv /\ [Next]_vars =>
        [\A j \in Jobs : status[j] \in ClosedStatuses =>
           /\ status'[j] = status[j]
           /\ attempts'[j] = attempts[j]]_vars
  BY StepEffect
<1> QED
  BY <1>1, TypeCorrect, QueueInvariant, PTL DEF Spec, ClosedJobsStayClosed

-----------------------------------------------------------------------------
(* Leases have owners. *)

\* A run that pauses the queue has recorded its auth error, and no other run
\* overwrites it.
ErrorRecorded ==
  \A r \in Runners : \A w \in rows[r] :
    pc[r] = "pause" /\ NextRow(r, w) => status[w.job] = "auth_error"

\* The steps of a run that enter the pause, or drop it.
LEMMA EnterPause ==
  ASSUME TypeOK, NEW r \in Runners, Step(r)
  PROVE  /\ pc[r] # "pause" \/ pc'[r] = "idle"
         /\ pc'[r] = "pause" => \E w \in rows[r] : AuthError(r, w)
         /\ \A q \in Runners : q # r => pc'[q] = pc[q] /\ rows'[q] = rows[q]
<1> DEFINE Entered ==
      /\ pc[r] # "pause" \/ pc'[r] = "idle"
      /\ pc'[r] = "pause" => \E w \in rows[r] : AuthError(r, w)
      /\ \A q \in Runners : q # r => pc'[q] = pc[q] /\ rows'[q] = rows[q]
<1> SUFFICES Entered
  OBVIOUS
<1>1. ASSUME NEW s \in Surfaces,
             CheckFresh(r, s) \/ CheckOpen(r, s) \/ InsertProbeJob(r, s)
      PROVE  Entered
  BY <1>1 DEF CheckFresh, CheckOpen, SkipSurface, InsertProbeJob, GoTo, TypeOK
<1>2. CASE ScheduleDone(r) \/ SelectDueJobs(r)
  BY <1>2 DEF ScheduleDone, SelectDueJobs, GoTo, TypeOK
<1>3. CASE LeaseDueJobs(r)
  BY <1>3 DEF LeaseDueJobs, Leave, GoTo, TypeOK
<1>4. ASSUME NEW w \in rows[r],
             \/ Request(r, w)
             \/ \E outcome \in Outcomes : InsertObservation(r, w, outcome)
             \/ ObservationRejected(r, w)
             \/ PausePendingJobs(r, w)
      PROVE  Entered
  BY <1>4 DEF Request, InsertObservation, ObservationRejected, Die,
              PausePendingJobs, Leave, GoTo, TypeOK
<1>5. ASSUME NEW w \in rows[r], Succeed(r, w) \/ Retry(r, w) \/ Fail(r, w)
      PROVE  Entered
  BY <1>5 DEF Succeed, Retry, Fail, NextJob, Leave, GoTo, TypeOK
<1>6. ASSUME NEW w \in rows[r], AuthError(r, w)
      PROVE  Entered
  BY <1>6 DEF AuthError, GoTo, TypeOK
<1> HIDE DEF Entered
<1> QED
  BY <1>1, <1>2, <1>3, <1>4, <1>5, <1>6 DEF Step

\* The error stays recorded, since the job is closed.
LEMMA ErrorRecordedNext ==
  ASSUME TypeOK, QueueInv, ErrorRecorded, [Next]_vars
  PROVE  ErrorRecorded'
<1>1. ASSUME NEW r \in Runners, NEW w \in rows[r],
             pc[r] = "pause", NextRow(r, w)
      PROVE  status'[w.job] = "auth_error"
  <2>1. status[w.job] = "auth_error" /\ w.job \in Jobs
    BY <1>1 DEF ErrorRecorded, TypeOK, Rows
  <2> QED
    BY <2>1, StepEffect DEF ClosedStatuses
<1>2. ASSUME NEW r \in Runners, NEW w \in rows'[r],
             pc'[r] = pc[r], rows'[r] = rows[r], pc'[r] = "pause", NextRow(r, w)'
      PROVE  status'[w.job] = "auth_error"
  BY <1>1, <1>2 DEF NextRow
<1>3. ASSUME NEW r \in Runners, Step(r) PROVE ErrorRecorded'
  <2>1. ASSUME NEW w \in rows'[r], pc'[r] = "pause", NextRow(r, w)'
        PROVE  status'[w.job] = "auth_error"
    <3>1. PICK v \in rows[r] : AuthError(r, v)
      BY <1>3, <2>1, EnterPause
    <3>2. /\ rows' = rows /\ NextRow(r, v) /\ v.job \in Jobs
          /\ status'[v.job] = "auth_error"
      BY <3>1 DEF AuthError, UpdateProbeJob, TypeOK, Rows
    <3>3. NextRow(r, w) /\ w \in rows[r]
      BY <2>1, <3>2 DEF NextRow
    <3> QED
      BY <3>2, <3>3, NextRowUnique DEF QueueInv
  <2> QED
    BY <1>2, <1>3, <2>1, EnterPause DEF ErrorRecorded
<1>4. ASSUME NEW r \in Runners, Start(r) \/ Crash(r) PROVE ErrorRecorded'
  <2>1. /\ pc'[r] # "pause"
        /\ \A q \in Runners : q # r => pc'[q] = pc[q] /\ rows'[q] = rows[q]
    BY <1>4 DEF Start, Crash, Die, Leave, GoTo, TypeOK
  <2> QED
    BY <1>2, <2>1 DEF ErrorRecorded
<1>5. CASE Tick \/ UNCHANGED vars
  BY <1>2, <1>5 DEF Tick, vars, process, ErrorRecorded
<1> QED
  BY <1>3, <1>4, <1>5 DEF Next

\* What keeps the owners of leases: the other runs hold what they held, what
\* starts running is held, and what the run lets go is stranded or not running.
LEMMA OwnerKept ==
  ASSUME LeaseHasOwner, NEW r \in Runners, stranded \subseteq stranded',
         \A q \in Runners : q # r => pc'[q] = pc[q] /\ rows'[q] = rows[q],
         \A j \in Jobs : status'[j] = "running" =>
           \/ status[j] = "running"
           \/ \E w \in rows'[r] : Held(r, w)' /\ w.job = j,
         \A w \in rows[r] :
           Held(r, w) /\ w.job \notin stranded' /\ status'[w.job] = "running" =>
             Held(r, w)'
  PROVE  LeaseHasOwner'
<1> SUFFICES ASSUME NEW j \in Jobs, j \notin stranded', status'[j] = "running"
             PROVE  \E q \in Runners : \E w \in rows'[q] : Held(q, w)' /\ w.job = j
  BY DEF LeaseHasOwner
<1>1. CASE status[j] = "running"
  <2>1. PICK q \in Runners : \E w \in rows[q] : Held(q, w) /\ w.job = j
    BY <1>1 DEF LeaseHasOwner
  <2>2. PICK w \in rows[q] : Held(q, w) /\ w.job = j
    BY <2>1
  <2>3. Held(q, w)'
    BY <2>2 DEF Held
  <2> QED
    BY <2>2, <2>3 DEF Held
<1> QED
  BY <1>1

\* A step of any run leaves no lease without an owner.
LEMMA OwnerStep ==
  ASSUME TypeOK, QueueInv, ErrorRecorded, LeaseHasOwner,
         NEW r \in Runners, Step(r)
  PROVE  LeaseHasOwner'
<1>0. \A q \in Runners : q # r => pc'[q] = pc[q] /\ rows'[q] = rows[q]
  BY EnterPause
<1>1. ASSUME NEW s \in Surfaces,
             CheckFresh(r, s) \/ CheckOpen(r, s) \/ InsertProbeJob(r, s)
      PROVE  LeaseHasOwner'
  <2>1. /\ pc[r] \notin Holding /\ stranded' = stranded
        /\ \A j \in Jobs : status'[j] = "running" => status[j] = "running"
    BY <1>1
       DEF CheckFresh, CheckOpen, SkipSurface, InsertProbeJob, UpdateProbeJob,
           TypeOK, table, Holding
  <2> QED
    BY <1>0, <2>1, OwnerKept DEF Held
<1>2. CASE ScheduleDone(r) \/ SelectDueJobs(r)
  <2>1. pc[r] \notin Holding /\ UNCHANGED <<stranded, status>>
    BY <1>2 DEF ScheduleDone, SelectDueJobs, table, Holding
  <2> QED
    BY <1>0, <2>1, OwnerKept DEF Held
<1>3. CASE LeaseDueJobs(r)
  <2>1. /\ pc[r] \notin Holding /\ stranded' = stranded
        /\ \A j \in Jobs : status'[j] = "running" =>
             status[j] = "running" \/ \E w \in Leased(r) : w.job = j
        /\ Leased(r) # {} => pc'[r] \in Holding /\ rows'[r] = Leased(r)
    BY <1>3 DEF LeaseDueJobs, GoTo, TypeOK, Holding
  <2> QED
    BY <1>0, <2>1, OwnerKept DEF Held
<1>4. ASSUME NEW w \in rows[r],
             \/ Request(r, w)
             \/ \E outcome \in Outcomes : InsertObservation(r, w, outcome)
      PROVE  LeaseHasOwner'
  <2>1. UNCHANGED <<stranded, status, rows>> /\ pc'[r] \in Holding
    BY <1>4 DEF Request, InsertObservation, GoTo, TypeOK, table, Holding
  <2> QED
    BY <1>0, <2>1, OwnerKept DEF Held
<1>5. ASSUME NEW w \in rows[r], ObservationRejected(r, w)
      PROVE  LeaseHasOwner'
  <2>1. /\ status' = status /\ stranded \subseteq stranded'
        /\ \A v \in rows[r] : Held(r, v) => v.job \in stranded'
    BY <1>5 DEF ObservationRejected, Die, table
  <2> QED
    BY <1>0, <2>1, OwnerKept
<1>6. ASSUME NEW w \in rows[r],
             Succeed(r, w) \/ Retry(r, w) \/ Fail(r, w) \/ AuthError(r, w)
      PROVE  LeaseHasOwner'
  <2>1. /\ w.job \in Jobs /\ stranded' = stranded
        /\ \A j \in Jobs :
             status'[j] = "running" => j # w.job /\ status[j] = "running"
    BY <1>6 DEF Succeed, Retry, Fail, AuthError, UpdateProbeJob, TypeOK, Rows
  <2>2. \A v \in rows[r] : v # w => v \in rows'[r] /\ pc'[r] \in Holding
    BY <1>6
       DEF Succeed, Retry, Fail, AuthError, NextJob, GoTo, TypeOK, Holding
  <2>3. \A v \in rows[r] : status'[v.job] = "running" => v # w
    BY <2>1
  <2> QED
    BY <1>0, <2>1, <2>2, <2>3, OwnerKept DEF Held
<1>7. ASSUME NEW w \in rows[r], PausePendingJobs(r, w)
      PROVE  LeaseHasOwner'
  <2>1. status[w.job] = "auth_error"
    BY <1>7 DEF PausePendingJobs, ErrorRecorded
  <2>2. \A j \in Jobs : status'[j] # "running"
    BY <1>7, <2>1 DEF PausePendingJobs, PausableStatuses
  <2> QED
    BY <2>2 DEF LeaseHasOwner
<1> QED
  BY <1>1, <1>2, <1>3, <1>4, <1>5, <1>6, <1>7 DEF Step

\* However runs overlap, a run settles or pauses every job it leased before it
\* ends, unless it dies while it holds the job.
THEOREM LeasesHaveOwners == Spec => []LeaseHasOwner
<1>1. Init => ErrorRecorded /\ LeaseHasOwner
  BY DEF Init, ErrorRecorded, LeaseHasOwner
<1>2. TypeOK /\ QueueInv /\ ErrorRecorded /\ [Next]_vars => ErrorRecorded'
  BY ErrorRecordedNext
<1>3. TypeOK /\ QueueInv /\ ErrorRecorded /\ LeaseHasOwner /\ [Next]_vars
        => LeaseHasOwner'
  <2> SUFFICES ASSUME TypeOK, QueueInv, ErrorRecorded, LeaseHasOwner,
                      [Next]_vars
               PROVE  LeaseHasOwner'
    OBVIOUS
  <2>1. CASE Tick \/ UNCHANGED vars
    BY <2>1 DEF Tick, vars, table, process, LeaseHasOwner, Held
  <2>2. ASSUME NEW r \in Runners, Start(r) PROVE LeaseHasOwner'
    <3>1. /\ pc[r] \notin Holding /\ UNCHANGED <<stranded, status>>
          /\ \A q \in Runners : q # r => pc'[q] = pc[q] /\ rows'[q] = rows[q]
      BY <2>2 DEF Start, GoTo, TypeOK, table, Holding
    <3> QED
      BY <3>1, OwnerKept DEF Held
  <2>3. ASSUME NEW r \in Runners, Crash(r) PROVE LeaseHasOwner'
    <3>1. /\ status' = status /\ stranded \subseteq stranded'
          /\ \A v \in rows[r] : Held(r, v) => v.job \in stranded'
          /\ \A q \in Runners : q # r => pc'[q] = pc[q] /\ rows'[q] = rows[q]
      BY <2>3 DEF Crash, Die, Leave, GoTo, TypeOK, table
    <3> QED
      BY <3>1, OwnerKept
  <2> QED
    BY <2>1, <2>2, <2>3, OwnerStep DEF Next
<1> QED
  BY <1>1, <1>2, <1>3, TypeCorrect, QueueInvariant, PTL DEF Spec

-----------------------------------------------------------------------------
(* The open jobs of a surface. *)

\* The runs that saw no open job of the surface and are about to insert one.
Inserting(s) == {r \in Runners : pc[r] = "insert" /\ NextSurface(r, s)}

\* Each of the open jobs, and of those about to come, is a process's.
OpenInv ==
  \A s \in Surfaces :
    /\ IsFiniteSet(OpenJobsOf(s))
    /\ Cardinality(OpenJobsOf(s)) + Cardinality(Inserting(s)) =< Cardinality(Runners)

\* A job comes into being by its insert only.
LEMMA StaysAbsent ==
  ASSUME TypeOK, QueueInv, NEW r \in Runners, Step(r),
         NEW j \in Jobs, status[j] = "absent", status'[j] # "absent"
  PROVE  \E s \in Surfaces : InsertProbeJob(r, s) /\ j = <<s, now[r]>>
<1>1. ASSUME UNCHANGED table PROVE FALSE
  BY <1>1 DEF table
<1>2. ASSUME NEW s \in Surfaces, CheckFresh(r, s) \/ CheckOpen(r, s) PROVE FALSE
  BY <1>1, <1>2 DEF CheckFresh, CheckOpen, SkipSurface
<1>3. ASSUME NEW s \in Surfaces, InsertProbeJob(r, s) PROVE j = <<s, now[r]>>
  BY <1>1, <1>3 DEF InsertProbeJob, UpdateProbeJob, TypeOK
<1>4. ASSUME ScheduleDone(r) \/ SelectDueJobs(r) PROVE FALSE
  BY <1>1, <1>4 DEF ScheduleDone, SelectDueJobs
<1>5. ASSUME LeaseDueJobs(r) PROVE FALSE
  BY <1>5 DEF LeaseDueJobs, Leased, DueStatuses
<1>6. ASSUME NEW w \in rows[r],
             \/ Request(r, w)
             \/ \E outcome \in Outcomes : InsertObservation(r, w, outcome)
             \/ ObservationRejected(r, w)
      PROVE  FALSE
  BY <1>1, <1>6 DEF Request, InsertObservation, ObservationRejected, Die
<1>7. ASSUME NEW w \in rows[r],
             Succeed(r, w) \/ Retry(r, w) \/ Fail(r, w) \/ AuthError(r, w)
      PROVE  FALSE
  <2>1. w.job # j
    BY DEF QueueInv, RowOK
  <2> QED
    BY <1>7, <2>1 DEF Succeed, Retry, Fail, AuthError, UpdateProbeJob, TypeOK
<1>8. ASSUME NEW w \in rows[r], PausePendingJobs(r, w) PROVE FALSE
  BY <1>8 DEF PausePendingJobs, PausableStatuses, DueStatuses
<1> QED
  BY <1>2, <1>3, <1>4, <1>5, <1>6, <1>7, <1>8 DEF Step

\* A run is about to insert only after it saw no open job.
LEMMA EnterInsert ==
  ASSUME TypeOK, NEW r \in Runners, Step(r)
  PROVE  /\ pc'[r] = "insert" =>
              \E s \in Surfaces : CheckOpen(r, s) /\ ~HasOpenJob(s) /\ todo' = todo
         /\ \A q \in Runners : q # r => pc'[q] = pc[q] /\ todo'[q] = todo[q]
<1> DEFINE Entered ==
      /\ pc'[r] = "insert" =>
           \E s \in Surfaces : CheckOpen(r, s) /\ ~HasOpenJob(s) /\ todo' = todo
      /\ \A q \in Runners : q # r => pc'[q] = pc[q] /\ todo'[q] = todo[q]
<1> SUFFICES Entered
  OBVIOUS
<1>1. ASSUME NEW s \in Surfaces, CheckFresh(r, s) \/ InsertProbeJob(r, s)
      PROVE  Entered
  BY <1>1 DEF CheckFresh, SkipSurface, InsertProbeJob, GoTo, TypeOK
<1>2. ASSUME NEW s \in Surfaces, CheckOpen(r, s) PROVE Entered
  BY <1>2 DEF CheckOpen, SkipSurface, GoTo, TypeOK
<1>3. CASE ScheduleDone(r) \/ SelectDueJobs(r) \/ LeaseDueJobs(r)
  BY <1>3 DEF ScheduleDone, SelectDueJobs, LeaseDueJobs, Leave, GoTo, TypeOK
<1>4. ASSUME NEW w \in rows[r],
             \/ Request(r, w)
             \/ \E outcome \in Outcomes : InsertObservation(r, w, outcome)
             \/ ObservationRejected(r, w)
             \/ PausePendingJobs(r, w)
      PROVE  Entered
  BY <1>4 DEF Request, InsertObservation, ObservationRejected, Die,
              PausePendingJobs, Leave, GoTo, TypeOK
<1>5. ASSUME NEW w \in rows[r], Succeed(r, w) \/ Retry(r, w) \/ Fail(r, w)
      PROVE  Entered
  BY <1>5 DEF Succeed, Retry, Fail, NextJob, Leave, GoTo, TypeOK
<1>6. ASSUME NEW w \in rows[r], AuthError(r, w)
      PROVE  Entered
  BY <1>6 DEF AuthError, GoTo, TypeOK
<1> HIDE DEF Entered
<1> QED
  BY <1>1, <1>2, <1>3, <1>4, <1>5, <1>6 DEF Step

\* An insert replaces the run that makes it by a job, and adds to nothing else.
LEMMA OpenedByInsert ==
  ASSUME TypeOK, QueueInv, NEW r \in Runners, Step(r), NEW s \in Surfaces
  PROVE  \/ /\ OpenJobsOf(s)' \subseteq OpenJobsOf(s)
            /\ Inserting(s)' \subseteq Inserting(s) \/ OpenJobsOf(s) = {}
         \/ /\ r \in Inserting(s) /\ Inserting(s)' \subseteq Inserting(s) \ {r}
            /\ OpenJobsOf(s)' \subseteq OpenJobsOf(s) \union {<<s, now[r]>>}
<1>1. \A j \in Jobs : status[j] \notin OpenStatuses /\ status'[j] \in OpenStatuses =>
        status[j] = "absent"
  BY StepEffect DEF TypeOK, Statuses, OpenStatuses, PausableStatuses, DueStatuses,
     ClosedStatuses, Next
<1>2. \A t \in Surfaces : SurfaceOf(<<t, now[r]>>) = t
  BY DEF SurfaceOf
<1>3. "absent" \notin OpenStatuses
  BY DEF OpenStatuses, PausableStatuses, DueStatuses
<1>4. /\ \A q \in Runners : q # r /\ q \in Inserting(s)' => q \in Inserting(s)
      /\ r \in Inserting(s)' => OpenJobsOf(s) = {}
  <2>1. \A q \in Runners : q # r /\ q \in Inserting(s)' => q \in Inserting(s)
    BY EnterInsert DEF Inserting, NextSurface
  <2>2. ASSUME r \in Inserting(s)' PROVE OpenJobsOf(s) = {}
    <3>1. PICK t \in Surfaces : CheckOpen(r, t) /\ ~HasOpenJob(t) /\ todo' = todo
      BY <2>2, EnterInsert DEF Inserting
    <3>2. NextSurface(r, s) /\ NextSurface(r, t)
      BY <2>2, <3>1 DEF Inserting, NextSurface, CheckOpen
    <3>3. s = t
      BY <3>2, BoundsAssumption DEF NextSurface
    <3> QED
      BY <3>1, <3>3 DEF HasOpenJob, OpenJobsOf
  <2> QED
    BY <2>1, <2>2
<1>5. CASE InsertProbeJob(r, s)
  <2>1. r \in Inserting(s) /\ r \notin Inserting(s)'
    BY <1>5 DEF InsertProbeJob, Inserting, GoTo, TypeOK
  <2>2. Inserting(s)' \subseteq Inserting(s) \ {r}
    BY <1>4, <2>1 DEF Inserting
  <2>3. ASSUME NEW j \in OpenJobsOf(s)', j \notin OpenJobsOf(s) PROVE j = <<s, now[r]>>
    <3>1. j \in Jobs /\ SurfaceOf(j) = s /\ status[j] = "absent" /\ status'[j] # "absent"
      BY <1>1, <1>3, <2>3 DEF OpenJobsOf
    <3>2. PICK t \in Surfaces : j = <<t, now[r]>>
      BY <3>1, StaysAbsent
    <3> QED
      BY <1>2, <3>1, <3>2
  <2> QED
    BY <2>1, <2>2, <2>3
<1>6. CASE ~InsertProbeJob(r, s)
  <2>1. OpenJobsOf(s)' \subseteq OpenJobsOf(s)
    <3> SUFFICES ASSUME NEW j \in OpenJobsOf(s)', j \notin OpenJobsOf(s) PROVE FALSE
      OBVIOUS
    <3>1. j \in Jobs /\ SurfaceOf(j) = s /\ status[j] = "absent" /\ status'[j] # "absent"
      BY <1>1, <1>3 DEF OpenJobsOf
    <3>2. PICK t \in Surfaces : InsertProbeJob(r, t) /\ j = <<t, now[r]>>
      BY <3>1, StaysAbsent
    <3> QED
      BY <1>2, <1>6, <3>1, <3>2
  <2> QED
    BY <1>4, <2>1 DEF Inserting
<1> QED
  BY <1>5, <1>6

\* However runs overlap or die, a surface has no more open jobs than there are
\* processes.
THEOREM OpenJobsAreBounded ==
  ASSUME IsFiniteSet(Runners)
  PROVE  Spec => []OpenJobsBounded
<1>1. \A s : IsFiniteSet(Inserting(s)) /\ Cardinality(Inserting(s)) \in Nat
             /\ Cardinality(Inserting(s)) =< Cardinality(Runners)
             /\ Cardinality(Runners) \in Nat
  BY FS_Subset, FS_CardinalityType DEF Inserting
<1>2. Init => OpenInv
  <2> SUFFICES ASSUME Init, NEW s \in Surfaces
               PROVE  /\ IsFiniteSet(OpenJobsOf(s))
                      /\ Cardinality(OpenJobsOf(s)) + Cardinality(Inserting(s))
                           =< Cardinality(Runners)
    BY DEF OpenInv
  <2>1. OpenJobsOf(s) = {}
    BY DEF Init, OpenJobsOf, OpenStatuses, PausableStatuses, DueStatuses
  <2> QED
    BY <1>1, <2>1, FS_EmptySet
<1>3. ASSUME TypeOK, QueueInv, OpenInv, [Next]_vars PROVE OpenInv'
  <2> SUFFICES ASSUME NEW s \in Surfaces
               PROVE  /\ IsFiniteSet(OpenJobsOf(s)')
                      /\ Cardinality(OpenJobsOf(s)') + Cardinality(Inserting(s)')
                           =< Cardinality(Runners)
    BY DEF OpenInv
  <2>1. /\ IsFiniteSet(OpenJobsOf(s)) /\ Cardinality(OpenJobsOf(s)) \in Nat
        /\ Cardinality(OpenJobsOf(s)) + Cardinality(Inserting(s)) =< Cardinality(Runners)
    BY <1>3, FS_CardinalityType DEF OpenInv
  <2>2. ASSUME OpenJobsOf(s)' \subseteq OpenJobsOf(s)
        PROVE  /\ IsFiniteSet(OpenJobsOf(s)') /\ Cardinality(OpenJobsOf(s)') \in Nat
               /\ Cardinality(OpenJobsOf(s)') =< Cardinality(OpenJobsOf(s))
    BY <2>1, <2>2, FS_Subset, FS_CardinalityType
  <2>3. ASSUME Inserting(s)' \subseteq Inserting(s)
        PROVE  /\ Cardinality(Inserting(s)') \in Nat
               /\ Cardinality(Inserting(s)') =< Cardinality(Inserting(s))
    BY <1>1, <2>3, FS_Subset, FS_CardinalityType
  <2>4. CASE /\ OpenJobsOf(s)' \subseteq OpenJobsOf(s)
             /\ Inserting(s)' \subseteq Inserting(s)
    BY <1>1, <2>1, <2>2, <2>3, <2>4
  <2>5. CASE OpenJobsOf(s)' \subseteq OpenJobsOf(s) /\ OpenJobsOf(s) = {}
    <3>1. Inserting(s)' \subseteq Runners
      BY DEF Inserting
    <3>2. Cardinality(Inserting(s)') \in Nat /\ Cardinality(Inserting(s)') =< Cardinality(Runners)
      BY <3>1, FS_Subset, FS_CardinalityType
    <3>3. OpenJobsOf(s)' = {}
      BY <2>5
    <3> QED
      BY <1>1, <3>2, <3>3, FS_EmptySet
  <2>6. ASSUME NEW r \in Runners, r \in Inserting(s), Inserting(s)' \subseteq Inserting(s) \ {r},
               OpenJobsOf(s)' \subseteq OpenJobsOf(s) \union {<<s, now[r]>>}
        PROVE  /\ IsFiniteSet(OpenJobsOf(s)')
               /\ Cardinality(OpenJobsOf(s)') + Cardinality(Inserting(s)')
                    =< Cardinality(Runners)
    <3> DEFINE I == Inserting(s)
               O == OpenJobsOf(s)
               n == <<s, now[r]>>
    <3>1. /\ Cardinality(I \ {r}) = Cardinality(I) - 1 /\ IsFiniteSet(I \ {r})
          /\ Cardinality(I) \in Nat
      BY <1>1, <2>6, FS_RemoveElement
    <3>2. /\ IsFiniteSet(O \union {n}) /\ Cardinality(O \union {n}) \in Nat
          /\ Cardinality(O \union {n}) =< Cardinality(O) + 1
      <4> HIDE DEF O, n
      <4>1. IsFiniteSet(O \union {n}) /\ Cardinality(O) \in Nat
        BY <2>1, FS_AddElement DEF O
      <4>2. Cardinality(O \union {n}) \in {Cardinality(O), Cardinality(O) + 1}
        BY <2>1, FS_AddElement DEF O
      <4> QED
        BY <4>1, <4>2
    <3>3. /\ Cardinality(Inserting(s)') \in Nat
          /\ Cardinality(Inserting(s)') =< Cardinality(I \ {r})
      BY <2>6, <3>1, FS_Subset, FS_CardinalityType
    <3>4. /\ IsFiniteSet(OpenJobsOf(s)') /\ Cardinality(OpenJobsOf(s)') \in Nat
          /\ Cardinality(OpenJobsOf(s)') =< Cardinality(O \union {n})
      BY <2>6, <3>2, FS_Subset, FS_CardinalityType
    <3> QED
      BY <1>1, <2>1, <3>1, <3>2, <3>3, <3>4
  <2>7. ASSUME NEW r \in Runners, Start(r) \/ Crash(r)
        PROVE  OpenJobsOf(s)' = OpenJobsOf(s) /\ Inserting(s)' \subseteq Inserting(s)
    <3>1. /\ status' = status /\ pc'[r] # "insert"
          /\ \A q \in Runners : q # r => pc'[q] = pc[q] /\ todo'[q] = todo[q]
      BY <1>3, <2>7 DEF Start, Crash, Die, Leave, GoTo, table, TypeOK
    <3> QED
      BY <3>1 DEF OpenJobsOf, Inserting, NextSurface
  <2>8. CASE Tick \/ UNCHANGED vars
    <3>1. UNCHANGED <<status, pc, todo>>
      BY <2>8 DEF Tick, vars, table, process
    <3>2. OpenJobsOf(s)' = OpenJobsOf(s) /\ Inserting(s)' = Inserting(s)
      BY <3>1 DEF OpenJobsOf, Inserting, NextSurface
    <3> QED
      BY <2>4, <3>2
  <2> QED
    BY <1>3, <2>4, <2>5, <2>6, <2>7, <2>8, OpenedByInsert DEF Next
<1>4. OpenInv => OpenJobsBounded
  <2> SUFFICES ASSUME OpenInv, NEW s \in Surfaces
               PROVE  Cardinality(OpenJobsOf(s)) =< Cardinality(Runners)
    BY DEF OpenJobsBounded
  <2>1. /\ Cardinality(OpenJobsOf(s)) \in Nat
        /\ Cardinality(OpenJobsOf(s)) + Cardinality(Inserting(s)) =< Cardinality(Runners)
    BY FS_CardinalityType DEF OpenInv
  <2> QED
    BY <1>1, <2>1
<1> QED
  BY <1>2, <1>3, <1>4, TypeCorrect, QueueInvariant, PTL DEF Spec

-----------------------------------------------------------------------------
(* Runs that do not overlap.                                               *)


\* The order of the jobs of a surface is the order of their times.
LEMMA JobIdentity ==
  ASSUME NEW j \in Jobs
  PROVE  /\ j = <<SurfaceOf(j), ScheduledAt(j)>>
         /\ SurfaceOf(j) \in Surfaces
         /\ SurfaceOf(j) \in Nat
         /\ ScheduledAt(j) \in Times
         /\ ScheduledAt(j) \in Nat
<1>1. PICK s \in Surfaces, t \in Times : j = <<s, t>>
  BY DEF Jobs
<1>2. s \in Nat /\ t \in Nat
  BY BoundsAssumption DEF Times
<1> QED
  BY <1>1, <1>2 DEF SurfaceOf, ScheduledAt

\* The loop over the surfaces has one next surface.
LEMMA NextSurfaceUnique ==
  ASSUME TypeOK, NEW r \in Runners, NEW s \in Surfaces, NEW t \in Surfaces,
         NextSurface(r, s), NextSurface(r, t)
  PROVE  s = t
<1>1. s \in Nat /\ t \in Nat /\ s =< t /\ t =< s
  BY BoundsAssumption DEF NextSurface
<1> QED
  BY <1>1

\* No job exists and no run has started.
LEMMA SequenceInvInit == Init => SequenceInv
BY DEF Init, SequenceInv, JobsInSequence, TimesOrdered, ChecksHold,
       LeasedJobsRun, NextSurface

\* Steps that leave the tables alone, keep or drop rows, and look at no
\* surface with the checks done.
LEMMA SequenceQuiet ==
  ASSUME TypeOK, SequenceInv, NoOverlap, NEW r \in Runners,
         UNCHANGED <<status, observations>>, clock' = clock,
         rows'[r] \subseteq rows[r] \/ pc'[r] = "lease",
         pc'[r] \in {"request", "answer", "update"} =>
           pc[r] \in {"request", "answer", "update"},
         pc'[r] \in {"idle", "fresh", "select", "lease", "request", "answer",
                     "update", "pause"},
         pc'[r] # "idle" => now'[r] = now[r] /\ pc[r] # "idle"
  PROVE  SequenceInv'
<1>1. \A q \in Runners : q = r
  BY DEF NoOverlap
<1>2. JobsInSequence'
  BY DEF SequenceInv, JobsInSequence
<1>3. TimesOrdered'
  BY <1>1 DEF SequenceInv, TimesOrdered
<1>4. ChecksHold'
  BY <1>1 DEF ChecksHold
<1>5. LeasedJobsRun'
  BY <1>1 DEF SequenceInv, LeasedJobsRun
<1> QED
  BY <1>2, <1>3, <1>4, <1>5 DEF SequenceInv

\* A surface passes a check of the schedule.
LEMMA SequenceCheck ==
  ASSUME TypeOK, SequenceInv, NoOverlap, NEW r \in Runners,
         NEW s \in Surfaces, CheckFresh(r, s) \/ CheckOpen(r, s)
  PROVE  SequenceInv'
<1>1. \A q \in Runners : q = r
  BY DEF NoOverlap
<1>2. /\ UNCHANGED <<clock, status, observations, now, rows>>
      /\ pc[r] # "idle"
      /\ NextSurface(r, s)
      /\ pc'[r] \in {"fresh", "open", "insert"}
      /\ pc'[r] = "open" => pc[r] = "fresh" /\ ~HasFreshObservation(r, s)
      /\ pc'[r] = "insert" => pc[r] = "open" /\ ~HasOpenJob(s)
      /\ pc'[r] # "fresh" => UNCHANGED todo
  BY DEF CheckFresh, CheckOpen, SkipSurface, GoTo, TypeOK, table
<1>3. CASE pc'[r] = "fresh"
  BY <1>2, <1>3, SequenceQuiet
<1>4. CASE pc'[r] \in {"open", "insert"}
  <2>1. \A t \in Surfaces : NextSurface(r, t)' => t = s
    BY <1>2, <1>4, NextSurfaceUnique DEF NextSurface
  <2>2. HasFreshObservation(r, s)' <=> HasFreshObservation(r, s)
    BY <1>2 DEF HasFreshObservation
  <2>3. HasOpenJob(s)' <=> HasOpenJob(s)
    BY <1>2 DEF HasOpenJob
  <2>4. ~HasFreshObservation(r, s)
    BY <1>2, <1>4 DEF SequenceInv, ChecksHold
  <2>5. ChecksHold'
    BY <1>1, <1>2, <1>4, <2>1, <2>2, <2>3, <2>4 DEF ChecksHold
  <2>6. TimesOrdered'
    BY <1>1, <1>2 DEF SequenceInv, TimesOrdered
  <2>7. JobsInSequence' /\ LeasedJobsRun'
    BY <1>1, <1>2, <1>4 DEF SequenceInv, JobsInSequence, LeasedJobsRun
  <2> QED
    BY <2>5, <2>6, <2>7 DEF SequenceInv
<1> QED
  BY <1>2, <1>3, <1>4

\* The new job of a surface comes after closed jobs whose observations are
\* out of date.
LEMMA SequenceInsert ==
  ASSUME TypeOK, QueueInv, SequenceInv, NoOverlap, NEW r \in Runners,
         NEW s \in Surfaces, InsertProbeJob(r, s)
  PROVE  SequenceInv'
<1> DEFINE new == <<s, now[r]>>
<1>1. /\ \A q \in Runners : q = r
      /\ pc[r] = "insert" /\ pc'[r] = "fresh" /\ NextSurface(r, s)
      /\ UNCHANGED <<clock, observations, now, rows>>
  BY DEF NoOverlap, InsertProbeJob, GoTo, TypeOK
<1>2. CASE status[new] # "absent"
  BY <1>1, <1>2, SequenceQuiet DEF InsertProbeJob, table
<1>3. CASE status[new] = "absent"
  <2>1. /\ new \in Jobs /\ now[r] \in Nat /\ now[r] \in Times
        /\ SurfaceOf(new) = s /\ ScheduledAt(new) = now[r]
    BY BoundsAssumption DEF TypeOK, Jobs, Times, SurfaceOf, ScheduledAt
  <2>2. \A j \in Jobs :
          status'[j] = IF j = new THEN "scheduled" ELSE status[j]
    BY <1>3, <2>1 DEF InsertProbeJob, UpdateProbeJob, TypeOK
  <2>3. /\ ~HasFreshObservation(r, s) /\ ~HasOpenJob(s)
        /\ now[r] =< clock
        /\ \A j \in Jobs : status[j] # "absent" => ScheduledAt(j) =< now[r]
    BY <1>1 DEF SequenceInv, ChecksHold, TimesOrdered
  <2>4. \A o \in observations : o.job \in Jobs /\ o.at \in Nat
    BY BoundsAssumption DEF TypeOK, Observations, Times
  <2>5. TimesOrdered'
    BY <1>1, <2>1, <2>2, <2>3, <2>4 DEF SequenceInv, TimesOrdered
  <2>6. ChecksHold' /\ LeasedJobsRun'
    BY <1>1 DEF ChecksHold, LeasedJobsRun
  <2>7. JobsInSequence'
    <3> SUFFICES ASSUME NEW j \in Jobs, NEW k \in Jobs,
                        SurfaceOf(j) = SurfaceOf(k),
                        ScheduledAt(j) < ScheduledAt(k),
                        status'[j] # "absent", status'[k] # "absent"
                 PROVE  /\ status'[j] \in ClosedStatuses
                        /\ \A o \in observations :
                             o.job = j => o.at + Ttl < ScheduledAt(k)
      BY <1>1 DEF JobsInSequence
    <3>1. j # k
      BY JobIdentity
    <3>2. CASE j = new
      <4>1. k # new /\ status[k] # "absent"
        BY <2>2, <3>1, <3>2
      <4> QED
        BY <2>1, <2>3, <3>2, <4>1, JobIdentity
    <3>3. CASE k = new
      <4>1. j # new /\ status'[j] = status[j] /\ status[j] # "absent"
        BY <2>2, <3>1, <3>3
      <4>2. status[j] \notin OpenStatuses
        BY <2>1, <2>3, <3>3 DEF HasOpenJob
      <4>3. status[j] \in ClosedStatuses
        BY <4>1, <4>2 DEF TypeOK, Statuses
      <4>4. \A o \in observations : o.job = j => ~(o.at >= now[r] - Ttl)
        BY <2>1, <2>3, <3>3 DEF HasFreshObservation
      <4> QED
        BY <2>1, <2>4, <3>3, <4>1, <4>3, <4>4, PolicyAssumption
    <3>4. CASE j # new /\ k # new
      BY <2>2, <3>4 DEF SequenceInv, JobsInSequence
    <3> QED
      BY <3>2, <3>3, <3>4
  <2> QED
    BY <2>5, <2>6, <2>7 DEF SequenceInv
<1> QED
  BY <1>2, <1>3

\* Changes of open jobs: jobs appear, observations are added and jobs are
\* closed only by other steps.
LEMMA SequenceStatusChange ==
  ASSUME TypeOK, SequenceInv, NoOverlap, NEW r \in Runners,
         UNCHANGED <<clock, observations>>,
         \A j \in Jobs : \/ status'[j] = status[j]
                         \/ /\ status[j] \notin {"absent"} \cup ClosedStatuses
                            /\ status'[j] # "absent",
         pc[r] # "idle",
         pc'[r] \in {"idle", "request", "pause"},
         pc'[r] # "idle" => now'[r] = now[r],
         pc'[r] = "request" => \A w \in rows'[r] : status'[w.job] = "running"
  PROVE  SequenceInv'
<1>1. \A q \in Runners : q = r
  BY DEF NoOverlap
<1>2. \A o \in observations : o.job \in Jobs
  BY DEF TypeOK, Observations
<1>3. JobsInSequence'
  BY DEF SequenceInv, JobsInSequence
<1>4. TimesOrdered'
  BY <1>1, <1>2 DEF SequenceInv, TimesOrdered
<1>5. ChecksHold' /\ LeasedJobsRun'
  BY <1>1 DEF ChecksHold, LeasedJobsRun
<1> QED
  BY <1>3, <1>4, <1>5 DEF SequenceInv

\* The lease makes waiting jobs running.
LEMMA SequenceLease ==
  ASSUME TypeOK, SequenceInv, NoOverlap, NEW r \in Runners, LeaseDueJobs(r)
  PROVE  SequenceInv'
<1>1. /\ pc[r] = "lease" /\ pc'[r] \in {"idle", "request"}
      /\ pc'[r] # "idle" => now'[r] = now[r] /\ rows'[r] = Leased(r)
      /\ UNCHANGED <<clock, observations>>
  BY DEF LeaseDueJobs, Leave, GoTo, TypeOK
<1>2. \A j \in Jobs :
        \/ status'[j] = status[j]
        \/ status[j] \in DueStatuses /\ status'[j] = "running"
  BY DEF LeaseDueJobs, Leased
<1>3. \A w \in Leased(r) : status'[w.job] = "running"
  BY DEF LeaseDueJobs, Leased, TypeOK, Rows
<1> QED
  BY <1>1, <1>2, <1>3, SequenceStatusChange DEF DueStatuses, ClosedStatuses

\* An observation is made at the time of a run that is later than its job.
LEMMA SequenceObserve ==
  ASSUME TypeOK, SequenceInv, NoOverlap, NEW r \in Runners,
         NEW w \in rows[r], NEW outcome \in Outcomes,
         InsertObservation(r, w, outcome)
  PROVE  SequenceInv'
<1> DEFINE new == [job |-> w.job, attempt |-> w.attempts + 1,
                   status |-> outcome, at |-> now[r]]
<1>1. /\ \A q \in Runners : q = r
      /\ pc[r] = "answer" /\ pc'[r] = "update"
      /\ UNCHANGED <<clock, status, now, rows>>
      /\ observations' = observations \cup {new}
      /\ new.job = w.job /\ new.at = now[r] /\ w.job \in Jobs
  BY DEF NoOverlap, InsertObservation, GoTo, TypeOK, table, Rows
<1> HIDE DEF new
<1>2. status[w.job] = "running"
  BY <1>1 DEF SequenceInv, LeasedJobsRun
<1>3. JobsInSequence'
  BY <1>1, <1>2 DEF SequenceInv, JobsInSequence, ClosedStatuses
<1>4. TimesOrdered'
  BY <1>1, <1>2 DEF SequenceInv, TimesOrdered
<1>5. ChecksHold' /\ LeasedJobsRun'
  BY <1>1 DEF SequenceInv, ChecksHold, LeasedJobsRun
<1> QED
  BY <1>3, <1>4, <1>5 DEF SequenceInv

\* The update of a job closes it, or makes it wait again.
LEMMA SequenceUpdate ==
  ASSUME TypeOK, QueueInv, SequenceInv, NoOverlap, NEW r \in Runners,
         NEW w \in rows[r],
         Succeed(r, w) \/ Retry(r, w) \/ Fail(r, w) \/ AuthError(r, w)
  PROVE  SequenceInv'
<1>1. /\ pc[r] = "update" /\ NextRow(r, w)
      /\ UNCHANGED <<clock, observations>>
      /\ w.job \in Jobs
  BY DEF Succeed, Retry, Fail, AuthError, TypeOK, Rows
<1>2. /\ \A v \in rows[r] : status[v.job] = "running"
      /\ status[w.job] = "running"
  BY <1>1 DEF SequenceInv, LeasedJobsRun
<1>3. \A j \in Jobs : \/ status'[j] = status[j]
                      \/ j = w.job /\ status'[j] # "absent"
  BY DEF Succeed, Retry, Fail, AuthError, UpdateProbeJob, TypeOK
<1>4. /\ pc'[r] \in {"idle", "request", "pause"}
      /\ pc'[r] # "idle" => now'[r] = now[r]
      /\ pc'[r] = "request" => rows'[r] = rows[r] \ {w}
  BY DEF Succeed, Retry, Fail, AuthError, NextJob, Leave, GoTo, TypeOK
<1>5. \A v \in rows[r] : v # w => v.job # w.job /\ v.job \in Jobs
  BY DEF QueueInv, RowsKeyed, TypeOK, Rows
<1>6. pc'[r] = "request" => \A v \in rows'[r] : status'[v.job] = "running"
  BY <1>2, <1>3, <1>4, <1>5
<1> QED
  BY <1>1, <1>2, <1>3, <1>4, <1>6, SequenceStatusChange DEF ClosedStatuses

\* A pause closes nothing and opens nothing.
LEMMA SequencePause ==
  ASSUME TypeOK, SequenceInv, NoOverlap, NEW r \in Runners,
         NEW w \in rows[r], PausePendingJobs(r, w)
  PROVE  SequenceInv'
<1>1. /\ pc[r] = "pause" /\ pc'[r] = "idle"
      /\ UNCHANGED <<clock, observations>>
  BY DEF PausePendingJobs, Leave, GoTo, TypeOK
<1>2. \A j \in Jobs :
        \/ status'[j] = status[j]
        \/ status[j] \in PausableStatuses /\ status'[j] = "paused_auth"
  BY DEF PausePendingJobs
<1> QED
  BY <1>1, <1>2, SequenceStatusChange
     DEF PausableStatuses, DueStatuses, ClosedStatuses

\* Every statement of the only run keeps the invariant.
LEMMA SequenceInvStep ==
  ASSUME TypeOK, QueueInv, SequenceInv, NoOverlap, NEW r \in Runners, Step(r)
  PROVE  SequenceInv'
<1>1. ASSUME NEW s \in Surfaces,
             CheckFresh(r, s) \/ CheckOpen(r, s) \/ InsertProbeJob(r, s)
      PROVE  SequenceInv'
  BY <1>1, SequenceCheck, SequenceInsert
<1>2. CASE ScheduleDone(r)
  BY <1>2, SequenceQuiet DEF ScheduleDone, GoTo, TypeOK, table
<1>3. CASE SelectDueJobs(r)
  BY <1>3, SequenceQuiet DEF SelectDueJobs, GoTo, TypeOK, table
<1>4. CASE LeaseDueJobs(r)
  BY <1>4, SequenceLease
<1>5. ASSUME NEW w \in rows[r],
             \/ Request(r, w)
             \/ \E outcome \in Outcomes : InsertObservation(r, w, outcome)
             \/ ObservationRejected(r, w)
             \/ Succeed(r, w)
             \/ Retry(r, w)
             \/ Fail(r, w)
             \/ AuthError(r, w)
             \/ PausePendingJobs(r, w)
      PROVE  SequenceInv'
  <2>1. CASE Request(r, w)
    BY <2>1, SequenceQuiet DEF Request, GoTo, TypeOK, table
  <2>2. CASE ObservationRejected(r, w)
    BY <2>2, SequenceQuiet DEF ObservationRejected, Die, Leave, GoTo, TypeOK, table
  <2>3. CASE \E outcome \in Outcomes : InsertObservation(r, w, outcome)
    BY <2>3, SequenceObserve
  <2> QED
    BY <1>5, <2>1, <2>2, <2>3, SequenceUpdate, SequencePause
<1> QED
  BY <1>1, <1>2, <1>3, <1>4, <1>5 DEF Step

\* So does everything else that can happen.
LEMMA SequenceInvNext ==
  ASSUME TypeOK, QueueInv, SequenceInv, NoOverlap, [Next]_vars
  PROVE  SequenceInv'
<1>1. CASE Tick
  <2>1. clock =< clock'
    BY <1>1, BoundsAssumption DEF Tick, TypeOK, Times
  <2>2. \A j \in Jobs : ScheduledAt(j) \in Nat
    BY JobIdentity
  <2>3. /\ \A r \in Runners : now[r] \in Nat
        /\ clock \in Nat /\ clock' \in Nat
    BY <1>1, BoundsAssumption DEF Tick, TypeOK, Times
  <2>4. TimesOrdered'
    BY <1>1, <2>1, <2>2, <2>3
       DEF Tick, table, process, SequenceInv, TimesOrdered
  <2> QED
    BY <1>1, <2>4
       DEF Tick, table, process, SequenceInv, JobsInSequence, ChecksHold,
           LeasedJobsRun, HasFreshObservation, HasOpenJob, NextSurface
<1>2. ASSUME NEW r \in Runners, Start(r) PROVE SequenceInv'
  <2>1. /\ \A q \in Runners : q = r
        /\ pc'[r] = "fresh" /\ now'[r] = clock
        /\ UNCHANGED <<clock, status, observations, rows>>
    BY <1>2 DEF NoOverlap, Start, GoTo, TypeOK, table
  <2>2. TimesOrdered'
    BY <2>1, BoundsAssumption DEF SequenceInv, TimesOrdered, TypeOK, Times
  <2> QED
    BY <2>1, <2>2
       DEF SequenceInv, JobsInSequence, ChecksHold, LeasedJobsRun
<1>3. ASSUME NEW r \in Runners, Step(r) PROVE SequenceInv'
  BY <1>3, SequenceInvStep
<1>4. ASSUME NEW r \in Runners, Crash(r) PROVE SequenceInv'
  BY <1>4, SequenceQuiet DEF Crash, Die, Leave, GoTo, TypeOK, table
<1>5. CASE UNCHANGED vars
  BY <1>5 DEF vars, table, process, SequenceInv, JobsInSequence, TimesOrdered,
              ChecksHold, LeasedJobsRun, HasFreshObservation, HasOpenJob,
              NextSurface
<1> QED
  BY <1>1, <1>2, <1>3, <1>4, <1>5 DEF Next

\* Without overlap the jobs of a surface follow one another: each is closed,
\* and its observations are out of date, before the next one is created.
THEOREM JobsFollowOneAnother ==
  ASSUME NoOverlap
  PROVE  Spec => []SequenceInv
<1>1. TypeOK /\ QueueInv /\ SequenceInv /\ [Next]_vars => SequenceInv'
  BY SequenceInvNext
<1> QED
  BY <1>1, SequenceInvInit, TypeCorrect, QueueInvariant, PTL DEF Spec

\* Without overlap two jobs never observe a surface within the TTL.
THEOREM TtlRespected ==
  ASSUME NoOverlap
  PROVE  Spec => []TtlSpacing
<1>1. TypeOK /\ SequenceInv => TtlSpacing
  <2> SUFFICES ASSUME TypeOK, SequenceInv,
                      NEW o \in observations, NEW p \in observations,
                      SurfaceOf(o.job) = SurfaceOf(p.job), o.job # p.job,
                      o.at =< p.at
               PROVE  p.at > o.at + Ttl
    BY DEF TtlSpacing
  <2>1. /\ o.job \in Jobs /\ p.job \in Jobs
        /\ o.at \in Nat /\ p.at \in Nat /\ Ttl \in Nat
    BY BoundsAssumption, PolicyAssumption DEF TypeOK, Observations, Times
  <2>2. /\ status[o.job] # "absent" /\ ScheduledAt(o.job) =< o.at
        /\ status[p.job] # "absent" /\ ScheduledAt(p.job) =< p.at
    BY DEF SequenceInv, TimesOrdered
  <2>3. CASE ScheduledAt(o.job) < ScheduledAt(p.job)
    <3>1. o.at + Ttl < ScheduledAt(p.job)
      BY <2>1, <2>2, <2>3 DEF SequenceInv, JobsInSequence
    <3> QED
      BY <2>1, <2>2, <3>1, JobIdentity
  <2>4. CASE ScheduledAt(p.job) < ScheduledAt(o.job)
    <3>1. p.at + Ttl < ScheduledAt(o.job)
      BY <2>1, <2>2, <2>4 DEF SequenceInv, JobsInSequence
    <3> QED
      BY <2>1, <2>2, <3>1, JobIdentity
  <2>5. ScheduledAt(o.job) # ScheduledAt(p.job)
    BY <2>1, JobIdentity
  <2> QED
    BY <2>1, <2>3, <2>4, <2>5, JobIdentity
<1> QED
  BY <1>1, JobsFollowOneAnother, TypeCorrect, PTL

-----------------------------------------------------------------------------
(* What the only run knows of its rows is true. *)

\* A run without rows has nothing to be wrong about.
LEMMA NoRowsCurrent ==
  ASSUME NoOverlap, NEW r \in Runners, rows'[r] = {}
  PROVE  RowsCurrent'
BY DEF NoOverlap, RowsCurrent

\* Rows are kept or dropped, and the jobs of those kept are left alone.
LEMMA RowsStayCurrent ==
  ASSUME RowsCurrent, NoOverlap, NEW r \in Runners,
         pc[r] # "pause", pc'[r] # "pause",
         pc'[r] \in {"lease"} \cup Holding, rows'[r] \subseteq rows[r],
         now'[r] = now[r],
         \A w \in rows'[r] : /\ attempts'[w.job] = attempts[w.job]
                             /\ notBefore'[w.job] = notBefore[w.job]
  PROVE  RowsCurrent'
BY DEF NoOverlap, RowsCurrent

\* The update of a job leaves the other rows of the run current.
LEMMA RowsCurrentUpdate ==
  ASSUME TypeOK, QueueInv, RowsCurrent, NoOverlap, NEW r \in Runners,
         NEW w \in rows[r],
         Succeed(r, w) \/ Retry(r, w) \/ Fail(r, w) \/ AuthError(r, w)
  PROVE  RowsCurrent'
<1>1. pc[r] = "update" /\ NextRow(r, w) /\ w.job \in Jobs
  BY DEF Succeed, Retry, Fail, AuthError, TypeOK, Rows
<1>2. \A v \in rows[r] : v # w => v.job # w.job /\ v.job \in Jobs
  BY DEF QueueInv, RowsKeyed, TypeOK, Rows
<1>3. \A j \in Jobs : j # w.job =>
        attempts'[j] = attempts[j] /\ notBefore'[j] = notBefore[j]
  BY <1>1 DEF Succeed, Retry, Fail, AuthError, UpdateProbeJob, TypeOK
<1>4. CASE AuthError(r, w)
  <2>1. /\ pc'[r] = "pause" /\ rows' = rows
        /\ status'[w.job] = "auth_error"
    BY <1>1, <1>4 DEF AuthError, GoTo, UpdateProbeJob, TypeOK
  <2>2. \A v \in rows[r] : NextRow(r, v)' => v = w
    <3> SUFFICES ASSUME NEW v \in rows[r], NextRow(r, v)' PROVE v = w
      OBVIOUS
    <3>1. NextRow(r, v)
      BY <2>1 DEF NextRow
    <3> QED
      BY <1>1, <3>1, NextRowUnique DEF QueueInv
  <2> QED
    BY <2>1, <2>2 DEF NoOverlap, RowsCurrent, Holding
<1>5. CASE Succeed(r, w) \/ Retry(r, w) \/ Fail(r, w)
  <2>1. NextJob(r, w)
    BY <1>5 DEF Succeed, Retry, Fail
  <2>2. CASE rows[r] = {w}
    <3>1. rows'[r] = {}
      BY <2>1, <2>2 DEF NextJob, Leave, TypeOK
    <3> QED
      BY <3>1, NoRowsCurrent
  <2>3. CASE rows[r] # {w}
    <3>1. /\ pc'[r] = "request" /\ rows'[r] = rows[r] \ {w}
          /\ now'[r] = now[r]
      BY <2>1, <2>3 DEF NextJob, GoTo, TypeOK
    <3>2. \A v \in rows'[r] : /\ attempts'[v.job] = attempts[v.job]
                              /\ notBefore'[v.job] = notBefore[v.job]
      BY <1>2, <1>3, <3>1
    <3> QED
      BY <1>1, <3>1, <3>2, RowsStayCurrent DEF Holding
  <2> QED
    BY <2>2, <2>3
<1> QED
  BY <1>4, <1>5

\* A step of the only run leaves its rows current.
LEMMA RowsCurrentStep ==
  ASSUME TypeOK, QueueInv, RowsCurrent, NoOverlap, NEW r \in Runners, Step(r)
  PROVE  RowsCurrent'
<1>1. CASE \/ \E s \in Surfaces : \/ CheckFresh(r, s)
                                  \/ CheckOpen(r, s)
                                  \/ InsertProbeJob(r, s)
           \/ ScheduleDone(r)
  <2>1. pc[r] \in {"fresh", "open", "insert"} /\ rows'[r] = rows[r]
    BY <1>1 DEF CheckFresh, CheckOpen, SkipSurface, InsertProbeJob,
                ScheduleDone
  <2>2. rows[r] = {}
    BY <2>1 DEF RowsCurrent, Holding
  <2> QED
    BY <2>1, <2>2, NoRowsCurrent
<1>2. CASE SelectDueJobs(r)
  <2>1. /\ pc'[r] = "lease" /\ UNCHANGED <<attempts, notBefore, now>>
        /\ rows'[r] =
             {[job |-> j, attempts |-> attempts[j], notBefore |-> notBefore[j]] :
                j \in {k \in Jobs : IsDue(r, k)}}
    BY <1>2 DEF SelectDueJobs, GoTo, TypeOK, table
  <2>2. \A w \in rows'[r] : /\ w.attempts = attempts[w.job]
                            /\ w.notBefore = notBefore[w.job]
                            /\ w.notBefore =< now[r]
    BY <2>1 DEF IsDue
  <2> QED
    BY <2>1, <2>2 DEF NoOverlap, RowsCurrent, Holding
<1>3. CASE LeaseDueJobs(r)
  <2>1. CASE Leased(r) = {}
    <3>1. rows'[r] = {}
      BY <1>3, <2>1 DEF LeaseDueJobs, Leave, TypeOK
    <3> QED
      BY <3>1, NoRowsCurrent
  <2>2. CASE Leased(r) # {}
    BY <1>3, <2>2, RowsStayCurrent
       DEF LeaseDueJobs, Leased, GoTo, TypeOK, Holding
  <2> QED
    BY <2>1, <2>2
<1>4. ASSUME NEW w \in rows[r],
             \/ Request(r, w)
             \/ \E outcome \in Outcomes : InsertObservation(r, w, outcome)
      PROVE  RowsCurrent'
  BY <1>4, RowsStayCurrent
     DEF Request, InsertObservation, GoTo, TypeOK, table, Holding
<1>5. ASSUME NEW w \in rows[r],
             ObservationRejected(r, w) \/ PausePendingJobs(r, w)
      PROVE  RowsCurrent'
  <2>1. rows'[r] = {}
    BY <1>5 DEF ObservationRejected, Die, PausePendingJobs, Leave, TypeOK
  <2> QED
    BY <2>1, NoRowsCurrent
<1> QED
  BY <1>1, <1>2, <1>3, <1>4, <1>5, RowsCurrentUpdate DEF Step

\* Without overlap a run never works from a stale row.
THEOREM RowsAreCurrent ==
  ASSUME NoOverlap
  PROVE  Spec => []RowsCurrent
<1>1. Init => RowsCurrent
  BY DEF Init, RowsCurrent
<1>2. TypeOK /\ QueueInv /\ RowsCurrent /\ [Next]_vars => RowsCurrent'
  <2> SUFFICES ASSUME TypeOK, QueueInv, RowsCurrent, [Next]_vars
               PROVE  RowsCurrent'
    OBVIOUS
  <2>1. CASE Tick \/ UNCHANGED vars
    BY <2>1 DEF Tick, vars, table, process, RowsCurrent, NextRow
  <2>2. ASSUME NEW r \in Runners, Start(r) PROVE RowsCurrent'
    <3>1. rows'[r] = {}
      BY <2>2 DEF Start, RowsCurrent, Holding
    <3> QED
      BY <3>1, NoRowsCurrent
  <2>3. ASSUME NEW r \in Runners, Crash(r) PROVE RowsCurrent'
    <3>1. rows'[r] = {}
      BY <2>3 DEF Crash, Die, Leave, TypeOK
    <3> QED
      BY <3>1, NoRowsCurrent
  <2> QED
    BY <2>1, <2>2, <2>3, RowsCurrentStep DEF Next
<1> QED
  BY <1>1, <1>2, TypeCorrect, QueueInvariant, PTL DEF Spec

-----------------------------------------------------------------------------
(* The backoff. *)

\* Only an answer adds an observation, and it is made now.
LEMMA ObservedNow ==
  ASSUME TypeOK, NEW r \in Runners, NEW w \in rows[r],
         NEW outcome \in Outcomes, InsertObservation(r, w, outcome)
  PROVE  /\ pc[r] = "answer" /\ pc'[r] = "update" /\ NextRow(r, w)
         /\ w.job \in Jobs /\ w.attempts \in Nat
         /\ UNCHANGED <<clock, stranded, table, now, todo, rows>>
         /\ result'[r] = outcome
         /\ \E new \in observations' :
              /\ observations' = observations \cup {new}
              /\ new.job = w.job /\ new.attempt = w.attempts + 1
              /\ new.status = outcome /\ new.at = now[r]
<1>1. /\ pc[r] = "answer" /\ pc'[r] = "update" /\ NextRow(r, w)
      /\ w.job \in Jobs /\ w.attempts \in Nat
      /\ UNCHANGED <<clock, stranded, table, now, todo, rows>>
      /\ result'[r] = outcome
  BY DEF InsertObservation, GoTo, TypeOK, Rows
<1> DEFINE new == [job |-> w.job, attempt |-> w.attempts + 1,
                   status |-> outcome, at |-> now[r]]
<1>2. /\ observations' = observations \cup {new}
      /\ new.job = w.job /\ new.attempt = w.attempts + 1
      /\ new.status = outcome /\ new.at = now[r]
  BY DEF InsertObservation
<1> HIDE DEF new
<1>3. new \in observations'
  BY <1>2
<1> QED
  BY <1>1, <1>2, <1>3

\* A step of a run either adds an observation or does not touch them, and it
\* does not touch the clock; a run that goes on keeps its time.
LEMMA StepKeepsTime ==
  ASSUME TypeOK, NEW r \in Runners, Step(r)
  PROVE  /\ clock' = clock /\ stranded \subseteq stranded'
         /\ pc[r] # "idle"
         /\ pc'[r] # "idle" => now'[r] = now[r]
         /\ \/ observations' = observations
            \/ \E w \in rows[r], outcome \in Outcomes :
                 InsertObservation(r, w, outcome)
<1>1. CASE \/ \E s \in Surfaces : \/ CheckFresh(r, s)
                                  \/ CheckOpen(r, s)
                                  \/ InsertProbeJob(r, s)
           \/ ScheduleDone(r) \/ SelectDueJobs(r)
  BY <1>1 DEF CheckFresh, CheckOpen, SkipSurface, InsertProbeJob,
              ScheduleDone, SelectDueJobs
<1>2. CASE LeaseDueJobs(r)
  BY <1>2 DEF LeaseDueJobs, Leave, GoTo, TypeOK
<1>3. ASSUME NEW w \in rows[r], Request(r, w) \/ ObservationRejected(r, w)
      PROVE  /\ UNCHANGED <<clock, observations>> /\ stranded \subseteq stranded'
             /\ pc[r] # "idle"
             /\ pc'[r] # "idle" => now'[r] = now[r]
  BY <1>3 DEF Request, ObservationRejected, Die, Leave, GoTo, TypeOK
<1>4. ASSUME NEW w \in rows[r], \/ Succeed(r, w) \/ Retry(r, w)
                                \/ Fail(r, w) \/ AuthError(r, w)
      PROVE  /\ UNCHANGED <<clock, observations>> /\ stranded \subseteq stranded'
             /\ pc[r] # "idle"
             /\ pc'[r] # "idle" => now'[r] = now[r]
  BY <1>4 DEF Succeed, Retry, Fail, AuthError, NextJob, Leave, GoTo, TypeOK
<1>5. ASSUME NEW w \in rows[r], PausePendingJobs(r, w)
      PROVE  /\ UNCHANGED <<clock, observations>> /\ stranded \subseteq stranded'
             /\ pc[r] # "idle"
             /\ pc'[r] # "idle" => now'[r] = now[r]
  BY <1>5 DEF PausePendingJobs, Leave, GoTo, TypeOK
<1>6. ASSUME NEW w \in rows[r], NEW outcome \in Outcomes,
             InsertObservation(r, w, outcome)
      PROVE  /\ clock' = clock /\ stranded \subseteq stranded'
             /\ pc[r] # "idle"
             /\ now'[r] = now[r]
  BY <1>6 DEF InsertObservation
<1> QED
  BY <1>1, <1>2, <1>3, <1>4, <1>5, <1>6 DEF Step

\* The clock and the runs never go back before an observation.
LEMMA ObservationsOrderedNext ==
  ASSUME TypeOK, SequenceInv, ObservationsOrdered, NoOverlap, [Next]_vars
  PROVE  ObservationsOrdered'
<1>1. \A o \in observations : o.at \in Nat
  BY BoundsAssumption DEF TypeOK, Observations, Times
<1>2. clock \in Nat /\ \A r \in Runners : now[r] \in Nat
  BY BoundsAssumption DEF TypeOK, Times
<1>3. CASE Tick
  BY <1>1, <1>2, <1>3 DEF Tick, process, ObservationsOrdered
<1>4. ASSUME NEW r \in Runners, Start(r) PROVE ObservationsOrdered'
  <2>1. UNCHANGED <<clock, observations>> /\ now'[r] = clock
    BY <1>4 DEF Start, TypeOK
  <2> QED
    BY <2>1 DEF ObservationsOrdered, NoOverlap
<1>5. ASSUME NEW r \in Runners, Crash(r) PROVE ObservationsOrdered'
  BY <1>5 DEF Crash, Die, Leave, GoTo, TypeOK, ObservationsOrdered, NoOverlap
<1>6. ASSUME NEW r \in Runners, Step(r) PROVE ObservationsOrdered'
  <2>1. CASE observations' = observations
    BY <1>6, <2>1, StepKeepsTime DEF ObservationsOrdered, NoOverlap
  <2>2. ASSUME NEW w \in rows[r], NEW outcome \in Outcomes,
               InsertObservation(r, w, outcome)
        PROVE  ObservationsOrdered'
    <3>1. now[r] =< clock
      BY <2>2, ObservedNow DEF SequenceInv, TimesOrdered
    <3> QED
      BY <1>2, <2>2, <3>1, ObservedNow DEF ObservationsOrdered, NoOverlap
  <2> QED
    BY <1>6, <2>1, <2>2, StepKeepsTime
<1> QED
  BY <1>3, <1>4, <1>5, <1>6
     DEF Next, vars, process, ObservationsOrdered

\* Between the insert of an observation and the update of its job there is
\* one observation the job does not count, and it was made now.
LEMMA AnswerIsNowNext ==
  ASSUME TypeOK, QueueInv, AnswerIsNow, NoOverlap, [Next]_vars
  PROVE  AnswerIsNow'
<1>1. CASE Tick \/ UNCHANGED vars
  BY <1>1 DEF Tick, vars, table, process, AnswerIsNow, NextRow
<1>2. ASSUME NEW r \in Runners, pc'[r] # "update" PROVE AnswerIsNow'
  BY <1>2 DEF AnswerIsNow, NoOverlap
<1>3. ASSUME NEW r \in Runners, Start(r) \/ Crash(r) PROVE AnswerIsNow'
  <2>1. pc'[r] # "update"
    BY <1>3 DEF Start, Crash, Die, Leave, GoTo, TypeOK
  <2> QED
    BY <1>2, <2>1
<1>4. ASSUME NEW r \in Runners, Step(r) PROVE AnswerIsNow'
  <2>1. ASSUME NEW w \in rows[r], NEW outcome \in Outcomes,
               InsertObservation(r, w, outcome)
        PROVE  AnswerIsNow'
    <3>1. \A v \in rows[r] : ~HasObservation(v.job, attempts[v.job] + 1)
      BY <2>1, ObservedNow DEF QueueInv, RowOK, Ahead
    <3>2. PICK new \in observations' :
            observations' = observations \cup {new} /\ new.at = now[r]
      BY <2>1, ObservedNow
    <3>3. UNCHANGED <<attempts, now, rows>>
      BY <2>1, ObservedNow DEF table
    <3> QED
      BY <3>1, <3>2, <3>3 DEF AnswerIsNow, NoOverlap, HasObservation
  <2>2. CASE \A w \in rows[r], outcome \in Outcomes :
               ~InsertObservation(r, w, outcome)
    <3>1. CASE \/ \E s \in Surfaces : \/ CheckFresh(r, s)
                                      \/ CheckOpen(r, s)
                                      \/ InsertProbeJob(r, s)
               \/ ScheduleDone(r) \/ SelectDueJobs(r) \/ LeaseDueJobs(r)
      <4>1. pc'[r] # "update"
        BY <3>1 DEF CheckFresh, CheckOpen, SkipSurface, InsertProbeJob,
                    ScheduleDone, SelectDueJobs, LeaseDueJobs, Leave, GoTo,
                    TypeOK
      <4> QED
        BY <1>2, <4>1
    <3>2. ASSUME NEW w \in rows[r],
                 \/ Request(r, w) \/ ObservationRejected(r, w)
                 \/ Succeed(r, w) \/ Retry(r, w) \/ Fail(r, w)
                 \/ AuthError(r, w) \/ PausePendingJobs(r, w)
          PROVE  AnswerIsNow'
      <4>1. pc'[r] # "update"
        BY <3>2 DEF Request, ObservationRejected, Die, Succeed, Retry, Fail,
                    AuthError, PausePendingJobs, NextJob, Leave, GoTo, TypeOK
      <4> QED
        BY <1>2, <4>1
    <3> QED
      BY <1>4, <2>2, <3>1, <3>2 DEF Step
  <2> QED
    BY <2>1, <2>2
<1> QED
  BY <1>1, <1>3, <1>4 DEF Next

\* A step that makes nothing wait or run that did not, and adds no
\* observation, leaves the backoff as it is.
LEMMA BackoffQuiet ==
  ASSUME BackoffKept, observations' = observations,
         \A o \in observations :
           status'[o.job] \in DueStatuses \cup {"running"} =>
             /\ status[o.job] \in DueStatuses \cup {"running"}
             /\ attempts'[o.job] = attempts[o.job]
             /\ notBefore'[o.job] = notBefore[o.job]
  PROVE  BackoffKept'
BY DEF BackoffKept

\* A retry waits for the backoff of its own attempt, counted from a time at
\* which the earlier ones were over.
LEMMA BackoffRetry ==
  ASSUME TypeOK, QueueInv, SequenceInv, RowsCurrent, AnswerIsNow, BackoffKept,
         NEW r \in Runners, NEW w \in rows[r], Retry(r, w)
  PROVE  BackoffKept'
<1> DEFINE j == w.job
           n == attempts[j] + 1
<1>1. /\ pc[r] = "update" /\ NextRow(r, w) /\ j \in Jobs
      /\ w.attempts = attempts[j] /\ notBefore[j] =< now[r]
      /\ attempts[j] \in Nat /\ notBefore[j] \in Nat /\ now[r] \in Nat
      /\ observations' = observations
  BY BoundsAssumption DEF Retry, RowsCurrent, TypeOK, Rows, Times
<1>2. n \in 1..MaxAttempts /\ BackoffDelay(n) \in Nat
  BY <1>1, RetryTimeTyped, PolicyAssumption DEF Retry
<1>3. status[j] = "running"
  BY <1>1 DEF SequenceInv, LeasedJobsRun
<1>4. /\ \A k \in Jobs : k # j => /\ status'[k] = status[k]
                                  /\ attempts'[k] = attempts[k]
                                  /\ notBefore'[k] = notBefore[k]
      /\ attempts'[j] = n
      /\ notBefore'[j] = now[r] + BackoffDelay(n)
  BY <1>1 DEF Retry, UpdateProbeJob, TypeOK
<1>5. ASSUME NEW o \in observations, o.job = j, o.attempt =< n
      PROVE  now[r] + BackoffDelay(n) >= o.at + BackoffDelay(o.attempt)
  <2>1. /\ o.attempt \in 1..MaxAttempts /\ BackoffDelay(o.attempt) \in Nat
        /\ o.at \in Nat
    <3>1. o.attempt \in Nat /\ o.attempt >= 1 /\ o.at \in Nat
      BY <1>1, <1>5, BoundsAssumption
         DEF QueueInv, JobOK, TypeOK, Observations, Times
    <3>2. o.attempt \in 1..MaxAttempts
      BY <1>2, <1>5, <3>1, PolicyAssumption
    <3> QED
      BY <3>1, <3>2, PolicyAssumption
  <2>2. CASE o.attempt = n
    <3>1. o.at = now[r]
      BY <1>1, <1>5, <2>2 DEF AnswerIsNow
    <3> QED
      BY <1>1, <1>2, <2>2, <3>1
  <2>3. CASE o.attempt # n
    <3>1. o.attempt =< attempts[j]
      BY <1>1, <1>5, <2>1, <2>3
    <3>2. notBefore[j] >= o.at + BackoffDelay(o.attempt)
      BY <1>3, <1>5, <3>1 DEF BackoffKept
    <3> HIDE DEF j, n
    <3> QED
      BY <1>1, <1>2, <2>1, <3>2
  <2> QED
    BY <2>2, <2>3
<1>6. \A o \in observations : o.job \in Jobs
  BY DEF TypeOK, Observations
<1> HIDE DEF j, n
<1> QED
  BY <1>1, <1>4, <1>5, <1>6 DEF BackoffKept

\* No step leaves a job due before its backoff is over.
LEMMA BackoffKeptStep ==
  ASSUME TypeOK, QueueInv, SequenceInv, RowsCurrent, AnswerIsNow, BackoffKept,
         NEW r \in Runners, Step(r)
  PROVE  BackoffKept'
<1>1. \A o \in observations : o.job \in Jobs /\ status[o.job] # "absent"
  BY DEF TypeOK, Observations, SequenceInv, TimesOrdered
<1>2. ASSUME NEW s \in Surfaces,
             CheckFresh(r, s) \/ CheckOpen(r, s)
      PROVE  BackoffKept'
  BY <1>2, BackoffQuiet DEF CheckFresh, CheckOpen, SkipSurface, table
<1>3. ASSUME NEW s \in Surfaces, InsertProbeJob(r, s)
      PROVE  BackoffKept'
  <2>1. CASE status[<<s, now[r]>>] # "absent"
    BY <1>3, <2>1, BackoffQuiet DEF InsertProbeJob, table
  <2>2. CASE status[<<s, now[r]>>] = "absent"
    <3>1. \A o \in observations : o.job # <<s, now[r]>>
      BY <1>1, <2>2
    <3>2. \A o \in observations : /\ status'[o.job] = status[o.job]
                                  /\ attempts'[o.job] = attempts[o.job]
                                  /\ notBefore'[o.job] = notBefore[o.job]
      BY <1>1, <1>3, <2>2, <3>1 DEF InsertProbeJob, UpdateProbeJob, TypeOK
    <3>3. observations' = observations
      BY <1>3 DEF InsertProbeJob
    <3> QED
      BY <3>2, <3>3, BackoffQuiet
  <2> QED
    BY <2>1, <2>2
<1>4. CASE ScheduleDone(r) \/ SelectDueJobs(r)
  BY <1>4, BackoffQuiet DEF ScheduleDone, SelectDueJobs, table
<1>5. CASE LeaseDueJobs(r)
  <2>1. /\ UNCHANGED <<attempts, notBefore, observations>>
        /\ \A j \in Jobs :
             status'[j] \in DueStatuses \cup {"running"} =>
               status[j] \in DueStatuses \cup {"running"}
    BY <1>5 DEF LeaseDueJobs, Leased
  <2> QED
    BY <1>1, <2>1, BackoffQuiet
<1>6. ASSUME NEW w \in rows[r], Request(r, w) \/ ObservationRejected(r, w)
      PROVE  BackoffKept'
  BY <1>6, BackoffQuiet DEF Request, ObservationRejected, Die, table
<1>7. ASSUME NEW w \in rows[r], NEW outcome \in Outcomes,
             InsertObservation(r, w, outcome)
      PROVE  BackoffKept'
  <2>1. PICK new \in observations' :
          /\ observations' = observations \cup {new}
          /\ new.job = w.job /\ new.attempt = w.attempts + 1
    BY <1>7, ObservedNow
  <2>2. /\ pc[r] = "answer" /\ w.attempts = attempts[w.job]
        /\ attempts[w.job] \in Nat
        /\ UNCHANGED <<status, attempts, notBefore>>
    BY <1>7, ObservedNow DEF RowsCurrent, table, TypeOK
  <2> QED
    BY <2>1, <2>2 DEF BackoffKept
<1>8. ASSUME NEW w \in rows[r], Retry(r, w) PROVE BackoffKept'
  BY <1>8, BackoffRetry
<1>9. ASSUME NEW w \in rows[r], Succeed(r, w) \/ Fail(r, w) \/ AuthError(r, w)
      PROVE  BackoffKept'
  <2>1. /\ w.job \in Jobs /\ observations' = observations
        /\ status'[w.job] \notin DueStatuses \cup {"running"}
        /\ \A k \in Jobs : k # w.job => /\ status'[k] = status[k]
                                        /\ attempts'[k] = attempts[k]
                                        /\ notBefore'[k] = notBefore[k]
    BY <1>9 DEF Succeed, Fail, AuthError, UpdateProbeJob, TypeOK, Rows,
                DueStatuses
  <2> QED
    BY <1>1, <2>1, BackoffQuiet
<1>10. ASSUME NEW w \in rows[r], PausePendingJobs(r, w) PROVE BackoffKept'
  <2>1. /\ UNCHANGED <<attempts, notBefore, observations>>
        /\ \A j \in Jobs :
             status'[j] \in DueStatuses \cup {"running"} =>
               status[j] \in DueStatuses \cup {"running"}
    BY <1>10 DEF PausePendingJobs, DueStatuses
  <2> QED
    BY <1>1, <2>1, BackoffQuiet
<1> QED
  BY <1>2, <1>3, <1>4, <1>5, <1>6, <1>7, <1>8, <1>9, <1>10 DEF Step

\* Without overlap nothing is observed before its time, every answer is
\* recorded with the time of its run, and a job is not due before the backoff
\* of its attempts is over.
THEOREM BackoffIsKept ==
  ASSUME NoOverlap
  PROVE  Spec => [](ObservationsOrdered /\ AnswerIsNow /\ BackoffKept)
<1> DEFINE Inv == ObservationsOrdered /\ AnswerIsNow /\ BackoffKept
<1>1. Init => Inv
  BY DEF Init, ObservationsOrdered, AnswerIsNow, BackoffKept
<1>2. TypeOK /\ QueueInv /\ SequenceInv /\ RowsCurrent /\ Inv /\ [Next]_vars
        => Inv'
  <2> SUFFICES ASSUME TypeOK, QueueInv, SequenceInv, RowsCurrent, Inv,
                      [Next]_vars
               PROVE  BackoffKept'
    BY ObservationsOrderedNext, AnswerIsNowNext
  <2>1. CASE Tick \/ UNCHANGED vars \/ \E r \in Runners : Start(r) \/ Crash(r)
    BY <2>1, BackoffQuiet DEF Tick, Start, Crash, Die, vars, table
  <2> QED
    BY <2>1, BackoffKeptStep DEF Next
<1> QED
  BY <1>1, <1>2, TypeCorrect, QueueInvariant, JobsFollowOneAnother,
     RowsAreCurrent, PTL DEF Spec

\* Without overlap the provider is asked again about a job only by a run that
\* started after the backoff of every failed attempt.
THEOREM BackoffIsRespected ==
  ASSUME NoOverlap
  PROVE  Spec => []BackoffRespected
<1>1. TypeOK /\ QueueInv /\ SequenceInv /\ RowsCurrent /\ BackoffKept
        => BackoffRespected
  <2> SUFFICES ASSUME TypeOK, QueueInv, SequenceInv, RowsCurrent, BackoffKept,
                      NEW r \in Runners, NEW w \in rows[r],
                      pc[r] = "answer", NextRow(r, w),
                      NEW o \in observations, o.job = w.job
               PROVE  now[r] >= o.at + BackoffDelay(o.attempt)
    BY DEF BackoffRespected
  <2>1. /\ w.job \in Jobs /\ attempts[w.job] \in Nat /\ now[r] \in Nat
        /\ notBefore[w.job] \in Nat /\ o.attempt \in Nat /\ o.at \in Nat
    BY BoundsAssumption DEF TypeOK, Rows, Observations, Times
  <2>2. status[w.job] = "running" /\ notBefore[w.job] =< now[r]
    BY DEF SequenceInv, LeasedJobsRun, RowsCurrent
  <2>3. /\ attempts[w.job] =< MaxAttempts
        /\ o.attempt >= 1 /\ o.attempt =< attempts[w.job] + 1
        /\ ~Ahead(w.job)
    BY <2>1 DEF QueueInv, JobOK, RowOK
  <2>4. o.attempt =< attempts[w.job]
    BY <2>1, <2>3 DEF Ahead, HasObservation
  <2>5. notBefore[w.job] >= o.at + BackoffDelay(o.attempt)
    BY <2>2, <2>4 DEF BackoffKept
  <2>6. BackoffDelay(o.attempt) \in Nat
    <3>1. o.attempt \in 1..MaxAttempts
      BY <2>1, <2>3, <2>4, PolicyAssumption
    <3> QED
      BY <3>1, PolicyAssumption
  <2> QED
    BY <2>1, <2>2, <2>5, <2>6
<1> QED
  BY <1>1, BackoffIsKept, TypeCorrect, QueueInvariant, JobsFollowOneAnother,
     RowsAreCurrent, PTL

-----------------------------------------------------------------------------
(* The auth error. *)

\* What covers a surface goes on covering it: observations stay, and an open
\* job leaves its status only once it is observed.
LEMMA CoveredStays ==
  ASSUME NEW s \in Surfaces, NEW t, Covered(s, t),
         observations \subseteq observations',
         \A j \in Jobs : status[j] \in OpenStatuses =>
           \/ status'[j] \in OpenStatuses
           \/ \E o \in observations' : o.job = j /\ o.at >= t - Ttl
  PROVE  Covered(s, t)'
<1>1. CASE HasOpenJob(s)
  BY <1>1 DEF Covered, HasOpenJob
<1>2. CASE \E o \in observations : SurfaceOf(o.job) = s /\ o.at >= t - Ttl
  BY <1>2 DEF Covered
<1> QED
  BY <1>1, <1>2 DEF Covered

\* Times and observations as numbers, for the comparisons below.
LEMMA TimesAreNumbers ==
  ASSUME TypeOK
  PROVE  /\ clock \in Nat /\ Ttl \in Nat
         /\ \A r \in Runners : now[r] \in Nat /\ now[r] \in Times
         /\ \A o \in observations : o.at \in Nat /\ o.job \in Jobs
BY BoundsAssumption, PolicyAssumption DEF TypeOK, Times, Observations

\* A job that stops being open was observed by the run at its own time.
LEMMA ClosedWhenObserved ==
  ASSUME TypeOK, QueueInv, SequenceInv, AnswerIsNow, NEW r \in Runners,
         NEW w \in rows[r],
         Succeed(r, w) \/ Retry(r, w) \/ Fail(r, w) \/ AuthError(r, w)
  PROVE  /\ w.job \in Jobs /\ pc[r] = "update" /\ NextRow(r, w)
         /\ observations' = observations
         /\ status[w.job] = "running" /\ status'[w.job] # "absent"
         /\ \A j \in Jobs : j # w.job => status'[j] = status[j]
         /\ \E o \in observations : o.job = w.job /\ o.at = now[r]
<1>1. /\ w.job \in Jobs /\ pc[r] = "update" /\ NextRow(r, w)
      /\ observations' = observations /\ status'[w.job] # "absent"
      /\ \A j \in Jobs : j # w.job => status'[j] = status[j]
  BY DEF Succeed, Retry, Fail, AuthError, UpdateProbeJob, TypeOK, Rows
<1>2. status[w.job] = "running"
  BY <1>1 DEF SequenceInv, LeasedJobsRun
<1>3. \E o \in observations :
        o.job = w.job /\ o.attempt = attempts[w.job] + 1
  BY <1>1 DEF QueueInv, RowOK, Ahead, HasObservation
<1>4. \E o \in observations : o.job = w.job /\ o.at = now[r]
  BY <1>1, <1>3 DEF AnswerIsNow
<1> QED
  BY <1>1, <1>2, <1>4

\* Which statuses a step can change, and how.
LEMMA StatusChanges ==
  ASSUME TypeOK, QueueInv, SequenceInv, AnswerIsNow, NEW r \in Runners,
         Step(r), NEW j \in Jobs
  PROVE  \/ status'[j] = status[j]
         \/ status[j] \in OpenStatuses /\ status'[j] \in OpenStatuses
         \/ /\ status[j] = "absent" /\ status'[j] = "scheduled"
            /\ pc[r] = "insert"
            /\ \E s \in Surfaces : NextSurface(r, s) /\ j = <<s, now[r]>>
         \/ /\ status[j] = "running" /\ status'[j] \in ClosedStatuses
            /\ \E o \in observations : o.job = j /\ o.at = now[r]
<1> DEFINE Goal ==
      \/ status'[j] = status[j]
      \/ status[j] \in OpenStatuses /\ status'[j] \in OpenStatuses
      \/ /\ status[j] = "absent" /\ status'[j] = "scheduled"
         /\ pc[r] = "insert"
         /\ \E s \in Surfaces : NextSurface(r, s) /\ j = <<s, now[r]>>
      \/ /\ status[j] = "running" /\ status'[j] \in ClosedStatuses
         /\ \E o \in observations : o.job = j /\ o.at = now[r]
<1> SUFFICES Goal
  OBVIOUS
<1>1. ASSUME NEW s \in Surfaces, InsertProbeJob(r, s) PROVE Goal
  BY <1>1 DEF InsertProbeJob, UpdateProbeJob, TypeOK, table
<1>2. CASE LeaseDueJobs(r)
  BY <1>2 DEF LeaseDueJobs, Leased, OpenStatuses, PausableStatuses
<1>3. ASSUME NEW w \in rows[r],
             Succeed(r, w) \/ Retry(r, w) \/ Fail(r, w) \/ AuthError(r, w)
      PROVE  Goal
  <2>1. status'[w.job] \in ClosedStatuses \cup OpenStatuses
    BY <1>3 DEF Succeed, Retry, Fail, AuthError, UpdateProbeJob, TypeOK, Rows,
                ClosedStatuses, OpenStatuses, PausableStatuses, DueStatuses
  <2>2. "running" \in OpenStatuses
    BY DEF OpenStatuses, PausableStatuses
  <2> QED
    BY <1>3, <2>1, <2>2, ClosedWhenObserved
<1>4. ASSUME NEW w \in rows[r], PausePendingJobs(r, w) PROVE Goal
  BY <1>4 DEF PausePendingJobs, OpenStatuses
<1>5. CASE status' = status
  BY <1>5
<1> HIDE DEF Goal
<1>6. CASE \/ \E s \in Surfaces : CheckFresh(r, s) \/ CheckOpen(r, s)
           \/ ScheduleDone(r) \/ SelectDueJobs(r)
           \/ \E w \in rows[r] :
                \/ Request(r, w) \/ ObservationRejected(r, w)
                \/ \E outcome \in Outcomes : InsertObservation(r, w, outcome)
  BY <1>5, <1>6
     DEF CheckFresh, CheckOpen, SkipSurface, ScheduleDone, SelectDueJobs,
         Request, ObservationRejected, Die, InsertObservation, table
<1> QED
  BY <1>1, <1>2, <1>3, <1>4, <1>6 DEF Step

\* Whatever a step does, it does not uncover a surface for a time that has
\* come.
LEMMA CoveredStep ==
  ASSUME TypeOK, QueueInv, SequenceInv, AnswerIsNow, NEW r \in Runners,
         Step(r), NEW s \in Surfaces, NEW t \in Nat, t =< now[r],
         Covered(s, t)
  PROVE  Covered(s, t)'
<1>1. observations \subseteq observations'
  BY StepKeepsTime DEF InsertObservation
<1>2. now[r] \in Nat /\ Ttl \in Nat
  BY TimesAreNumbers
<1>3. \A j \in Jobs : status[j] \in OpenStatuses =>
        \/ status'[j] \in OpenStatuses
        \/ \E o \in observations' : o.job = j /\ o.at >= t - Ttl
  <2> SUFFICES ASSUME NEW j \in Jobs, status[j] \in OpenStatuses,
                      status'[j] \notin OpenStatuses
               PROVE  \E o \in observations' : o.job = j /\ o.at >= t - Ttl
    OBVIOUS
  <2>1. status[j] # "absent"
    BY DEF OpenStatuses, PausableStatuses, DueStatuses
  <2>2. \E o \in observations : o.job = j /\ o.at = now[r]
    BY <2>1, StatusChanges
  <2> QED
    BY <1>1, <1>2, <2>2
<1> QED
  BY <1>1, <1>3, CoveredStays

\* The surface whose turn is over is covered.
LEMMA CoveredWhenDone ==
  ASSUME TypeOK, SequenceInv, SurfacesCovered, NEW r \in Runners,
         NEW s \in Surfaces, NextSurface(r, s),
         \/ CheckFresh(r, s) /\ pc'[r] = "fresh"
         \/ CheckOpen(r, s) /\ pc'[r] = "fresh"
         \/ InsertProbeJob(r, s)
  PROVE  Covered(s, now[r])'
<1>1. UNCHANGED <<now, observations>>
  BY DEF CheckFresh, CheckOpen, SkipSurface, InsertProbeJob
<1>2. CASE CheckFresh(r, s) /\ pc'[r] = "fresh"
  <2>1. HasFreshObservation(r, s)
    BY <1>2 DEF CheckFresh, GoTo, TypeOK
  <2> QED
    BY <1>1, <2>1 DEF HasFreshObservation, Covered
<1>3. CASE CheckOpen(r, s) /\ pc'[r] = "fresh"
  <2>1. HasOpenJob(s) /\ status' = status
    BY <1>3 DEF CheckOpen, SkipSurface, GoTo, TypeOK, table
  <2> QED
    BY <2>1 DEF HasOpenJob, Covered
<1>4. CASE InsertProbeJob(r, s)
  <2> DEFINE j == <<s, now[r]>>
  <2>1. j \in Jobs /\ SurfaceOf(j) = s /\ ScheduledAt(j) = now[r]
    BY TimesAreNumbers DEF Jobs, SurfaceOf, ScheduledAt
  <2>2. CASE status[j] = "absent"
    <3>1. status'[j] = "scheduled"
      BY <1>4, <2>1, <2>2 DEF InsertProbeJob, UpdateProbeJob, TypeOK
    <3>2. HasOpenJob(s)'
      BY <2>1, <3>1
         DEF HasOpenJob, OpenStatuses, PausableStatuses, DueStatuses
    <3> QED
      BY <3>2 DEF Covered
  <2>3. CASE status[j] \in OpenStatuses
    <3>1. status' = status
      BY <1>4, <2>3
         DEF InsertProbeJob, table, OpenStatuses, PausableStatuses, DueStatuses
    <3>2. HasOpenJob(s)'
      BY <2>1, <2>3, <3>1 DEF HasOpenJob
    <3> QED
      BY <3>2 DEF Covered
  <2>4. CASE status[j] \in ClosedStatuses
    <3>1. PICK o \in observations : o.job = j
      BY <2>1, <2>4 DEF SurfacesCovered
    <3>2. o.at >= now[r]
      BY <2>1, <3>1, TimesAreNumbers DEF SequenceInv, TimesOrdered
    <3>3. o.at >= now[r] - Ttl
      BY <3>2, TimesAreNumbers
    <3> QED
      BY <1>1, <2>1, <3>1, <3>3 DEF Covered
  <2> QED
    BY <2>1, <2>2, <2>3, <2>4 DEF TypeOK, Statuses
<1> QED
  BY <1>2, <1>3, <1>4

\* How a step moves along the list of surfaces.
LEMMA TodoStep ==
  ASSUME TypeOK, NEW r \in Runners, Step(r), pc'[r] # "idle"
  PROVE  \/ /\ todo'[r] = todo[r]
            /\ pc'[r] \in {"select", "lease"} \cup Holding =>
                 \/ pc[r] \in {"select", "lease"} \cup Holding
                 \/ todo[r] = {}
         \/ \E s \in Surfaces :
              /\ todo'[r] = todo[r] \ {s} /\ pc'[r] = "fresh"
              /\ NextSurface(r, s)
              /\ CheckFresh(r, s) \/ CheckOpen(r, s) \/ InsertProbeJob(r, s)
<1> USE DEF Holding, GoTo
<1>1. ASSUME NEW s \in Surfaces,
             CheckFresh(r, s) \/ CheckOpen(r, s) \/ InsertProbeJob(r, s)
      PROVE  \/ todo'[r] = todo[r] /\ pc'[r] \in {"open", "insert"}
             \/ /\ todo'[r] = todo[r] \ {s} /\ pc'[r] = "fresh"
                /\ NextSurface(r, s)
  BY <1>1 DEF CheckFresh, CheckOpen, SkipSurface, InsertProbeJob, TypeOK
<1>2. CASE ScheduleDone(r) \/ SelectDueJobs(r)
  BY <1>2 DEF ScheduleDone, SelectDueJobs, TypeOK
<1>3. CASE LeaseDueJobs(r)
  BY <1>3 DEF LeaseDueJobs, Leave, TypeOK
<1>4. ASSUME NEW w \in rows[r],
             \/ Request(r, w)
             \/ \E outcome \in Outcomes : InsertObservation(r, w, outcome)
             \/ ObservationRejected(r, w)
      PROVE  todo'[r] = todo[r] /\ pc[r] \in Holding
  BY <1>4 DEF Request, InsertObservation, ObservationRejected, Die, Leave, TypeOK
<1>5. ASSUME NEW w \in rows[r],
             \/ Succeed(r, w) \/ Retry(r, w) \/ Fail(r, w)
             \/ AuthError(r, w) \/ PausePendingJobs(r, w)
      PROVE  todo'[r] = todo[r] /\ pc[r] \in Holding
  BY <1>5 DEF Succeed, Retry, Fail, AuthError, PausePendingJobs, NextJob,
              Leave, TypeOK
<1> QED
  BY <1>1, <1>2, <1>3, <1>4, <1>5 DEF Step

\* No step uncovers a surface that a run has walked past.
LEMMA SurfacesCoveredStep ==
  ASSUME TypeOK, QueueInv, SequenceInv, ObservationsOrdered, AnswerIsNow,
         SurfacesCovered, NoOverlap, NEW r \in Runners, Step(r)
  PROVE  SurfacesCovered'
<1>1. \A q \in Runners : q = r
  BY DEF NoOverlap
<1>2. /\ pc[r] # "idle" /\ now[r] \in Nat
      /\ pc'[r] # "idle" => now'[r] = now[r]
  BY StepKeepsTime, TimesAreNumbers
<1>3. ASSUME pc'[r] # "idle"
      PROVE  /\ pc'[r] \in {"select", "lease"} \cup Holding => todo'[r] = {}
             /\ \A s \in Surfaces \ todo'[r] : Covered(s, now[r])'
  <2>1. \A s \in Surfaces \ todo[r] : Covered(s, now[r])'
    <3>1. PICK t \in Nat : t = now[r] /\ t = now'[r]
      BY <1>2, <1>3
    <3>2. \A s \in Surfaces \ todo[r] : Covered(s, t)
      BY <1>2, <3>1 DEF SurfacesCovered
    <3>3. ASSUME NEW s \in Surfaces, s \notin todo[r]
          PROVE  Covered(s, t)'
      <4>1. t =< now[r] /\ Covered(s, t)
        BY <3>1, <3>2, <3>3
      <4> QED
        BY <4>1, CoveredStep
    <3> QED
      BY <3>1, <3>3 DEF Covered
  <2>2. CASE todo'[r] = todo[r] /\
             (pc'[r] \in {"select", "lease"} \cup Holding =>
                \/ pc[r] \in {"select", "lease"} \cup Holding
                \/ todo[r] = {})
    BY <1>2, <2>1, <2>2 DEF SurfacesCovered
  <2>3. ASSUME NEW s \in Surfaces, todo'[r] = todo[r] \ {s},
               pc'[r] = "fresh", NextSurface(r, s),
               CheckFresh(r, s) \/ CheckOpen(r, s) \/ InsertProbeJob(r, s)
        PROVE  /\ pc'[r] \in {"select", "lease"} \cup Holding => todo'[r] = {}
               /\ \A u \in Surfaces \ todo'[r] : Covered(u, now[r])'
    <3>1. Covered(s, now[r])'
      BY <2>3, CoveredWhenDone
    <3> QED
      BY <2>1, <2>3, <3>1 DEF Holding
  <2> QED
    BY <1>3, <2>2, <2>3, TodoStep
<1>4. ASSUME NEW o \in observations', NEW s \in Surfaces
      PROVE  Covered(s, o.at)'
  <2>1. PICK t \in Nat : t = o.at /\ t =< now[r] /\ Covered(s, t)
    <3>1. CASE o \in observations
      BY <1>2, <3>1, TimesAreNumbers DEF ObservationsOrdered, SurfacesCovered
    <3>2. ASSUME NEW w \in rows[r], NEW outcome \in Outcomes,
                 InsertObservation(r, w, outcome), o \notin observations
          PROVE  o.at = now[r] /\ Covered(s, now[r])
      <4>1. o.at = now[r] /\ pc[r] = "answer"
        BY <3>2, ObservedNow
      <4> QED
        BY <4>1 DEF SurfacesCovered, Holding
    <3> QED
      BY <1>2, <3>1, <3>2, StepKeepsTime
  <2>2. Covered(s, t)'
    BY <2>1, CoveredStep
  <2> QED
    BY <2>1, <2>2 DEF Covered
<1>5. ASSUME NEW j \in Jobs, status'[j] \in ClosedStatuses
      PROVE  \E o \in observations' : o.job = j
  <2>1. observations \subseteq observations'
    BY StepKeepsTime DEF InsertObservation
  <2>2. status'[j] \notin OpenStatuses /\ status'[j] # "scheduled"
    BY <1>5 DEF ClosedStatuses, OpenStatuses, PausableStatuses, DueStatuses
  <2>3. \E o \in observations : o.job = j
    BY <1>5, <2>2, StatusChanges DEF SurfacesCovered
  <2> QED
    BY <2>1, <2>3
<1> QED
  BY <1>1, <1>2, <1>3, <1>4, <1>5 DEF SurfacesCovered

\* Without overlap a run leaves no surface for another run of the same time.
THEOREM SurfacesAreCovered ==
  ASSUME NoOverlap
  PROVE  Spec => []SurfacesCovered
<1>1. Init => SurfacesCovered
  BY DEF Init, SurfacesCovered, ClosedStatuses
<1>2. /\ TypeOK /\ QueueInv /\ SequenceInv /\ ObservationsOrdered
      /\ AnswerIsNow /\ SurfacesCovered /\ [Next]_vars
      => SurfacesCovered'
  <2> SUFFICES ASSUME TypeOK, QueueInv, SequenceInv, ObservationsOrdered,
                      AnswerIsNow, SurfacesCovered, [Next]_vars
               PROVE  SurfacesCovered'
    OBVIOUS
  <2>1. CASE UNCHANGED <<status, observations, pc, now, todo>>
    BY <2>1 DEF SurfacesCovered, Covered, HasOpenJob
  <2>2. ASSUME NEW r \in Runners, Start(r) \/ Crash(r)
        PROVE  SurfacesCovered'
    <3>1. /\ UNCHANGED <<status, observations>>
          /\ \/ pc'[r] = "idle"
             \/ pc'[r] = "fresh" /\ todo'[r] = Surfaces
      BY <2>2 DEF Start, Crash, Die, Leave, GoTo, TypeOK, table
    <3>2. \A s \in Surfaces : \A o \in observations : Covered(s, o.at)'
      BY <3>1 DEF SurfacesCovered, Covered, HasOpenJob
    <3>3. \A q \in Runners : q = r
      BY DEF NoOverlap
    <3> QED
      BY <3>1, <3>2, <3>3 DEF SurfacesCovered, Holding
  <2>3. ASSUME NEW r \in Runners, Step(r) PROVE SurfacesCovered'
    BY <2>3, SurfacesCoveredStep
  <2> QED
    BY <2>1, <2>2, <2>3 DEF Next, Tick, vars, table, process
<1> QED
  BY <1>1, <1>2, TypeCorrect, QueueInvariant, JobsFollowOneAnother,
     BackoffIsKept, PTL DEF Spec

\* A step of a run that does not handle an auth error: it records none either,
\* and afterwards a job waits or runs only if it did before or is later than
\* every auth error.
LEMMA AuthQuiet ==
  ASSUME AuthErrorHandled, NoOverlap, NEW r \in Runners,
         stranded \subseteq stranded',
         \A o \in observations' : o.status = "auth_error" =>
           o \in observations,
         ~HandlesAuthError(r),
         \A j \in Jobs : status'[j] \in PausableStatuses =>
           \/ status[j] \in PausableStatuses
           \/ \A o \in observations : ~(ScheduledAt(j) =< o.at)
  PROVE  AuthErrorHandled'
<1> SUFFICES ASSUME NEW o \in observations, o.status = "auth_error",
                    o.job \notin stranded, NEW j \in Jobs, ScheduledAt(j) =< o.at
             PROVE  status'[j] \notin PausableStatuses
  BY DEF AuthErrorHandled
<1>1. \A q \in Runners : ~HandlesAuthError(q)
  BY DEF NoOverlap
<1>2. status[j] \notin PausableStatuses
  BY <1>1 DEF AuthErrorHandled
<1> QED
  BY <1>2

\* The run that has met an auth error stops every job there is before it ends.
LEMMA AuthErrorStep ==
  ASSUME TypeOK, QueueInv, SequenceInv, RowsCurrent, ObservationsOrdered,
         AnswerIsNow, SurfacesCovered, AuthErrorHandled, NoOverlap,
         NEW r \in Runners, Step(r)
  PROVE  AuthErrorHandled'
<1>1. stranded \subseteq stranded'
  BY StepKeepsTime
<1>2. ASSUME NEW w \in rows[r], PausePendingJobs(r, w)
      PROVE  AuthErrorHandled'
  <2>1. status[w.job] = "auth_error" /\ observations' = observations
    BY <1>2 DEF PausePendingJobs, RowsCurrent
  <2>2. \A j \in Jobs : status'[j] \notin PausableStatuses
    BY <1>2, <2>1 DEF PausePendingJobs, PausableStatuses, DueStatuses
  <2> QED
    BY <2>1, <2>2 DEF AuthErrorHandled
<1>3. ASSUME NEW w \in rows[r], AuthError(r, w)
      PROVE  AuthErrorHandled'
  <2>1. /\ pc'[r] = "pause" /\ UNCHANGED <<observations, rows>>
        /\ \A j \in Jobs : status'[j] \in PausableStatuses =>
             status[j] \in PausableStatuses
    BY <1>3
       DEF AuthError, UpdateProbeJob, GoTo, TypeOK, PausableStatuses, DueStatuses
  <2>2. HandlesAuthError(r)'
    BY <2>1 DEF HandlesAuthError
  <2> SUFFICES ASSUME NEW o \in observations, o.status = "auth_error",
                      o.job \notin stranded'
               PROVE  \/ \E v \in rows'[r] :
                           NextRow(r, v)' /\ v.job = o.job /\ HandlesAuthError(r)'
                      \/ \A j \in Jobs : ScheduledAt(j) =< o.at =>
                           status'[j] \notin PausableStatuses
    BY <2>1 DEF AuthErrorHandled
  <2>3. CASE \E v \in rows[r] : NextRow(r, v) /\ v.job = o.job
    BY <2>1, <2>2, <2>3 DEF NextRow
  <2>4. CASE \A j \in Jobs :
               ScheduledAt(j) =< o.at => status[j] \notin PausableStatuses
    BY <2>1, <2>4
  <2> QED
    BY <1>1, <2>3, <2>4 DEF AuthErrorHandled, NoOverlap
<1>4. ASSUME NEW w \in rows[r], NEW outcome \in Outcomes,
             InsertObservation(r, w, outcome)
      PROVE  AuthErrorHandled'
  <2>1. /\ pc[r] = "answer" /\ pc'[r] = "update"
        /\ UNCHANGED <<status, stranded, rows>>
        /\ result'[r] = outcome /\ NextRow(r, w)
    BY <1>4, ObservedNow DEF table
  <2>2. PICK new \in observations' : /\ observations' = observations \cup {new}
                                     /\ new.status = outcome /\ new.job = w.job
    BY <1>4, ObservedNow
  <2>3. ~HandlesAuthError(r)
    BY <2>1 DEF HandlesAuthError
  <2>4. CASE outcome = "auth_error"
    <3>1. NextRow(r, w)' /\ w.job = new.job /\ HandlesAuthError(r)' /\ w \in rows'[r]
      BY <2>1, <2>2, <2>4 DEF NextRow, HandlesAuthError
    <3>2. ASSUME NEW o \in observations, o.status = "auth_error",
                 o.job \notin stranded
          PROVE  \A j \in Jobs :
                   ScheduledAt(j) =< o.at => status'[j] \notin PausableStatuses
      BY <2>1, <2>3, <3>2 DEF AuthErrorHandled, NoOverlap
    <3> QED
      BY <2>1, <2>2, <3>1, <3>2 DEF AuthErrorHandled
  <2>5. CASE outcome # "auth_error"
    BY <1>1, <2>1, <2>2, <2>3, <2>5, AuthQuiet
  <2> QED
    BY <2>4, <2>5
<1>5. ASSUME NEW s \in Surfaces, InsertProbeJob(r, s)
      PROVE  AuthErrorHandled'
  <2> DEFINE new == <<s, now[r]>>
  <2>1. /\ pc[r] = "insert" /\ NextSurface(r, s)
        /\ observations' = observations
        /\ ~HandlesAuthError(r)
    BY <1>5 DEF InsertProbeJob, HandlesAuthError
  <2>2. ~HasFreshObservation(r, s) /\ ~HasOpenJob(s)
    BY <2>1 DEF SequenceInv, ChecksHold
  <2>3. ~Covered(s, now[r])
    BY <2>2 DEF Covered, HasFreshObservation
  <2>4. ScheduledAt(new) = now[r]
    BY DEF ScheduledAt
  <2>5. ASSUME NEW o \in observations, ScheduledAt(new) =< o.at
        PROVE  FALSE
    <3>1. o.at = now[r]
      BY <2>1, <2>4, <2>5, TimesAreNumbers DEF ObservationsOrdered
    <3> QED
      BY <2>3, <3>1 DEF SurfacesCovered
  <2>6. \A j \in Jobs : j = new \/ status'[j] = status[j]
    BY <1>5 DEF InsertProbeJob, UpdateProbeJob, TypeOK, table
  <2> HIDE DEF new
  <2> QED
    BY <1>1, <2>1, <2>5, <2>6, AuthQuiet
<1>6. CASE LeaseDueJobs(r)
  <2>1. /\ observations' = observations /\ ~HandlesAuthError(r)
        /\ \A j \in Jobs : status'[j] \in PausableStatuses =>
             status[j] \in PausableStatuses
    BY <1>6 DEF LeaseDueJobs, Leased, HandlesAuthError, PausableStatuses
  <2> QED
    BY <1>1, <2>1, AuthQuiet
<1>7. ASSUME NEW w \in rows[r], Succeed(r, w) \/ Retry(r, w) \/ Fail(r, w)
      PROVE  AuthErrorHandled'
  <2>1. /\ observations' = observations
        /\ status[w.job] = "running"
        /\ \A j \in Jobs : j # w.job => status'[j] = status[j]
    BY <1>7, ClosedWhenObserved
  <2>2. ~HandlesAuthError(r)
    BY <1>7 DEF Succeed, Retry, Fail, ShouldRetry, HandlesAuthError
  <2>3. \A j \in Jobs : status'[j] \in PausableStatuses =>
          status[j] \in PausableStatuses
    BY <2>1 DEF PausableStatuses
  <2> QED
    BY <1>1, <2>1, <2>2, <2>3, AuthQuiet
<1>8. CASE \/ \E s \in Surfaces : CheckFresh(r, s) \/ CheckOpen(r, s)
           \/ ScheduleDone(r) \/ SelectDueJobs(r)
           \/ \E w \in rows[r] : Request(r, w) \/ ObservationRejected(r, w)
  <2>1. UNCHANGED <<status, observations>> /\ ~HandlesAuthError(r)
    BY <1>8
       DEF CheckFresh, CheckOpen, SkipSurface, ScheduleDone, SelectDueJobs,
           Request, ObservationRejected, Die, table, HandlesAuthError
  <2> QED
    BY <1>1, <2>1, AuthQuiet
<1> QED
  BY <1>2, <1>3, <1>4, <1>5, <1>6, <1>7, <1>8 DEF Step

\* Without overlap an auth error stops every job that existed when it was met,
\* or is about to, unless its own run dies before.
THEOREM AuthErrorsAreHandled ==
  ASSUME NoOverlap
  PROVE  Spec => []AuthErrorHandled
<1>1. Init => AuthErrorHandled
  BY DEF Init, AuthErrorHandled
<1>2. /\ TypeOK /\ QueueInv /\ SequenceInv /\ RowsCurrent
      /\ ObservationsOrdered /\ AnswerIsNow /\ SurfacesCovered
      /\ AuthErrorHandled /\ [Next]_vars
      => AuthErrorHandled'
  <2> SUFFICES ASSUME TypeOK, QueueInv, SequenceInv, RowsCurrent,
                      ObservationsOrdered, AnswerIsNow, SurfacesCovered,
                      AuthErrorHandled, [Next]_vars
               PROVE  AuthErrorHandled'
    OBVIOUS
  <2>1. CASE Tick \/ UNCHANGED vars
    BY <2>1
       DEF Tick, vars, table, process, AuthErrorHandled, HandlesAuthError, NextRow
  <2>2. ASSUME NEW r \in Runners, Start(r) PROVE AuthErrorHandled'
    <3>1. UNCHANGED <<stranded, status, observations>> /\ ~HandlesAuthError(r)
      BY <2>2 DEF Start, table, HandlesAuthError
    <3> QED
      BY <3>1, AuthQuiet
  <2>3. ASSUME NEW r \in Runners, Crash(r) PROVE AuthErrorHandled'
    <3>1. /\ UNCHANGED <<status, observations>> /\ stranded \subseteq stranded'
          /\ \A w \in rows[r] : HandlesAuthError(r) => w.job \in stranded'
      BY <2>3 DEF Crash, Die, table, Held, Holding, HandlesAuthError
    <3> QED
      BY <3>1 DEF AuthErrorHandled, NoOverlap
  <2> QED
    BY <2>1, <2>2, <2>3, AuthErrorStep DEF Next
<1> QED
  BY <1>1, <1>2, TypeCorrect, QueueInvariant, JobsFollowOneAnother,
     RowsAreCurrent, BackoffIsKept, SurfacesAreCovered, PTL DEF Spec

\* Without overlap no job that existed at an auth error waits or runs once the
\* run that met the error is done, unless that run died before the pause.
THEOREM AuthErrorStops ==
  ASSUME NoOverlap
  PROVE  Spec => []AuthErrorStopsQueue
<1>1. AuthErrorHandled => AuthErrorStopsQueue
  BY DEF AuthErrorHandled, AuthErrorStopsQueue, HandlesAuthError
<1> QED
  BY <1>1, AuthErrorsAreHandled, PTL

\* A run that works alone meets no observation that is there already, so only
\* a kill strands a job.
StrandedByCrash == crashes = 0 => stranded = {}

LEMMA NeverRejected ==
  ASSUME QueueInv, RowsCurrent, NEW r \in Runners, NEW w \in rows[r]
  PROVE  ~ObservationRejected(r, w)
<1> SUFFICES ASSUME ObservationRejected(r, w) PROVE FALSE
  OBVIOUS
<1>1. /\ pc[r] = "answer" /\ w.attempts = attempts[w.job]
      /\ HasObservation(w.job, w.attempts + 1)
  BY DEF ObservationRejected, RowsCurrent
<1>2. ~Ahead(w.job)
  BY <1>1 DEF QueueInv, RowOK
<1> QED
  BY <1>1, <1>2 DEF Ahead

\* Without overlap no job is stranded before a run is killed.
THEOREM OnlyCrashesStrand ==
  ASSUME NoOverlap
  PROVE  Spec => []StrandedByCrash
<1>1. Init => StrandedByCrash
  BY DEF Init, StrandedByCrash
<1>2. TypeOK /\ QueueInv /\ RowsCurrent /\ StrandedByCrash /\ [Next]_vars
        => StrandedByCrash'
  <2> SUFFICES ASSUME TypeOK, QueueInv, RowsCurrent, StrandedByCrash, [Next]_vars
               PROVE  StrandedByCrash'
    OBVIOUS
  <2>1. CASE Tick \/ UNCHANGED vars \/ \E r \in Runners : Start(r)
    BY <2>1 DEF Tick, vars, Start, StrandedByCrash
  <2>2. ASSUME NEW r \in Runners, Crash(r) PROVE StrandedByCrash'
    BY <2>2, BoundsAssumption DEF Crash, TypeOK, StrandedByCrash
  <2>3. ASSUME NEW r \in Runners, Step(r) PROVE UNCHANGED <<crashes, stranded>>
    <3>1. CASE \/ \E s \in Surfaces : \/ CheckFresh(r, s)
                                      \/ CheckOpen(r, s)
                                      \/ InsertProbeJob(r, s)
               \/ ScheduleDone(r) \/ SelectDueJobs(r) \/ LeaseDueJobs(r)
      BY <3>1 DEF CheckFresh, CheckOpen, SkipSurface, InsertProbeJob,
                  ScheduleDone, SelectDueJobs, LeaseDueJobs
    <3>2. ASSUME NEW w \in rows[r],
                 \/ Request(r, w)
                 \/ \E outcome \in Outcomes : InsertObservation(r, w, outcome)
                 \/ Succeed(r, w) \/ Retry(r, w) \/ Fail(r, w)
                 \/ AuthError(r, w) \/ PausePendingJobs(r, w)
          PROVE  UNCHANGED <<crashes, stranded>>
      BY <3>2 DEF Request, InsertObservation, Succeed, Retry, Fail, AuthError,
                  PausePendingJobs
    <3> QED
      BY <2>3, <3>1, <3>2, NeverRejected DEF Step
  <2> QED
    BY <2>1, <2>2, <2>3 DEF Next, StrandedByCrash
<1> QED
  BY <1>1, <1>2, TypeCorrect, QueueInvariant, RowsAreCurrent, PTL DEF Spec

\* What the run auth_overlap refutes for overlapping runs holds when runs
\* neither overlap nor die: after an auth error the provider is not asked
\* again about a job that existed when the error was met.
THEOREM NoRequestsAfterAuthError ==
  ASSUME NoOverlap, MaxCrashes = 0
  PROVE  Spec => NoRequestAfterAuthError
<1>1. TypeOK /\ SequenceInv /\ StrandedByCrash /\ AuthErrorStopsQueue
        /\ [Next]_vars =>
        [\A j \in Jobs : requests'[j] # requests[j] =>
           \A o \in observations :
             o.status = "auth_error" => ScheduledAt(j) > o.at]_vars
  <2> SUFFICES ASSUME TypeOK, SequenceInv, StrandedByCrash, AuthErrorStopsQueue,
                      [Next]_vars,
                      NEW j \in Jobs, requests'[j] # requests[j],
                      NEW o \in observations, o.status = "auth_error"
               PROVE  ScheduledAt(j) > o.at
    OBVIOUS
  <2>1. PICK r \in Runners : \E w \in rows[r] : Request(r, w)
    <3>1. CASE Tick \/ UNCHANGED vars \/ \E r \in Runners : Start(r) \/ Crash(r)
      BY <3>1 DEF Tick, vars, Start, Crash, Die
    <3>2. ASSUME NEW r \in Runners, Step(r),
                 \A w \in rows[r] : ~Request(r, w)
          PROVE  requests' = requests
      <4>1. CASE \/ \E s \in Surfaces : \/ CheckFresh(r, s)
                                        \/ CheckOpen(r, s)
                                        \/ InsertProbeJob(r, s)
                 \/ ScheduleDone(r) \/ SelectDueJobs(r) \/ LeaseDueJobs(r)
        BY <4>1 DEF CheckFresh, CheckOpen, SkipSurface, InsertProbeJob,
                    ScheduleDone, SelectDueJobs, LeaseDueJobs
      <4>2. ASSUME NEW w \in rows[r],
                   \/ \E outcome \in Outcomes : InsertObservation(r, w, outcome)
                   \/ ObservationRejected(r, w) \/ Succeed(r, w) \/ Retry(r, w)
                   \/ Fail(r, w) \/ AuthError(r, w) \/ PausePendingJobs(r, w)
            PROVE  requests' = requests
        BY <4>2 DEF InsertObservation, ObservationRejected, Die, Succeed, Retry,
                    Fail, AuthError, PausePendingJobs
      <4> QED
        BY <3>2, <4>1, <4>2 DEF Step
    <3> QED
      BY <3>1, <3>2 DEF Next
  <2>2. PICK w \in rows[r] : j = w.job /\ pc[r] = "request"
    BY <2>1 DEF Request, TypeOK
  <2>3. status[j] \in PausableStatuses
    BY <2>2 DEF SequenceInv, LeasedJobsRun, PausableStatuses
  <2>4. stranded = {} /\ \A q \in Runners : pc[q] \notin {"update", "pause"}
    BY <2>2, BoundsAssumption DEF TypeOK, NoOverlap, StrandedByCrash
  <2>5. ~(ScheduledAt(j) =< o.at)
    BY <2>3, <2>4 DEF AuthErrorStopsQueue
  <2> QED
    BY <2>5, JobIdentity, TimesAreNumbers
<1> QED
  BY <1>1, TypeCorrect, JobsFollowOneAnother, OnlyCrashesStrand,
     AuthErrorStops, PTL DEF Spec, NoRequestAfterAuthError

-----------------------------------------------------------------------------
(* The queue implements the life of a job. *)

\* A step that leaves status and attempts alone is not seen by ProbeLifecycle.
LEMMA LifecycleStutter ==
  ASSUME UNCHANGED <<status, attempts>>
  PROVE  UNCHANGED <<[j \in Jobs |-> Phase(status[j])], attempts>>
OBVIOUS

\* Every step of the queue is a step of the life of its jobs, or none.
LEMMA LifecycleStep ==
  ASSUME TypeOK, QueueInv, SequenceInv, NEW r \in Runners, Step(r)
  PROVE  [Lifecycle!Next]_<<[j \in Jobs |-> Phase(status[j])], attempts>>
<1> DEFINE phase == [j \in Jobs |-> Phase(status[j])]
           Goal == [Lifecycle!Next]_<<phase, attempts>>
<1> SUFFICES Goal
  OBVIOUS
<1>1. CASE UNCHANGED <<status, attempts>>
  BY <1>1, LifecycleStutter
<1>2. ASSUME NEW s \in Surfaces, InsertProbeJob(r, s) PROVE Goal
  <2> DEFINE new == <<s, now[r]>>
  <2>1. CASE status[new] = "absent"
    <3>1. new \in Jobs
      BY DEF TypeOK, Jobs
    <3>2. attempts[new] = 0
      BY <2>1, <3>1 DEF QueueInv, JobOK
    <3>3. attempts' = attempts /\ status' = [status EXCEPT ![new] = "scheduled"]
      BY <1>2, <2>1, <3>1, <3>2 DEF InsertProbeJob, UpdateProbeJob, TypeOK
    <3>4. phase' = [j \in Jobs |-> IF j \in {new} THEN "pending" ELSE phase[j]]
      <4>1. Phase("scheduled") = "pending"
        BY DEF Phase
      <4>2. \A j \in Jobs : Phase(status'[j]) =
              IF j \in {new} THEN "pending" ELSE Phase(status[j])
        BY <3>1, <3>3, <4>1 DEF TypeOK
      <4> QED
        BY <4>2
    <3>5. phase[new] = "new"
      BY <2>1, <3>1 DEF Phase
    <3>6. Lifecycle!Submit(new)
      BY <3>3, <3>4, <3>5 DEF Lifecycle!Submit, Lifecycle!MoveAll
    <3> QED
      BY <3>1, <3>6 DEF Lifecycle!Next
  <2>2. CASE status[new] # "absent"
    BY <1>1, <1>2, <2>2 DEF InsertProbeJob, table
  <2> QED
    BY <2>1, <2>2
<1>3. ASSUME LeaseDueJobs(r) PROVE Goal
  <2> DEFINE S == {w.job : w \in Leased(r)}
  <2>1. S \in SUBSET Jobs /\ \A j \in S : status[j] \in DueStatuses
    BY DEF Leased, TypeOK, Rows
  <2>2. /\ attempts' = attempts
        /\ \A j \in Jobs : status'[j] = IF j \in S THEN "running" ELSE status[j]
    BY <1>3 DEF LeaseDueJobs
  <2> HIDE DEF S
  <2>3. phase' = [j \in Jobs |-> IF j \in S THEN "running" ELSE phase[j]]
    <3>1. Phase("running") = "running"
      BY DEF Phase
    <3>2. \A j \in Jobs : Phase(status'[j]) =
            IF j \in S THEN "running" ELSE Phase(status[j])
      BY <2>2, <3>1
    <3> QED
      BY <3>2
  <2>4. \A j \in S : phase[j] \in Lifecycle!Waiting
    BY <2>1 DEF Phase, DueStatuses, Lifecycle!Waiting
  <2>5. Lifecycle!Pick(S)
    BY <2>2, <2>3, <2>4 DEF Lifecycle!Pick, Lifecycle!MoveAll
  <2> QED
    BY <2>1, <2>5 DEF Lifecycle!Next
<1>4. ASSUME NEW w \in rows[r], pc[r] = "update", NextRow(r, w),
             NEW st \in ClosedStatuses \cup {"retry_scheduled"}, NEW t \in Nat,
             st = "retry_scheduled" => w.attempts + 1 < MaxAttempts,
             UpdateProbeJob(w.job, st, w.attempts + 1, t)
      PROVE  Goal
  <2>1. /\ w.job \in Jobs /\ status[w.job] = "running"
        /\ attempts[w.job] \in Nat /\ w.attempts = attempts[w.job]
    BY <1>4 DEF SequenceInv, LeasedJobsRun, QueueInv, RowOK, TypeOK, Rows
  <2>2. /\ status' = [status EXCEPT ![w.job] = st]
        /\ attempts' = [attempts EXCEPT ![w.job] = @ + 1]
    BY <1>4, <2>1 DEF UpdateProbeJob
  <2>3. phase' = [phase EXCEPT ![w.job] = Phase(st)]
    BY <2>1, <2>2 DEF TypeOK
  <2>4. /\ phase[w.job] = "running"
        /\ Phase(st) \in {"success", "failed", "retry_wait"}
        /\ Phase(st) = "retry_wait" => st = "retry_scheduled"
    BY <2>1 DEF Phase, ClosedStatuses
  <2>5. Lifecycle!Answer(w.job, Phase(st))
    BY <1>4, <2>1, <2>2, <2>3, <2>4 DEF Lifecycle!Answer
  <2>6. Phase(st) \in Lifecycle!Phases
    BY <2>4 DEF Lifecycle!Phases, Lifecycle!Waiting
  <2> QED
    BY <2>1, <2>5, <2>6 DEF Lifecycle!Next
<1>5. ASSUME NEW w \in rows[r], PausePendingJobs(r, w) PROVE Goal
  <2> DEFINE S == {j \in Jobs : j # w.job /\ status[j] \in PausableStatuses}
  <2>1. S \in SUBSET Jobs /\ \A j \in S : status[j] \in PausableStatuses
    OBVIOUS
  <2>2. /\ attempts' = attempts
        /\ \A j \in Jobs :
             status'[j] = IF j \in S THEN "paused_auth" ELSE status[j]
    BY <1>5 DEF PausePendingJobs
  <2> HIDE DEF S
  <2>3. phase' = [j \in Jobs |-> IF j \in S THEN "suspended" ELSE phase[j]]
    <3>1. Phase("paused_auth") = "suspended"
      BY DEF Phase
    <3>2. \A j \in Jobs : Phase(status'[j]) =
            IF j \in S THEN "suspended" ELSE Phase(status[j])
      BY <2>2, <3>1
    <3> QED
      BY <3>2
  <2>4. \A j \in S : phase[j] \in Lifecycle!Waiting \cup {"running"}
    BY <2>1 DEF Phase, PausableStatuses, DueStatuses, Lifecycle!Waiting
  <2>5. Lifecycle!Suspend(S)
    BY <2>2, <2>3, <2>4 DEF Lifecycle!Suspend, Lifecycle!MoveAll
  <2> QED
    BY <2>1, <2>5 DEF Lifecycle!Next
<1> HIDE DEF Goal
<1>6. ASSUME NEW w \in rows[r],
             Succeed(r, w) \/ Retry(r, w) \/ Fail(r, w) \/ AuthError(r, w)
      PROVE  Goal
  <2>1. pc[r] = "update" /\ NextRow(r, w) /\ w.notBefore \in Nat
    BY <1>6 DEF Succeed, Retry, Fail, AuthError, TypeOK, Rows
  <2>2. CASE Retry(r, w)
    BY <1>4, <2>1, <2>2, RetryTimeTyped DEF Retry, ShouldRetry
  <2>3. CASE Succeed(r, w) \/ Fail(r, w) \/ AuthError(r, w)
    BY <1>4, <2>1, <2>3 DEF Succeed, Fail, AuthError, ClosedStatuses
  <2> QED
    BY <1>6, <2>2, <2>3
<1>7. ASSUME NEW s \in Surfaces,
             CheckFresh(r, s) \/ CheckOpen(r, s) \/ InsertProbeJob(r, s)
      PROVE  Goal
  BY <1>1, <1>2, <1>7 DEF CheckFresh, CheckOpen, SkipSurface, table
<1>8. CASE ScheduleDone(r) \/ SelectDueJobs(r) \/ LeaseDueJobs(r)
  BY <1>1, <1>3, <1>8 DEF ScheduleDone, SelectDueJobs, table
<1>9. ASSUME NEW w \in rows[r],
             \/ Request(r, w)
             \/ \E outcome \in Outcomes : InsertObservation(r, w, outcome)
             \/ ObservationRejected(r, w)
      PROVE  Goal
  BY <1>1, <1>9 DEF Request, InsertObservation, ObservationRejected, Die, table
<1>10. ASSUME NEW w \in rows[r],
              \/ Request(r, w)
              \/ \E outcome \in Outcomes : InsertObservation(r, w, outcome)
              \/ ObservationRejected(r, w)
              \/ Succeed(r, w)
              \/ Retry(r, w)
              \/ Fail(r, w)
              \/ AuthError(r, w)
              \/ PausePendingJobs(r, w)
       PROVE  Goal
  BY <1>5, <1>6, <1>9, <1>10
<1> QED
  BY <1>7, <1>8, <1>10 DEF Step

\* Without overlap every job lives the life ProbeLifecycle states.
THEOREM LifecycleRefinement ==
  ASSUME NoOverlap
  PROVE  Spec => LifecycleImplemented
<1>1. Init => Lifecycle!Init
  BY DEF Init, Lifecycle!Init, Phase
<1>2. TypeOK /\ QueueInv /\ SequenceInv /\ [Next]_vars =>
        [Lifecycle!Next]_<<[j \in Jobs |-> Phase(status[j])], attempts>>
  <2> SUFFICES ASSUME TypeOK, QueueInv, SequenceInv, [Next]_vars
               PROVE  [Lifecycle!Next]_<<[j \in Jobs |-> Phase(status[j])],
                                         attempts>>
    OBVIOUS
  <2>1. CASE Tick \/ UNCHANGED vars \/ \E r \in Runners : Start(r) \/ Crash(r)
    BY <2>1, LifecycleStutter DEF Tick, Start, Crash, Die, vars, table
  <2>2. ASSUME NEW r \in Runners, Step(r)
        PROVE  [Lifecycle!Next]_<<[j \in Jobs |-> Phase(status[j])], attempts>>
    BY <2>2, LifecycleStep
  <2> QED
    BY <2>1, <2>2 DEF Next
<1> QED
  BY <1>1, <1>2, TypeCorrect, QueueInvariant, JobsFollowOneAnother, PTL
     DEF Spec, LifecycleImplemented, Lifecycle!Spec

=============================================================================
