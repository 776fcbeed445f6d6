----------------------------- MODULE ProbeQueue -----------------------------
(***************************************************************************)
(* The CTS probe queue: the tables probe_jobs and                          *)
(* provider_recall_observations of the build database, and the processes   *)
(* that run CtsProbeRunner.schedule_and_run on them (`probe-cts`).         *)
(*                                                                         *)
(* A run fixes its own time when it starts, walks the active surfaces and  *)
(* schedules a job for each one that has neither a fresh observation nor   *)
(* an open job, leases every job that is due, and then asks the provider   *)
(* about the leased jobs one by one, recording an observation and updating *)
(* the job after each answer.  Every SQL statement commits on its own      *)
(* except the lease, so each is an action of its own here, and the runs of *)
(* several processes interleave between them.                              *)
(*                                                                         *)
(* One rate-limit bucket (one mode and one API version) is modelled: the   *)
(* job ids, dedupe keys, TTL lookups and pauses of different buckets never *)
(* meet.                                                                   *)
(***************************************************************************)
EXTENDS Integers, FiniteSets

CONSTANTS
  Surfaces,      \* ids of the active, query-safe surfaces
  Runners,       \* processes that may run probe-cts on the same build DB
  MaxAttempts,   \* RetryPolicy.max_attempts
  InitialDelay,  \* RetryPolicy.initial_delay_seconds
  Multiplier,    \* RetryPolicy.backoff_multiplier
  Ttl,           \* CtsProbeConfig.ttl_seconds
  Window,        \* the times at which the daily probe window is open
  MaxClock,      \* bound of the model: the last time the clock shows
  MaxCrashes     \* bound of the model: how many runs are killed or raise

Times == 0..MaxClock

\* _backoff_seconds: the delay after the given number of attempts.
BackoffDelay(attempt) == InitialDelay * Multiplier ^ (attempt - 1)

ASSUME BoundsAssumption ==
  /\ Surfaces \subseteq Nat
  /\ Window \subseteq Times
  /\ MaxClock \in Nat
  /\ MaxCrashes \in Nat

\* What RetryPolicy.__post_init__ and CtsProbeConfig.__post_init__ check.
\* The last conjunct is a consequence the provers cannot derive: they do not
\* know exponentiation.
ASSUME PolicyAssumption ==
  /\ MaxAttempts \in Nat \ {0}
  /\ InitialDelay \in Nat
  /\ Multiplier \in Nat \ {0}
  /\ Ttl \in Nat
  /\ \A attempt \in 1..MaxAttempts : BackoffDelay(attempt) \in Nat

-----------------------------------------------------------------------------
(***************************************************************************)
(* A job id is made of the surface and the time of the run that created    *)
(* it, and so is the dedupe key: within a bucket one determines the other. *)
(***************************************************************************)
Jobs == Surfaces \X Times
SurfaceOf(j) == j[1]
ScheduledAt(j) == j[2]

DueStatuses == {"scheduled", "retry_scheduled"}
\* Fault: a pause that forgets the jobs the run itself has leased.
PausableStatusesWithoutRunning == DueStatuses
PausableStatuses == DueStatuses \cup {"running"}
OpenStatuses == PausableStatuses \cup {"paused_auth"}
ClosedStatuses == {"succeeded", "failed", "auth_error"}
Statuses == {"absent"} \cup OpenStatuses \cup ClosedStatuses

\* The classes of CtsCountResult that _record_job_result tells apart.
Outcomes == {"ok", "retryable", "fatal", "auth_error"}

\* What a SELECT on probe_jobs hands to the process; it does not follow the
\* later changes of the table.
Rows == [job : Jobs, attempts : Nat, notBefore : Nat]

Observations == [job : Jobs, attempt : Nat, status : Outcomes, at : Times]

\* "order by priority, scheduled_at, probe_job_id"; every priority is 0.
Before(v, w) ==
  \/ ScheduledAt(v.job) < ScheduledAt(w.job)
  \/ /\ ScheduledAt(v.job) = ScheduledAt(w.job)
     /\ SurfaceOf(v.job) =< SurfaceOf(w.job)

VARIABLES
  clock,         \* the time of day
  crashes,       \* how many runs were killed so far
  stranded,      \* history: jobs that a run held when it died
  status,        \* probe_jobs.status, "absent" where there is no row
  attempts,      \* probe_jobs.attempt_count
  notBefore,     \* probe_jobs.not_before
  observations,  \* provider_recall_observations
  requests,      \* history: how often the provider was asked for a job
  pc,            \* where each run is, "idle" when the process has no run
  now,           \* config.now of each run
  todo,          \* active surfaces the run has not looked at yet
  rows,          \* rows the run selected, and then those it leased
  result         \* the answer the run is recording

table   == <<status, attempts, notBefore>>
process == <<pc, now, todo, rows, result>>
vars    == <<clock, crashes, stranded, table, observations, requests, process>>

Locations == {"idle", "fresh", "open", "insert", "select", "lease",
              "request", "answer", "update", "pause"}

\* The locations at which the rows of a run are rows it has leased.
Holding == {"request", "answer", "update", "pause"}

TypeOK ==
  /\ clock \in Times
  /\ crashes \in 0..MaxCrashes
  /\ stranded \subseteq Jobs
  /\ status \in [Jobs -> Statuses]
  /\ attempts \in [Jobs -> Nat]
  /\ notBefore \in [Jobs -> Nat]
  /\ observations \subseteq Observations
  /\ requests \in [Jobs -> Nat]
  /\ pc \in [Runners -> Locations]
  /\ now \in [Runners -> Times]
  /\ todo \in [Runners -> SUBSET Surfaces]
  /\ rows \in [Runners -> SUBSET Rows]
  /\ result \in [Runners -> Outcomes \cup {"none"}]

Init ==
  /\ clock = 0
  /\ crashes = 0
  /\ stranded = {}
  /\ status = [j \in Jobs |-> "absent"]
  /\ attempts = [j \in Jobs |-> 0]
  /\ notBefore = [j \in Jobs |-> 0]
  /\ observations = {}
  /\ requests = [j \in Jobs |-> 0]
  /\ pc = [r \in Runners |-> "idle"]
  /\ now = [r \in Runners |-> 0]
  /\ todo = [r \in Runners |-> {}]
  /\ rows = [r \in Runners |-> {}]
  /\ result = [r \in Runners |-> "none"]

-----------------------------------------------------------------------------
(* Helpers of the actions. *)

GoTo(r, location) == pc' = [pc EXCEPT ![r] = location]

\* The run is over: its process forgets everything it held in memory.
Leave(r) ==
  /\ GoTo(r, "idle")
  /\ now' = [now EXCEPT ![r] = 0]
  /\ todo' = [todo EXCEPT ![r] = {}]
  /\ rows' = [rows EXCEPT ![r] = {}]
  /\ result' = [result EXCEPT ![r] = "none"]

Held(r, w) == pc[r] \in Holding /\ w \in rows[r]

\* The run ends at once, whatever it holds: its leases stay as they are.
Die(r) ==
  /\ stranded' = stranded \cup {w.job : w \in {v \in rows[r] : Held(r, v)}}
  /\ Leave(r)

\* s is the next surface of the loop over the active surfaces.
NextSurface(r, s) ==
  /\ s \in todo[r]
  /\ \A t \in todo[r] : s =< t

\* w is the next row of the loop over the leased rows.
NextRow(r, w) ==
  /\ w \in rows[r]
  /\ \A v \in rows[r] : Before(w, v)

\* Fault: attempt_count is left out of the SET clause.
UpdateProbeJobKeepingCount(j, newStatus, attemptCount, newNotBefore) ==
  /\ status' = [status EXCEPT ![j] = newStatus]
  /\ notBefore' = [notBefore EXCEPT ![j] = newNotBefore]
  /\ UNCHANGED attempts

\* update_probe_job: whatever the row now says, it is overwritten.
UpdateProbeJob(j, newStatus, attemptCount, newNotBefore) ==
  /\ status' = [status EXCEPT ![j] = newStatus]
  /\ attempts' = [attempts EXCEPT ![j] = attemptCount]
  /\ notBefore' = [notBefore EXCEPT ![j] = newNotBefore]

\* The loop goes on to the next leased row, or the run ends after the last.
NextJob(r, w) ==
  IF rows[r] = {w}
    THEN Leave(r)
    ELSE /\ GoTo(r, "request")
         /\ rows' = [rows EXCEPT ![r] = @ \ {w}]
         /\ result' = [result EXCEPT ![r] = "none"]
         /\ UNCHANGED <<now, todo>>

-----------------------------------------------------------------------------
(* Scheduling: schedule_active_surfaces, one surface after the other.      *)

\* schedule_and_run: the mode is validated at the run's own time, which stays
\* what it was however long the run takes.
Start(r) ==
  /\ pc[r] = "idle"
  /\ clock \in Window
  /\ GoTo(r, "fresh")
  /\ now' = [now EXCEPT ![r] = clock]
  /\ todo' = [todo EXCEPT ![r] = Surfaces]
  /\ UNCHANGED <<clock, crashes, stranded, table, observations, requests, rows, result>>

\* Fault: an observation exactly as old as the TTL counts as stale.
HasFreshObservationExclusive(r, s) ==
  \E o \in observations : SurfaceOf(o.job) = s /\ o.at > now[r] - Ttl

\* find_cts_observation_since: an observation of any status counts.
HasFreshObservation(r, s) ==
  \E o \in observations : /\ SurfaceOf(o.job) = s
                          /\ o.at >= now[r] - Ttl

\* Fault: only waiting jobs count as open.
HasWaitingJob(s) ==
  \E j \in Jobs : SurfaceOf(j) = s /\ status[j] \in DueStatuses

\* find_open_probe_job
HasOpenJob(s) ==
  \E j \in Jobs : SurfaceOf(j) = s /\ status[j] \in OpenStatuses

\* The run skips the surface and looks at the next one.
SkipSurface(r, s) ==
  /\ GoTo(r, "fresh")
  /\ todo' = [todo EXCEPT ![r] = @ \ {s}]
  /\ UNCHANGED <<clock, crashes, stranded, table, observations, requests,
                 now, rows, result>>

CheckFresh(r, s) ==
  /\ pc[r] = "fresh"
  /\ NextSurface(r, s)
  /\ \/ /\ HasFreshObservation(r, s)
        /\ SkipSurface(r, s)
     \/ /\ ~HasFreshObservation(r, s)
        /\ GoTo(r, "open")
        /\ UNCHANGED <<clock, crashes, stranded, table, observations, requests,
                       now, todo, rows, result>>

CheckOpen(r, s) ==
  /\ pc[r] = "open"
  /\ NextSurface(r, s)
  /\ \/ /\ HasOpenJob(s)
        /\ SkipSurface(r, s)
     \/ /\ ~HasOpenJob(s)
        /\ GoTo(r, "insert")
        /\ UNCHANGED <<clock, crashes, stranded, table, observations, requests,
                       now, todo, rows, result>>

\* insert_probe_job_if_absent: the primary key turns a second insert of the
\* same job into a no-op.
InsertProbeJob(r, s) ==
  LET j == <<s, now[r]>> IN
  /\ pc[r] = "insert"
  /\ NextSurface(r, s)
  /\ IF status[j] = "absent"
       THEN UpdateProbeJob(j, "scheduled", 0, now[r])
       ELSE UNCHANGED table
  /\ GoTo(r, "fresh")
  /\ todo' = [todo EXCEPT ![r] = @ \ {s}]
  /\ UNCHANGED <<clock, crashes, stranded, observations, requests, now, rows, result>>

ScheduleDone(r) ==
  /\ pc[r] = "fresh"
  /\ todo[r] = {}
  /\ GoTo(r, "select")
  /\ UNCHANGED <<clock, crashes, stranded, table, observations, requests,
                 now, todo, rows, result>>

-----------------------------------------------------------------------------
(* Leasing: lease_due_probe_jobs, a SELECT and then a transaction.         *)

\* Faults: not_before is not compared; a retry is never due.
IsDueAnyTime(r, j) == status[j] \in DueStatuses
IsDueFirstTime(r, j) == status[j] = "scheduled" /\ notBefore[j] =< now[r]

IsDue(r, j) == status[j] \in DueStatuses /\ notBefore[j] =< now[r]

SelectDueJobs(r) ==
  /\ pc[r] = "select"
  /\ rows' = [rows EXCEPT ![r] =
       {[job |-> j, attempts |-> attempts[j], notBefore |-> notBefore[j]] :
          j \in {k \in Jobs : IsDue(r, k)}}]
  /\ GoTo(r, "lease")
  /\ UNCHANGED <<clock, crashes, stranded, table, observations, requests,
                 now, todo, result>>

\* Fault: the lease trusts the SELECT and takes every row.
LeasedUnchecked(r) == rows[r]

\* The rows of the SELECT whose UPDATE finds the job still waiting.
Leased(r) == {w \in rows[r] : status[w.job] \in DueStatuses}

LeaseDueJobs(r) ==
  /\ pc[r] = "lease"
  /\ status' = [j \in Jobs |-> IF \E w \in Leased(r) : w.job = j
                                 THEN "running" ELSE status[j]]
  /\ IF Leased(r) = {}
       THEN Leave(r)
       ELSE /\ GoTo(r, "request")
            /\ rows' = [rows EXCEPT ![r] = Leased(r)]
            /\ UNCHANGED <<now, todo, result>>
  /\ UNCHANGED <<clock, crashes, stranded, attempts, notBefore, observations, requests>>

-----------------------------------------------------------------------------
(* Probing: _run_due_jobs_async and _record_job_result for one leased row. *)

\* The throttler lets the request out; the answer comes later.
Request(r, w) ==
  /\ pc[r] = "request"
  /\ NextRow(r, w)
  /\ requests' = [requests EXCEPT ![w.job] = @ + 1]
  /\ GoTo(r, "answer")
  /\ UNCHANGED <<clock, crashes, stranded, table, observations,
                 now, todo, rows, result>>

\* Fault: "insert or replace", which never meets a duplicate key.
HasNoKeyConflict(j, attempt) == FALSE

\* The primary key of an observation: its job and its attempt number, which
\* comes from the row the run selected.
HasObservation(j, attempt) ==
  \E o \in observations : o.job = j /\ o.attempt = attempt

InsertObservation(r, w, outcome) ==
  /\ pc[r] = "answer"
  /\ NextRow(r, w)
  /\ ~HasObservation(w.job, w.attempts + 1)
  /\ observations' = observations \cup
       {[job |-> w.job, attempt |-> w.attempts + 1,
         status |-> outcome, at |-> now[r]]}
  /\ result' = [result EXCEPT ![r] = outcome]
  /\ GoTo(r, "update")
  /\ UNCHANGED <<clock, crashes, stranded, table, requests, now, todo, rows>>

\* The insert raises IntegrityError, which nothing catches: the run dies.
ObservationRejected(r, w) ==
  /\ pc[r] = "answer"
  /\ NextRow(r, w)
  /\ HasObservation(w.job, w.attempts + 1)
  /\ Die(r)
  /\ UNCHANGED <<clock, crashes, table, observations, requests>>

\* Fault: a success returns the job to the queue as if it had failed.
SucceedAndRequeue(r, w) ==
  /\ pc[r] = "update"
  /\ NextRow(r, w)
  /\ result[r] = "ok"
  /\ UpdateProbeJob(w.job, "scheduled", w.attempts + 1, w.notBefore)
  /\ NextJob(r, w)
  /\ UNCHANGED <<clock, crashes, stranded, observations, requests>>

Succeed(r, w) ==
  /\ pc[r] = "update"
  /\ NextRow(r, w)
  /\ result[r] = "ok"
  /\ UpdateProbeJob(w.job, "succeeded", w.attempts + 1, w.notBefore)
  /\ NextJob(r, w)
  /\ UNCHANGED <<clock, crashes, stranded, observations, requests>>

\* Fault: off by one in the comparison with max_attempts.
ShouldRetryOnceMore(r, w) ==
  result[r] = "retryable" /\ w.attempts + 1 =< MaxAttempts

ShouldRetry(r, w) ==
  result[r] = "retryable" /\ w.attempts + 1 < MaxAttempts

Retry(r, w) ==
  /\ pc[r] = "update"
  /\ NextRow(r, w)
  /\ ShouldRetry(r, w)
  /\ UpdateProbeJob(w.job, "retry_scheduled", w.attempts + 1,
                    now[r] + BackoffDelay(w.attempts + 1))
  /\ NextJob(r, w)
  /\ UNCHANGED <<clock, crashes, stranded, observations, requests>>

Fail(r, w) ==
  /\ pc[r] = "update"
  /\ NextRow(r, w)
  /\ result[r] \in {"retryable", "fatal"}
  /\ ~ShouldRetry(r, w)
  /\ UpdateProbeJob(w.job, "failed", w.attempts + 1, w.notBefore)
  /\ NextJob(r, w)
  /\ UNCHANGED <<clock, crashes, stranded, observations, requests>>

\* Fault: an auth error is recorded like any other failure.
AuthErrorWithoutPause(r, w) ==
  /\ pc[r] = "update"
  /\ NextRow(r, w)
  /\ result[r] = "auth_error"
  /\ UpdateProbeJob(w.job, "auth_error", w.attempts + 1, w.notBefore)
  /\ NextJob(r, w)
  /\ UNCHANGED <<clock, crashes, stranded, observations, requests>>

AuthError(r, w) ==
  /\ pc[r] = "update"
  /\ NextRow(r, w)
  /\ result[r] = "auth_error"
  /\ UpdateProbeJob(w.job, "auth_error", w.attempts + 1, w.notBefore)
  /\ GoTo(r, "pause")
  /\ UNCHANGED <<clock, crashes, stranded, observations, requests,
                 now, todo, rows, result>>

\* pause_pending_probe_jobs, and the break that leaves the loop.
PausePendingJobs(r, w) ==
  /\ pc[r] = "pause"
  /\ NextRow(r, w)
  /\ status' = [j \in Jobs |->
       IF j # w.job /\ status[j] \in PausableStatuses
         THEN "paused_auth" ELSE status[j]]
  /\ Leave(r)
  /\ UNCHANGED <<clock, crashes, stranded, attempts, notBefore, observations, requests>>

-----------------------------------------------------------------------------
(* The environment. *)

\* The process is killed, or an exception that no handler catches ends it.
Crash(r) ==
  /\ pc[r] # "idle"
  /\ crashes < MaxCrashes
  /\ crashes' = crashes + 1
  /\ Die(r)
  /\ UNCHANGED <<clock, table, observations, requests>>

Tick ==
  /\ clock < MaxClock
  /\ clock' = clock + 1
  /\ UNCHANGED <<crashes, stranded, table, observations, requests, process>>

\* A step of the program within a run.
Step(r) ==
  \/ \E s \in Surfaces : \/ CheckFresh(r, s)
                         \/ CheckOpen(r, s)
                         \/ InsertProbeJob(r, s)
  \/ ScheduleDone(r)
  \/ SelectDueJobs(r)
  \/ LeaseDueJobs(r)
  \/ \E w \in rows[r] : \/ Request(r, w)
                        \/ \E outcome \in Outcomes :
                             InsertObservation(r, w, outcome)
                        \/ ObservationRejected(r, w)
                        \/ Succeed(r, w)
                        \/ Retry(r, w)
                        \/ Fail(r, w)
                        \/ AuthError(r, w)
                        \/ PausePendingJobs(r, w)

Next ==
  \/ Tick
  \/ \E r \in Runners : Start(r) \/ Step(r) \/ Crash(r)

Spec == Init /\ [][Next]_vars

\* A run that started goes on, the operator starts runs regularly while the
\* window is open, and time passes.  Nothing forces a crash.
Fairness ==
  /\ WF_vars(Tick)
  /\ \A r \in Runners : WF_vars(Start(r)) /\ WF_vars(Step(r))

FairSpec == Spec /\ Fairness

-----------------------------------------------------------------------------
(***************************************************************************)
(* Properties that hold for any number of overlapping runs and of crashes. *)
(***************************************************************************)
\* A job is leased to at most one run at a time, although the lease selects
\* stale rows, updates are unconditional and another run may pause the job
\* while it is held (lease_due_probe_jobs and its re-check of the status).
LeaseExclusive ==
  \A r, q \in Runners : \A v \in rows[r], w \in rows[q] :
    Held(r, v) /\ Held(q, w) /\ v.job = w.job => r = q /\ v = w

\* No job makes the provider answer more often than RetryPolicy.max_attempts,
\* whatever runs race for it or die on it.
RequestsBounded == \A j \in Jobs : requests[j] =< MaxAttempts

RecordedAttempts(j) == {o.attempt : o \in {p \in observations : p.job = j}}

\* The observations of a job are numbered 1, 2, ... without a gap, and agree
\* with attempt_count as soon as nobody is between the insert of the
\* observation and the update of the job, which are two commits: a job that
\* waits to be leased or is closed has exactly attempt_count observations.
AttemptsRecorded ==
  \A j \in Jobs :
    /\ RecordedAttempts(j) \in {1..attempts[j], 1..(attempts[j] + 1)}
    /\ status[j] \in DueStatuses \cup ClosedStatuses =>
         RecordedAttempts(j) = 1..attempts[j]

\* No step sets attempt_count back, although a run writes the count it read
\* when it selected the row: the primary key of the observations stops a run
\* with a stale row before it gets to the update.
AttemptsOnlyGrow ==
  [][\A j \in Jobs : attempts'[j] >= attempts[j]]_vars

\* A job that succeeded, failed or met an auth error is never touched again,
\* by the unconditional update_probe_job of a run that still held it or by a
\* pause.
ClosedJobsStayClosed ==
  [][\A j \in Jobs : status[j] \in ClosedStatuses =>
       /\ status'[j] = status[j]
       /\ attempts'[j] = attempts[j]]_vars

\* A job is marked running only while some run holds it: every run settles or
\* pauses what it leased, whatever other runs do to its jobs, unless it died
\* while it held just that job.
LeaseHasOwner ==
  \A j \in Jobs \ stranded :
    status[j] = "running" =>
      \E r \in Runners : \E w \in rows[r] : Held(r, w) /\ w.job = j

OpenJobsOf(s) == {j \in Jobs : SurfaceOf(j) = s /\ status[j] \in OpenStatuses}

\* Processes that overlap can each insert a job for a surface, but no job comes
\* to those that are open once the processes that saw none have inserted theirs:
\* there are never more open jobs than processes, however many runs they make
\* and whoever dies (find_open_probe_job and the insert, two commits).  A process
\* that works alone keeps a surface to one open job.
OpenJobsBounded == \A s \in Surfaces : Cardinality(OpenJobsOf(s)) =< Cardinality(Runners)

(***************************************************************************)
(* Why they hold: an inductive invariant, by job and by row in memory.     *)
(***************************************************************************)
Busy == {"running", "paused_auth"}

\* An answer is recorded that the job's row does not count yet.
Ahead(j) == HasObservation(j, attempts[j] + 1)

JobOK(j) ==
  /\ status[j] = "absent" => attempts[j] = 0 /\ requests[j] = 0
  /\ \A k \in 1..attempts[j] : HasObservation(j, k)
  /\ \A o \in observations :
       o.job = j => o.attempt >= 1 /\ o.attempt =< attempts[j] + 1
  /\ Ahead(j) => status[j] \in Busy
  /\ attempts[j] =< MaxAttempts
  /\ status[j] \in DueStatuses => attempts[j] < MaxAttempts
  /\ \/ requests[j] =< attempts[j]
     \/ /\ status[j] \in Busy
        /\ attempts[j] < MaxAttempts
        /\ requests[j] = attempts[j] + 1

\* A row may be older than its job, but is never newer.  From the lease on
\* the job belongs to the run, and the next row is ahead of its job exactly
\* between the insert of its observation and its update.
RowOK(r, w) ==
  /\ w.attempts =< attempts[w.job]
  /\ status[w.job] # "absent"
  /\ pc[r] \in {"request", "answer", "update"} =>
       /\ status[w.job] \in Busy
       /\ attempts[w.job] < MaxAttempts
       /\ Ahead(w.job) <=> pc[r] = "update" /\ NextRow(r, w)
       /\ pc[r] = "request" \/ ~NextRow(r, w) =>
            requests[w.job] =< attempts[w.job]
  /\ pc[r] = "update" /\ NextRow(r, w) => w.attempts = attempts[w.job]
  /\ pc[r] = "pause" => status[w.job] \in Busy \cup {"auth_error"}

RowsKeyed ==
  \A r \in Runners : \A v, w \in rows[r] : v.job = w.job => v = w

QueueInv ==
  /\ RowsKeyed
  /\ LeaseExclusive
  /\ \A j \in Jobs : JobOK(j)
  /\ \A r \in Runners : \A w \in rows[r] : RowOK(r, w)

-----------------------------------------------------------------------------
(***************************************************************************)
(* Properties of runs that do not overlap.                                 *)
(***************************************************************************)

\* Two jobs never observe the same surface within the TTL: a query is not
\* asked again within it (find_cts_observation_since before the insert).  Runs
\* that overlap break this: each may find nothing before the other inserts.
TtlSpacing ==
  \A o, p \in observations :
    /\ SurfaceOf(o.job) = SurfaceOf(p.job)
    /\ o.job # p.job
    /\ o.at =< p.at
    => p.at > o.at + Ttl

\* The provider is asked again about a job only by a run that started after
\* the backoff of the failed attempts was over.
BackoffRespected ==
  \A r \in Runners : \A w \in rows[r] :
    pc[r] = "answer" /\ NextRow(r, w) =>
      \A o \in observations :
        o.job = w.job => now[r] >= o.at + BackoffDelay(o.attempt)

\* Once an auth error is recorded and the run that met it is done with it, no
\* job that existed by then is waiting or running (auth errors pause the
\* probe until somebody intervenes), also if runs died before or after; only
\* a run that dies between the answer and the pause stops nothing.
AuthErrorStopsQueue ==
  \A o \in observations :
    /\ o.status = "auth_error"
    /\ o.job \notin stranded
    /\ \A r \in Runners : pc[r] \notin {"update", "pause"}
    => \A j \in Jobs :
         ScheduledAt(j) =< o.at => status[j] \notin PausableStatuses

SurfaceSettled(s) ==
  \/ \E o \in observations : SurfaceOf(o.job) = s
  \/ \E j \in Jobs : SurfaceOf(j) = s /\ status[j] = "paused_auth"

\* Every active surface is observed in the end, unless an auth error paused
\* its job.
EverySurfaceIsProbed ==
  \A s \in Surfaces : <>SurfaceSettled(s)

\* The same, unless a run died while it held a job of that very surface.
EverySurfaceIsProbedUnlessStranded ==
  \A s \in Surfaces :
    <>(SurfaceSettled(s) \/ \E j \in stranded : SurfaceOf(j) = s)

\* A job that waits and will be due in time does not wait forever.
DueJobsAreLeased ==
  \A j \in Jobs :
    status[j] \in DueStatuses /\ notBefore[j] =< MaxClock
      ~> status[j] \notin DueStatuses

\* After an auth error the provider is not asked again about any job that
\* existed when the error was met ("auth error: pause at once, no automatic
\* retry").
NoRequestAfterAuthError ==
  [][\A j \in Jobs : requests'[j] # requests[j] =>
       \A o \in observations :
         o.status = "auth_error" => ScheduledAt(j) > o.at]_vars

-----------------------------------------------------------------------------
(***************************************************************************)
(* Why the properties of runs that do not overlap hold: nothing a run has  *)
(* read is stale, so the jobs of a surface follow one another.             *)
(***************************************************************************)
NoOverlap == \A r, q \in Runners : r = q

\* The earlier of two jobs of a surface is closed, and its last observation
\* was out of date when the later job was created.
JobsInSequence ==
  \A j, k \in Jobs :
    /\ SurfaceOf(j) = SurfaceOf(k)
    /\ ScheduledAt(j) < ScheduledAt(k)
    /\ status[j] # "absent"
    /\ status[k] # "absent"
    => /\ status[j] \in ClosedStatuses
       /\ \A o \in observations : o.job = j => o.at + Ttl < ScheduledAt(k)

TimesOrdered ==
  /\ \A j \in Jobs : status[j] # "absent" => ScheduledAt(j) =< clock
  /\ \A r \in Runners : pc[r] # "idle" =>
       /\ now[r] =< clock
       /\ \A j \in Jobs : status[j] # "absent" => ScheduledAt(j) =< now[r]
  /\ \A o \in observations :
       status[o.job] # "absent" /\ ScheduledAt(o.job) =< o.at

\* What the two checks before an insert have found still holds at the insert.
ChecksHold ==
  \A r \in Runners : \A s \in Surfaces :
    NextSurface(r, s) =>
      /\ pc[r] \in {"open", "insert"} => ~HasFreshObservation(r, s)
      /\ pc[r] = "insert" => ~HasOpenJob(s)

LeasedJobsRun ==
  \A r \in Runners : \A w \in rows[r] :
    pc[r] \in {"request", "answer", "update"} => status[w.job] = "running"

SequenceInv == JobsInSequence /\ TimesOrdered /\ ChecksHold /\ LeasedJobsRun

\* What the run knows of its rows is what the table says, and they are due.
RowsCurrent ==
  \A r \in Runners :
    /\ pc[r] \notin {"lease"} \cup Holding => rows[r] = {}
    /\ \A w \in rows[r] :
         /\ pc[r] # "pause" =>
              /\ w.attempts = attempts[w.job]
              /\ w.notBefore = notBefore[w.job]
              /\ w.notBefore =< now[r]
         /\ pc[r] = "pause" /\ NextRow(r, w) => status[w.job] = "auth_error"

\* No run looks back: what is observed was observed by then.
ObservationsOrdered ==
  /\ \A o \in observations : o.at =< clock
  /\ \A r \in Runners : pc[r] # "idle" =>
       \A o \in observations : o.at =< now[r]

\* The answer that is being recorded is the run's own.
AnswerIsNow ==
  \A r \in Runners : \A w \in rows[r] : \A o \in observations :
    /\ pc[r] = "update" /\ NextRow(r, w)
    /\ o.job = w.job /\ o.attempt = attempts[w.job] + 1
    => o.at = now[r]

\* not_before is past the backoff of every attempt it counts: a retry adds
\* its delay to a time that was past all the earlier ones.
BackoffKept ==
  \A o \in observations :
    /\ status[o.job] \in DueStatuses \cup {"running"}
    /\ o.attempt =< attempts[o.job]
    => notBefore[o.job] >= o.at + BackoffDelay(o.attempt)

\* A run at time t would schedule nothing for the surface.
Covered(s, t) ==
  \/ HasOpenJob(s)
  \/ \E o \in observations : SurfaceOf(o.job) = s /\ o.at >= t - Ttl

\* A run that has walked the surfaces leaves none of them for another run of
\* the same time, neither while it goes on nor once it has observed anything.
SurfacesCovered ==
  /\ \A r \in Runners : pc[r] # "idle" =>
       /\ pc[r] \in {"select", "lease"} \cup Holding => todo[r] = {}
       /\ \A s \in Surfaces \ todo[r] : Covered(s, now[r])
  /\ \A o \in observations : \A s \in Surfaces : Covered(s, o.at)
  /\ \A j \in Jobs : status[j] \in ClosedStatuses =>
       \E o \in observations : o.job = j

HandlesAuthError(r) ==
  \/ pc[r] = "pause"
  \/ pc[r] = "update" /\ result[r] = "auth_error"

\* The jobs that existed at an auth error are stopped, or about to be.
AuthErrorHandled ==
  \A o \in observations : o.status = "auth_error" =>
    \/ o.job \in stranded
    \/ \E r \in Runners : \E w \in rows[r] :
         NextRow(r, w) /\ w.job = o.job /\ HandlesAuthError(r)
    \/ \A j \in Jobs :
         ScheduledAt(j) =< o.at => status[j] \notin PausableStatuses

-----------------------------------------------------------------------------
(***************************************************************************)
(* The life of a job, as ProbeLifecycle states it.                         *)
(***************************************************************************)
Phase(st) ==
  CASE st = "absent" -> "new"
    [] st = "scheduled" -> "pending"
    [] st = "retry_scheduled" -> "retry_wait"
    [] st = "running" -> "running"
    [] st = "succeeded" -> "success"
    [] st \in {"failed", "auth_error"} -> "failed"
    [] st = "paused_auth" -> "suspended"

Lifecycle == INSTANCE ProbeLifecycle WITH
  MaxTries <- MaxAttempts,
  phase <- [j \in Jobs |-> Phase(status[j])],
  tries <- attempts

\* Runs that do not overlap, killed or not, take every job through the life
\* ProbeLifecycle describes: one try per lease, no way back from a settled or
\* a suspended job, no retry beyond the last try.
LifecycleImplemented == Lifecycle!Spec

=============================================================================
