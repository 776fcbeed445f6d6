# TLA+ verification of seektalent-keyword-graph

The repository builds a keyword graph from job descriptions (JDs), measures how
many candidates each keyword recalls at a provider (CTS), and ships the result
as a read-only SQLite snapshot that a runtime package queries in process.  This
directory holds TLA+ modules translated from the Python code, the TLC
configurations that check them on small instances, and proofs checked by TLAPS.
All paths below are relative to `src/seektalent_keyword_graph/` of the
repository unless they name a document.

## 1. Inventory

### 1.1 Components, state, operations

| Component | State | Operations | Talks to |
| --- | --- | --- | --- |
| CLI (`cli.py`) | none between commands | `import-jds`, `extract-surfaces`, `build-relations`, `probe-cts`, `build-snapshot`, `validate-snapshot`, `inspect-ui`, each a process of its own | opens the build DB or the snapshot files; nothing keeps two commands from running at once |
| Build store (`builder/build_store.py`, `storage/`) | the SQLite build DB: runs, JDs, mentions, surfaces, concepts, relations, edges, probe jobs, observations, reviews, events | one SQL statement and one commit per method, except the lease | every builder command |
| JD import (`builder/import_jds.py`) | `jd_documents`, `jd_sections` | dedupe by content hash, insert row by row | build store |
| Extraction (`builder/extract_surfaces.py`, `extractors.py`, `sections.py`, `domain/`) | `keyword_mentions`, `surfaces`, `blocked_surface_candidates` | delete the previous extraction, extract, aggregate | build store |
| Relations (`builder/build_relations.py`, `cooccurrence.py`) | `concepts`, `concept_surfaces`, `surface_relations`, `cooccurrence_edges` | cluster surfaces, count co-occurrence | build store |
| Probe queue and runner (`builder/cts_probe.py`, job and observation methods of `build_store.py`) | `probe_jobs`, `provider_recall_observations`; in a run: its fixed time, the rows it leased | schedule, lease, ask, record, retry, pause | throttler, client, build store |
| Throttler (`cts/rate_limit.py`) | next permitted start, semaphore, lock | `run` | runner; one throttler per run |
| CTS client, retry, window, gate (`cts/`) | none | `count`, `retry_count`, `ensure_real_probe_allowed` | the provider over HTTP |
| Snapshot builder (`builder/build_snapshot.py`, finalisation in `cli.py`) | four artifact files | unlink, project, compress, write manifest, validate, copy to aliases | reads the build DB while other commands may write it; writes files that readers may have open |
| Snapshot store and release validation (`runtime/snapshot_store.py`, `release_validation.py`, `contracts/snapshot.py`) | one open connection | `open`, `validate`, queries | files of the snapshot builder |
| Runtime facade and settings (`engine.py`, `config.py`, `runtime/bundled_snapshot.py`) | the open store | `open_default`, `build_query_plan`, `analyze_query_recall` | snapshot store |
| Query recall (`runtime/query_recall.py`, `contracts/query_recall.py`) | none | analyse terms, choose actions and replacements | snapshot store |
| Query plan (`runtime/query_planner.py`, `concept_resolver.py`, `surface_selector.py`, `bundle_builder.py`, `domain/scoring.py`, `policies.py`) | none | resolve concepts, select surfaces, build bundles | snapshot store |
| Inspector (`inspector/`) | one store and cached meta data in a threaded server | HTTP GET and POST handlers | snapshot store, query recall |
| Reports and scripts (`observability/`, `builder/sampling_report.py`, `scripts/`) | none | read-only summaries, fixture flow | build DB, artifacts |

### 1.2 What is hard

* **Overlap.**  Every builder command is a process on one SQLite file.  The
  code takes no lock beyond single statements, so a run of the prober reads
  (freshness, open job, due rows) and writes later, and another run may have
  written in between.
* **Crashes.**  Most methods commit one statement.  A killed run leaves what it
  had committed: a leased job, an observation without its job update, an auth
  error without the pause, a directory without the release that was in it.
* **Time.**  A run fixes `now` at its start and uses it for the window, the
  TTL, the observation time and the backoff, however long the run lasts.
* **Retries.**  A job is asked about at most `max_attempts` times, by several
  runs, each writing back a count it read earlier.
* **Files.**  A snapshot is several files; readers check them one by one while
  a builder may be replacing them.
* **Pure algorithms.**  The recall and plan code is sequential but has long
  chains of filters whose results must agree with contract validators.

### 1.3 What makes each component correct

* Probe queue: a job is leased once, asked about a bounded number of times,
  its attempts and observations agree, closed jobs stay closed, TTL and backoff
  are respected, an auth error stops the queue, nothing is forgotten.
* Throttler: starts are an interval apart, at most `concurrency` calls are in
  flight, everybody is served.
* Snapshot: what a reader opens is a complete, covered release matching its
  manifest; the release is one consistent view of the build DB; a failure never
  hides a usable observation.
* Query recall and plan: every answer satisfies its contract; no term is lost
  or duplicated; limits hold; results do not depend on irrelevant order.
* Build pipeline: whatever commands overlap or are killed, every document is
  imported once, what somebody refers to is not deleted, and when the commands
  that rebuild a table have ended, it holds what was planned for it.

## 2. Plan

### 2.1 Modules, in order

The order follows what can go wrong without a test noticing: first the
components that several processes or crashes meet in, then the pure algorithms.

1. `ProbeQueue` with its abstract specification `ProbeLifecycle` (done)
2. `ProbeThrottle` (done)
3. `RecallProjection`, the pure part of the projection, and
   `SnapshotProjection`, the builder that uses it (done)
4. `SnapshotFiles` with its abstract specification `SnapshotViews` (done)
5. `SnapshotGraph`: what a snapshot holds for the queries of the runtime (done)
6. `QueryRecall`: term analysis, actions, replacements and the response
   contract, as operators over the graph and one request (done)
7. `QueryPlan`: concept resolution, surface selection and bundles, likewise
   (done)
8. `KeywordGraph`: the facade's calls of both on one snapshot (done)
9. `BuildPlans`, what extraction, relations and co-occurrence compute;
   `BuildPipeline`, the commands that insert it, with import; the abstract
   specification `Rebuild` of their delete-and-insert (done)
10. `Inspector`: threaded handlers that open the snapshot by its path while the
    meta data was read once, beside the builds of `SnapshotFiles` (not done: the
    opening and the recall it calls are modelled, the rest is HTTP)
11. `SnapshotFiles` with two builders that overlap (not done)

Composition: `SnapshotProjection` extends `RecallProjection`; `BuildPipeline`
extends `BuildPlans` and implements `Rebuild` three times; `KeywordGraph`
extends `QueryRecall` and `QueryPlan`, which extend `SnapshotGraph`; `BuildPlans`
and `SnapshotGraph` extend `LexOrder`, the tuples by which Python sorts; the
properties of a snapshot that `SnapshotProjection` establishes (coverage,
buckets, foreign keys) are what `SnapshotGraph` assumes of the snapshot that is
queried, and the choice "covered, uncovered or unbuildable" of `SnapshotFiles`
stands for the ends of `SnapshotProjection`.

### 2.2 Theorems

Proved: every safety invariant and action property that a passing run checks, and
both refinements of components and that of the pipeline's stages (section 6).
The order was that of the modules: first an inductive invariant for each
component, then its properties, then the refinement, then the composition
(`StagesComplete`, and what it says of the evidence and the graph).  Left are the
liveness properties, which the prover cannot state, and the modules of 2.1 that
are not written.

### 2.3 Runs

One run per question; the questions are in section 4.  Questions about the same
instance share a run, as recall and plan do, and the two ways of placing a
snapshot's files.  The inspector and a second builder would join that run.

## 3. Modules and the code

The map from each definition to its lines is in `PROJECT.json`.  Operators
preceded by a comment that begins with "Fault:" are not part of a model: each
is what one definition would be with a plausible bug, and shows that a property
notices it.

### 3.1 `ProbeQueue`, `ProbeLifecycle`

Code: `builder/cts_probe.py`, and the job and observation methods of
`builder/build_store.py`.  State: the columns of `probe_jobs` that control the
queue (`status`, `attempts`, `notBefore`), the observations, and for every
process that runs `probe-cts` its place in `schedule_and_run`, its fixed time
`now`, the surfaces it has still to look at and the rows it leased.  There are two
history variables: `requests` counts how often the provider was asked about a job,
`stranded` collects the jobs that a run held when it died.

One action is one SQL statement, because that is what commits: `Start`
(the window check), `CheckFresh`, `CheckOpen`, `InsertProbeJob`,
`ScheduleDone`, `SelectDueJobs`, `LeaseDueJobs` (the one method that is a
transaction of several statements), `Request`, `InsertObservation` or
`ObservationRejected` (the primary key refuses it and the run ends with the
exception), `Succeed`, `Retry`, `Fail`, `AuthError`, `PausePendingJobs`.
`Crash` ends a run at any place: a kill or an exception nobody catches (the
parser of `cts/count_client.py` has one).  Either way the run dies (`Die`) and
what it held stays leased; a property that a death can break excepts just the
jobs that are `stranded` by it, and holds of all others, before and after.  `Tick` is the passing of time.

Abstracted: one rate-limit bucket (job ids, dedupe keys, TTL lookups and pauses
of different buckets do not meet); surfaces and jobs are taken in the order of
the surface ids (the code's orders are also fixed, `display_text` and
`not_before, scheduled_at, id`, and no property depends on which); the count an
answer carries; the surface's recall status.  Answers are the four classes that
`_record_job_result` tells apart.

`ProbeLifecycle` is what the queue promises for a single job: it is created,
picked for one try, answered, retried at most up to the bound, settled for good
or suspended for good.

### 3.2 `ProbeThrottle`

Code: `cts/rate_limit.py`.  State: `_next_start`, and for every task of a
process whether it waits for a place of the semaphore, for the lock, sleeps with
the lock, runs its operation or is done.  Actions: `Call`, `AcquirePlace`,
`TakeToken` (the lock is free and no sleep is needed, one step since there is no
`await` in between), `Sleep`, `Wake`, `Finish`, `Tick`.  A sleeping task may wake
up to `Jitter` too early, which event loops do and the code does not check.

### 3.3 `RecallProjection`, `SnapshotProjection`

Code: `builder/build_snapshot.py`, the bucket rules of
`domain/provider_recall.py` and the coverage checks of
`release_validation.py`, shared operators in `RecallProjection`.
State: the tables of the build database the projection reads, and in the
builder what it has read and inserted.  `Begin`, then one action per `SELECT` in
the order of the code: three counts for the report, the observations, surfaces,
concepts and memberships, then the insertion of the observations (with the
foreign keys enforced), the validation and the exit.  Between any two of them
`Write` does one statement of another command: `AddSurface`, `AddConcept`,
`AddMembership`, `ClearRelations`, `ClearSurfaces` (refused by the foreign keys
if anything refers to a surface), `AddJob`, `Observe`.

Abstracted: `memberships` is `concept_surfaces`; `surface_relations` and
`cooccurrence_edges` are left out, they refer to surfaces as memberships do and
their absence only lets `ClearSurfaces` happen more often; a query is the pair of
query hash and mode; the recall thresholds are constants.  Writes after the end
of a build are made before the next one begins.

### 3.4 `SnapshotFiles`, `SnapshotViews`

Code: `builder/build_snapshot.py` (what it removes and writes, in which order),
`_finalize_cli_artifacts` of `cli.py`, `SQLiteSnapshotStore.open` of
`runtime/snapshot_store.py`, `contracts/snapshot.py`, and
`release_validation.py`.  State: which file each of the four names
stands for, what has been written to each snapshot file, the builder's place,
and for every reader its place in `open`, the manifest it has read and the file
it has connected to.  A file keeps its contents after its name is removed, as
open files do.  Every unlink, creation, copy and write is an action; `Crash`
ends the builder anywhere; the reader's checks are an action each, since each
goes to the files by name again.

`mode`, chosen at the beginning from the constant `Modes`, is `"directory"` (the
four files are made in the output directory) or `"aliases"` (they are made in a
temporary directory and copied over named files).

Abstracted: one builder at a time; whether the data is covered is chosen at
`Begin` (it is the subject of `SnapshotProjection`); hash and size of the
snapshot are one check; the alias names differ from the default names; a
half-written report is not distinguished, since nobody checks a report.

`SnapshotViews` is the promise to a reader: from open to close it sees one
complete release.

### 3.5 `SnapshotGraph`, `QueryRecall`, `QueryPlan`, `KeywordGraph`

State: the open snapshot, the request, the answer, and what `QueryPlanner.build`
passes from one of its parts to the next.  `KeywordGraph` has the calls of
`engine.py`: `Ask` makes a request, `AnalyzeQueryRecall` computes the whole
response, `BuildQueryPlan` the plan in the planner's three steps
(`ResolveConcepts`, `SelectSurfaces`, `BuildBundles`; nothing comes between
them), `Return` ends the call.  The code is sequential and reads an immutable
snapshot, so the rest is operators.

`SnapshotGraph` is what the queries of `runtime/snapshot_store.py` find, in the
form in which `builder/build_relations.py` and `builder/cooccurrence.py` leave
it: groups of surfaces with their primary and the confidences of its members
(`Root`, `Group`, `PrimarySurface`, `LinkConfidence`), the relations of versions
and of the seed alias (`RelatedTo`), the counted edges (`Support`, `IsStrong`).

`QueryRecall` is `runtime/query_recall.py` with the response model of
`contracts/query_recall.py`: the three sources of alternatives (`Related`,
`SameConcept`, `Cooccurring`), their order (`SortKey`, `Before`), the choice of
an action for each term (`Advice`), and the parts of the response, which the
response model accepts or refuses (`validation_error`).

`QueryPlan` is `runtime/concept_resolver.py` (`Candidates`, `Distinct`,
`Resolution`), `surface_selector.py` (`Companions`, `Aliases`, `Selection`),
`bundle_builder.py` with the sort key of
`domain/scoring.py` (`Query`, `LabelOwner`, `BundleSortKey`, `Bundles`,
`Fallback`) and `query_planner.py` (`SheetRow`, `Rejections`, `PlanWarnings`,
`PlanAnswer`).

Abstracted in all three: a text is normalized, that is a surface or a stranger,
and any surface may be a version or the alias of another one (which texts the
regular expressions accept is data).  Ids are in the order of the normalized
texts; the order by frequency, length and text in which a primary surface is
chosen is data of the snapshot (`order`), and so are the orders of labels, display
texts followed by the name of a bundle's type, one for each type (`labels`): a
longer text may come before or after one that it begins with, and not in the same
way for two types.  Extraction stores
every surface as active and `query_safe`, and no command changes that, so the
filters for both always let surfaces pass and are left out; `unsafe` is what
`classify_surface` says of a text when relations are built or a request is
resolved.  The table of seed aliases in `build_relations` has one entry, so a
snapshot has one at most.  In recall, the prober asks for the display text, so an
observation is named by its surface, and `"none"` is the lack of one for the
requested provider and mode; responses are sets, without ranks, messages and
lineage; `typed` is the source `"query_text"`, which `query_text` has and the
caller may give to a term of the pool as well.  In plans, the
bucket of a surface is that of the serving provider; the surfaces that title, JD
text and notes mention are given as a sequence; a query is the sequence of its
surfaces, boolean if there are two; a bundle is its type, its term and its one
query.

### 3.6 `BuildPlans`, `BuildPipeline`, `Rebuild`

Code: `builder/import_jds.py`, `builder/extract_surfaces.py`,
`builder/build_relations.py`, `builder/cooccurrence.py`, the methods of
`builder/build_store.py` they call with the keys and foreign keys of
`storage/sqlite_schema.py`, and `_ensure_builder_run` of `cli.py`.

`BuildPlans` is the pure part.  A row of the build database is a record with its
table, its id and the keys it refers to, and what else a property asks about.
`EvidencePlan`, `RelationPlan` and `EdgePlan` are the sequences of rows that the
three stages insert, in their order: sections, mentions and blocked candidates
as they come, then the surfaces with their frequencies; the concepts by primary
surface, each followed by its members, then the links; the edges by window type.
What comes in which order is said by sets of positions and `Sorted` of `LexOrder`:
an item <<d, i, k>> is the k-th candidate of section i of the d-th document.
`Group` and `Primary` are the clusters and their names, `EdgeOf` the counts.

`BuildPipeline` has the processes that run commands.  `Start` and `EnsureRun` are
the beginning of every command; `ReadLine`, `InsertDocument`, `EndImport` are
`import-jds`; `Clear`, a read (`LoadDocuments`; `LoadSurfaces` and `FindEvidence`;
`LoadMentions`), one `Insert` per row and `Finish` are `extract-surfaces`,
`build-relations` and the co-occurrence step that `build-relations` goes on with.
An `Insert` that the database refuses ends the command, as nobody catches the
exception; so does a `Clear` that the foreign keys refuse, which is rolled back.
`Kill` ends a command anywhere; `AddProbeJob` stands for `probe-cts`, the one
other command that refers to surfaces.  History: a rebuild of a stage is `calm`
since a command cleared its tables alone (and, for relations and edges, with no
extraction at work) until a command at work on it is killed, plans something else
than the first one did, or extraction clears; `target` is what they plan.

`Rebuild` is the promise of a stage while it is calm: commands clear, load one
target, insert its rows or are refused and end.  Its property `Complete` says that
when all have ended the rows of the target are there.  This is not obvious: of two
commands that insert the same rows, each can make the other fail, the one that
clears last may be refused by what the first has put in again.  It holds because
the rows are chained: a row refers to nothing of its stage but the row before it
and what that refers to (sections before their mentions, a concept before its
members).  So wherever a row is missing behind one that is there, the command
that inserted the latter stands (`GapsHeld`), and it is not refused.

Abstracted: how a text is split into sections and searched for candidates
(`SectionsOf` says what comes out); all commands use the default builder run;
languages, quality flags, confidences, offsets and names (`SnapshotGraph` has the
confidences); every surface is active and query-safe as stored (3.5); the events
at the end of a command, which no command reads; the branch of extraction that
goes on with the next document when text processing raises.

## 4. Runs

A type invariant is checked once per module, and only where a property or a proof
does not say more already.  "Deadlock off" marks the runs whose
system stops at the end of its bound or of its work.

| Run | Question | Bounds |
| --- | --- | --- |
| `probe_overlap` | What do lease, primary keys and attempt counts still guarantee when two processes run `probe-cts` at once and one may die?  Is a job marked running only while a run holds it?  How many open jobs can a surface get? | 1 surface (surfaces interact only through the lease, which takes all due rows), 2 runs, 3 attempts, clock 0..2, no TTL, so that a second job can follow at once, 1 crash; runs are symmetric |
| `probe_solo` | With one process at a time that may be killed anywhere: are TTL and backoff respected, is the life of a job the one of `ProbeLifecycle`, is a job that waits leased in the end, is every surface probed in the end unless its job was stranded, and does an auth error stop the queue unless its run died before the pause? | 2 surfaces (the second waits while the first is asked about), 3 attempts (two backoffs of different length), TTL 1, clock 0..3, 1 crash, `FairSpec` |
| `probe_stranded` | Is a killed run made good by later ones?  No | 1 surface, 1 crash, `FairSpec` |
| `probe_auth_overlap` | Does an auth error stop the probing of every run?  No | 2 surfaces, 2 runs |
| `throttle_one` | Spacing and service of one throttler | 3 tasks for 2 places, so that one waits for each of the semaphore and the lock; interval 3 so that jitter 1 lies strictly inside; clock 0..6; deadlock off |
| `projection` | What does a build decide, and what survives other commands writing between two `SELECT`s? | 2 surfaces, one of them serving; 2 providers; 2 queries; 2 observations, the least for one to replace or outlast another; 2 links; 1 write per build; the command line's configuration, nothing configured, everything configured; symmetric queries |
| `projection_failed_latest` | Does a failed probe leave an older usable observation alone?  No | 1 surface, 2 observations |
| `files` | What do a reader and the disk see when builds are killed anywhere, in a directory or with copies to named files? | both modes; 3 builds (one to replace, one that fails, one that follows), 2 identities so that hashes can agree by accident of equal content, 1 reader: readers write nothing, so several of them do not influence one another; deadlock off |
| `pipeline` | What do imports, extractions and relations leave in the build database when they overlap and are killed anywhere? | 4 commands, two at a time (an extraction, the relations made of it, and two that disturb them; 5 take longer than the runs may), which are symmetric; 2 documents, one with two sections that mention the same text, the other with a blocked candidate; 3 texts, a base, its alias and a version of it; two files that share a document, one with a bad line and a repeated one; 1 probe job; deadlock off |
| `facade` | Recall: which term is helped by what, what of it reaches the response when alternatives are cut, when is a response refused?  Plan: is a selected query, or any term, lost, in which order do queries come, what makes a companion? | two families of snapshots over 3 surfaces: relations of every kind (a surface may be missing or unsafe; chains of bases, an alias, versions), and texts that begin with one another; all buckets but `too_narrow`, which is treated like `zero`, with stale ones for one surface; three sets of edges, with strong, weak and doubled ones.  6 recall requests: typed and pooled terms, both, repeated terms, a stranger, `max_alternatives` 0, 1, 2 and 5, no companion, an unsupported provider.  4 plan requests: every strength, repeated terms, mentions, strangers that are blocked or not, 1, 2 and 5 bundles, with and without exploration |
| `recall_refused` | Is a supported request always answered?  No | the first family, 2 buckets |
| `plan_misordered` | Does a query for a required term come before one that is nice to have?  No | the second family, 2 buckets |

What the properties say beyond their names is in the comment before each.  The
ones that take several actors to break:

* `LeaseExclusive`, `RequestsBounded`, `AttemptsRecorded`,
  `AttemptsOnlyGrow`, `ClosedJobsStayClosed`: with
  overlapping runs and a crash, although every run writes back the attempt
  count it read when it leased the row.  They hold because the lease is the one
  transaction of the queue.
* `LeaseHasOwner`: whatever overlaps, a run settles or pauses what it leased; what
  is left running without an owner is what a run held when it died.
* `AuthErrorStopsQueue`, `EverySurfaceIsProbedUnlessStranded`: with crashes, which
  excuse only the job that the dead run held, not the queue or other surfaces.
* `OpenJobsBounded`: what the check for open jobs still guarantees when several
  processes pass it at once; with one process, one open job.
* `TtlSpacing`, `LifecycleImplemented`: only without
  overlap, because freshness and open job are looked up before the insert.
* `EvidenceAgrees`, `GraphAgrees`: what is left when two extractions, or two
  relation commands, delete and refuse each other's rows, and what an extraction
  in between does to the graph.  `EvidenceKept`: the deletes of extraction come
  in an order in which the foreign keys refuse only the last, so the rollback
  has to take back the others.  `ImportsAddUp`: two imports of one file.
* `RebuildsImplemented`: the three stages as `Rebuild`; its mutant inserts all
  concepts before their members, which breaks the chain.
* `OpenedIsRelease`, `ArtifactsAgree`: hold in a directory since the builder unlinks before
  it creates, the snapshot first and its manifest next.
* `ReportLagsSnapshot`, `ObservedSurfacesProjected`: what is left of a
  consistent view when the projection takes no read transaction.
* `ValidUnlessCut`, `HelpIsShown`, `WeakTermsAreHelped`: the response as the
  builder's graph, the sort order and the cut make it together.
* `PlanKeepsWhatItSelects`, `TermsAccountedFor`: a plan as four modules make it,
  each of which may drop or rename what the one before has found.
* `CompanionsAlwaysTogether`: the thresholds of the planner against the counts of
  the builder.

## 5. Fairness

`ProbeQueue.FairSpec` has weak fairness on `Tick`, `Start` and the steps of a
started run.  Time passes; a run's steps are a straight sequence of awaited calls, each
of which ends (the HTTP client has a timeout); and runs are started regularly,
which the scheduler document asks of the operator.  `Crash` and the kind of
answer are never forced.  `ProbeThrottle.FairSpec` has weak fairness on `Tick`
and on the steps of a task after its call; no task has to call.  Weak fairness is
enough for the lock and the semaphore because asyncio serves waiters in order
and here the number of calls is bounded.  The other modules state safety only.

## 6. Proofs

Eight modules hold the 59 theorems that `PROJECT.json` lists, and the lemmas they
rest on.  They hold for every value of the constants that satisfies the named
assumptions of the modules, each of which says what the code or its schema
enforces:

* `ProbeQueue`: `BoundsAssumption` and `PolicyAssumption` (natural numbers, at
  least one attempt).  `ProbeThrottle`: `LimitAssumption` (interval, jitter and
  concurrency as `CtsProbeRateLimitConfig` admits them).
* `RecallProjection` and `SnapshotProjection`: `RecallAssumption` and
  `ConfigurationAssumption` (thresholds are numbers, a provider is configured or
  not; `healthy_min_total` may be 0, so `HealthyIsEarned` excludes the total 0,
  which `BucketOf` calls zero before it compares).
* `SnapshotFiles`: `FilesAssumption`.
* `SnapshotGraph`: `GraphAssumption`, what the builder puts in a snapshot: finitely
  many surfaces, a blocked surface is unsafe, no surface is its own base (a version
  suffix is not empty), both texts of the seed alias are query-safe (its one entry
  is k8s and kubernetes), edges have possible counts, and different
  surfaces have different places in the orders (their texts differ).  `QueryPlan`:
  `PlanAssumption`, a request has a term or a mention.
* `BuildPlans`: `PlansAssumption`, orders are without repetition and contain what
  they order, candidates are texts or `Blocked`, which is no text, and links are
  between texts.  `BuildPipeline`: `FilesAssumption`, `BoundsAssumption`.

Theorems that need more say so: those about runs of the prober that do not overlap
assume `NoOverlap`, `NoRequestsAfterAuthError` also that none is killed; the others
except only what is `stranded`, as the properties do, and `OnlyCrashesStrand` says
that without overlap nothing is stranded unless a run was killed.
`OpenJobsAreBounded` is about finitely many processes.

* **`ProbeQueueProofs`**, any number of overlapping runs.  `LeaseExclusive` and
  the others are not inductive: what a run will write depends on the row in its
  memory.  `QueueInv` adds that a row in a run's memory is a job in status
  `running` or `paused_auth` whose attempts are those the run read, that no two
  runs hold a row of the same job, and how many requests and observations there
  are before and after each step of a row's handling.  `LeaseHasOwner` adds
  only `ErrorRecorded` (the job whose auth error pauses the queue, which the pause
  leaves out, is not running): a row is marked running by the run that takes it into memory,
  and leaves memory only settled, paused or stranded.  `OpenJobsBounded` becomes
  inductive when the runs that have seen no open job and are about to insert one are
  counted as well (`OpenInv`): a run joins them only while no job is open, and an
  insert puts a job in the place of a run.

  Under `NoOverlap` (at most one runner), `SequenceInv` orders the jobs of a
  surface: all but the last are closed, and a run that is about to insert has seen
  that the last one is closed and old enough.  From it come
  `TtlSpacing` and the refinement of `ProbeLifecycle`.
  `RowsCurrent` (what a run knows of its rows is what the table says) and
  `BackoffKept` give `BackoffRespected`: a retry adds its delay to a time past all
  earlier ones, so the latest `not_before` bounds every attempt.
  `SurfacesCovered` says that a run which has walked the surfaces leaves none
  without an open job or a fresh observation: therefore no job is inserted
  between an auth error and its pause.  With it `AuthErrorHandled` is inductive,
  and gives `AuthErrorStopsQueue` and that the provider is not asked again.
* **`ProbeThrottleProofs`**.  `TokenInv`: every start lies a whole number of
  intervals before `nextStart`, less one jitter, and at most the owner of the
  lock sleeps.
* **`SnapshotProjectionProofs`**.  `ProjectionInv`: foreign keys hold in the build
  database whoever writes, and observations were read before surfaces, which
  only disappear if nothing refers to them; so an observation that was read
  finds its surface in the later `SELECT`.  `BucketsInv`: what the builder holds
  are the latest of the observations it has seen, and every bucket was computed
  from them (`HealthyIsEarned`).  `CountInv` counts the writes since the report's
  count (`ReportLagsSnapshot`).  `QuietInv`: a build without a write in between sees
  one database, place by place (`QuietBuildIsDecided`).
* **`SnapshotFilesProofs`**.  `FilesInv` is `DirectoryInv` or `AliasInv`, by the
  mode.  `DirectoryInv` says which names exist and what their files hold at each
  place of the builder, and that a reader's file either still is what the reader
  checked or has been unlinked and does not change any more.  `AliasInv` says that
  the named files are touched only between the copy of a snapshot whose data
  passed and the validation of the release.  From them come the file properties and
  the refinement of `SnapshotViews` (which is about the directory mode).
* **`LexOrderProofs`**.  `Sorted` of a finite set of tuples is its elements, each
  once, in their order.
* **`KeywordGraphProofs`**.  `StrongIsHalf`: of an edge whose counts are possible
  at all, the thresholds of `_is_strong_cooccurrence` (a support of a half, a pmi
  of one bit) say exactly that the surfaces share half of the windows and never
  occur apart; `CompanionsAlwaysTogether` is what this means for a plan.
  `SessionInv` with `PlannerInv` says that an answer is what the operators of
  recall or of the planner make of the request and the open snapshot, so the rest
  is about these operators: the sort key puts what replaces a weak term first,
  the cut takes a beginning of the sorted alternatives, the planner's filters
  partition the terms, and the sorted bundles lose nothing but repetitions.
* **`RebuildProofs`**.  `CalmInv`, with `GapsHeld` in it (3.6), for any number of
  commands and any chained rows.  `RebuildsComplete` follows since without
  commands at work there is no first row that is missing.
* **`BuildPipelineProofs`**, any number of commands, documents, texts and files.
  `EvidenceIsKept` needs only where commands stand (`PlaceInv`).  The rest comes
  from `BuildInv`, four parts that need each other:
  `PipelineInv`, what commands keep in memory and that commands at work on a calm
  stage have the same plan, which is its target;
  `FitInv`, that plans fit.  This is proved of the operators of `BuildPlans`
  themselves: no key comes twice in a plan (mentions are numbered through, groups
  are disjoint, heads are one for each group), every row comes after what it refers
  to, and, while the stage is calm, what it refers to in other tables is still
  there, because only extraction deletes it and that ends the calm;
  `ImportsInv`, that documents are counted once, which `FitInv` needs for
  extraction to read documents there are; and `TypeInv`.

  `RebuildsRefinement` maps every step of a command to a step of `Rebuild` or a
  stutter, three times.  `StagesComplete` composes it with `RebuildsComplete`:
  every calm stage ends with exactly the rows that were planned.  That these are
  the right rows is `TargetInv`: a calm extraction aims at the plan of some
  documents, calm relations at the plan of the surfaces that are there, since no
  extraction has been at work since they began.  `EvidenceAgrees` and
  `GraphAgrees` follow by counting the rows of `EvidencePlan` and
  `RelationPlan`.  `EdgesCounted` is part of `FitInv`.

TLC has checked each inductive invariant on the bounds of its component's run.
They are not among the runs' properties; what is proved from them is.

Only model-checked: the liveness properties `EverySurfaceIsProbedUnlessStranded`,
`DueJobsAreLeased` and `CallsServed`, since liveness under fairness and `ENABLED`
are outside the prover.  No module uses a RECURSIVE operator; what the recursive
functions `Root` of `SnapshotGraph` and `Beginnings` of `QueryPlan` compute for all
inputs needs induction over data, which the prover cannot do, and no theorem needs
more of them than one unfolding.

## 7. Findings

Each is a run that TLC finds violated.

1. `probe_stranded`: a run killed after its lease leaves the jobs `running`.  The
   lease has no owner and no expiry; due queries skip `running`, and
   `find_open_probe_job` counts it as open.  The surface is never probed again.
2. `probe_auth_overlap`: a run that leased before another one met an auth error
   never looks at its jobs' status again; it keeps asking, and overwrites the
   pause.
3. `projection_failed_latest`: `_latest_observations` takes the newest row
   whatever its status, so a failed probe hides the count measured before it.
   The design documents ask for the contrary.
4. `recall_refused`: `analyze` cites the best healthy alternative as evidence even
   when it does not recommend it; when `max_alternatives` cuts that alternative,
   the response model refuses the response.  The `ValidationError` is a
   `ValueError`, which the inspector reports as an invalid request.
5. `plan_misordered`: `_selected_for_label` finds the term of a bundle again by
   the beginning of its label.  A term that is nice to have and whose text begins
   with that of a required one takes over its strength and its place in the
   order, and can come before it, against the order that the design document
   promises.

Seen while modelling, without a run of their own: nothing ever takes a job out of
`paused_auth`; a crash between the commit of an auth error and the pause leaves
the other jobs due; two runs that overlap and started at different times can both
find nothing fresh and no open job for a surface, both insert one (its keys contain
the start of the run) and both ask the provider within the TTL, where
`04-cts-probe-and-rate-limit-design.md` promises that a query is not repeated;
the lease statement does not check `not_before` again after the select; the
probe window is checked only when a run starts; the throttler is per
process; the projection takes no read transaction; named artifacts are copied
over files that readers may have open; a typed seed alias whose canonical surface is
healthy is answered with `replace` on a built graph, where the test of
`add_alias_probe` in `tests/runtime/test_query_recall.py` uses a hand-written snapshot; `max_alternatives` does not bound alternatives that are
recommended; since a strong edge needs two surfaces that share half of the
windows and never occur apart (`StrongIsHalf`), a precision query is next to
never made on a built snapshot, and the tests make theirs from counts that no
windows have; the design documents let a companion come from the required
keywords of the JD, where `_companions` asks for a strong edge in every case;
an alias is probed whatever its own bucket is, zero and too wide included;
`extract-surfaces` cannot be repeated once a concept or a job refers to a surface:
`04-internal-builder-and-scheduler.md` and `05-graph-building-and-refresh.md` ask
for builds that can be re-run, `04-implementation-boundaries.md` for a clean build
database; documents are deduplicated by content hash alone,
where the design names source and reference too; `builder_runs.status` never
leaves `running`; of two first commands on a database one may end on the row of
`builder_runs` that the other inserts; an extraction killed among others can leave
surfaces without mentions.

## 8. Not modelled

* **Text processing of import and extraction.**  Sections and candidates are
  constants of `BuildPlans`, languages and quality flags are left out.  That
  processing a text may raise (`failed_records`) is not modelled: what was
  inserted for the document before stays, and no text is known that does it.
* **Build store.**  Reviews, events and migrations: no command reads the first
  two, and `BuildStore.open` migrates before anything else.
* **Command line.**  Parsing, confirmations and printing.
* **Runtime facade.**  Its two calls are `KeywordGraph`, its open is the reader of
  `SnapshotFiles`; settings and the choice of the bundled snapshot are not
  modelled, they read the environment once.
* **Inspector.**  Each request opens the snapshot by its path, as the reader of
  `SnapshotFiles` does, and calls recall, as `KeywordGraph` does; that providers
  and meta data are read once and kept is not modelled.
* **Two builders, two throttlers.**  The models have one builder of snapshots and
  one throttler per run; see the hazards in `PROJECT.json` without a property.
* **Sampling report, observability and scripts.**  They only read.
* **HTTP and JSON of the CTS client.**  Modelled as the classes of answers it
  returns.
