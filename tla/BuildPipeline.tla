--------------------------- MODULE BuildPipeline ---------------------------
(***************************************************************************)
(* The commands that fill the build database before it is probed:          *)
(* import-jds, extract-surfaces and build-relations (relations, then       *)
(* co-occurrence), run by operators or jobs that nothing keeps apart.      *)
(*                                                                         *)
(* Every statement a command executes is a transaction of its own, except  *)
(* the deletes at its beginning, which are one; the steps of commands that *)
(* overlap interleave between them.  A command can be killed anywhere; an  *)
(* error that ends it somewhere (a full disk, a database that stays        *)
(* locked) looks the same to the others.  A statement that violates a key  *)
(* or a foreign key raises sqlite3.IntegrityError, which nobody catches.   *)
(***************************************************************************)
EXTENDS BuildPlans

CONSTANTS
  Commands,   \* processes that run commands, one at a time
  Files,      \* JSONL files: sequences of job descriptions and of BadLine
  BadLine,    \* a line that is not JSON, not an object, or without text
  MaxStarts,  \* bound of the model: commands started
  MaxJobs     \* bound of the model: probe jobs scheduled by probe-cts

ASSUME FilesAssumption == BadLine \notin Jds /\ Files \subseteq Seq(Jds \union {BadLine})

ASSUME BoundsAssumption == MaxStarts \in Nat /\ MaxJobs \in Nat

VARIABLES
  db,         \* the rows of the build database
  knownRun,   \* the row of builder_runs exists
  stage,      \* command -> what it works on
  pc,         \* command -> what it does next
  surfaces,   \* command -> the surfaces that build-relations has loaded
  plan,       \* command -> the rows it inserts, or the lines it imports
  next,       \* command -> position in its plan
  starts,     \* commands started so far
  calm,       \* history: stage -> nothing has disturbed its rebuild
  target,     \* history: stage -> the plan of that rebuild, if planned
  planned,
  imported    \* history: job description -> times a command counted it as imported

database == <<db, knownRun>>
commands == <<stage, pc, surfaces, plan, next, starts>>
history == <<calm, target, planned, imported>>
vars == <<database, commands, history>>

\* Fault: extraction forgets to delete the surfaces.
TablesButSurfaces ==
  [extract |-> {"blocked_surface_candidates", "keyword_mentions", "jd_sections"},
   relations |-> {"surface_relations", "concept_surfaces", "concepts"},
   edges |-> {"cooccurrence_edges"}]

\* The tables that each stage deletes and makes anew.
TablesOf ==
  [extract |-> {"blocked_surface_candidates", "keyword_mentions", "jd_sections", "surfaces"},
   relations |-> {"surface_relations", "concept_surfaces", "concepts"},
   edges |-> {"cooccurrence_edges"}]

Stages == DOMAIN TablesOf

Rebuilding == {"load", "evidence", "insert"}

Places == {"off", "ensure", "clear", "line", "insert_document"} \union Rebuilding

\* The commands at work on a stage since they have cleared its tables.
Rebuilders(s) == {c \in Commands : stage[c] = s /\ pc[c] \in Rebuilding}

Init ==
  /\ db = {}
  /\ knownRun = FALSE
  /\ stage = [c \in Commands |-> "none"]
  /\ pc = [c \in Commands |-> "off"]
  /\ surfaces = [c \in Commands |-> {}]
  /\ plan = [c \in Commands |-> <<>>]
  /\ next = [c \in Commands |-> 1]
  /\ starts = 0
  /\ calm = [s \in Stages |-> FALSE]
  /\ target = [s \in Stages |-> <<>>]
  /\ planned = [s \in Stages |-> FALSE]
  /\ imported = [jd \in Jds |-> 0]

-----------------------------------------------------------------------------
(* Beginning and end of a command.                                         *)

First(s) == IF s = "import" THEN "line" ELSE "clear"

\* The command line, and the select of _ensure_builder_run.
Start(c, s, file) ==
  /\ pc[c] = "off" /\ starts < MaxStarts
  /\ stage' = [stage EXCEPT ![c] = s]
  /\ pc' = [pc EXCEPT ![c] = IF knownRun THEN First(s) ELSE "ensure"]
  /\ plan' = [plan EXCEPT ![c] = file]
  /\ starts' = starts + 1
  /\ UNCHANGED <<database, surfaces, next, history>>

\* Fault: what was planned for one stage is taken along to the next.
EnterKeepingPlan(c, s, place) ==
  /\ stage' = [stage EXCEPT ![c] = s]
  /\ pc' = [pc EXCEPT ![c] = place]
  /\ surfaces' = [surfaces EXCEPT ![c] = {}]
  /\ UNCHANGED <<plan, next, starts>>

\* The process goes to another stage, or is gone; it keeps nothing.
Enter(c, s, place) ==
  /\ stage' = [stage EXCEPT ![c] = s]
  /\ pc' = [pc EXCEPT ![c] = place]
  /\ surfaces' = [surfaces EXCEPT ![c] = {}]
  /\ plan' = [plan EXCEPT ![c] = <<>>]
  /\ next' = [next EXCEPT ![c] = 1]
  /\ UNCHANGED starts

Leave(c) == Enter(c, "none", "off")

\* History is kept of rebuilds that are calm.
Remember(stillCalm, isPlanned, newTarget) ==
  /\ calm' = stillCalm
  /\ planned' = [s \in Stages |-> calm'[s] /\ isPlanned[s]]
  /\ target' = [s \in Stages |-> IF planned'[s] THEN newTarget[s] ELSE <<>>]

\* All commands use the default builder_run_id: another may have inserted it.
EnsureRun(c) ==
  /\ pc[c] = "ensure"
  /\ knownRun' = TRUE
  /\ IF knownRun THEN Leave(c)
     ELSE /\ pc' = [pc EXCEPT ![c] = First(stage[c])]
          /\ UNCHANGED <<stage, surfaces, plan, next, starts>>
  /\ UNCHANGED <<db, history>>

Kill(c) ==
  /\ pc[c] # "off"
  /\ Remember([s \in Stages |-> calm[s] /\ c \notin Rebuilders(s)], planned, target)
  /\ Leave(c)
  /\ UNCHANGED <<database, imported>>

-----------------------------------------------------------------------------
(* import-jds.                                                             *)

\* One line up to the select for its content_hash.
ReadLine(c) ==
  LET line == plan[c][next[c]]
      Duplicate == \/ \E k \in 1 .. next[c] - 1 : plan[c][k] = line
                   \/ DocumentKey(line) \in Keys(db)
  IN
  /\ pc[c] = "line" /\ next[c] =< Len(plan[c])
  /\ IF line = BadLine \/ Duplicate
     THEN next' = [next EXCEPT ![c] = @ + 1] /\ UNCHANGED pc
     ELSE pc' = [pc EXCEPT ![c] = "insert_document"] /\ UNCHANGED next
  /\ UNCHANGED <<database, stage, surfaces, plan, starts, history>>

\* Fault: a document that is there already is replaced.
UpsertDocument(c) ==
  LET jd == plan[c][next[c]] IN
  /\ pc[c] = "insert_document"
  /\ db' = db \union {Document(jd)}
  /\ imported' = [imported EXCEPT ![jd] = @ + 1]
  /\ next' = [next EXCEPT ![c] = @ + 1]
  /\ pc' = [pc EXCEPT ![c] = "line"]
  /\ UNCHANGED <<knownRun, stage, surfaces, plan, starts, calm, target, planned>>

InsertDocument(c) ==
  LET jd == plan[c][next[c]] IN
  /\ pc[c] = "insert_document"
  /\ IF DocumentKey(jd) \in Keys(db)
     THEN Leave(c) /\ UNCHANGED <<db, imported>>
     ELSE /\ db' = db \union {Document(jd)}
          /\ imported' = [imported EXCEPT ![jd] = @ + 1]
          /\ next' = [next EXCEPT ![c] = @ + 1]
          /\ pc' = [pc EXCEPT ![c] = "line"]
          /\ UNCHANGED <<stage, surfaces, plan, starts>>
  /\ UNCHANGED <<knownRun, calm, target, planned>>

EndImport(c) ==
  /\ pc[c] = "line" /\ next[c] > Len(plan[c])
  /\ Leave(c)
  /\ UNCHANGED <<database, history>>

-----------------------------------------------------------------------------
(* extract-surfaces and build-relations.                                   *)

\* What is left when the tables of a stage are empty.
Without(s) == {row \in db : row.table \notin TablesOf[s]}

\* The foreign keys allow it.
Removable(s) == \A row \in Without(s) : row.refs \subseteq Keys(Without(s))

\* The stages whose input extraction deletes.
Dependent == {"relations", "edges"}

\* The tables of the stage are empty.  A rebuild begins, or is joined.
Cleared(c) ==
  LET s == stage[c]
      alone == Rebuilders(s) = {}
      undisturbed == IF alone THEN s = "extract" \/ Rebuilders("extract") = {} ELSE calm[s]
  IN
  /\ db' = Without(s)
  /\ pc' = [pc EXCEPT ![c] = "load"]
  /\ Remember([t \in Stages |-> IF t = s THEN undisturbed
                                ELSE calm[t] /\ ~(s = "extract" /\ t \in Dependent)],
              [planned EXCEPT ![s] = @ /\ ~alone], target)
  /\ UNCHANGED <<stage, surfaces, plan, next, starts>>

\* Fault: the deletes are not one transaction, and the last one is refused.
ClearTableByTable(c) ==
  /\ pc[c] = "clear"
  /\ IF Removable(stage[c]) THEN Cleared(c)
     ELSE /\ Leave(c)
          /\ db' = Without(stage[c]) \union Of(db, "surfaces")
          /\ UNCHANGED <<calm, planned, target>>
  /\ UNCHANGED <<knownRun, imported>>

\* The deletes of a stage and their commit; refused, they are rolled back.
Clear(c) ==
  /\ pc[c] = "clear"
  /\ IF Removable(stage[c]) THEN Cleared(c)
     ELSE Leave(c) /\ UNCHANGED <<db, calm, planned, target>>
  /\ UNCHANGED <<knownRun, imported>>

\* The plan is computed.  The first of a rebuild sets its target.
Plan(c, rows) ==
  LET s == stage[c] IN
  /\ plan' = [plan EXCEPT ![c] = rows]
  /\ pc' = [pc EXCEPT ![c] = "insert"]
  /\ surfaces' = [surfaces EXCEPT ![c] = {}]
  /\ Remember([calm EXCEPT ![s] = @ /\ (planned[s] => target[s] = rows)],
              [planned EXCEPT ![s] = TRUE], [target EXCEPT ![s] = rows])
  /\ UNCHANGED <<database, stage, next, starts, imported>>

LoadDocuments(c) ==
  /\ pc[c] = "load" /\ stage[c] = "extract"
  /\ Plan(c, EvidencePlan({row.id[1] : row \in Of(db, "jd_documents")}))

LoadSurfaces(c) ==
  /\ pc[c] = "load" /\ stage[c] = "relations"
  /\ surfaces' = [surfaces EXCEPT ![c] = Of(db, "surfaces")]
  /\ pc' = [pc EXCEPT ![c] = "evidence"]
  /\ UNCHANGED <<database, stage, plan, next, starts, history>>

\* The mentions of aliases are looked up after the surfaces were loaded.
FindEvidence(c) ==
  /\ pc[c] = "evidence"
  /\ Plan(c, RelationPlan(surfaces[c], AliasesWithEvidence(db, surfaces[c])))

LoadMentions(c) ==
  /\ pc[c] = "load" /\ stage[c] = "edges"
  /\ Plan(c, EdgePlan(db))

\* A concept's document frequency is counted when it is inserted.
Filled(row) ==
  IF row.table = "concepts" THEN Counted(row, ConceptDf(db, row)) ELSE row

Acceptable(row) == Key(row) \notin Keys(db) /\ row.refs \subseteq Keys(db)

Insert(c) ==
  LET row == plan[c][next[c]] IN
  /\ pc[c] = "insert" /\ next[c] =< Len(plan[c])
  /\ IF Acceptable(row)
     THEN /\ db' = db \union {Filled(row)}
          /\ next' = [next EXCEPT ![c] = @ + 1]
          /\ UNCHANGED <<stage, pc, surfaces, plan, starts>>
     ELSE Leave(c) /\ UNCHANGED db
  /\ UNCHANGED <<knownRun, history>>

\* The build event.  build-relations goes on with co-occurrence.
Finish(c) ==
  /\ pc[c] = "insert" /\ next[c] > Len(plan[c])
  /\ IF stage[c] = "relations" THEN Enter(c, "edges", "clear") ELSE Leave(c)
  /\ UNCHANGED <<database, history>>

\* probe-cts schedules a surface.
AddProbeJob(text) ==
  /\ Cardinality(Of(db, "probe_jobs")) < MaxJobs
  /\ SurfaceKey(text) \in Keys(db)
  /\ db' = db \union {ProbeJob(text)}
  /\ UNCHANGED <<knownRun, commands, history>>

Run(c) ==
  \/ \E f \in Files : Start(c, "import", f)
  \/ Start(c, "extract", <<>>)
  \/ Start(c, "relations", <<>>)
  \/ EnsureRun(c)
  \/ ReadLine(c) \/ InsertDocument(c) \/ EndImport(c)
  \/ Clear(c) \/ LoadDocuments(c) \/ LoadSurfaces(c) \/ FindEvidence(c)
  \/ LoadMentions(c) \/ Insert(c) \/ Finish(c)
  \/ Kill(c)

Next == (\E c \in Commands : Run(c)) \/ (\E t \in Texts : AddProbeJob(t))

Spec == Init /\ [][Next]_vars

-----------------------------------------------------------------------------
\* Every document was counted by exactly one import, and none is counted that
\* is not there, however imports of the same files overlap or are killed; and
\* an import has put in, or found, all good lines it is through with.
ImportsAddUp ==
  /\ \A jd \in Jds : imported[jd] = IF Document(jd) \in db THEN 1 ELSE 0
  /\ \A c \in Commands : stage[c] = "import" =>
       \A k \in 1 .. next[c] - 1 : plan[c][k] # BadLine => Document(plan[c][k]) \in db

\* Why: a line that is about to be inserted is good, and a row with the key of a
\* document is that document.
ImportsInv ==
  /\ imported \in [Jds -> Nat]
  /\ next \in [Commands -> Nat \ {0}]
  /\ plan = [c \in Commands |-> plan[c]]
  /\ \A c \in Commands :
       /\ pc[c] \in {"off", "ensure"} => next[c] = 1
       /\ stage[c] = "import" => plan[c] \in Seq(Jds \union {BadLine})
       /\ pc[c] = "insert_document" =>
            next[c] =< Len(plan[c]) /\ plan[c][next[c]] # BadLine
  /\ \A row \in Of(db, "jd_documents") : \E jd \in Jds : row = Document(jd)
  /\ ImportsAddUp

\* Extractions may overlap and make each other fail: when none is at work any
\* more, none was killed and they read the same documents, the surfaces are
\* those that are mentioned, with the frequencies of the mentions, and the
\* documents that have sections have all of them, with all their mentions.
EvidenceAgrees ==
  calm["extract"] /\ Rebuilders("extract") = {} =>
    LET mentions == Of(db, "keyword_mentions")
        sections == Of(db, "jd_sections")
        OfText(t) == {m \in mentions : m.text = t}
    IN
    /\ \A t \in Texts : OfText(t) # {} => SurfaceKey(t) \in Keys(db)
    /\ \A row \in Of(db, "surfaces") :
         /\ row.tf = Cardinality(OfText(row.id[1])) /\ row.tf > 0
         /\ row.df = Cardinality({m.jd : m \in OfText(row.id[1])})
    /\ \A jd \in {row.id[1] : row \in sections} : \A i \in DOMAIN SectionsOf[jd] :
         /\ SectionKey(jd, i) \in Keys(sections)
         /\ \A t \in Texts :
              Cardinality({m \in OfText(t) : m.section = <<jd, i>>})
                = Cardinality({k \in DOMAIN SectionsOf[jd][i].candidates :
                                 SectionsOf[jd][i].candidates[k] = t})

\* The evidence that goes with surfaces somebody refers to stays: rows of
\* extraction vanish only when no concept, relation, edge or probe job refers
\* to a surface any more.
EvidenceKept ==
  [][\A row \in db \ db' :
       row.table \in TablesOf["extract"] =>
         \A other \in db' : \A t \in Texts : SurfaceKey(t) \notin other.refs]_vars

\* Once build-relations has run with no extraction in between, what it made
\* agrees with the surfaces for as long as it is there: every query-safe
\* surface is in one concept, none is in two, related surfaces are in the same,
\* and, after an extraction that was calm too, a concept is mentioned in as many
\* documents as its members together.
GraphAgrees ==
  calm["relations"] /\ Rebuilders("relations") = {} =>
    LET memberships == Of(db, "concept_surfaces")
        ConceptsOf(t) == {m.id[1] : m \in {m \in memberships : m.id[2] = t}}
    IN
    /\ \A row \in Of(db, "surfaces") :
         LET t == row.id[1] IN
         Cardinality(ConceptsOf(t)) \in IF t \in QuerySafe THEN {1} ELSE {0, 1}
    /\ \A r \in Of(db, "surface_relations") : ConceptsOf(r.id[2]) = ConceptsOf(r.id[3])
    /\ \A k \in Of(db, "concepts") :
         /\ k.id[1] \in QuerySafe /\ k.id[1] \in k.members
         /\ k.members = {t \in Texts : k.id[1] \in ConceptsOf(t)}
         /\ calm["extract"] =>
              k.df = Cardinality({m.jd : m \in {m \in Of(db, "keyword_mentions") :
                                                   m.text \in k.members}})

\* Whatever state of the mentions a co-occurrence step has read, the counts of
\* an edge are those of sets of windows: what is in both is in each, and the
\* windows of the two together are no more than there are.
EdgesCounted ==
  \A e \in Of(db, "cooccurrence_edges") :
    /\ 0 < e.counts.both /\ e.counts.both =< e.counts.a /\ e.counts.both =< e.counts.b
    /\ e.counts.a + e.counts.b - e.counts.both =< e.counts.all

\* Rows as Rebuild sees them: before a concept is counted.
Planned(row) == IF row.table = "concepts" THEN Counted(row, 0) ELSE row

RowsOf(s) == {Planned(row) : row \in {row \in db : row.table \in TablesOf[s]}}

StateOf(s, c) ==
  IF c \notin Rebuilders(s) THEN "idle"
  ELSE IF pc[c] = "insert" THEN "inserting" ELSE "loading"

RefsIn(s, row) == {key \in row.refs : key[1] \in TablesOf[s]}

PositionOf(s, c) == IF c \in Rebuilders(s) THEN next[c] ELSE 1

StatesOf(s) == [c \in Commands |-> StateOf(s, c)]
PositionsOf(s) == [c \in Commands |-> PositionOf(s, c)]

Extraction == INSTANCE Rebuild WITH
  Workers <- Commands, Refs <- LAMBDA row : RefsIn("extract", row),
  present <- RowsOf("extract"), state <- StatesOf("extract"),
  next <- PositionsOf("extract"), target <- target["extract"],
  planned <- planned["extract"], calm <- calm["extract"]

Relations == INSTANCE Rebuild WITH
  Workers <- Commands, Refs <- LAMBDA row : RefsIn("relations", row),
  present <- RowsOf("relations"), state <- StatesOf("relations"),
  next <- PositionsOf("relations"), target <- target["relations"],
  planned <- planned["relations"], calm <- calm["relations"]

Edges == INSTANCE Rebuild WITH
  Workers <- Commands, Refs <- LAMBDA row : RefsIn("edges", row),
  present <- RowsOf("edges"), state <- StatesOf("edges"),
  next <- PositionsOf("edges"), target <- target["edges"],
  planned <- planned["edges"], calm <- calm["edges"]

\* What a stage makes anew is chained, and counted only when it is inserted.
Fits(s, rows) ==
  /\ rows \in Seq({rows[k] : k \in DOMAIN rows})
  /\ \A k \in 1 .. Len(rows) : rows[k].table \in TablesOf[s] /\ Planned(rows[k]) = rows[k]
  /\ \/ s = "extract" /\ Extraction!Chained(rows)
     \/ s = "relations" /\ Relations!Chained(rows)
     \/ s = "edges" /\ Edges!Chained(rows)

\* The rows that a command inserts fit its stage, and while its rebuild is calm
\* what they refer to in other tables is there.
PlansFit ==
  \A c \in Commands : pc[c] = "insert" =>
    /\ Fits(stage[c], plan[c])
    /\ calm[stage[c]] => \A k \in 1 .. Len(plan[c]) :
         plan[c][k].refs \ RefsIn(stage[c], plan[c][k]) \subseteq Keys(db)

\* Where a command stands tells what it works on and what it keeps in memory,
\* and the rows it has planned are such that the database can take them.
TypeOK ==
  /\ \A row \in db : row.table \in Tables
  /\ knownRun \in BOOLEAN
  /\ stage \in [Commands -> Stages \union {"import", "none"}]
  /\ pc \in [Commands -> Places]
  /\ starts \in 0 .. MaxStarts
  /\ calm \in [Stages -> BOOLEAN] /\ planned \in [Stages -> BOOLEAN]
  /\ \A c \in Commands :
       /\ pc[c] = "off" <=> stage[c] = "none"
       /\ stage[c] # "import" /\ pc[c] # "insert" => plan[c] = <<>>
       /\ pc[c] # "evidence" => surfaces[c] = {}
       /\ next[c] \in 1 .. Len(plan[c]) + 1
  /\ PlansFit

\* Each of the three stages rebuilds its tables as Rebuild says: what commands
\* plan is chained, so overlapping commands that nobody kills leave all rows.
RebuildsImplemented == Extraction!Spec /\ Relations!Spec /\ Edges!Spec

=============================================================================
