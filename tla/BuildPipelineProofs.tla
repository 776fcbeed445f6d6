------------------------ MODULE BuildPipelineProofs ------------------------
(***************************************************************************)
(* Proofs about the commands that fill the build database, for any number  *)
(* of commands, documents, texts and files.  In this order: where commands *)
(* stand and what they remember; the plans, computed with the operators of *)
(* BuildPlans, are such that their rows can be inserted one by one; the    *)
(* inductive invariant, which says that no other command can spoil a plan  *)
(* unnoticed; what follows from it; that each stage rebuilds its tables as *)
(* Rebuild says; and what a calm rebuild therefore leaves in them.         *)
(***************************************************************************)
EXTENDS BuildPipeline, LexOrderProofs, SequenceTheorems, TLAPS

\* A stage as Rebuild sees it.
R(s) == INSTANCE Rebuild WITH
  Workers <- Commands, Refs <- LAMBDA row : RefsIn(s, row),
  present <- RowsOf(s), state <- StatesOf(s), next <- PositionsOf(s),
  target <- target[s], planned <- planned[s], calm <- calm[s]

-----------------------------------------------------------------------------
(* Where commands stand.                                                   *)

\* The place of a command tells what kind of stage it works on.
PlaceInv ==
  /\ stage \in [Commands -> Stages \union {"import", "none"}]
  /\ pc \in [Commands -> Places]
  /\ \A c \in Commands :
       /\ pc[c] \in {"clear"} \union Rebuilding => stage[c] \in Stages
       /\ pc[c] = "ensure" => stage[c] # "none"
       /\ pc[c] \in {"line", "insert_document"} => stage[c] = "import"

LEMMA StagesAre == Stages = {"extract", "relations", "edges"}
BY DEF Stages, TablesOf

\* No table belongs to two stages, and those of other commands to none.
LEMMA TablesDisjoint ==
  ASSUME NEW s \in Stages
  PROVE  /\ \A t \in Stages : t # s => TablesOf[s] \intersect TablesOf[t] = {}
         /\ {"jd_documents", "probe_jobs"} \intersect TablesOf[s] = {}
BY StagesAre DEF TablesOf

\* A command changes only its own place.
LEMMA OnlyOwn ==
  ASSUME PlaceInv, NEW c \in Commands, Run(c), NEW d \in Commands, d # c
  PROVE  /\ pc'[d] = pc[d] /\ stage'[d] = stage[d]
BY Zenon DEF PlaceInv, Run, Start, EnsureRun, ReadLine, InsertDocument, EndImport, Clear,
   Cleared, LoadDocuments, LoadSurfaces, FindEvidence, LoadMentions, Plan, Insert, Finish,
   Kill, Leave, Enter

LEMMA PlaceStep ==
  ASSUME PlaceInv, [Next]_vars
  PROVE  PlaceInv'
<1>1. ASSUME NEW c \in Commands, Run(c)
      PROVE  PlaceInv'
  <2> DEFINE Typed == /\ stage' \in [Commands -> Stages \union {"import", "none"}]
                      /\ pc' \in [Commands -> Places]
             Fitting == /\ pc'[c] \in {"clear"} \union Rebuilding => stage'[c] \in Stages
                        /\ pc'[c] = "ensure" => stage'[c] # "none"
                        /\ pc'[c] \in {"line", "insert_document"} => stage'[c] = "import"
  <2> SUFFICES Typed /\ Fitting
    BY <1>1, OnlyOwn DEF PlaceInv
  <2>1. ASSUME NEW s \in {"import", "extract", "relations"}, NEW file, Start(c, s, file)
        PROVE  Typed /\ Fitting
    BY <2>1, StagesAre DEF PlaceInv, Start, First, Places, Rebuilding
  <2>2. CASE EnsureRun(c)
    BY <2>2, StagesAre DEF PlaceInv, EnsureRun, Leave, Enter, First, Places, Rebuilding
  <2>3. CASE ReadLine(c) \/ InsertDocument(c) \/ EndImport(c)
    BY <2>3, StagesAre
       DEF PlaceInv, ReadLine, InsertDocument, EndImport, Leave, Enter, Places, Rebuilding
  <2>4. CASE Clear(c)
    BY <2>4, StagesAre DEF PlaceInv, Clear, Cleared, Leave, Enter, Places, Rebuilding
  <2>5. CASE LoadDocuments(c) \/ LoadSurfaces(c) \/ FindEvidence(c) \/ LoadMentions(c)
    BY <2>5, StagesAre
       DEF PlaceInv, LoadDocuments, LoadSurfaces, FindEvidence, LoadMentions, Plan, Places,
           Rebuilding
  <2>6. CASE Insert(c)
    BY <2>6, StagesAre DEF PlaceInv, Insert, Leave, Enter, Places, Rebuilding
  <2>7. CASE Finish(c)
    BY <2>7, StagesAre DEF PlaceInv, Finish, Leave, Enter, Places, Rebuilding
  <2>8. CASE Kill(c)
    BY <2>8, StagesAre DEF PlaceInv, Kill, Leave, Enter, Places, Rebuilding
  <2>9. \/ \E s \in {"import", "extract", "relations"} : \E file : Start(c, s, file)
        \/ EnsureRun(c)
        \/ ReadLine(c) \/ InsertDocument(c) \/ EndImport(c)
        \/ Clear(c)
        \/ LoadDocuments(c) \/ LoadSurfaces(c) \/ FindEvidence(c) \/ LoadMentions(c)
        \/ Insert(c) \/ Finish(c) \/ Kill(c)
    BY <1>1 DEF Run
  <2> HIDE DEF Typed, Fitting
  <2> QED
    BY <2>1, <2>2, <2>3, <2>4, <2>5, <2>6, <2>7, <2>8, <2>9
<1>2. ASSUME NEW t \in Texts, AddProbeJob(t)
      PROVE  PlaceInv'
  BY <1>2 DEF PlaceInv, AddProbeJob, commands
<1>3. CASE UNCHANGED vars
  BY <1>3 DEF PlaceInv, vars, commands
<1> QED
  BY <1>1, <1>2, <1>3 DEF Next

\* A command that clears, loads or inserts works on a stage; one that reads lines
\* imports.
THEOREM PlaceInvariant == Spec => []PlaceInv
<1>1. Init => PlaceInv
  BY DEF Init, PlaceInv, Places, Rebuilding
<1> QED
  BY <1>1, PlaceStep, PTL DEF Spec

-----------------------------------------------------------------------------
(* What becomes of rows.                                                   *)

\* Only clearing takes rows away.
LEMMA RowsStay ==
  ASSUME [Next]_vars, \A c \in Commands : ~(Clear(c) /\ Removable(stage[c]))
  PROVE  db \subseteq db'
<1>1. ASSUME NEW c \in Commands, Run(c)
      PROVE  db \subseteq db'
  BY <1>1 DEF Run, Start, EnsureRun, ReadLine, InsertDocument, EndImport, Clear,
              LoadDocuments, LoadSurfaces, FindEvidence, LoadMentions, Plan, Insert,
              Finish, Kill, Leave, Enter, database
<1> QED
  BY <1>1 DEF Next, AddProbeJob, vars, database

\* Rows of extraction vanish only when nothing refers to a surface any more,
\* whoever is killed and however commands overlap.
THEOREM EvidenceIsKept == Spec => EvidenceKept
<1>1. ASSUME PlaceInv, [Next]_vars, NEW row \in db, row \notin db',
             row.table \in TablesOf["extract"],
             NEW other \in db', NEW t \in Texts
      PROVE  SurfaceKey(t) \notin other.refs
  <2>1. PICK c \in Commands : Clear(c) /\ Removable(stage[c])
    BY <1>1, RowsStay
  <2>2. stage[c] \in Stages /\ db' = Without(stage[c])
    BY <1>1, <2>1 DEF Clear, Cleared, PlaceInv
  <2>3. row.table \in TablesOf[stage[c]]
    BY <1>1, <2>2 DEF Without
  <2>4. stage[c] = "extract"
    BY <1>1, <2>2, <2>3, TablesDisjoint, StagesAre
  <2>5. other.refs \subseteq Keys(db')
    BY <2>1, <2>2 DEF Removable
  <2>6. \A key \in Keys(db') : key[1] \notin TablesOf["extract"]
    BY <2>2, <2>4 DEF Keys, Key, Without
  <2>7. SurfaceKey(t)[1] \in TablesOf["extract"]
    BY DEF SurfaceKey, TablesOf
  <2> QED
    BY <2>5, <2>6, <2>7
<1>2. PlaceInv /\ [Next]_vars =>
        [\A row \in db \ db' :
           row.table \in TablesOf["extract"] =>
             \A other \in db' : \A t \in Texts : SurfaceKey(t) \notin other.refs]_vars
  BY <1>1
<1> QED
  BY <1>2, PlaceInvariant, PTL DEF Spec, EvidenceKept

-----------------------------------------------------------------------------
(* The invariant that ties what commands keep in memory to the history.    *)

HistoryInv ==
  /\ calm \in [Stages -> BOOLEAN]
  /\ planned \in [Stages -> BOOLEAN]
  /\ target = [s \in Stages |-> target[s]]
  /\ \A s \in Stages : (planned[s] => calm[s]) /\ (~planned[s] => target[s] = <<>>)

\* While a rebuild is calm, all that insert have the same plan.
MemoryInv ==
  /\ next \in [Commands -> Nat \ {0}]
  /\ plan = [c \in Commands |-> plan[c]]
  /\ \A c \in Commands :
       /\ pc[c] \notin {"line", "insert_document", "insert"} => next[c] = 1
       /\ pc[c] = "insert" => next[c] =< Len(plan[c]) + 1
       /\ pc[c] = "insert" /\ calm[stage[c]] =>
            planned[stage[c]] /\ plan[c] = target[stage[c]]

\* What Remember leaves.
LEMMA Remembered ==
  ASSUME HistoryInv,
         NEW a \in [Stages -> BOOLEAN], NEW b \in [Stages -> BOOLEAN], NEW d,
         Remember(a, b, d)
  PROVE  /\ HistoryInv'
         /\ \A s \in Stages :
              /\ calm'[s] <=> a[s]
              /\ planned'[s] <=> a[s] /\ b[s]
              /\ target'[s] = IF planned'[s] THEN d[s] ELSE <<>>
<1>1. /\ calm' = a
      /\ planned' = [s \in Stages |-> a[s] /\ b[s]]
      /\ target' = [s \in Stages |-> IF planned'[s] THEN d[s] ELSE <<>>]
  BY DEF Remember
<1>2. \A s \in Stages : planned'[s] <=> a[s] /\ b[s]
  BY <1>1
<1>3. \A s \in Stages : target'[s] = IF planned'[s] THEN d[s] ELSE <<>>
  BY <1>1
<1>4. target' = [s \in Stages |-> target'[s]]
  BY <1>1, Zenon
<1>5. HistoryInv'
  BY <1>1, <1>2, <1>3, <1>4 DEF HistoryInv
<1> QED
  BY <1>1, <1>2, <1>3, <1>5

LEMMA SameHistory ==
  ASSUME HistoryInv, UNCHANGED <<calm, planned, target>>
  PROVE  HistoryInv'
BY DEF HistoryInv

\* How the three operations on the history act on each stage.
LEMMA KillHistory ==
  ASSUME HistoryInv, NEW c \in Commands, Kill(c)
  PROVE  /\ HistoryInv'
         /\ \A s \in Stages : calm'[s] =>
              calm[s] /\ c \notin Rebuilders(s)
                /\ (planned'[s] <=> planned[s]) /\ target'[s] = target[s]
<1> DEFINE a == [s \in Stages |-> calm[s] /\ c \notin Rebuilders(s)]
<1>1. a \in [Stages -> BOOLEAN] /\ planned \in [Stages -> BOOLEAN]
  BY DEF HistoryInv
<1>2. Remember(a, planned, target)
  BY DEF Kill
<1>3. \A s \in Stages : a[s] = (calm[s] /\ c \notin Rebuilders(s))
  OBVIOUS
<1> HIDE DEF a
<1> QED
  BY <1>1, <1>2, <1>3, Remembered DEF HistoryInv

LEMMA ClearHistory ==
  ASSUME HistoryInv, NEW c \in Commands, stage[c] \in Stages, Cleared(c)
  PROVE  /\ HistoryInv'
         /\ \A s \in Stages : calm'[s] =>
              \/ s # stage[c] /\ calm[s] /\ (planned'[s] <=> planned[s]) /\ target'[s] = target[s]
                   /\ ~(stage[c] = "extract" /\ s \in Dependent)
              \/ s = stage[c] /\ Rebuilders(s) = {} /\ ~planned'[s]
              \/ s = stage[c] /\ Rebuilders(s) # {} /\ calm[s]
                   /\ (planned'[s] <=> planned[s]) /\ target'[s] = target[s]
<1> DEFINE t == stage[c]
           alone == Rebuilders(t) = {}
           undisturbed == IF alone THEN t = "extract" \/ Rebuilders("extract") = {} ELSE calm[t]
           a == [s \in Stages |-> IF s = t THEN undisturbed
                                  ELSE calm[s] /\ ~(t = "extract" /\ s \in Dependent)]
           b == [planned EXCEPT ![t] = @ /\ ~alone]
<1>1. Remember(a, b, target)
  BY DEF Cleared
<1>2. a \in [Stages -> BOOLEAN] /\ b \in [Stages -> BOOLEAN]
  BY DEF HistoryInv
<1>3. \A s \in Stages :
        /\ a[s] <=> IF s = t THEN undisturbed
                    ELSE calm[s] /\ ~(t = "extract" /\ s \in Dependent)
        /\ b[s] <=> planned[s] /\ (s = t => ~alone)
  BY DEF HistoryInv
<1> HIDE DEF a, b
<1>4. /\ HistoryInv'
      /\ \A s \in Stages :
           /\ calm'[s] <=> a[s]
           /\ planned'[s] <=> a[s] /\ b[s]
           /\ target'[s] = IF planned'[s] THEN target[s] ELSE <<>>
  BY <1>1, <1>2, Remembered
<1> QED
  BY <1>3, <1>4 DEF HistoryInv

LEMMA PlanHistory ==
  ASSUME HistoryInv, NEW c \in Commands, stage[c] \in Stages, NEW rows, Plan(c, rows)
  PROVE  /\ HistoryInv'
         /\ \A s \in Stages : s # stage[c] =>
              /\ calm'[s] <=> calm[s]
              /\ planned'[s] <=> planned[s]
              /\ target'[s] = target[s]
         /\ calm'[stage[c]] =>
              /\ calm[stage[c]] /\ planned'[stage[c]] /\ target'[stage[c]] = rows
              /\ planned[stage[c]] => target[stage[c]] = rows
<1> DEFINE t == stage[c]
           a == [calm EXCEPT ![t] = @ /\ (planned[t] => target[t] = rows)]
           b == [planned EXCEPT ![t] = TRUE]
           d == [target EXCEPT ![t] = rows]
<1>1. Remember(a, b, d)
  BY DEF Plan
<1>2. a \in [Stages -> BOOLEAN] /\ b \in [Stages -> BOOLEAN]
  BY DEF HistoryInv
<1>3. \A s \in Stages :
        /\ a[s] <=> calm[s] /\ (s = t /\ planned[t] => target[t] = rows)
        /\ b[s] <=> planned[s] \/ s = t
        /\ d[s] = IF s = t THEN rows ELSE target[s]
  BY DEF HistoryInv
<1> HIDE DEF a, b, d
<1>4. /\ HistoryInv'
      /\ \A s \in Stages :
           /\ calm'[s] <=> a[s]
           /\ planned'[s] <=> a[s] /\ b[s]
           /\ target'[s] = IF planned'[s] THEN d[s] ELSE <<>>
  BY <1>1, <1>2, Remembered
<1> QED
  BY <1>3, <1>4 DEF HistoryInv

\* What a command does to its own memory.
LEMMA OwnMemory ==
  ASSUME PlaceInv, MemoryInv, NEW c \in Commands, Run(c)
  PROVE  /\ next' \in [Commands -> Nat \ {0}]
         /\ plan' = [d \in Commands |-> plan'[d]]
         /\ \A d \in Commands : d # c => next'[d] = next[d] /\ plan'[d] = plan[d]
<1>1. CASE UNCHANGED <<plan, next>>
  BY <1>1 DEF MemoryInv
<1>2. CASE plan' = plan /\ next' = [next EXCEPT ![c] = @ + 1]
  <2>1. next \in [Commands -> Nat \ {0}] /\ next[c] + 1 \in Nat \ {0}
    BY DEF MemoryInv
  <2>2. /\ next' \in [Commands -> Nat \ {0}]
        /\ \A d \in Commands : d # c => next'[d] = next[d]
    BY <1>2, <2>1
  <2> QED
    BY <1>2, <2>2 DEF MemoryInv
<1>3. ASSUME NEW rows, plan' = [plan EXCEPT ![c] = rows], next' = next
      PROVE  /\ next' \in [Commands -> Nat \ {0}]
             /\ plan' = [d \in Commands |-> plan'[d]]
             /\ \A d \in Commands : d # c => next'[d] = next[d] /\ plan'[d] = plan[d]
  BY <1>3 DEF MemoryInv
<1>4. CASE plan' = [plan EXCEPT ![c] = <<>>] /\ next' = [next EXCEPT ![c] = 1]
  <2>1. /\ plan' = [d \in Commands |-> plan'[d]]
        /\ \A d \in Commands : d # c => plan'[d] = plan[d]
    BY <1>4 DEF MemoryInv
  <2>2. /\ next' \in [Commands -> Nat \ {0}]
        /\ \A d \in Commands : d # c => next'[d] = next[d]
    BY <1>4 DEF MemoryInv
  <2> QED
    BY <2>1, <2>2
<1>5. \/ UNCHANGED <<plan, next>>
      \/ plan' = plan /\ next' = [next EXCEPT ![c] = @ + 1]
      \/ (\E rows : plan' = [plan EXCEPT ![c] = rows]) /\ next' = next
      \/ plan' = [plan EXCEPT ![c] = <<>>] /\ next' = [next EXCEPT ![c] = 1]
  BY DEF Run, Start, EnsureRun, ReadLine, InsertDocument, EndImport, Clear, Cleared,
         LoadDocuments, LoadSurfaces, FindEvidence, LoadMentions, Plan, Insert, Finish,
         Kill, Leave, Enter
<1> QED
  BY <1>1, <1>2, <1>3, <1>4, <1>5

\* Where a command that has just moved stands in what it does.
LEMMA OwnPosition ==
  ASSUME PlaceInv, MemoryInv, PlansFit, PlansFit', NEW c \in Commands, Run(c)
  PROVE  /\ pc'[c] \notin {"line", "insert_document", "insert"} => next'[c] = 1
         /\ pc'[c] = "insert" => next'[c] =< Len(plan'[c]) + 1
<1>1. CASE pc'[c] = "insert" /\ pc[c] # "insert"
  <2>1. next'[c] = 1
    BY <1>1
       DEF PlaceInv, MemoryInv, Run, Start, EnsureRun, ReadLine, InsertDocument, EndImport,
           Clear, Cleared, LoadDocuments, LoadSurfaces, FindEvidence, LoadMentions, Plan,
           Insert, Finish, Kill, Leave, Enter, First
  <2>2. Len(plan'[c]) \in Nat
    BY <1>1 DEF PlansFit, Fits
  <2> QED
    BY <1>1, <2>1, <2>2
<1>2. CASE pc'[c] = "insert" /\ pc[c] = "insert"
  <2>1. Insert(c) /\ plan' = plan /\ next' = [next EXCEPT ![c] = @ + 1]
    BY <1>2
       DEF PlaceInv, MemoryInv, Run, Start, EnsureRun, ReadLine, InsertDocument, EndImport,
           Clear, Cleared, LoadDocuments, LoadSurfaces, FindEvidence, LoadMentions, Plan,
           Insert, Finish, Kill, Leave, Enter, First
  <2>2. Len(plan[c]) \in Nat
    BY <1>2 DEF PlansFit, Fits
  <2> QED
    BY <1>2, <2>1, <2>2 DEF Insert, MemoryInv
<1>3. CASE pc'[c] # "insert"
  BY <1>3
     DEF PlaceInv, MemoryInv, Run, Start, EnsureRun, ReadLine, InsertDocument, EndImport,
         Clear, Cleared, LoadDocuments, LoadSurfaces, FindEvidence, LoadMentions, Plan,
         Insert, Finish, Kill, Leave, Enter, First
<1> QED
  BY <1>1, <1>2, <1>3

\* A command is killed, clears its tables, plans, or leaves the history alone.
LEMMA Kinds ==
  ASSUME PlaceInv, NEW c \in Commands, Run(c)
  PROVE  \/ Kill(c)
         \/ pc[c] = "clear" /\ Cleared(c)
         \/ \E rows : pc[c] \in {"load", "evidence"} /\ Plan(c, rows)
         \/ /\ UNCHANGED <<calm, planned, target>>
            /\ pc'[c] = "insert" => pc[c] = "insert" /\ UNCHANGED <<stage, plan>>
<1>1. CASE \/ \E f \in Files : Start(c, "import", f)
           \/ Start(c, "extract", <<>>) \/ Start(c, "relations", <<>>)
           \/ EnsureRun(c) \/ ReadLine(c) \/ InsertDocument(c) \/ EndImport(c)
           \/ LoadSurfaces(c) \/ Insert(c) \/ Finish(c)
  BY <1>1 DEF Start, EnsureRun, ReadLine, InsertDocument, EndImport, LoadSurfaces, Insert,
              Finish, Leave, Enter, history, First, PlaceInv
<1>2. CASE Clear(c)
  BY <1>2 DEF Clear, Leave, Enter, PlaceInv
<1>3. CASE LoadDocuments(c) \/ FindEvidence(c) \/ LoadMentions(c)
  BY <1>3 DEF LoadDocuments, FindEvidence, LoadMentions
<1> QED
  BY <1>1, <1>2, <1>3 DEF Run

PipelineInv == PlaceInv /\ HistoryInv /\ MemoryInv

LEMMA RunPreserves ==
  ASSUME PipelineInv, PlansFit, PlansFit', NEW c \in Commands, Run(c)
  PROVE  PipelineInv'
<1> USE DEF PipelineInv
<1>1. PlaceInv'
  BY PlaceStep DEF Next
<1>2. /\ HistoryInv'
      /\ \A d \in Commands : pc'[d] = "insert" /\ calm'[stage'[d]] =>
           planned'[stage'[d]] /\ plan'[d] = target'[stage'[d]]
  <2>0. /\ stage \in [Commands -> Stages \union {"import", "none"}]
        /\ \A d \in Commands : pc[d] = "insert" => stage[d] \in Stages
        /\ \A d \in Commands : pc[d] = "insert" /\ calm[stage[d]] =>
             planned[stage[d]] /\ plan[d] = target[stage[d]]
        /\ \A d \in Commands : d # c =>
             pc'[d] = pc[d] /\ stage'[d] = stage[d] /\ plan'[d] = plan[d]
    BY OnlyOwn, OwnMemory DEF PlaceInv, MemoryInv, Rebuilding
  <2>1. CASE Kill(c)
    <3>1. pc'[c] = "off"
      BY <2>1 DEF Kill, Leave, Enter, PlaceInv
    <3> QED
      BY <2>0, <2>1, <3>1, KillHistory
  <2>2. CASE pc[c] = "clear" /\ Cleared(c)
    <3>1. pc'[c] = "load" /\ stage[c] \in Stages
      BY <2>2 DEF Cleared, PlaceInv
    <3>2. \A d \in Commands : pc[d] = "insert" => d \in Rebuilders(stage[d])
      BY DEF Rebuilders, Rebuilding
    <3> QED
      BY <2>0, <2>2, <3>1, <3>2, ClearHistory
  <2>3. ASSUME NEW rows, pc[c] \in {"load", "evidence"}, Plan(c, rows)
        PROVE  /\ HistoryInv'
               /\ \A d \in Commands : pc'[d] = "insert" /\ calm'[stage'[d]] =>
                    planned'[stage'[d]] /\ plan'[d] = target'[stage'[d]]
    <3>1. /\ stage[c] \in Stages /\ stage' = stage /\ plan'[c] = rows
          /\ pc'[c] = "insert"
      BY <2>3 DEF Plan, PlaceInv, MemoryInv, Rebuilding
    <3>2. ASSUME NEW d \in Commands, pc'[d] = "insert", calm'[stage'[d]]
          PROVE  planned'[stage'[d]] /\ plan'[d] = target'[stage'[d]]
      <4>1. CASE d = c
        BY <2>3, <3>1, <3>2, <4>1, PlanHistory
      <4>2. CASE d # c /\ stage[d] = stage[c]
        BY <2>0, <2>3, <3>1, <3>2, <4>2, PlanHistory
      <4>3. CASE d # c /\ stage[d] # stage[c]
        <5>1. stage[d] \in Stages /\ pc[d] = "insert"
          BY <2>0, <3>2, <4>3
        <5> QED
          BY <2>0, <2>3, <3>1, <3>2, <4>3, <5>1, PlanHistory
      <4> QED
        BY <4>1, <4>2, <4>3
    <3> QED
      BY <2>3, <3>1, <3>2, PlanHistory
  <2>4. CASE /\ UNCHANGED <<calm, planned, target>>
             /\ pc'[c] = "insert" => pc[c] = "insert" /\ UNCHANGED <<stage, plan>>
    <3>1. \A d \in Commands : pc'[d] = "insert" =>
            pc[d] = "insert" /\ stage'[d] = stage[d] /\ plan'[d] = plan[d]
      BY <2>0, <2>4
    <3> QED
      BY <2>0, <2>4, <3>1, SameHistory
  <2> QED
    BY <2>1, <2>2, <2>3, <2>4, Kinds
<1>3. MemoryInv'
  <2>1. \A d \in Commands : d # c =>
          pc'[d] = pc[d] /\ next'[d] = next[d] /\ plan'[d] = plan[d]
    BY OnlyOwn, OwnMemory
  <2>2. \A d \in Commands :
          /\ pc'[d] \notin {"line", "insert_document", "insert"} => next'[d] = 1
          /\ pc'[d] = "insert" => next'[d] =< Len(plan'[d]) + 1
    BY <2>1, OwnPosition DEF MemoryInv
  <2> QED
    BY <1>2, <2>2, OwnMemory DEF MemoryInv
<1> QED
  BY <1>1, <1>2, <1>3

LEMMA PipelineStep ==
  ASSUME PipelineInv, PlansFit, PlansFit', [Next]_vars
  PROVE  PipelineInv'
<1>1. ASSUME NEW t \in Texts, AddProbeJob(t)
      PROVE  PipelineInv'
  BY <1>1 DEF PipelineInv, PlaceInv, HistoryInv, MemoryInv, AddProbeJob, commands, history
<1>2. CASE UNCHANGED vars
  BY <1>2 DEF PipelineInv, PlaceInv, HistoryInv, MemoryInv, vars, commands, history
<1> QED
  BY <1>1, <1>2, RunPreserves DEF Next

LEMMA PipelineStart ==
  ASSUME Init
  PROVE  PipelineInv
BY DEF Init, PipelineInv, PlaceInv, HistoryInv, MemoryInv, Places, Rebuilding

-----------------------------------------------------------------------------
(* Finite sets and sequences.                                              *)

\* A function takes a finite set to a finite set that is no larger.
LEMMA FiniteImage ==
  ASSUME NEW S, IsFiniteSet(S), NEW f
  PROVE  /\ IsFiniteSet({f[x] : x \in S}) /\ Cardinality({f[x] : x \in S}) \in Nat
         /\ Cardinality(S) \in Nat /\ Cardinality({f[x] : x \in S}) =< Cardinality(S)
<1> DEFINE T == {f[x] : x \in S}
           g == [x \in S |-> f[x]]
<1>1. g \in Surjection(S, T)
  BY DEF Surjection
<1> HIDE DEF g, T
<1>2. IsFiniteSet(T) /\ Cardinality(T) =< Cardinality(S)
  BY <1>1, FS_Surjection
<1> QED
  BY <1>2, FS_CardinalityType DEF T

\* As many elements as there are in a set that is taken one to one.
LEMMA SameImage ==
  ASSUME NEW S, IsFiniteSet(S), NEW f, \A x, y \in S : f[x] = f[y] => x = y
  PROVE  Cardinality({f[x] : x \in S}) = Cardinality(S)
<1> DEFINE T == {f[x] : x \in S}
           g == [x \in S |-> f[x]]
<1>1. g \in Bijection(S, T)
  BY DEF Bijection, Injection, Surjection, IsInjective
<1>2. ExistsBijection(S, T)
  BY <1>1 DEF ExistsBijection
<1> HIDE DEF g, T
<1>3. Cardinality(T) = Cardinality(S)
  BY <1>2, FS_Bijection
<1> QED
  BY <1>3 DEF T

\* A sequence after another.
LEMMA Joined ==
  ASSUME NEW S, NEW T, NEW a \in Seq(S), NEW b \in Seq(T)
  PROVE  /\ a \o b \in Seq(S \union T)
         /\ Len(a \o b) = Len(a) + Len(b) /\ Len(a) \in Nat /\ Len(b) \in Nat
         /\ \A k \in 1 .. Len(a \o b) :
              \/ k \in 1 .. Len(a) /\ (a \o b)[k] = a[k]
              \/ k - Len(a) \in 1 .. Len(b) /\ (a \o b)[k] = b[k - Len(a)]
         /\ \A k \in 1 .. Len(a) : k \in 1 .. Len(a \o b) /\ (a \o b)[k] = a[k]
         /\ \A k \in 1 .. Len(b) :
              k + Len(a) \in 1 .. Len(a \o b) /\ (a \o b)[k + Len(a)] = b[k]
<1>1. a \in Seq(S \union T) /\ b \in Seq(S \union T)
  OBVIOUS
<1>2. /\ a \o b \in Seq(S \union T) /\ Len(a \o b) = Len(a) + Len(b)
      /\ \A k \in 1 .. Len(a) + Len(b) :
           (a \o b)[k] = IF k <= Len(a) THEN a[k] ELSE b[k - Len(a)]
  BY <1>1, ConcatProperties
<1>3. Len(a) \in Nat /\ Len(b) \in Nat
  OBVIOUS
<1> HIDE <1>1
<1> QED
  BY <1>2, <1>3

\* Of an order.
LEMMA OrderIs ==
  ASSUME NEW order, IsOrder(order)
  PROVE  /\ Len(order) \in Nat /\ DOMAIN order = 1 .. Len(order)
         /\ \A a, b \in DOMAIN order : order[a] = order[b] => a = b
         /\ ToSet(order) = {order[k] : k \in DOMAIN order}
         /\ IsFiniteSet(DOMAIN order)
         /\ IsFiniteSet(ToSet(order))
<1>1. Len(order) \in Nat /\ DOMAIN order = 1 .. Len(order)
  BY DEF IsOrder
<1>2. IsFiniteSet(DOMAIN order)
  BY <1>1, FS_Interval
<1>3. IsFiniteSet(ToSet(order))
  BY <1>2, FiniteImage DEF ToSet
<1> QED
  BY <1>1, <1>2, <1>3 DEF IsOrder, IsInjective, ToSet

\* The elements of a set, in an order, each once.
LEMMA OrderedIs ==
  ASSUME NEW order, IsOrder(order), NEW set
  PROVE  /\ Ordered(order, set) \in Seq(set \intersect ToSet(order))
         /\ \A a, b \in 1 .. Len(Ordered(order, set)) :
              Ordered(order, set)[a] = Ordered(order, set)[b] => a = b
         /\ \A x \in set \intersect ToSet(order) :
              \E a \in 1 .. Len(Ordered(order, set)) : Ordered(order, set)[a] = x
<1> DEFINE D == {k \in DOMAIN order : order[k] \in set}
           f == [k \in D |-> <<k>>]
           S == {<<k>> : k \in D}
           s == Sorted(S)
           N == Cardinality(S)
<1>1. /\ DOMAIN order = 1 .. Len(order) /\ Len(order) \in Nat
      /\ \A a, b \in DOMAIN order : order[a] = order[b] => a = b
      /\ IsFiniteSet(DOMAIN order) /\ ToSet(order) = {order[k] : k \in DOMAIN order}
  BY OrderIs
<1>2. IsFiniteSet(D)
  BY <1>1, FS_Subset
<1>3. S = {f[k] : k \in D}
  OBVIOUS
<1>4. IsFiniteSet(S)
  <2> HIDE DEF f, D, S
  <2> QED
    BY <1>2, <1>3, FiniteImage
<1>5. PICK one \in Nat : one = 1
  OBVIOUS
<1>6. \A k \in D : <<k>> \in [1 .. one -> Int] /\ <<k>>[1] = k
  BY <1>1, <1>5
<1>7. S \in SUBSET [1 .. one -> Int]
  BY <1>6
<1>8. \A x \in S : x[1] \in D /\ x = <<x[1]>>
  OBVIOUS
<1>9. Ordered(order, set) = [n \in DOMAIN s |-> order[s[n][1]]]
  BY DEF Ordered
<1> HIDE DEF f, S
<1>10. /\ N \in Nat /\ s \in [1 .. N -> S]
       /\ \A x \in S : \E k \in 1 .. N : s[k] = x
       /\ \A a, b \in 1 .. N : s[a] = s[b] => a = b
  BY SMTT(30), <1>4, <1>7, SortedIs, SortedPlaces
<1> HIDE DEF s, N
<1>11. \A n \in 1 .. N : s[n][1] \in D /\ s[n] = <<s[n][1]>>
  BY <1>8, <1>10
<1>12. \A n \in 1 .. N : order[s[n][1]] \in set \intersect ToSet(order)
  BY <1>1, <1>11
<1>13. /\ Ordered(order, set) \in Seq(set \intersect ToSet(order))
       /\ Len(Ordered(order, set)) = N
       /\ \A n \in 1 .. N : Ordered(order, set)[n] = order[s[n][1]]
  BY <1>9, <1>10, <1>12
<1>14. ASSUME NEW a \in 1 .. N, NEW b \in 1 .. N,
              order[s[a][1]] = order[s[b][1]]
       PROVE  a = b
  <2>1. s[a][1] = s[b][1]
    BY <1>1, <1>11, <1>14
  <2>2. s[a] = s[b]
    BY <1>11, <2>1, Zenon
  <2> QED
    BY <1>10, <2>2
<1>15. ASSUME NEW x \in set \intersect ToSet(order)
       PROVE  \E a \in 1 .. N : order[s[a][1]] = x
  <2>1. PICK k \in D : order[k] = x
    BY <1>1
  <2>2. <<k>> \in S
    BY DEF S
  <2>3. PICK a \in 1 .. N : s[a] = <<k>>
    BY <1>10, <2>2
  <2> QED
    BY <2>1, <2>3
<1> QED
  BY <1>13, <1>14, <1>15

-----------------------------------------------------------------------------
(* What extraction plans.                                                  *)

LEMMA JdsAre ==
  /\ Len(JdOrder) \in Nat /\ DOMAIN JdOrder = 1 .. Len(JdOrder)
  /\ \A d \in DOMAIN JdOrder : JdOrder[d] \in Jds
  /\ \A d, e \in DOMAIN JdOrder : JdOrder[d] = JdOrder[e] => d = e
  /\ \A jd \in Jds : \E d \in DOMAIN JdOrder : JdOrder[d] = jd
  /\ IsFiniteSet(DOMAIN JdOrder) /\ IsFiniteSet(Jds)
<1>1. IsOrder(JdOrder)
  BY PlansAssumption
<1> QED
  BY <1>1, OrderIs DEF Jds

LEMMA SectionsAre ==
  ASSUME NEW d \in DOMAIN JdOrder
  PROVE  /\ Len(SectionsOf[JdOrder[d]]) \in Nat
         /\ DOMAIN SectionsOf[JdOrder[d]] = 1 .. Len(SectionsOf[JdOrder[d]])
         /\ \A i \in DOMAIN SectionsOf[JdOrder[d]] :
              /\ CandidatesOf(d, i) \in Seq(Texts \union {Blocked})
              /\ Len(CandidatesOf(d, i)) \in Nat
<1>1. JdOrder[d] \in Jds
  BY JdsAre
<1>2. /\ SectionsOf[JdOrder[d]] \in Seq(ToSet(SectionsOf[JdOrder[d]]))
      /\ \A i \in DOMAIN SectionsOf[JdOrder[d]] :
           SectionsOf[JdOrder[d]][i].candidates \in Seq(Texts \union {Blocked})
  BY <1>1, PlansAssumption
<1> QED
  BY <1>2 DEF CandidatesOf

\* The items are triples of numbers, and finitely many.
LEMMA ItemsAre ==
  ASSUME NEW documents
  PROVE  /\ \A x : x \in Items(documents) <=>
              \E d \in DOMAIN JdOrder : \E i \in DOMAIN SectionsOf[JdOrder[d]] :
                \E k \in 0 .. Len(CandidatesOf(d, i)) :
                  x = <<d, i, k>> /\ JdOrder[d] \in documents
         /\ IsFiniteSet(Items(documents))
         /\ \A n \in Nat : n = 3 => Items(documents) \in SUBSET [1 .. n -> Int]
<1> DEFINE D == {d \in DOMAIN JdOrder : JdOrder[d] \in documents}
           I(d) == DOMAIN SectionsOf[JdOrder[d]]
           K(d, i) == 0 .. Len(CandidatesOf(d, i))
           inSection(d, i) == {<<d, i, k>> : k \in K(d, i)}
           inDocument(d) == UNION {inSection(d, i) : i \in I(d)}
<1>1. Items(documents) = UNION {inDocument(d) : d \in D}
  BY DEF Items
<1>2. \A x : x \in Items(documents) <=>
              \E d \in D : \E i \in I(d) : \E k \in K(d, i) : x = <<d, i, k>>
  BY <1>1
<1>3. ASSUME NEW d \in D PROVE IsFiniteSet(inDocument(d))
  <2>1. d \in DOMAIN JdOrder
    OBVIOUS
  <2>2. ASSUME NEW i \in I(d) PROVE IsFiniteSet(inSection(d, i))
    <3> DEFINE f == [k \in K(d, i) |-> <<d, i, k>>]
    <3>1. inSection(d, i) = {f[k] : k \in K(d, i)}
      OBVIOUS
    <3>2. Len(CandidatesOf(d, i)) \in Nat
      BY <2>1, SectionsAre
    <3>3. IsFiniteSet(K(d, i))
      BY <3>2, FS_Interval
    <3> HIDE DEF f, K, inSection
    <3> QED
      BY <3>1, <3>3, FiniteImage
  <2> DEFINE g == [i \in I(d) |-> inSection(d, i)]
  <2>3. {inSection(d, i) : i \in I(d)} = {g[i] : i \in I(d)}
    OBVIOUS
  <2>4. \A i \in I(d) : g[i] = inSection(d, i)
    OBVIOUS
  <2>5. IsFiniteSet(I(d))
    BY <2>1, SectionsAre, FS_Interval
  <2> HIDE DEF g, inSection, I
  <2>6. IsFiniteSet({g[i] : i \in I(d)})
    BY <2>5, FiniteImage
  <2>7. \A T \in {g[i] : i \in I(d)} : IsFiniteSet(T)
    BY <2>2, <2>4
  <2>8. IsFiniteSet(UNION {g[i] : i \in I(d)})
    BY <2>6, <2>7, FS_UNION
  <2> QED
    BY <2>3, <2>8
<1>4. IsFiniteSet(Items(documents))
  <2> DEFINE g == [d \in D |-> inDocument(d)]
  <2>1. {inDocument(d) : d \in D} = {g[d] : d \in D}
    <3> HIDE DEF inDocument, D
    <3> QED
      OBVIOUS
  <2>2. \A d \in D : g[d] = inDocument(d)
    OBVIOUS
  <2>3. IsFiniteSet(D)
    BY JdsAre, FS_Subset
  <2> HIDE DEF g, inDocument, D
  <2>4. IsFiniteSet({g[d] : d \in D})
    BY <2>3, FiniteImage
  <2>5. \A T \in {g[d] : d \in D} : IsFiniteSet(T)
    BY <1>3, <2>2
  <2>6. IsFiniteSet(UNION {g[d] : d \in D})
    BY <2>4, <2>5, FS_UNION
  <2> QED
    BY <1>1, <2>1, <2>6
<1>5. ASSUME NEW n \in Nat, n = 3, NEW x \in Items(documents)
      PROVE  x \in [1 .. n -> Int]
  <2>1. PICK d \in D : \E i \in I(d) : \E k \in K(d, i) : x = <<d, i, k>>
    BY <1>2
  <2>2. PICK i \in I(d) : \E k \in K(d, i) : x = <<d, i, k>>
    BY <2>1
  <2>3. PICK k \in K(d, i) : x = <<d, i, k>>
    BY <2>2
  <2>4. d \in Int /\ i \in Int /\ k \in Int
    BY JdsAre, SectionsAre
  <2> QED
    BY <1>5, <2>3, <2>4
<1> HIDE DEF D, I, K
<1>6. \A x : x \in Items(documents) <=>
              \E d \in DOMAIN JdOrder : \E i \in DOMAIN SectionsOf[JdOrder[d]] :
                \E k \in 0 .. Len(CandidatesOf(d, i)) :
                  x = <<d, i, k>> /\ JdOrder[d] \in documents
  BY <1>2 DEF D, I, K
<1> QED
  BY <1>4, <1>5, <1>6

\* The parts of an item.
LEMMA ItemParts ==
  ASSUME NEW documents, NEW x \in Items(documents)
  PROVE  /\ x = <<x[1], x[2], x[3]>>
         /\ x[1] \in DOMAIN JdOrder /\ x[2] \in DOMAIN SectionsOf[JdOrder[x[1]]]
         /\ x[1] \in Nat /\ x[2] \in Nat /\ x[3] \in Nat
         /\ x[3] \in 0 .. Len(CandidatesOf(x[1], x[2]))
         /\ JdOrder[x[1]] \in documents /\ JdOrder[x[1]] \in Jds
         /\ Kind(x) \in {"section", "mention", "blocked"}
         /\ Kind(x) = "section" <=> x[3] = 0
         /\ Kind(x) = "mention" => Candidate(x) \in Texts
<1>0. PICK d \in DOMAIN JdOrder : \E i \in DOMAIN SectionsOf[JdOrder[d]] :
        \E k \in 0 .. Len(CandidatesOf(d, i)) : x = <<d, i, k>> /\ JdOrder[d] \in documents
  BY ItemsAre
<1>1. PICK i \in DOMAIN SectionsOf[JdOrder[d]] :
        \E k \in 0 .. Len(CandidatesOf(d, i)) : x = <<d, i, k>> /\ JdOrder[d] \in documents
  BY <1>0
<1>2. PICK k \in 0 .. Len(CandidatesOf(d, i)) : x = <<d, i, k>> /\ JdOrder[d] \in documents
  BY <1>1
<1>3. x[1] = d /\ x[2] = i /\ x[3] = k
  BY <1>2
<1>4. /\ d \in Nat /\ i \in Nat /\ CandidatesOf(d, i) \in Seq(Texts \union {Blocked})
      /\ JdOrder[d] \in Jds
  BY JdsAre, SectionsAre
<1>5. k # 0 => CandidatesOf(d, i)[k] \in Texts \union {Blocked}
  BY <1>4
<1> QED
  BY <1>2, <1>3, <1>4, <1>5 DEF Kind, Candidate

\* The number of a mention or a blocked candidate.
Number(items, item) ==
  Cardinality({x \in items : Kind(x) = Kind(item) /\ ~LexLess(item, x)})

\* No two of a kind have the same number.
LEMMA NumbersDiffer ==
  ASSUME NEW documents, NEW a \in Items(documents), NEW b \in Items(documents),
         Kind(a) = Kind(b), Number(Items(documents), a) = Number(Items(documents), b)
  PROVE  a = b
<1> DEFINE items == Items(documents)
           UpTo(y) == {x \in items : Kind(x) = Kind(y) /\ ~LexLess(y, x)}
<1>1. PICK n \in Nat : n = 3
  OBVIOUS
<1>2. items \in SUBSET [1 .. n -> Int] /\ IsFiniteSet(items)
  BY <1>1, ItemsAre
<1> HIDE DEF items
<1>3. \A y : IsFiniteSet(UpTo(y))
  BY <1>2, FS_Subset
<1>4. ASSUME NEW x \in items, NEW y \in items, Kind(x) = Kind(y), LexLess(x, y)
      PROVE  Cardinality(UpTo(x)) # Cardinality(UpTo(y))
  <2>1. UpTo(x) \in SUBSET UpTo(y)
    <3> SUFFICES ASSUME NEW z \in UpTo(x), LexLess(y, z) PROVE FALSE
      BY <1>4
    <3>1. LexLess(x, z)
      BY <1>2, <1>4, LexTransitive
    <3> QED
      BY <3>1
  <2>2. y \in UpTo(y) /\ y \notin UpTo(x)
    BY <1>2, <1>4, LexIrreflexive
  <2> HIDE DEF UpTo
  <2> QED
    BY <1>3, <2>1, <2>2, FS_Subset
<1>5. \A x : Number(items, x) = Cardinality(UpTo(x))
  BY DEF Number
<1> HIDE DEF UpTo
<1> QED
  BY <1>2, <1>4, <1>5, LexTotal DEF items

\* The key of the row of an item, which no other item has.
LEMMA RowOfItem ==
  ASSUME NEW documents, NEW x \in Items(documents)
  PROVE  LET row == EvidenceRow(Items(documents), x)
             jd == JdOrder[x[1]]
             number == Number(Items(documents), x)
         IN /\ Kind(x) = "section" => row = Section(jd, x[2])
            /\ Kind(x) = "mention" => row = Mention(jd, x[2], number, Candidate(x))
            /\ Kind(x) = "blocked" => row = BlockedCandidate(jd, x[2], number)
BY ItemParts, Zenon DEF EvidenceRow, Number

LEMMA RowsOfItemsDiffer ==
  ASSUME NEW documents, NEW a \in Items(documents), NEW b \in Items(documents),
         Key(EvidenceRow(Items(documents), a)) = Key(EvidenceRow(Items(documents), b))
  PROVE  a = b
<1> DEFINE items == Items(documents)
           r == EvidenceRow(items, a)
           s == EvidenceRow(items, b)
<1>1. r.table = s.table /\ r.id = s.id
  BY DEF Key
<1>2. /\ Kind(a) \in {"section", "mention", "blocked"}
      /\ Kind(b) \in {"section", "mention", "blocked"}
  BY ItemParts
<1>3. /\ Kind(a) = "section" => r = Section(JdOrder[a[1]], a[2])
      /\ Kind(a) = "mention" =>
           r = Mention(JdOrder[a[1]], a[2], Number(items, a), Candidate(a))
      /\ Kind(a) = "blocked" => r = BlockedCandidate(JdOrder[a[1]], a[2], Number(items, a))
  BY RowOfItem
<1>4. /\ Kind(b) = "section" => s = Section(JdOrder[b[1]], b[2])
      /\ Kind(b) = "mention" =>
           s = Mention(JdOrder[b[1]], b[2], Number(items, b), Candidate(b))
      /\ Kind(b) = "blocked" => s = BlockedCandidate(JdOrder[b[1]], b[2], Number(items, b))
  BY RowOfItem
<1> HIDE DEF items, r, s
<1>5. Kind(a) = Kind(b)
  BY <1>1, <1>2, <1>3, <1>4 DEF Section, Mention, BlockedCandidate
<1>6. CASE Kind(a) = "section"
  <2>1. JdOrder[a[1]] = JdOrder[b[1]] /\ a[2] = b[2]
    BY <1>1, <1>3, <1>4, <1>5, <1>6 DEF Section
  <2>2. a = <<a[1], a[2], a[3]>> /\ b = <<b[1], b[2], b[3]>> /\ a[3] = 0 /\ b[3] = 0
        /\ a[1] \in DOMAIN JdOrder /\ b[1] \in DOMAIN JdOrder
    BY <1>5, <1>6, ItemParts
  <2>3. a[1] = b[1]
    BY <2>1, <2>2, JdsAre
  <2> QED
    BY <2>1, <2>2, <2>3, Zenon
<1>7. CASE Kind(a) = "mention"
  <2>1. Number(items, a) = Number(items, b)
    BY <1>1, <1>3, <1>4, <1>5, <1>7 DEF Mention
  <2> QED
    BY <1>5, <2>1, NumbersDiffer DEF items
<1>8. CASE Kind(a) = "blocked"
  <2>1. Number(items, a) = Number(items, b)
    BY <1>1, <1>3, <1>4, <1>5, <1>8 DEF BlockedCandidate
  <2> QED
    BY <1>5, <2>1, NumbersDiffer DEF items
<1> QED
  BY <1>2, <1>6, <1>7, <1>8

LEMMA TextsAre ==
  /\ Len(TextOrder) \in Nat /\ DOMAIN TextOrder = 1 .. Len(TextOrder)
  /\ \A k \in DOMAIN TextOrder : TextOrder[k] \in Texts
  /\ \A k, l \in DOMAIN TextOrder : TextOrder[k] = TextOrder[l] => k = l
  /\ \A t \in Texts : \E k \in DOMAIN TextOrder : TextOrder[k] = t
  /\ IsFiniteSet(Texts) /\ IsFiniteSet(DOMAIN TextOrder)
<1>1. IsOrder(TextOrder) /\ ToSet(TextOrder) = Texts
  BY PlansAssumption
<1> QED
  BY <1>1, OrderIs

\* What is in the plan of an extraction, and where.
LaidOut(items, sorted, found, rows, N, M) ==
  /\ N \in Nat /\ M \in Nat /\ Len(rows) = N + M
  /\ rows \in Seq({rows[k] : k \in DOMAIN rows})
  /\ \A k \in 1 .. Len(rows) :
       \/ k \in 1 .. N /\ sorted[k] \in items /\ rows[k] = EvidenceRow(items, sorted[k])
       \/ /\ k - N \in 1 .. M /\ found[k - N] \in Texts
          /\ MentionsOf(items, found[k - N]) # {}
          /\ rows[k] = SurfaceRow(items, found[k - N])
  /\ \A x \in items : \E k \in 1 .. N :
       sorted[k] = x /\ k \in 1 .. Len(rows) /\ rows[k] = EvidenceRow(items, x)
  /\ \A text \in Texts : MentionsOf(items, text) # {} =>
       \E k \in 1 .. Len(rows) : rows[k] = SurfaceRow(items, text)
  /\ \A k, l \in 1 .. M : found[k] = found[l] => k = l
  /\ \A k, l \in 1 .. N : sorted[k] = sorted[l] => k = l

LEMMA EvidencePlanIs ==
  ASSUME NEW documents
  PROVE  LET items == Items(documents)
             found == Ordered(TextOrder, {text \in Texts : MentionsOf(items, text) # {}})
         IN LaidOut(items, Sorted(items), found, EvidencePlan(documents),
                    Cardinality(items), Len(found))
<1> DEFINE items == Items(documents)
           sorted == Sorted(items)
           mentioned == {text \in Texts : MentionsOf(items, text) # {}}
           found == Ordered(TextOrder, mentioned)
           rows == EvidencePlan(documents)
           N == Cardinality(items)
           M == Len(found)
           a == [n \in DOMAIN sorted |-> EvidenceRow(items, sorted[n])]
           b == [n \in DOMAIN found |-> SurfaceRow(items, found[n])]
<1>1. PICK n \in Nat : n = 3
  OBVIOUS
<1>2. items \in SUBSET [1 .. n -> Int] /\ IsFiniteSet(items)
  BY <1>1, ItemsAre
<1>3. rows = a \o b
  BY DEF EvidencePlan
<1>4. IsOrder(TextOrder) /\ ToSet(TextOrder) = Texts
        /\ mentioned \intersect ToSet(TextOrder) = mentioned
  BY PlansAssumption
<1> HIDE DEF mentioned
<1>5. /\ found \in Seq(mentioned)
      /\ \A k, l \in 1 .. M : found[k] = found[l] => k = l
      /\ \A x \in mentioned : \E k \in 1 .. M : found[k] = x
  <2>1. /\ found \in Seq(mentioned \intersect ToSet(TextOrder))
        /\ \A k, l \in 1 .. M : found[k] = found[l] => k = l
        /\ \A x \in mentioned \intersect ToSet(TextOrder) : \E k \in 1 .. M : found[k] = x
    BY <1>4, OrderedIs
  <2> HIDE DEF found, M
  <2> QED
    BY <1>4, <2>1
<1> HIDE DEF items
<1>6. /\ N \in Nat /\ sorted \in [1 .. N -> items]
      /\ \A x \in items : \E k \in 1 .. N : sorted[k] = x
      /\ \A k, l \in 1 .. N : sorted[k] = sorted[l] => k = l
  BY <1>2, SortedIs, SortedPlaces
<1> HIDE DEF sorted, found, N
<1>7. M \in Nat /\ DOMAIN found = 1 .. M /\ \A k \in 1 .. M : found[k] \in mentioned
  BY <1>5
<1>8. /\ a \in Seq({EvidenceRow(items, x) : x \in items}) /\ Len(a) = N
      /\ \A k \in 1 .. N : a[k] = EvidenceRow(items, sorted[k])
  BY <1>6
<1>9. /\ b \in Seq({SurfaceRow(items, t) : t \in mentioned}) /\ Len(b) = M
      /\ \A k \in 1 .. M : b[k] = SurfaceRow(items, found[k])
  BY <1>7
<1> DEFINE A == {EvidenceRow(items, x) : x \in items}
           B == {SurfaceRow(items, t) : t \in mentioned}
<1> HIDE DEF a, b, rows, M, A, B
<1>10. /\ Len(rows) = N + M /\ DOMAIN rows = 1 .. Len(rows) /\ rows \in Seq({rows[k] : k \in DOMAIN rows})
       /\ \A k \in 1 .. Len(rows) :
            \/ k \in 1 .. N /\ rows[k] = a[k]
            \/ k - N \in 1 .. M /\ rows[k] = b[k - N]
       /\ \A k \in 1 .. N : k \in 1 .. Len(rows) /\ rows[k] = a[k]
       /\ \A k \in 1 .. M : k + N \in 1 .. Len(rows) /\ rows[k + N] = b[k]
  <2>0. a \in Seq(A) /\ b \in Seq(B)
    BY <1>8, <1>9 DEF A, B
  <2>1. /\ rows \in Seq(A \union B)
        /\ Len(rows) = Len(a) + Len(b)
        /\ \A k \in 1 .. Len(rows) :
             \/ k \in 1 .. Len(a) /\ rows[k] = a[k]
             \/ k - Len(a) \in 1 .. Len(b) /\ rows[k] = b[k - Len(a)]
        /\ \A k \in 1 .. Len(a) : k \in 1 .. Len(rows) /\ rows[k] = a[k]
        /\ \A k \in 1 .. Len(b) : k + Len(a) \in 1 .. Len(rows) /\ rows[k + Len(a)] = b[k]
    BY <1>3, <2>0, Joined
  <2>2. DOMAIN rows = 1 .. Len(rows) /\ rows \in Seq({rows[k] : k \in DOMAIN rows})
    BY <2>1
  <2> QED
    BY <1>8, <1>9, <2>1, <2>2
<1>11. ASSUME NEW x \in items
       PROVE  \E k \in 1 .. N : sorted[k] = x /\ k \in 1 .. Len(rows) /\ rows[k] = EvidenceRow(items, x)
  <2>1. PICK k \in 1 .. N : sorted[k] = x
    BY <1>6
  <2> QED
    BY <1>8, <1>10, <2>1
<1>12. ASSUME NEW text \in mentioned
       PROVE  \E k \in 1 .. Len(rows) : rows[k] = SurfaceRow(items, text)
  <2>1. PICK k \in 1 .. M : found[k] = text
    BY <1>5
  <2> QED
    BY <1>9, <1>10, <2>1
<1>13. ASSUME NEW k \in 1 .. Len(rows)
       PROVE  \/ k \in 1 .. N /\ sorted[k] \in items /\ rows[k] = EvidenceRow(items, sorted[k])
              \/ /\ k - N \in 1 .. M /\ found[k - N] \in mentioned
                 /\ rows[k] = SurfaceRow(items, found[k - N])
  BY <1>6, <1>7, <1>8, <1>9, <1>10
<1>14. \A t : t \in mentioned <=> t \in Texts /\ MentionsOf(items, t) # {}
  BY DEF mentioned
<1>15. \A k \in 1 .. Len(rows) :
                 \/ k \in 1 .. N /\ sorted[k] \in items /\ rows[k] = EvidenceRow(items, sorted[k])
                 \/ /\ k - N \in 1 .. M /\ found[k - N] \in Texts
                    /\ MentionsOf(items, found[k - N]) # {}
                    /\ rows[k] = SurfaceRow(items, found[k - N])
  BY <1>13, <1>14
<1>16. \A text \in Texts : MentionsOf(items, text) # {} =>
                 \E k \in 1 .. Len(rows) : rows[k] = SurfaceRow(items, text)
  BY <1>12, <1>14
<1>17. found = Ordered(TextOrder, {text \in Texts : MentionsOf(items, text) # {}})
  BY DEF found, mentioned
<1>18. LaidOut(items, sorted, found, rows, N, M)
  BY <1>5, <1>6, <1>7, <1>10, <1>11, <1>15, <1>16 DEF LaidOut
<1> QED
  BY <1>17, <1>18 DEF M, items, sorted, rows, N

\* Before a candidate comes the candidate before it, or its section.
LEMMA ItemBefore ==
  ASSUME NEW documents, NEW n \in 1 .. Cardinality(Items(documents)),
         Sorted(Items(documents))[n][3] # 0
  PROVE  LET x == Sorted(Items(documents))[n]
             y == Sorted(Items(documents))[n - 1]
         IN n - 1 \in 1 .. Cardinality(Items(documents)) /\ y = <<x[1], x[2], x[3] - 1>>
              /\ y \in Items(documents)
<1> DEFINE items == Items(documents)
           x == Sorted(items)[n]
           p == <<x[1], x[2], x[3] - 1>>
<1>1. PICK three \in Nat : three = 3
  OBVIOUS
<1>2. /\ items \in SUBSET [1 .. three -> Int] /\ IsFiniteSet(items)
      /\ n \in 1 .. Cardinality(items)
  BY <1>1, ItemsAre
<1> HIDE DEF items
<1>3. x \in items
  BY <1>2, SortedIs
<1>4. /\ x = <<x[1], x[2], x[3]>> /\ x[1] \in Nat /\ x[2] \in Nat /\ x[3] \in Nat
      /\ x[1] \in DOMAIN JdOrder /\ x[2] \in DOMAIN SectionsOf[JdOrder[x[1]]]
      /\ x[3] \in 0 .. Len(CandidatesOf(x[1], x[2])) /\ JdOrder[x[1]] \in documents
  BY <1>3, ItemParts DEF items
<1>5. x[3] # 0
  BY DEF items
<1>6. Len(CandidatesOf(x[1], x[2])) \in Nat
  BY <1>4, SectionsAre
<1> HIDE DEF x
<1>7. x[3] - 1 \in 0 .. Len(CandidatesOf(x[1], x[2]))
  BY <1>4, <1>5, <1>6
<1>8. p \in items
  BY <1>4, <1>7, ItemsAre DEF items
<1>9. LexLess(p, x)
  BY <1>4, <1>7, LexTriple
<1>10. ASSUME NEW y \in items, LexLess(p, y), LexLess(y, x) PROVE FALSE
  <2>1. y = <<y[1], y[2], y[3]>> /\ y[1] \in Nat /\ y[2] \in Nat /\ y[3] \in Nat
    BY ItemParts DEF items
  <2>2. /\ LexLess(<<x[1], x[2], x[3] - 1>>, <<y[1], y[2], y[3]>>)
        /\ LexLess(<<y[1], y[2], y[3]>>, <<x[1], x[2], x[3]>>)
    BY <1>4, <1>10, <2>1, Zenon
  <2>3. x[3] - 1 \in Int
    BY <1>4
  <2>4. /\ x[1] < y[1] \/ (x[1] = y[1] /\ x[2] < y[2])
             \/ (x[1] = y[1] /\ x[2] = y[2] /\ x[3] - 1 < y[3])
        /\ y[1] < x[1] \/ (y[1] = x[1] /\ y[2] < x[2])
             \/ (y[1] = x[1] /\ y[2] = x[2] /\ y[3] < x[3])
    BY <1>4, <2>1, <2>2, <2>3, LexTriple
  <2> QED
    BY <1>4, <2>1, <2>4
<1> HIDE DEF p
<1>11. n - 1 \in 1 .. Cardinality(items) /\ Sorted(items)[n - 1] = p
  BY <1>2, <1>8, <1>9, <1>10, SortedNext DEF x, items
<1> QED
  BY <1>8, <1>11 DEF x, p, items

\* What rows of extraction refer to.
LEMMA RefsOfItem ==
  ASSUME NEW documents, NEW x \in Items(documents)
  PROVE  LET row == EvidenceRow(Items(documents), x)
             jd == JdOrder[x[1]]
         IN /\ row.table \in {"jd_sections", "keyword_mentions", "blocked_surface_candidates"}
            /\ Planned(row) = row
            /\ Kind(x) = "section" <=> row.table = "jd_sections"
            /\ Kind(x) = "mention" <=> row.table = "keyword_mentions"
            /\ x[3] = 0 => /\ RefsIn("extract", row) = {}
                           /\ Key(row) = SectionKey(jd, x[2])
            /\ x[3] # 0 => RefsIn("extract", row) = {SectionKey(jd, x[2])}
            /\ row.refs \ RefsIn("extract", row) = {DocumentKey(jd)}
<1> DEFINE row == EvidenceRow(Items(documents), x)
           jd == JdOrder[x[1]]
           number == Number(Items(documents), x)
<1>1. /\ Kind(x) = "section" => row = Section(jd, x[2])
      /\ Kind(x) = "mention" => row = Mention(jd, x[2], number, Candidate(x))
      /\ Kind(x) = "blocked" => row = BlockedCandidate(jd, x[2], number)
  BY RowOfItem
<1>2. Kind(x) \in {"section", "mention", "blocked"} /\ (Kind(x) = "section" <=> x[3] = 0)
  BY ItemParts
<1>3. /\ DocumentKey(jd)[1] = "jd_documents" /\ SectionKey(jd, x[2])[1] = "jd_sections"
      /\ DocumentKey(jd) # SectionKey(jd, x[2])
  BY DEF DocumentKey, SectionKey
<1>4. /\ "jd_sections" \in TablesOf["extract"] /\ "jd_documents" \notin TablesOf["extract"]
  BY DEF TablesOf
<1> HIDE DEF row, jd, number
<1>5. CASE Kind(x) = "section"
  <2>1. /\ row.table = "jd_sections" /\ row.refs = {DocumentKey(jd)}
        /\ row.id = <<jd, x[2]>>
    BY <1>1, <1>5 DEF Section
  <2> QED
    BY <1>2, <1>3, <1>4, <1>5, <2>1 DEF RefsIn, Key, SectionKey, Planned, row, jd
<1>6. CASE Kind(x) = "mention"
  <2>1. /\ row.table = "keyword_mentions" /\ row.refs = {DocumentKey(jd), SectionKey(jd, x[2])}
    BY <1>1, <1>6 DEF Mention
  <2> QED
    BY <1>2, <1>3, <1>4, <1>6, <2>1 DEF RefsIn, Planned, row, jd
<1>7. CASE Kind(x) = "blocked"
  <2>1. /\ row.table = "blocked_surface_candidates"
        /\ row.refs = {DocumentKey(jd), SectionKey(jd, x[2])}
    BY <1>1, <1>7 DEF BlockedCandidate
  <2> QED
    BY <1>2, <1>3, <1>4, <1>7, <2>1 DEF RefsIn, Planned, row, jd
<1> QED
  BY <1>2, <1>5, <1>6, <1>7

LEMMA SurfaceRowIs ==
  ASSUME NEW items, NEW text
  PROVE  LET row == SurfaceRow(items, text)
         IN /\ row.table = "surfaces" /\ row.id = <<text>> /\ row.refs = {}
            /\ Key(row) = SurfaceKey(text) /\ Planned(row) = row
            /\ RefsIn("extract", row) = {}
BY DEF SurfaceRow, Surface, Key, SurfaceKey, Planned, RefsIn

\* What extraction plans can be inserted in its order: sections before what is
\* found in them.
LEMMA EvidenceFits ==
  ASSUME NEW documents
  PROVE  LET rows == EvidencePlan(documents)
         IN /\ Fits("extract", rows)
            /\ \A k \in 1 .. Len(rows) :
                 \A key \in rows[k].refs \ RefsIn("extract", rows[k]) :
                   \E jd \in documents : key = DocumentKey(jd)
<1> DEFINE items == Items(documents)
           sorted == Sorted(items)
           found == Ordered(TextOrder, {text \in Texts : MentionsOf(items, text) # {}})
           rows == EvidencePlan(documents)
           N == Cardinality(items)
           M == Len(found)
           IsItem(k) ==
             k \in 1 .. N /\ sorted[k] \in items /\ rows[k] = EvidenceRow(items, sorted[k])
           IsSurface(k) == k - N \in 1 .. M /\ rows[k] = SurfaceRow(items, found[k - N])
<1>0. LaidOut(items, sorted, found, rows, N, M)
  BY EvidencePlanIs
<1> HIDE DEF items, sorted, found, rows, N, M
<1>1. /\ N \in Nat /\ M \in Nat /\ Len(rows) = N + M /\ rows \in Seq({rows[k] : k \in DOMAIN rows})
      /\ \A k \in 1 .. Len(rows) : IsItem(k) \/ IsSurface(k)
      /\ \A x \in items : \E k \in 1 .. N :
           sorted[k] = x /\ k \in 1 .. Len(rows) /\ rows[k] = EvidenceRow(items, x)
      /\ \A k, l \in 1 .. M : found[k] = found[l] => k = l
      /\ \A k, l \in 1 .. N : sorted[k] = sorted[l] => k = l
  BY <1>0 DEF LaidOut
<1>2. /\ \A k : IsItem(k) =>
           /\ rows[k].table \in {"jd_sections", "keyword_mentions", "blocked_surface_candidates"}
           /\ Planned(rows[k]) = rows[k]
           /\ sorted[k][3] = 0 =>
                /\ RefsIn("extract", rows[k]) = {}
                /\ Key(rows[k]) = SectionKey(JdOrder[sorted[k][1]], sorted[k][2])
           /\ sorted[k][3] # 0 =>
                RefsIn("extract", rows[k]) = {SectionKey(JdOrder[sorted[k][1]], sorted[k][2])}
           /\ rows[k].refs \ RefsIn("extract", rows[k]) = {DocumentKey(JdOrder[sorted[k][1]])}
           /\ JdOrder[sorted[k][1]] \in documents
  BY RefsOfItem, ItemParts DEF items
<1>3. \A k : IsSurface(k) =>
        /\ rows[k].table = "surfaces" /\ rows[k].id = <<found[k - N]>> /\ rows[k].refs = {}
        /\ Planned(rows[k]) = rows[k] /\ RefsIn("extract", rows[k]) = {}
  BY SurfaceRowIs
<1>4. ASSUME NEW k \in 1 .. Len(rows), NEW l \in 1 .. Len(rows), Key(rows[k]) = Key(rows[l])
      PROVE  k = l
  <2>1. rows[k].table = rows[l].table /\ rows[k].id = rows[l].id
    BY <1>4 DEF Key
  <2>2. CASE IsItem(k) /\ IsItem(l)
    BY <1>1, <1>4, <2>2, RowsOfItemsDiffer DEF items
  <2>3. CASE IsSurface(k) /\ IsSurface(l)
    <3>1. found[k - N] = found[l - N]
      BY <1>3, <2>1, <2>3
    <3>2. k - N = l - N
      BY <1>1, <2>3, <3>1
    <3> QED
      BY <1>1, <3>2
  <2>4. ~(IsItem(k) /\ IsSurface(l)) /\ ~(IsSurface(k) /\ IsItem(l))
    BY <1>2, <1>3, <2>1
  <2> QED
    BY <1>1, <2>2, <2>3, <2>4
<1>5. ASSUME NEW k \in 1 .. Len(rows)
      PROVE  RefsIn("extract", rows[k]) \subseteq
               (IF k = 1 THEN {} ELSE {Key(rows[k - 1])} \union RefsIn("extract", rows[k - 1]))
  <2>1. CASE IsSurface(k)
    BY <1>3, <2>1
  <2>2. CASE IsItem(k) /\ sorted[k][3] = 0
    BY <1>2, <2>2
  <2>3. CASE IsItem(k) /\ sorted[k][3] # 0
    <3> DEFINE x == sorted[k]
               y == sorted[k - 1]
    <3>1. k - 1 \in 1 .. N /\ y = <<x[1], x[2], x[3] - 1>> /\ y \in items
      BY <2>3, ItemBefore DEF sorted, N, items
    <3>2. k - 1 \in 1 .. Len(rows) /\ k # 1
      BY <1>1, <3>1
    <3>3. IsItem(k - 1)
      <4>1. PICK l \in 1 .. N : sorted[l] = y /\ rows[l] = EvidenceRow(items, y)
        BY <1>1, <3>1
      <4>2. l = k - 1
        BY <1>1, <3>1, <4>1
      <4> QED
        BY <3>1, <4>1, <4>2
    <3>4. y[1] = x[1] /\ y[2] = x[2]
      BY <3>1
    <3> HIDE DEF x, y
    <3>5. RefsIn("extract", rows[k]) = {SectionKey(JdOrder[x[1]], x[2])}
      BY <1>2, <2>3 DEF x
    <3>6. \/ RefsIn("extract", rows[k - 1]) = {SectionKey(JdOrder[y[1]], y[2])}
          \/ Key(rows[k - 1]) = SectionKey(JdOrder[y[1]], y[2])
      BY <1>2, <3>3 DEF y
    <3> QED
      BY <3>2, <3>4, <3>5, <3>6
  <2> QED
    BY <1>1, <2>1, <2>2, <2>3
<1>6. Extraction!Chained(rows)
  BY <1>4, <1>5 DEF Extraction!Chained
<1>7. \A k \in 1 .. Len(rows) :
        rows[k].table \in TablesOf["extract"] /\ Planned(rows[k]) = rows[k]
  BY <1>1, <1>2, <1>3 DEF TablesOf
<1>8. Fits("extract", rows)
  BY <1>1, <1>6, <1>7 DEF Fits
<1>9. ASSUME NEW k \in 1 .. Len(rows), NEW key \in rows[k].refs \ RefsIn("extract", rows[k])
      PROVE  \E jd \in documents : key = DocumentKey(jd)
  <2>1. CASE IsItem(k)
    <3>1. key = DocumentKey(JdOrder[sorted[k][1]]) /\ JdOrder[sorted[k][1]] \in documents
      BY <1>2, <1>9, <2>1
    <3> QED
      BY <3>1
  <2>2. CASE IsSurface(k)
    BY <1>3, <1>9, <2>2
  <2> QED
    BY <1>1, <2>1, <2>2
<1> QED
  BY <1>8, <1>9 DEF rows

-----------------------------------------------------------------------------
(* What the co-occurrence step plans.                                      *)

EdgeItems(mentions) ==
  {x \in (1 .. 3) \X (1 .. Len(TextOrder)) \X (1 .. Len(TextOrder)) :
     x[2] < x[3] /\ EdgeOf(mentions, x).counts.both > 0}

LEMMA EdgeItemsAre ==
  ASSUME NEW mentions
  PROVE  /\ IsFiniteSet(EdgeItems(mentions))
         /\ \A n \in Nat : n = 3 => EdgeItems(mentions) \in SUBSET [1 .. n -> Int]
         /\ \A x \in EdgeItems(mentions) :
              /\ x = <<x[1], x[2], x[3]>> /\ x[1] \in {1, 2, 3}
              /\ x[2] \in DOMAIN TextOrder /\ x[3] \in DOMAIN TextOrder /\ x[2] < x[3]
              /\ EdgeOf(mentions, x).counts.both > 0
<1> DEFINE A == 1 .. 3
           B == 1 .. Len(TextOrder)
           f == [p \in (A \X B) \X B |-> <<p[1][1], p[1][2], p[2]>>]
           T == {f[p] : p \in (A \X B) \X B}
<1>1. Len(TextOrder) \in Nat /\ DOMAIN TextOrder = B
  BY TextsAre
<1>2. IsFiniteSet(A) /\ IsFiniteSet(B)
  <2>0. \A n \in Int : IsFiniteSet(1 .. n)
    BY FS_Interval
  <2>1. IsFiniteSet(A)
    <3>1. PICK n \in Int : n = 3
      OBVIOUS
    <3>2. IsFiniteSet(1 .. n)
      BY <2>0
    <3> QED
      BY <3>1, <3>2
  <2>2. IsFiniteSet(B)
    BY <1>1, FS_Interval
  <2> QED
    BY <2>1, <2>2
<1>3. \A a \in A : \A b \in B : \A c \in B : <<a, b, c>> \in T
  <2> SUFFICES ASSUME NEW a \in A, NEW b \in B, NEW c \in B PROVE <<a, b, c>> \in T
    OBVIOUS
  <2>1. <<<<a, b>>, c>> \in (A \X B) \X B /\ f[<<<<a, b>>, c>>] = <<a, b, c>>
    OBVIOUS
  <2> QED
    BY <2>1
<1>4. IsFiniteSet(T)
  <2> HIDE DEF A, B, f
  <2>1. IsFiniteSet((A \X B) \X B)
    BY <1>2, FS_Product
  <2> QED
    BY <2>1, FiniteImage
<1> HIDE DEF T, f
<1>5. EdgeItems(mentions) \in SUBSET T
  BY <1>3 DEF EdgeItems
<1>6. IsFiniteSet(EdgeItems(mentions))
  BY <1>4, <1>5, FS_Subset
<1>7. \A x \in EdgeItems(mentions) :
        /\ x = <<x[1], x[2], x[3]>> /\ x[1] \in A /\ x[2] \in B /\ x[3] \in B /\ x[2] < x[3]
        /\ EdgeOf(mentions, x).counts.both > 0
  BY DEF EdgeItems
<1>8. A = {1, 2, 3}
  OBVIOUS
<1>9. \A x \in EdgeItems(mentions) : x[1] \in Int /\ x[2] \in Int /\ x[3] \in Int
  BY <1>1, <1>7
<1> HIDE DEF A, B
<1>10. ASSUME NEW n \in Nat, n = 3, NEW x \in EdgeItems(mentions)
       PROVE  x \in [1 .. n -> Int]
  BY <1>7, <1>9, <1>10
<1> QED
  BY <1>1, <1>6, <1>7, <1>8, <1>10

LEMMA EdgePlanIs ==
  ASSUME NEW rows
  PROVE  LET items == EdgeItems(ServingMentions(rows))
             plans == EdgePlan(rows)
         IN /\ Len(plans) \in Nat /\ plans \in Seq({plans[k] : k \in DOMAIN plans})
            /\ \A k \in 1 .. Len(plans) :
                 Sorted(items)[k] \in items
                   /\ plans[k] = EdgeOf(ServingMentions(rows), Sorted(items)[k])
            /\ \A k, l \in 1 .. Len(plans) : Sorted(items)[k] = Sorted(items)[l] => k = l
<1> DEFINE mentions == ServingMentions(rows)
           items == EdgeItems(mentions)
           sorted == Sorted(items)
           plans == EdgePlan(rows)
<1>1. PICK n \in Nat : n = 3
  OBVIOUS
<1>2. items \in SUBSET [1 .. n -> Int] /\ IsFiniteSet(items)
  BY <1>1, EdgeItemsAre
<1>3. plans = [k \in DOMAIN sorted |-> EdgeOf(mentions, sorted[k])]
  BY DEF EdgePlan, EdgeItems
<1> HIDE DEF items, plans, mentions
<1>4. /\ Cardinality(items) \in Nat /\ sorted \in [1 .. Cardinality(items) -> items]
      /\ \A k, l \in 1 .. Cardinality(items) : sorted[k] = sorted[l] => k = l
  BY <1>2, SortedIs, SortedPlaces
<1> HIDE DEF sorted
<1>5. /\ Len(plans) = Cardinality(items) /\ DOMAIN plans = 1 .. Len(plans)
      /\ plans \in Seq({plans[k] : k \in DOMAIN plans})
  BY <1>3, <1>4
<1> QED
  BY <1>3, <1>4, <1>5 DEF items, plans, mentions, sorted

LEMMA WindowTypesDiffer ==
  \A a, b \in {1, 2, 3} : WindowTypes[a] = WindowTypes[b] => a = b
BY DEF WindowTypes

LEMMA EdgeIs ==
  ASSUME NEW mentions, NEW x
  PROVE  /\ EdgeOf(mentions, x).table = "cooccurrence_edges"
         /\ EdgeOf(mentions, x).id = <<WindowTypes[x[1]], TextOrder[x[2]], TextOrder[x[3]]>>
         /\ EdgeOf(mentions, x).refs = {SurfaceKey(TextOrder[x[2]]), SurfaceKey(TextOrder[x[3]])}
         /\ Planned(EdgeOf(mentions, x)) = EdgeOf(mentions, x)
         /\ RefsIn("edges", EdgeOf(mentions, x)) = {}
BY DEF EdgeOf, Edge, Planned, RefsIn, TablesOf, SurfaceKey

WindowsOf(mentions, x) == Windows(WindowTypes[x[1]], mentions)

LEMMA EdgeCounts ==
  ASSUME NEW mentions, NEW x
  PROVE  /\ EdgeOf(mentions, x).counts.both =
              WindowsWith(WindowsOf(mentions, x), {TextOrder[x[2]], TextOrder[x[3]]})
         /\ EdgeOf(mentions, x).counts.a =
              WindowsWith(WindowsOf(mentions, x), {TextOrder[x[2]]})
         /\ EdgeOf(mentions, x).counts.b =
              WindowsWith(WindowsOf(mentions, x), {TextOrder[x[3]]})
         /\ EdgeOf(mentions, x).counts.all = Cardinality(WindowsOf(mentions, x))
BY DEF EdgeOf, Edge, WindowsOf

\* Edges can be inserted in any order, and what they connect is there.
LEMMA EdgesFit ==
  ASSUME NEW rows
  PROVE  LET plans == EdgePlan(rows)
         IN /\ Fits("edges", plans)
            /\ \A k \in 1 .. Len(plans) :
                 plans[k].refs \ RefsIn("edges", plans[k]) \subseteq
                   {key \in Keys(rows) : key[1] = "surfaces"}
<1> DEFINE mentions == ServingMentions(rows)
           items == EdgeItems(mentions)
           sorted == Sorted(items)
           plans == EdgePlan(rows)
<1>1. /\ Len(plans) \in Nat /\ plans \in Seq({plans[k] : k \in DOMAIN plans})
      /\ \A k \in 1 .. Len(plans) : sorted[k] \in items /\ plans[k] = EdgeOf(mentions, sorted[k])
      /\ \A k, l \in 1 .. Len(plans) : sorted[k] = sorted[l] => k = l
  BY EdgePlanIs
<1>2. \A x \in items :
        /\ x = <<x[1], x[2], x[3]>> /\ x[1] \in {1, 2, 3}
        /\ x[2] \in DOMAIN TextOrder /\ x[3] \in DOMAIN TextOrder
        /\ EdgeOf(mentions, x).counts.both > 0
  BY EdgeItemsAre
<1> HIDE DEF mentions, items, sorted, plans
<1>3. ASSUME NEW k \in 1 .. Len(plans)
      PROVE  /\ plans[k].table = "cooccurrence_edges"
             /\ plans[k].id = <<WindowTypes[sorted[k][1]], TextOrder[sorted[k][2]],
                                TextOrder[sorted[k][3]]>>
             /\ plans[k].refs = {SurfaceKey(TextOrder[sorted[k][2]]),
                                 SurfaceKey(TextOrder[sorted[k][3]])}
             /\ Planned(plans[k]) = plans[k] /\ RefsIn("edges", plans[k]) = {}
  <2> DEFINE x == sorted[k]
  <2>1. plans[k] = EdgeOf(mentions, x)
    BY <1>1
  <2> HIDE DEF x
  <2>2. /\ EdgeOf(mentions, x).table = "cooccurrence_edges"
        /\ EdgeOf(mentions, x).id = <<WindowTypes[x[1]], TextOrder[x[2]], TextOrder[x[3]]>>
        /\ EdgeOf(mentions, x).refs = {SurfaceKey(TextOrder[x[2]]), SurfaceKey(TextOrder[x[3]])}
        /\ Planned(EdgeOf(mentions, x)) = EdgeOf(mentions, x)
        /\ RefsIn("edges", EdgeOf(mentions, x)) = {}
    BY EdgeIs
  <2> QED
    BY <2>1, <2>2 DEF x
<1>4. ASSUME NEW k \in 1 .. Len(plans), NEW l \in 1 .. Len(plans), Key(plans[k]) = Key(plans[l])
      PROVE  k = l
  <2> DEFINE x == sorted[k]
             y == sorted[l]
  <2>1. plans[k].id = plans[l].id
    BY <1>4 DEF Key
  <2>2. /\ WindowTypes[x[1]] = WindowTypes[y[1]]
        /\ TextOrder[x[2]] = TextOrder[y[2]] /\ TextOrder[x[3]] = TextOrder[y[3]]
    BY <1>3, <2>1
  <2>3. x \in items /\ y \in items
    BY <1>1
  <2>4. x[1] = y[1] /\ x[2] = y[2] /\ x[3] = y[3]
    BY SMTT(30), <1>2, <2>2, <2>3, WindowTypesDiffer, TextsAre
  <2>5. x = y
    BY <1>2, <2>3, <2>4, Zenon
  <2> QED
    BY <1>1, <2>5
<1>5. Edges!Chained(plans)
  BY <1>3, <1>4 DEF Edges!Chained
<1>6. \A k \in 1 .. Len(plans) : plans[k].table \in TablesOf["edges"] /\ Planned(plans[k]) = plans[k]
  BY <1>3 DEF TablesOf
<1>7. Fits("edges", plans)
  BY <1>1, <1>5, <1>6 DEF Fits
<1>8. ASSUME NEW k \in 1 .. Len(plans)
      PROVE  plans[k].refs \subseteq {key \in Keys(rows) : key[1] = "surfaces"}
  <2> DEFINE x == sorted[k]
             a == TextOrder[x[2]]
             b == TextOrder[x[3]]
             windows == WindowsOf(mentions, x)
  <2>1. x \in items
    BY <1>1
  <2>2. WindowsWith(windows, {a, b}) > 0
    <3>0. windows = WindowsOf(mentions, x) /\ a = TextOrder[x[2]]
            /\ b = TextOrder[x[3]]
      OBVIOUS
    <3> HIDE DEF x, a, b, windows
    <3>1. EdgeOf(mentions, x).counts.both = WindowsWith(windows, {a, b})
      BY <3>0, EdgeCounts
    <3> QED
      BY <1>2, <2>1, <3>1
  <2>3. {w \in windows : {a, b} \subseteq {m.text : m \in w}} # {}
    <3> HIDE DEF windows, a, b
    <3>1. WindowsWith(windows, {a, b}) # 0
      BY <2>2
    <3> QED
      BY <3>1, FS_EmptySet, Zenon DEF WindowsWith
  <2>4. PICK w \in windows : {a, b} \subseteq {m.text : m \in w}
    BY <2>3
  <2>5. w \subseteq mentions
    BY <2>4 DEF Windows, WindowsOf
  <2> HIDE DEF x, a, b, windows
  <2>6. \A m \in mentions : SurfaceKey(m.text) \in Keys(rows)
    BY DEF mentions, ServingMentions
  <2>7. SurfaceKey(a) \in Keys(rows) /\ SurfaceKey(b) \in Keys(rows)
    BY <2>4, <2>5, <2>6
  <2>8. plans[k].refs = {SurfaceKey(a), SurfaceKey(b)}
    BY <1>3 DEF x, a, b
  <2> QED
    BY <2>7, <2>8 DEF SurfaceKey
<1>9. \A k \in 1 .. Len(plans) : plans[k].refs \ RefsIn("edges", plans[k]) = plans[k].refs
  BY <1>3
<1> QED
  BY <1>7, <1>8, <1>9 DEF plans

-----------------------------------------------------------------------------
(* What build-relations plans.                                             *)

\* Linked texts are in the same group, and groups do not overlap.
LEMMA GroupIs ==
  ASSUME NEW texts, NEW links, \A p \in links : p[1] \in texts /\ p[2] \in texts
  PROVE  /\ \A t \in texts : t \in Group(texts, links, t)
         /\ \A t : Group(texts, links, t) \subseteq texts
         /\ \A t, u \in texts : u \in Group(texts, links, t) =>
              Group(texts, links, u) = Group(texts, links, t)
         /\ \A p \in links : \A t :
              p[1] \in Group(texts, links, t) <=> p[2] \in Group(texts, links, t)
<1> DEFINE Closed(G) == \A p \in links : p[1] \in G <=> p[2] \in G
<1>1. \A t, u : u \in Group(texts, links, t) <=>
        u \in texts /\ \A G \in SUBSET texts : t \in G /\ Closed(G) => u \in G
  BY DEF Group
<1>2. ASSUME NEW t \in texts, NEW u \in texts, u \in Group(texts, links, t)
      PROVE  t \in Group(texts, links, u)
  <2>1. SUFFICES ASSUME NEW G \in SUBSET texts, u \in G, Closed(G), t \notin G PROVE FALSE
    BY <1>1
  <2>2. texts \ G \in SUBSET texts /\ Closed(texts \ G) /\ t \in texts \ G
    BY <2>1
  <2>3. u \in texts \ G
    BY <1>1, <1>2, <2>2
  <2> QED
    BY <2>1, <2>3
<1>3. ASSUME NEW t \in texts, NEW u \in texts, u \in Group(texts, links, t)
      PROVE  Group(texts, links, u) \subseteq Group(texts, links, t)
  BY <1>1, <1>3
<1>4. ASSUME NEW p \in links, NEW t
      PROVE  p[1] \in Group(texts, links, t) <=> p[2] \in Group(texts, links, t)
  BY <1>1
<1> QED
  BY <1>1, <1>2, <1>3, <1>4

LEMMA LengthsAre ==
  /\ \A t \in Texts : Position(ByLength, t) \in DOMAIN ByLength
                        /\ ByLength[Position(ByLength, t)] = t
  /\ Len(ByLength) \in Nat /\ DOMAIN ByLength = 1 .. Len(ByLength)
<1>1. IsOrder(ByLength) /\ ToSet(ByLength) = Texts
  BY PlansAssumption
<1>2. \A t \in Texts : \E k \in DOMAIN ByLength : ByLength[k] = t
  BY <1>1, OrderIs
<1> QED
  BY <1>1, <1>2, OrderIs DEF Position

\* A group has a primary surface.
LEMMA PrimaryIs ==
  ASSUME NEW members \in SUBSET Texts, members # {}, NEW dfOf,
         \A t \in members : dfOf[t] \in Nat
  PROVE  Primary(members, dfOf) \in members
<1> DEFINE key == [t \in members |-> <<PrimaryRank(t), -dfOf[t], Position(ByLength, t)>>]
<1>1. PICK n \in Nat : n = 3
  OBVIOUS
<1>2. \A t \in members : PrimaryRank(t) \in Int /\ -dfOf[t] \in Int /\ Position(ByLength, t) \in Int
  BY LengthsAre DEF PrimaryRank
<1>3. \A t \in members : key[t] \in [1 .. n -> Int]
  BY <1>1, <1>2
<1>4. key \in [members -> [1 .. n -> Int]]
  <2> SUFFICES \A t \in members : key[t] \in [1 .. n -> Int]
    OBVIOUS
  <2> QED
    BY <1>3
<1>5. ASSUME NEW s \in members, NEW t \in members, key[s] = key[t] PROVE s = t
  <2>1. Position(ByLength, s) = Position(ByLength, t)
    BY <1>5
  <2> QED
    BY <2>1, LengthsAre
<1>6. IsFiniteSet(members)
  BY TextsAre, FS_Subset
<1>7. Primary(members, dfOf) = CHOOSE s \in members : \A t \in members \ {s} : LexLess(key[s], key[t])
  BY DEF Primary
<1> HIDE DEF key
<1>8. PICK s \in members : \A t \in members : ~LexLess(key[t], key[s])
  BY <1>4, <1>6, FiniteLeast
<1>9. \A t \in members \ {s} : LexLess(key[s], key[t])
  BY <1>4, <1>5, <1>8, LexTotal
<1> QED
  BY <1>7, <1>9

\* Surfaces as they are loaded.
SurfacesOk(surf) == \A row \in surf : \E t \in Texts : row.id = <<t>> /\ row.df \in Nat

LEMMA SurfacesAre ==
  ASSUME NEW surf, SurfacesOk(surf)
  PROVE  /\ TextsOf(surf) \in SUBSET Texts
         /\ \A t \in TextsOf(surf) : DfOf(surf)[t] \in Nat /\ \E row \in surf : row.id = <<t>>
<1>1. TextsOf(surf) \in SUBSET Texts
  BY DEF TextsOf, SurfacesOk
<1>2. ASSUME NEW t \in TextsOf(surf) PROVE \E row \in surf : row.id = <<t>>
  <2>1. PICK row \in surf : row.id[1] = t
    BY DEF TextsOf
  <2>2. PICK u \in Texts : row.id = <<u>>
    BY DEF SurfacesOk
  <2> QED
    BY <2>1, <2>2
<1>3. ASSUME NEW t \in TextsOf(surf) PROVE DfOf(surf)[t] \in Nat
  <2> DEFINE row == CHOOSE row \in surf : row.id = <<t>>
  <2>1. row \in surf
    BY <1>2
  <2>2. DfOf(surf)[t] = row.df
    BY DEF DfOf
  <2> HIDE DEF row
  <2> QED
    BY <2>1, <2>2 DEF SurfacesOk
<1> QED
  BY <1>1, <1>2, <1>3

\* Links that are made between loaded surfaces.
AliasesOk(surf, aliases) ==
  aliases \subseteq {p \in ToSet(Aliases) : p[1] \in TextsOf(surf) /\ p[2] \in TextsOf(surf)}

\* The primary surface that is safe to query, which names the concept.
NameOf(surf, aliases, h) == Primary(MembersOf(surf, aliases, h) \intersect QuerySafe, DfOf(surf))

LEMMA MembersAre ==
  ASSUME NEW surf, NEW aliases, SurfacesOk(surf), AliasesOk(surf, aliases)
  PROVE  /\ \A h \in DOMAIN TextOrder :
              MembersOf(surf, aliases, h) \subseteq TextsOf(surf)
                /\ (TextOrder[h] \in TextsOf(surf) =>
                      TextOrder[h] \in MembersOf(surf, aliases, h))
         /\ \A h, g \in DOMAIN TextOrder :
              TextOrder[h] \in TextsOf(surf) /\ TextOrder[g] \in TextsOf(surf) =>
                \A u \in MembersOf(surf, aliases, h) \intersect MembersOf(surf, aliases, g) :
                  MembersOf(surf, aliases, h) = MembersOf(surf, aliases, g)
         /\ \A p \in aliases \union VersionsOf(surf) : \A h \in DOMAIN TextOrder :
              p[1] \in MembersOf(surf, aliases, h) <=> p[2] \in MembersOf(surf, aliases, h)
<1> DEFINE texts == TextsOf(surf)
           links == aliases \union VersionsOf(surf)
<1>1. \A p \in links : p[1] \in texts /\ p[2] \in texts
  BY DEF AliasesOk, VersionsOf
<1>2. \A h : MembersOf(surf, aliases, h) = Group(texts, links, TextOrder[h])
  BY DEF MembersOf
<1> HIDE DEF texts, links
<1>3. /\ \A t \in texts : t \in Group(texts, links, t)
      /\ \A t : Group(texts, links, t) \subseteq texts
      /\ \A t, u \in texts : u \in Group(texts, links, t) =>
              Group(texts, links, u) = Group(texts, links, t)
      /\ \A p \in links : \A t :
              p[1] \in Group(texts, links, t) <=> p[2] \in Group(texts, links, t)
  BY <1>1, GroupIs
<1>4. \A h \in DOMAIN TextOrder :
        MembersOf(surf, aliases, h) \subseteq texts
          /\ (TextOrder[h] \in texts => TextOrder[h] \in MembersOf(surf, aliases, h))
  BY <1>2, <1>3
<1>5. \A h, g \in DOMAIN TextOrder :
        TextOrder[h] \in texts /\ TextOrder[g] \in texts =>
          \A u \in MembersOf(surf, aliases, h) \intersect MembersOf(surf, aliases, g) :
            MembersOf(surf, aliases, h) = MembersOf(surf, aliases, g)
  <2> SUFFICES ASSUME NEW h \in DOMAIN TextOrder, NEW g \in DOMAIN TextOrder,
                      TextOrder[h] \in texts, TextOrder[g] \in texts, NEW u,
                      u \in Group(texts, links, TextOrder[h]),
                      u \in Group(texts, links, TextOrder[g])
               PROVE  Group(texts, links, TextOrder[h]) = Group(texts, links, TextOrder[g])
    BY <1>2
  <2>1. u \in texts
    BY <1>3
  <2> QED
    BY <1>3, <2>1
<1>6. \A p \in links : \A h \in DOMAIN TextOrder :
        p[1] \in MembersOf(surf, aliases, h) <=> p[2] \in MembersOf(surf, aliases, h)
  BY <1>2, <1>3
<1> QED
  BY <1>4, <1>5, <1>6 DEF texts, links

\* Different heads have different groups, and name different concepts.
LEMMA HeadsDiffer ==
  ASSUME NEW surf, NEW aliases, SurfacesOk(surf), AliasesOk(surf, aliases),
         NEW h \in Heads(surf, aliases), NEW g \in Heads(surf, aliases),
         NEW u \in MembersOf(surf, aliases, h), u \in MembersOf(surf, aliases, g)
  PROVE  h = g
<1>1. /\ h \in DOMAIN TextOrder /\ g \in DOMAIN TextOrder
      /\ TextOrder[h] \in TextsOf(surf) /\ TextOrder[g] \in TextsOf(surf)
      /\ Primary(MembersOf(surf, aliases, h), DfOf(surf)) = TextOrder[h]
      /\ Primary(MembersOf(surf, aliases, g), DfOf(surf)) = TextOrder[g]
  BY DEF Heads
<1>2. MembersOf(surf, aliases, h) = MembersOf(surf, aliases, g)
  BY <1>1, MembersAre
<1>3. TextOrder[h] = TextOrder[g]
  BY <1>1, <1>2
<1> QED
  BY <1>1, <1>3, TextsAre

LEMMA NameIs ==
  ASSUME NEW surf, NEW aliases, SurfacesOk(surf), AliasesOk(surf, aliases),
         NEW h \in Heads(surf, aliases)
  PROVE  /\ NameOf(surf, aliases, h) \in MembersOf(surf, aliases, h) \intersect QuerySafe
         /\ NameOf(surf, aliases, h) \in TextsOf(surf)
<1> DEFINE safe == MembersOf(surf, aliases, h) \intersect QuerySafe
<1>1. h \in DOMAIN TextOrder /\ safe # {}
  BY DEF Heads
<1>2. safe \subseteq TextsOf(surf)
  BY <1>1, MembersAre
<1>3. safe \in SUBSET Texts /\ \A t \in safe : DfOf(surf)[t] \in Nat
  BY <1>2, SurfacesAre
<1> HIDE DEF safe
<1>4. Primary(safe, DfOf(surf)) \in safe
  BY <1>1, <1>3, PrimaryIs
<1> QED
  BY <1>2, <1>4 DEF NameOf, safe

\* Every surface that is safe to query is in the group of a head.
LEMMA HeadOf ==
  ASSUME NEW surf, NEW aliases, SurfacesOk(surf), AliasesOk(surf, aliases),
         NEW t \in TextsOf(surf)
  PROVE  \E h \in DOMAIN TextOrder :
           /\ TextOrder[h] \in TextsOf(surf) /\ t \in MembersOf(surf, aliases, h)
           /\ Primary(MembersOf(surf, aliases, h), DfOf(surf)) = TextOrder[h]
           /\ MembersOf(surf, aliases, h) \intersect QuerySafe # {} => h \in Heads(surf, aliases)
<1>1. t \in Texts
  BY SurfacesAre
<1>2. PICK k \in DOMAIN TextOrder : TextOrder[k] = t
  BY <1>1, TextsAre
<1> DEFINE members == MembersOf(surf, aliases, k)
           p == Primary(members, DfOf(surf))
<1>3. t \in members /\ members \subseteq TextsOf(surf)
  BY <1>2, MembersAre
<1>4. members \in SUBSET Texts /\ \A u \in members : DfOf(surf)[u] \in Nat
  BY <1>3, SurfacesAre
<1> HIDE DEF members
<1>5. p \in members
  BY <1>3, <1>4, PrimaryIs
<1> HIDE DEF p
<1>6. PICK h \in DOMAIN TextOrder : TextOrder[h] = p
  BY <1>4, <1>5, TextsAre
<1>7. TextOrder[h] \in TextsOf(surf) /\ TextOrder[k] \in TextsOf(surf)
  BY <1>2, <1>3, <1>5, <1>6
<1>8. TextOrder[h] \in MembersOf(surf, aliases, h)
  BY <1>7, MembersAre
<1>9. MembersOf(surf, aliases, h) = members
  BY <1>5, <1>6, <1>7, <1>8, MembersAre DEF members
<1>10. Primary(MembersOf(surf, aliases, h), DfOf(surf)) = TextOrder[h]
  BY <1>6, <1>9 DEF p
<1> QED
  BY <1>3, <1>7, <1>9, <1>10 DEF Heads

LEMMA ConceptItemsAre ==
  ASSUME NEW surf, NEW aliases
  PROVE  /\ IsFiniteSet(ConceptItems(surf, aliases))
         /\ \A n \in Nat : n = 2 => ConceptItems(surf, aliases) \in SUBSET [1 .. n -> Int]
         /\ \A x \in ConceptItems(surf, aliases) :
              /\ x = <<x[1], x[2]>> /\ x[1] \in Heads(surf, aliases) /\ x[1] \in Nat /\ x[2] \in Nat
              /\ x[1] \in DOMAIN TextOrder
              /\ <<x[1], 0>> \in ConceptItems(surf, aliases)
              /\ x[2] # 0 => /\ x[2] \in DOMAIN TextOrder
                             /\ TextOrder[x[2]] \in MembersOf(surf, aliases, x[1])
         /\ \A h \in Heads(surf, aliases) :
              /\ <<h, 0>> \in ConceptItems(surf, aliases)
              /\ \A m \in DOMAIN TextOrder : TextOrder[m] \in MembersOf(surf, aliases, h) =>
                   <<h, m>> \in ConceptItems(surf, aliases)
<1> DEFINE items == ConceptItems(surf, aliases)
           D == DOMAIN TextOrder
           L == Len(TextOrder)
<1>1. Len(TextOrder) \in Nat /\ D = 1 .. L /\ Heads(surf, aliases) \subseteq D
  BY TextsAre DEF Heads
<1>2. \A x : x \in items <=>
        \E h \in Heads(surf, aliases) : \E m \in 0 .. L :
          x = <<h, m>> /\ (m # 0 => TextOrder[m] \in MembersOf(surf, aliases, h))
  <2>1. \A x : x \in items <=>
          \E h \in Heads(surf, aliases) :
            x \in {<<h, m>> : m \in {0} \union {m \in D :
                                      TextOrder[m] \in MembersOf(surf, aliases, h)}}
    BY DEF ConceptItems
  <2>2. \A h : \A m : m \in {0} \union {k \in D : TextOrder[k] \in MembersOf(surf, aliases, h)}
          <=> m \in 0 .. L /\ (m # 0 => TextOrder[m] \in MembersOf(surf, aliases, h))
    BY <1>1
  <2> HIDE DEF items, D, L
  <2> QED
    BY <2>1, <2>2
<1> HIDE DEF items
<1>3. items \in SUBSET (D \X (0 .. L))
  BY <1>1, <1>2
<1>4. IsFiniteSet(items)
  <2>1. \A n \in Int : IsFiniteSet(0 .. n)
    BY FS_Interval
  <2>2. IsFiniteSet(0 .. L) /\ IsFiniteSet(D)
    BY <1>1, <2>1, TextsAre
  <2> HIDE DEF D, L
  <2>3. IsFiniteSet(D \X (0 .. L))
    BY <2>2, FS_Product
  <2> QED
    BY <1>3, <2>3, FS_Subset
<1>5. ASSUME NEW x \in items
      PROVE  /\ x = <<x[1], x[2]>> /\ x[1] \in Heads(surf, aliases) /\ x[1] \in Nat /\ x[2] \in Nat
             /\ x[1] \in D /\ <<x[1], 0>> \in items
             /\ x[2] # 0 => x[2] \in D /\ TextOrder[x[2]] \in MembersOf(surf, aliases, x[1])
  <2>1. PICK h \in Heads(surf, aliases) : \E m \in 0 .. L :
          x = <<h, m>> /\ (m # 0 => TextOrder[m] \in MembersOf(surf, aliases, h))
    BY <1>2
  <2>2. PICK m \in 0 .. L :
          x = <<h, m>> /\ (m # 0 => TextOrder[m] \in MembersOf(surf, aliases, h))
    BY <2>1
  <2>3. <<h, 0>> \in items
    BY <1>1, <1>2
  <2>4. h \in D /\ h \in Nat /\ m \in Nat /\ (m # 0 => m \in D)
    BY <1>1
  <2> QED
    BY <2>2, <2>3, <2>4
<1>6. ASSUME NEW n \in Nat, n = 2, NEW x \in items PROVE x \in [1 .. n -> Int]
  <2>0. x = <<x[1], x[2]>> /\ x[1] \in Nat /\ x[2] \in Nat
    BY <1>5, Zenon
  <2>1. x[1] \in Int /\ x[2] \in Int
    BY <2>0
  <2> QED
    BY <1>6, <2>0, <2>1
<1>7. ASSUME NEW h \in Heads(surf, aliases)
      PROVE  /\ <<h, 0>> \in items
             /\ \A m \in D : TextOrder[m] \in MembersOf(surf, aliases, h) => <<h, m>> \in items
  BY <1>1, <1>2
<1> QED
  BY <1>4, <1>5, <1>6, <1>7 DEF items

\* Before a member comes its concept or another member of it.
LEMMA MemberBefore ==
  ASSUME NEW surf, NEW aliases, NEW n \in 1 .. Cardinality(ConceptItems(surf, aliases)),
         Sorted(ConceptItems(surf, aliases))[n][2] # 0
  PROVE  /\ n - 1 \in 1 .. Cardinality(ConceptItems(surf, aliases))
         /\ Sorted(ConceptItems(surf, aliases))[n - 1][1]
              = Sorted(ConceptItems(surf, aliases))[n][1]
<1> DEFINE items == ConceptItems(surf, aliases)
           sorted == Sorted(items)
           x == sorted[n]
           head == <<x[1], 0>>
           N == Cardinality(items)
<1>1. PICK two \in Nat : two = 2
  OBVIOUS
<1>2. items \in SUBSET [1 .. two -> Int] /\ IsFiniteSet(items) /\ n \in 1 .. N /\ x[2] # 0
  BY <1>1, ConceptItemsAre
<1>3. \A y \in items : y = <<y[1], y[2]>> /\ y[1] \in Nat /\ y[2] \in Nat /\ <<y[1], 0>> \in items
  BY ConceptItemsAre
<1> HIDE DEF items
<1>4. /\ N \in Nat /\ sorted \in [1 .. N -> items]
      /\ \A y \in items : \E k \in 1 .. N : sorted[k] = y
      /\ \A i, j \in 1 .. N : i < j => LexLess(sorted[i], sorted[j])
      /\ \A i, j \in 1 .. N : LexLess(sorted[i], sorted[j]) => i < j
  BY <1>2, SortedIs, SortedPlaces
<1> HIDE DEF sorted, N
<1>5. x \in items /\ head \in items
  BY <1>2, <1>3, <1>4
<1>6. x = <<x[1], x[2]>> /\ x[1] \in Nat /\ x[2] \in Nat /\ x[2] # 0
  BY <1>2, <1>3, <1>5
<1> HIDE DEF x
<1>7. LexLess(head, x)
  <2>1. LexLess(<<x[1], 0>>, <<x[1], x[2]>>)
    BY <1>6, LexPair
  <2> QED
    BY <1>6, <2>1, Zenon
<1>8. PICK j \in 1 .. N : sorted[j] = head
  BY <1>4, <1>5
<1>9. j < n
  BY <1>2, <1>4, <1>7, <1>8 DEF x
<1>10. n - 1 \in 1 .. N /\ n - 1 < n /\ (j = n - 1 \/ j < n - 1)
  BY <1>2, <1>4, <1>9
<1>11. CASE j = n - 1
  <2>1. sorted[n - 1][1] = x[1]
    BY <1>8, <1>11
  <2> QED
    BY <1>10, <2>1 DEF x, items, sorted, N
<1>12. CASE j < n - 1
  <2> DEFINE y == sorted[n - 1]
  <2>0. y \in items
    BY <1>4, <1>10
  <2>a. LexLess(sorted[j], sorted[n - 1])
    BY <1>4, <1>10, <1>12
  <2>b. LexLess(sorted[n - 1], sorted[n])
    BY <1>2, <1>4, <1>10
  <2>1. y \in items /\ LexLess(head, y) /\ LexLess(y, x)
    BY <1>8, <2>0, <2>a, <2>b, Zenon DEF x
  <2> HIDE DEF y
  <2>2. y = <<y[1], y[2]>> /\ y[1] \in Nat /\ y[2] \in Nat
    BY <1>3, <2>1
  <2>3. LexLess(<<x[1], 0>>, <<y[1], y[2]>>) /\ LexLess(<<y[1], y[2]>>, <<x[1], x[2]>>)
    BY <1>6, <2>1, <2>2, Zenon
  <2>4. y[1] = x[1]
    BY <1>6, <2>2, <2>3, LexPair
  <2> QED
    BY <1>10, <2>4 DEF x, y, items, sorted, N
<1> QED
  BY <1>10, <1>11, <1>12

LEMMA ConceptRowIs ==
  ASSUME NEW surf, NEW aliases, NEW x
  PROVE  LET row == ConceptRow(surf, aliases, x)
             name == NameOf(surf, aliases, x[1])
         IN /\ x[2] = 0 =>
                 /\ row = Concept(name, MembersOf(surf, aliases, x[1]),
                                  SumOver(MembersOf(surf, aliases, x[1]), DfOf(surf)))
                 /\ row.table = "concepts" /\ row.id = <<name>>
                 /\ row.refs = {SurfaceKey(name)} /\ RefsIn("relations", row) = {}
                 /\ Key(row) = ConceptKey(name) /\ Planned(row) = row
            /\ x[2] # 0 =>
                 /\ row = Membership(name, TextOrder[x[2]])
                 /\ row.table = "concept_surfaces" /\ row.id = <<name, TextOrder[x[2]]>>
                 /\ row.refs = {ConceptKey(name), SurfaceKey(TextOrder[x[2]])}
                 /\ RefsIn("relations", row) = {ConceptKey(name)} /\ Planned(row) = row
<1> DEFINE row == ConceptRow(surf, aliases, x)
           name == NameOf(surf, aliases, x[1])
<1>1. /\ x[2] = 0 => row = Concept(name, MembersOf(surf, aliases, x[1]),
                                   SumOver(MembersOf(surf, aliases, x[1]), DfOf(surf)))
      /\ x[2] # 0 => row = Membership(name, TextOrder[x[2]])
  BY DEF ConceptRow, NameOf
<1> HIDE DEF row, name
<1>2. CASE x[2] = 0
  BY <1>1, <1>2 DEF Concept, Key, ConceptKey, Planned, Counted, RefsIn, SurfaceKey, TablesOf, row, name
<1>3. CASE x[2] # 0
  BY <1>1, <1>3 DEF Membership, Planned, RefsIn, SurfaceKey, ConceptKey, TablesOf, row, name
<1> QED
  BY <1>2, <1>3 DEF row, name

LEMMA RelationIs ==
  ASSUME NEW type, NEW from, NEW to
  PROVE  LET row == Relation(type, from, to)
         IN /\ row.table = "surface_relations" /\ row.id = <<type, from, to>>
            /\ row.refs = {SurfaceKey(from), SurfaceKey(to)}
            /\ RefsIn("relations", row) = {} /\ Planned(row) = row
BY DEF Relation, Planned, RefsIn, SurfaceKey, TablesOf

\* Links in the order in which they are inserted.
LinksLaidOut(type, links, found, rows, M) ==
  /\ rows \in Seq({Relation(type, p[1], p[2]) : p \in links}) /\ Len(rows) = M /\ M \in Nat
  /\ \A k \in 1 .. M : found[k] \in links /\ rows[k] = Relation(type, found[k][1], found[k][2])
  /\ \A p \in links : \E k \in 1 .. M : found[k] = p
  /\ \A k, l \in 1 .. M : found[k] = found[l] => k = l

LEMMA LinkRowsAre ==
  ASSUME NEW type, NEW order, IsOrder(order), NEW links, links \subseteq ToSet(order)
  PROVE  LinksLaidOut(type, links, Ordered(order, links), LinkRows(type, order, links),
                      Len(Ordered(order, links)))
<1> DEFINE found == Ordered(order, links)
           rows == LinkRows(type, order, links)
<1>0. IsOrder(order)
  OBVIOUS
<1>1. /\ found \in Seq(links \intersect ToSet(order))
      /\ \A a, b \in 1 .. Len(found) : found[a] = found[b] => a = b
      /\ \A x \in links \intersect ToSet(order) : \E a \in 1 .. Len(found) : found[a] = x
  BY <1>0, OrderedIs, SMTT(30)
<1>2. rows = [n \in DOMAIN found |-> Relation(type, found[n][1], found[n][2])]
  BY DEF LinkRows
<1>3. links \intersect ToSet(order) = links
  OBVIOUS
<1> HIDE DEF found, rows
<1>4. Len(found) \in Nat /\ DOMAIN found = 1 .. Len(found) /\ \A k \in 1 .. Len(found) : found[k] \in links
  BY <1>1
<1>5. Len(rows) = Len(found) /\ rows \in Seq({Relation(type, p[1], p[2]) : p \in links})
  BY <1>2, <1>4
<1> QED
  BY <1>1, <1>2, <1>3, <1>4, <1>5 DEF found, rows, LinksLaidOut

\* What is in the plan of build-relations, and where.
RelationsLaidOut(surf, aliases, sorted, as, vs, rows, N, A, V) ==
  /\ N \in Nat /\ A \in Nat /\ V \in Nat /\ Len(rows) = N + A + V
  /\ rows \in Seq({rows[k] : k \in DOMAIN rows})
  /\ \A k \in 1 .. Len(rows) :
       \/ /\ k \in 1 .. N /\ sorted[k] \in ConceptItems(surf, aliases)
          /\ rows[k] = ConceptRow(surf, aliases, sorted[k])
       \/ /\ k - N \in 1 .. A /\ as[k - N] \in aliases
          /\ rows[k] = Relation("alias", as[k - N][1], as[k - N][2])
       \/ /\ k - N - A \in 1 .. V /\ vs[k - N - A] \in VersionsOf(surf)
          /\ rows[k] = Relation("version_variant", vs[k - N - A][1], vs[k - N - A][2])
  /\ \A x \in ConceptItems(surf, aliases) : \E k \in 1 .. N :
       sorted[k] = x /\ k \in 1 .. Len(rows) /\ rows[k] = ConceptRow(surf, aliases, x)
  /\ \A k, l \in 1 .. N : sorted[k] = sorted[l] => k = l
  /\ \A k, l \in 1 .. A : as[k] = as[l] => k = l
  /\ \A k, l \in 1 .. V : vs[k] = vs[l] => k = l

LEMMA LinksAre ==
  /\ IsOrder(Aliases) /\ IsOrder(Versions)
  /\ \A p \in ToSet(Aliases) \union ToSet(Versions) : p = <<p[1], p[2]>> /\ p[1] \in Texts /\ p[2] \in Texts
<1>1. \A links \in {Aliases, Versions} : IsOrder(links) /\ ToSet(links) \subseteq Texts \X Texts
  BY PlansAssumption
<1>2. /\ IsOrder(Aliases) /\ ToSet(Aliases) \subseteq Texts \X Texts
      /\ IsOrder(Versions) /\ ToSet(Versions) \subseteq Texts \X Texts
  BY <1>1
<1>3. \A p \in Texts \X Texts : p = <<p[1], p[2]>> /\ p[1] \in Texts /\ p[2] \in Texts
  OBVIOUS
<1> QED
  BY <1>2, <1>3

LEMMA RelationPlanIs ==
  ASSUME NEW surf, NEW aliases, AliasesOk(surf, aliases)
  PROVE  LET items == ConceptItems(surf, aliases)
             as == Ordered(Aliases, aliases)
             vs == Ordered(Versions, VersionsOf(surf))
         IN RelationsLaidOut(surf, aliases, Sorted(items), as, vs, RelationPlan(surf, aliases),
                             Cardinality(items), Len(as), Len(vs))
<1> DEFINE items == ConceptItems(surf, aliases)
           sorted == Sorted(items)
           versions == VersionsOf(surf)
           as == Ordered(Aliases, aliases)
           vs == Ordered(Versions, versions)
           a == ConceptRows(surf, aliases, items)
           b == LinkRows("alias", Aliases, aliases)
           c == LinkRows("version_variant", Versions, versions)
           rows == RelationPlan(surf, aliases)
           N == Cardinality(items)
           A == Len(as)
           V == Len(vs)
           SA == {ConceptRow(surf, aliases, x) : x \in items}
           SB == {Relation("alias", p[1], p[2]) : p \in aliases}
           SC == {Relation("version_variant", p[1], p[2]) : p \in versions}
<1>1. PICK two \in Nat : two = 2
  OBVIOUS
<1>2. items \in SUBSET [1 .. two -> Int] /\ IsFiniteSet(items)
  BY <1>1, ConceptItemsAre
<1>3. aliases \subseteq ToSet(Aliases) /\ versions \subseteq ToSet(Versions)
  BY DEF AliasesOk, VersionsOf
<1>4. rows = (a \o b) \o c
  BY DEF RelationPlan
<1>5. a = [n \in DOMAIN sorted |-> ConceptRow(surf, aliases, sorted[n])]
  BY DEF ConceptRows
<1> HIDE DEF items, versions
<1>6. /\ N \in Nat /\ sorted \in [1 .. N -> items]
      /\ \A x \in items : \E k \in 1 .. N : sorted[k] = x
      /\ \A k, l \in 1 .. N : sorted[k] = sorted[l] => k = l
  BY SMTT(30), <1>2, SortedIs, SortedPlaces
<1> HIDE DEF sorted, N, a
<1>7. /\ a \in Seq(SA) /\ Len(a) = N
      /\ \A k \in 1 .. N : sorted[k] \in items /\ a[k] = ConceptRow(surf, aliases, sorted[k])
  BY <1>5, <1>6
<1>8. /\ b \in Seq(SB) /\ Len(b) = A /\ A \in Nat
      /\ \A k \in 1 .. A : as[k] \in aliases /\ b[k] = Relation("alias", as[k][1], as[k][2])
      /\ \A k, l \in 1 .. A : as[k] = as[l] => k = l
  <2>1. LinksLaidOut("alias", aliases, as, b, A)
    BY <1>3, LinksAre, LinkRowsAre
  <2> HIDE DEF as, b, A
  <2> QED
    BY <2>1 DEF LinksLaidOut, SB
<1>9. /\ c \in Seq(SC) /\ Len(c) = V /\ V \in Nat
      /\ \A k \in 1 .. V :
           vs[k] \in versions /\ c[k] = Relation("version_variant", vs[k][1], vs[k][2])
      /\ \A k, l \in 1 .. V : vs[k] = vs[l] => k = l
  <2>1. LinksLaidOut("version_variant", versions, vs, c, V)
    BY <1>3, LinksAre, LinkRowsAre
  <2> HIDE DEF vs, c, V
  <2> QED
    BY <2>1 DEF LinksLaidOut, SC
<1> DEFINE ab == a \o b
<1> HIDE DEF as, vs, b, c, rows, A, V, SA, SB, SC
<1>10. /\ ab \in Seq(SA \union SB) /\ Len(ab) = N + A
       /\ \A k \in 1 .. Len(ab) : \/ k \in 1 .. N /\ ab[k] = a[k]
                                  \/ k - N \in 1 .. A /\ ab[k] = b[k - N]
       /\ \A k \in 1 .. N : k \in 1 .. Len(ab) /\ ab[k] = a[k]
  <2>1. /\ ab \in Seq(SA \union SB) /\ Len(ab) = Len(a) + Len(b)
        /\ \A k \in 1 .. Len(ab) : \/ k \in 1 .. Len(a) /\ ab[k] = a[k]
                                   \/ k - Len(a) \in 1 .. Len(b) /\ ab[k] = b[k - Len(a)]
        /\ \A k \in 1 .. Len(a) : k \in 1 .. Len(ab) /\ ab[k] = a[k]
    <3>1. a \in Seq(SA) /\ b \in Seq(SB) /\ ab = a \o b
      BY <1>7, <1>8
    <3> HIDE DEF ab
    <3> QED
      BY <3>1, Joined
  <2> HIDE DEF ab
  <2> QED
    BY <1>7, <1>8, <2>1
<1>11. rows = ab \o c
  BY <1>4
<1> HIDE DEF ab
<1>12. /\ rows \in Seq((SA \union SB) \union SC) /\ Len(rows) = Len(ab) + Len(c)
       /\ \A k \in 1 .. Len(rows) :
            \/ k \in 1 .. Len(ab) /\ rows[k] = ab[k]
            \/ k - Len(ab) \in 1 .. Len(c) /\ rows[k] = c[k - Len(ab)]
       /\ \A k \in 1 .. Len(ab) : k \in 1 .. Len(rows) /\ rows[k] = ab[k]
  <2>1. ab \in Seq(SA \union SB) /\ c \in Seq(SC)
    BY <1>9, <1>10
  <2> QED
    BY <1>11, <2>1, Joined
<1>13. Len(rows) = N + A + V /\ rows \in Seq({rows[k] : k \in DOMAIN rows})
  <2>1. Len(rows) = N + A + V
    BY <1>6, <1>8, <1>9, <1>10, <1>12
  <2>2. rows \in Seq({rows[k] : k \in DOMAIN rows})
    BY <1>12
  <2> QED
    BY <2>1, <2>2
<1>14. ASSUME NEW k \in 1 .. Len(rows)
       PROVE  \/ /\ k \in 1 .. N /\ sorted[k] \in items
                 /\ rows[k] = ConceptRow(surf, aliases, sorted[k])
              \/ /\ k - N \in 1 .. A /\ as[k - N] \in aliases
                 /\ rows[k] = Relation("alias", as[k - N][1], as[k - N][2])
              \/ /\ k - N - A \in 1 .. V /\ vs[k - N - A] \in versions
                 /\ rows[k] = Relation("version_variant", vs[k - N - A][1], vs[k - N - A][2])
  <2>1. CASE k \in 1 .. N /\ rows[k] = a[k]
    BY <1>7, <2>1
  <2>2. CASE k - N \in 1 .. A /\ rows[k] = b[k - N]
    BY <1>8, <2>2
  <2>3. CASE k - N - A \in 1 .. V /\ rows[k] = c[k - N - A]
    BY <1>9, <2>3
  <2>4. \/ k \in 1 .. N /\ rows[k] = a[k]
        \/ k - N \in 1 .. A /\ rows[k] = b[k - N]
        \/ k - (N + A) \in 1 .. V /\ rows[k] = c[k - (N + A)]
    BY <1>9, <1>10, <1>12
  <2>5. k - (N + A) = k - N - A
    BY <1>6, <1>8
  <2> QED
    BY <2>1, <2>2, <2>3, <2>4, <2>5
<1>15. ASSUME NEW x \in items
       PROVE  \E k \in 1 .. N :
                sorted[k] = x /\ k \in 1 .. Len(rows) /\ rows[k] = ConceptRow(surf, aliases, x)
  <2>1. PICK k \in 1 .. N : sorted[k] = x
    BY <1>6
  <2>2. k \in 1 .. Len(ab) /\ ab[k] = a[k]
    BY <1>10
  <2>3. k \in 1 .. Len(rows) /\ rows[k] = a[k]
    BY <1>12, <2>2
  <2> QED
    BY <1>7, <2>1, <2>3
<1>16. RelationsLaidOut(surf, aliases, sorted, as, vs, rows, N, A, V)
  BY <1>6, <1>8, <1>9, <1>13, <1>14, <1>15 DEF RelationsLaidOut, items, versions
<1> QED
  BY <1>16 DEF sorted, as, vs, rows, N, A, V, items, versions

\* What a row says of the link it is for.
LinkIs(row, type, p) ==
  /\ row.table = "surface_relations" /\ row.id = <<type, p[1], p[2]>>
  /\ row.refs = {SurfaceKey(p[1]), SurfaceKey(p[2])}
  /\ RefsIn("relations", row) = {} /\ Planned(row) = row

LEMMA LinkTypes ==
  ASSUME NEW row, NEW type, NEW p, LinkIs(row, type, p)
  PROVE  row.table = "surface_relations" /\ row.id[1] = type
BY DEF LinkIs

LEMMA LinkRowIs ==
  ASSUME NEW type, NEW p
  PROVE  LinkIs(Relation(type, p[1], p[2]), type, p)
<1> DEFINE a == p[1]
           b == p[2]
<1> HIDE DEF a, b
<1>1. LinkIs(Relation(type, a, b), type, p)
  <2>1. a = p[1] /\ b = p[2]
    BY DEF a, b
  <2> QED
    BY <2>1, RelationIs DEF LinkIs
<1> QED
  BY <1>1 DEF a, b

\* Rows for different links of a type differ.
LEMMA LinksDiffer ==
  ASSUME NEW row, NEW other, NEW type, NEW p, NEW q, LinkIs(row, type, p), LinkIs(other, type, q),
         row.id = other.id, p = <<p[1], p[2]>>, q = <<q[1], q[2]>>
  PROVE  p = q
<1>1. p[1] = q[1] /\ p[2] = q[2]
  <2> DEFINE a == p[1]
             b == p[2]
             c == q[1]
             d == q[2]
  <2> HIDE DEF a, b, c, d
  <2>1. <<type, a, b>> = <<type, c, d>>
    BY DEF LinkIs, a, b, c, d
  <2>2. a = c /\ b = d
    BY <2>1
  <2> QED
    BY <2>2 DEF a, b, c, d
<1> QED
  BY <1>1, Zenon

\* What build-relations plans can be inserted in its order: concepts before
\* what belongs to them.
LEMMA RelationsFit ==
  ASSUME NEW surf, NEW aliases, SurfacesOk(surf), AliasesOk(surf, aliases)
  PROVE  LET rows == RelationPlan(surf, aliases)
         IN /\ Fits("relations", rows)
            /\ \A k \in 1 .. Len(rows) :
                 \A key \in rows[k].refs \ RefsIn("relations", rows[k]) :
                   \E t \in TextsOf(surf) : key = SurfaceKey(t)
<1> DEFINE items == ConceptItems(surf, aliases)
           sorted == Sorted(items)
           as == Ordered(Aliases, aliases)
           vs == Ordered(Versions, VersionsOf(surf))
           rows == RelationPlan(surf, aliases)
           N == Cardinality(items)
           A == Len(as)
           V == Len(vs)
           Name(k) == NameOf(surf, aliases, sorted[k][1])
           IsConcept(k) == k \in 1 .. N /\ sorted[k] \in items /\ sorted[k][2] = 0
                             /\ rows[k] = ConceptRow(surf, aliases, sorted[k])
           IsMember(k) == k \in 1 .. N /\ sorted[k] \in items /\ sorted[k][2] # 0
                            /\ rows[k] = ConceptRow(surf, aliases, sorted[k])
           IsAlias(k) == k - N \in 1 .. A /\ as[k - N] \in aliases
                           /\ rows[k] = Relation("alias", as[k - N][1], as[k - N][2])
           IsVersion(k) ==
             k - N - A \in 1 .. V /\ vs[k - N - A] \in VersionsOf(surf)
               /\ rows[k] = Relation("version_variant", vs[k - N - A][1], vs[k - N - A][2])
<1>0. RelationsLaidOut(surf, aliases, sorted, as, vs, rows, N, A, V)
  BY RelationPlanIs
<1>1. \A x \in items :
        /\ x = <<x[1], x[2]>> /\ x[1] \in Heads(surf, aliases)
        /\ x[2] # 0 => /\ x[2] \in DOMAIN TextOrder
                       /\ TextOrder[x[2]] \in MembersOf(surf, aliases, x[1])
  BY ConceptItemsAre
<1>2. \A k : sorted[k] \in items => Name(k) \in MembersOf(surf, aliases, sorted[k][1])
                                     /\ Name(k) \in TextsOf(surf)
  BY <1>1, NameIs
<1>3. \A k : IsMember(k) => TextOrder[sorted[k][2]] \in TextsOf(surf)
  BY <1>1, MembersAre DEF Heads
<1>4. ASSUME NEW k \in 1 .. N, sorted[k][2] # 0
      PROVE  k - 1 \in 1 .. N /\ sorted[k - 1][1] = sorted[k][1]
  BY <1>4, MemberBefore
<1>5. \A k : IsConcept(k) =>
        /\ rows[k].table = "concepts" /\ rows[k].id = <<Name(k)>>
        /\ rows[k].refs = {SurfaceKey(Name(k))} /\ RefsIn("relations", rows[k]) = {}
        /\ Key(rows[k]) = ConceptKey(Name(k)) /\ Planned(rows[k]) = rows[k]
  BY ConceptRowIs
<1>6. \A k : IsMember(k) =>
        /\ rows[k].table = "concept_surfaces" /\ rows[k].id = <<Name(k), TextOrder[sorted[k][2]]>>
        /\ rows[k].refs = {ConceptKey(Name(k)), SurfaceKey(TextOrder[sorted[k][2]])}
        /\ RefsIn("relations", rows[k]) = {ConceptKey(Name(k))} /\ Planned(rows[k]) = rows[k]
  BY ConceptRowIs
<1> HIDE DEF items, sorted, as, vs, rows, N, A, V
<1>7. ASSUME NEW k, IsAlias(k)
      PROVE  LinkIs(rows[k], "alias", as[k - N])
  <2>1. rows[k] = Relation("alias", as[k - N][1], as[k - N][2])
    BY <1>7
  <2> QED
    BY <2>1, LinkRowIs
<1>8. ASSUME NEW k, IsVersion(k)
      PROVE  LinkIs(rows[k], "version_variant", vs[k - N - A])
  <2>1. rows[k] = Relation("version_variant", vs[k - N - A][1], vs[k - N - A][2])
    BY <1>8
  <2> QED
    BY <2>1, LinkRowIs
<1>9. /\ N \in Nat /\ A \in Nat /\ V \in Nat
      /\ rows \in Seq({rows[k] : k \in DOMAIN rows})
      /\ \A k \in 1 .. Len(rows) : IsConcept(k) \/ IsMember(k) \/ IsAlias(k) \/ IsVersion(k)
      /\ \A x \in items : \E k \in 1 .. N :
           sorted[k] = x /\ k \in 1 .. Len(rows) /\ rows[k] = ConceptRow(surf, aliases, x)
      /\ \A k, l \in 1 .. N : sorted[k] = sorted[l] => k = l
      /\ \A k, l \in 1 .. A : as[k] = as[l] => k = l
      /\ \A k, l \in 1 .. V : vs[k] = vs[l] => k = l
  BY <1>0 DEF RelationsLaidOut, items
<1>10. /\ \A p \in aliases : p = <<p[1], p[2]>> /\ p[1] \in TextsOf(surf) /\ p[2] \in TextsOf(surf)
       /\ \A p \in VersionsOf(surf) :
            p = <<p[1], p[2]>> /\ p[1] \in TextsOf(surf) /\ p[2] \in TextsOf(surf)
  BY LinksAre DEF AliasesOk, VersionsOf
<1>11. ASSUME NEW k, NEW l, sorted[k] \in items, sorted[l] \in items, Name(k) = Name(l)
       PROVE  sorted[k][1] = sorted[l][1]
  BY <1>1, <1>2, <1>11, HeadsDiffer
<1>12. ASSUME NEW k \in 1 .. Len(rows), NEW l \in 1 .. Len(rows), Key(rows[k]) = Key(rows[l])
       PROVE  k = l
  <2>1. rows[k].table = rows[l].table /\ rows[k].id = rows[l].id
    BY <1>12 DEF Key
  <2>2. CASE IsConcept(k) /\ IsConcept(l)
    <3>1. Name(k) = Name(l)
      BY <1>5, <2>1, <2>2
    <3>2. sorted[k][1] = sorted[l][1] /\ sorted[k][2] = sorted[l][2]
      BY <1>11, <2>2, <3>1
    <3>3. sorted[k] = sorted[l]
      BY <1>1, <2>2, <3>2, Zenon
    <3> QED
      BY <1>9, <2>2, <3>3
  <2>3. CASE IsMember(k) /\ IsMember(l)
    <3>1. Name(k) = Name(l) /\ TextOrder[sorted[k][2]] = TextOrder[sorted[l][2]]
      BY <1>6, <2>1, <2>3
    <3>a. sorted[k][1] = sorted[l][1]
      BY <1>11, <2>3, <3>1
    <3>b. sorted[k][2] \in DOMAIN TextOrder /\ sorted[l][2] \in DOMAIN TextOrder
      BY <1>1, <2>3
    <3>2. sorted[k][1] = sorted[l][1] /\ sorted[k][2] = sorted[l][2]
      BY <3>a, <3>b, <3>1, TextsAre
    <3>3. sorted[k] = sorted[l]
      BY <1>1, <2>3, <3>2, Zenon
    <3> QED
      BY <1>9, <2>3, <3>3
  <2>4. CASE IsAlias(k) /\ IsAlias(l)
    <3>0. /\ LinkIs(rows[k], "alias", as[k - N]) /\ LinkIs(rows[l], "alias", as[l - N])
          /\ as[k - N] \in aliases /\ as[l - N] \in aliases
      BY <1>7, <2>4
    <3>1. as[k - N] = <<as[k - N][1], as[k - N][2]>> /\ as[l - N] = <<as[l - N][1], as[l - N][2]>>
      BY <1>10, <3>0
    <3>2. as[k - N] = as[l - N]
      BY <2>1, <3>0, <3>1, LinksDiffer
    <3>3. k - N = l - N
      BY <1>9, <2>4, <3>2
    <3> QED
      BY <1>9, <3>3
  <2>5. CASE IsVersion(k) /\ IsVersion(l)
    <3> DEFINE p == vs[k - N - A]
               q == vs[l - N - A]
    <3>0. /\ LinkIs(rows[k], "version_variant", p) /\ LinkIs(rows[l], "version_variant", q)
          /\ p \in VersionsOf(surf) /\ q \in VersionsOf(surf)
      BY <1>8, <2>5
    <3>1. p = <<p[1], p[2]>> /\ q = <<q[1], q[2]>>
      BY <1>10, <3>0
    <3> HIDE DEF p, q
    <3>2. p = q
      BY <2>1, <3>0, <3>1, LinksDiffer
    <3>3. k - N - A = l - N - A
      BY <1>9, <2>5, <3>2 DEF p, q
    <3> QED
      BY <1>9, <3>3
  <2>6. ASSUME NEW i \in {k, l}
        PROVE  /\ IsConcept(i) => rows[i].table = "concepts"
               /\ IsMember(i) => rows[i].table = "concept_surfaces"
               /\ IsAlias(i) => rows[i].table = "surface_relations" /\ rows[i].id[1] = "alias"
               /\ IsVersion(i) =>
                    rows[i].table = "surface_relations" /\ rows[i].id[1] = "version_variant"
    <3>1. IsConcept(i) => rows[i].table = "concepts"
      BY <1>5
    <3>2. IsMember(i) => rows[i].table = "concept_surfaces"
      BY <1>6
    <3>3. IsAlias(i) => rows[i].table = "surface_relations" /\ rows[i].id[1] = "alias"
      <4>1. ASSUME IsAlias(i)
            PROVE  LinkIs(rows[i], "alias", as[i - N])
        BY <1>7, <4>1
      <4> QED
        BY <4>1, LinkTypes
    <3>4. IsVersion(i) =>
            rows[i].table = "surface_relations" /\ rows[i].id[1] = "version_variant"
      <4>1. ASSUME IsVersion(i)
            PROVE  LinkIs(rows[i], "version_variant", vs[i - N - A])
        BY <1>8, <4>1
      <4> QED
        BY <4>1, LinkTypes
    <3> HIDE DEF IsConcept, IsMember, IsAlias, IsVersion
    <3> QED
      BY <3>1, <3>2, <3>3, <3>4
  <2>7. /\ IsConcept(k) \/ IsMember(k) \/ IsAlias(k) \/ IsVersion(k)
        /\ IsConcept(l) \/ IsMember(l) \/ IsAlias(l) \/ IsVersion(l)
    BY <1>9
  <2> HIDE DEF IsConcept, IsMember, IsAlias, IsVersion
  <2> QED
    BY <2>1, <2>2, <2>3, <2>4, <2>5, <2>6, <2>7
<1>13. ASSUME NEW k \in 1 .. Len(rows)
       PROVE  RefsIn("relations", rows[k]) \subseteq
                (IF k = 1 THEN {} ELSE {Key(rows[k - 1])} \union RefsIn("relations", rows[k - 1]))
  <2>1. CASE IsConcept(k) \/ IsAlias(k) \/ IsVersion(k)
    BY <1>5, <1>7, <1>8, <2>1 DEF LinkIs
  <2>2. CASE IsMember(k)
    <3>1. k - 1 \in 1 .. N /\ sorted[k - 1][1] = sorted[k][1] /\ k # 1
      BY <1>4, <2>2
    <3>2. sorted[k - 1] \in items /\ k - 1 \in 1 .. Len(rows)
            /\ rows[k - 1] = ConceptRow(surf, aliases, sorted[k - 1])
      <4>1. /\ Len(rows) = N + A + V
            /\ \A i \in 1 .. Len(rows) : IsConcept(i) \/ IsMember(i) \/ IsAlias(i) \/ IsVersion(i)
        BY <1>0, <1>9 DEF RelationsLaidOut
      <4>2. k - 1 \in 1 .. Len(rows)
        BY <1>9, <3>1, <4>1
      <4>3. k - 1 =< N /\ k \in Int
        BY <1>9, <3>1
      <4>4. ~(k - 1 - N \in 1 .. A) /\ ~(k - 1 - N - A \in 1 .. V)
        BY <1>9, <4>3
      <4> QED
        BY <4>1, <4>2, <4>4
    <3>3. IsConcept(k - 1) \/ IsMember(k - 1)
      BY <3>1, <3>2
    <3>4. Name(k - 1) = Name(k)
      BY <3>1
    <3>5. RefsIn("relations", rows[k]) = {ConceptKey(Name(k))}
      BY <1>6, <2>2
    <3>6. \/ Key(rows[k - 1]) = ConceptKey(Name(k - 1))
          \/ RefsIn("relations", rows[k - 1]) = {ConceptKey(Name(k - 1))}
      BY <1>5, <1>6, <3>3
    <3> QED
      BY <3>1, <3>4, <3>5, <3>6
  <2> QED
    BY <1>9, <2>1, <2>2
<1>14. Relations!Chained(rows)
  BY <1>12, <1>13 DEF Relations!Chained
<1>15. \A k \in 1 .. Len(rows) :
         rows[k].table \in TablesOf["relations"] /\ Planned(rows[k]) = rows[k]
  BY <1>5, <1>6, <1>7, <1>8, <1>9 DEF TablesOf, LinkIs
<1>16. Fits("relations", rows)
  BY <1>9, <1>14, <1>15 DEF Fits
<1>17. ASSUME NEW k \in 1 .. Len(rows), NEW key \in rows[k].refs \ RefsIn("relations", rows[k])
       PROVE  \E t \in TextsOf(surf) : key = SurfaceKey(t)
  <2>1. CASE IsConcept(k)
    BY <1>2, <1>5, <1>17, <2>1
  <2>2. CASE IsMember(k)
    BY <1>3, <1>6, <1>17, <2>2
  <2>3. CASE IsAlias(k)
    <3> DEFINE p == as[k - N]
    <3>1. p[1] \in TextsOf(surf) /\ p[2] \in TextsOf(surf)
      BY <1>10, <2>3
    <3>2. rows[k].refs = {SurfaceKey(p[1]), SurfaceKey(p[2])}
      BY <1>7, <2>3 DEF LinkIs
    <3> HIDE DEF p
    <3> QED
      BY <1>17, <3>1, <3>2
  <2>4. CASE IsVersion(k)
    <3> DEFINE p == vs[k - N - A]
    <3>1. p[1] \in TextsOf(surf) /\ p[2] \in TextsOf(surf)
      BY <1>10, <2>4
    <3>2. rows[k].refs = {SurfaceKey(p[1]), SurfaceKey(p[2])}
      BY <1>8, <2>4 DEF LinkIs
    <3> HIDE DEF p
    <3> QED
      BY <1>17, <3>1, <3>2
  <2> QED
    BY <1>9, <2>1, <2>2, <2>3, <2>4
<1> QED
  BY <1>16, <1>17 DEF rows

-----------------------------------------------------------------------------
(* What can be said of every row that is planned, or there.                *)

\* The counts of an edge are those of sets of windows.
CountsOk(counts) ==
  /\ 0 < counts.both /\ counts.both =< counts.a /\ counts.both =< counts.b
  /\ counts.a + counts.b - counts.both =< counts.all

Sound(row) ==
  /\ row.table = "surfaces" => \E t \in Texts : row.id = <<t>> /\ row.df \in Nat
  /\ row.table = "cooccurrence_edges" => CountsOk(row.counts)

LEMMA SurfaceDf ==
  ASSUME NEW documents, NEW text \in Texts
  PROVE  LET row == SurfaceRow(Items(documents), text)
         IN row.id = <<text>> /\ row.df \in Nat
<1> DEFINE found == MentionsOf(Items(documents), text)
           f == [x \in found |-> x[1]]
<1>1. IsFiniteSet(found)
  BY ItemsAre, FS_Subset DEF MentionsOf
<1> HIDE DEF found
<1>2. Cardinality({f[x] : x \in found}) \in Nat
  BY <1>1, FiniteImage
<1>3. {f[x] : x \in found} = {x[1] : x \in found}
  OBVIOUS
<1>4. Cardinality({x[1] : x \in found}) \in Nat
  BY <1>2, <1>3
<1> QED
  BY <1>4 DEF SurfaceRow, Surface, found

LEMMA EvidenceSound ==
  ASSUME NEW documents, NEW k \in 1 .. Len(EvidencePlan(documents))
  PROVE  Sound(EvidencePlan(documents)[k])
<1> DEFINE items == Items(documents)
           sorted == Sorted(items)
           found == Ordered(TextOrder, {text \in Texts : MentionsOf(items, text) # {}})
           rows == EvidencePlan(documents)
           N == Cardinality(items)
           M == Len(found)
<1>1. LaidOut(items, sorted, found, rows, N, M)
  BY EvidencePlanIs
<1>2. k \in 1 .. Len(rows)
  OBVIOUS
<1> HIDE DEF sorted, found, rows, N, M
<1>3. CASE sorted[k] \in items /\ rows[k] = EvidenceRow(items, sorted[k])
  <2> DEFINE x == sorted[k]
  <2> HIDE DEF x
  <2>1. x \in Items(documents) /\ rows[k] = EvidenceRow(Items(documents), x)
    BY <1>3 DEF x
  <2>2. rows[k].table \in {"jd_sections", "keyword_mentions", "blocked_surface_candidates"}
    BY <2>1, RefsOfItem
  <2> QED
    BY <2>2 DEF Sound, rows
<1>4. CASE found[k - N] \in Texts /\ rows[k] = SurfaceRow(items, found[k - N])
  <2> DEFINE t == found[k - N]
  <2> HIDE DEF t
  <2>1. t \in Texts /\ rows[k] = SurfaceRow(Items(documents), t)
    BY <1>4 DEF t
  <2>2. rows[k].id = <<t>> /\ rows[k].df \in Nat
    BY <2>1, SurfaceDf
  <2>3. rows[k].table = "surfaces"
    BY <2>1, SurfaceRowIs
  <2> QED
    BY <2>1, <2>2, <2>3 DEF Sound, rows
<1> QED
  BY <1>1, <1>2, <1>3, <1>4 DEF LaidOut

\* There are finitely many windows.
LEMMA WindowsAreFinite ==
  ASSUME NEW window, NEW mentions, IsFiniteSet(mentions)
  PROVE  IsFiniteSet(Windows(window, mentions))
<1> DEFINE counted == IF window = "title_plus_requirements"
                      THEN {m \in mentions : SectionType(m.section) \in {"title", "requirements"}}
                      ELSE mentions
           PlaceOf(m) == IF window = "section" THEN m.section ELSE <<m.jd>>
           f == [m \in counted |-> {n \in counted : PlaceOf(n) = PlaceOf(m)}]
<1>1. IsFiniteSet(counted)
  BY FS_Subset
<1>2. Windows(window, mentions) = {{n \in counted : PlaceOf(n) = PlaceOf(m)} : m \in counted}
  BY DEF Windows
<1> HIDE DEF counted, PlaceOf
<1>3. Windows(window, mentions) = {f[m] : m \in counted}
  BY <1>2
<1> HIDE DEF f
<1> QED
  BY <1>1, <1>3, FiniteImage

\* Windows with both of two texts are those with the one and with the other.
LEMMA WindowsCount ==
  ASSUME NEW windows, IsFiniteSet(windows), NEW a, NEW b
  PROVE  LET both == WindowsWith(windows, {a, b})
             n == WindowsWith(windows, {a})
             m == WindowsWith(windows, {b})
         IN both \in Nat /\ both =< n /\ both =< m /\ n + m - both =< Cardinality(windows)
<1> DEFINE With(texts) == {w \in windows : texts \subseteq {m.text : m \in w}}
           A == With({a})
           B == With({b})
           C == With({a, b})
<1>1. \A texts : WindowsWith(windows, texts) = Cardinality(With(texts))
  BY DEF WindowsWith
<1>2. C = A \intersect B /\ A \in SUBSET windows /\ B \in SUBSET windows
  OBVIOUS
<1>3. WindowsWith(windows, {a}) = Cardinality(A) /\ WindowsWith(windows, {b}) = Cardinality(B)
        /\ WindowsWith(windows, {a, b}) = Cardinality(C)
  BY <1>1
<1> HIDE DEF A, B, C, With
<1>4. /\ IsFiniteSet(A) /\ IsFiniteSet(B) /\ IsFiniteSet(C) /\ IsFiniteSet(A \union B)
      /\ C \subseteq A /\ C \subseteq B /\ A \union B \subseteq windows
  BY <1>2, FS_Subset
<1>5. /\ Cardinality(A) \in Nat /\ Cardinality(B) \in Nat /\ Cardinality(C) \in Nat
      /\ Cardinality(windows) \in Nat
  BY <1>4, FS_CardinalityType
<1>6. Cardinality(C) =< Cardinality(A) /\ Cardinality(C) =< Cardinality(B)
        /\ Cardinality(A \union B) =< Cardinality(windows)
  BY <1>4, FS_Subset
<1>7. Cardinality(A \union B) = Cardinality(A) + Cardinality(B) - Cardinality(A \intersect B)
  BY <1>4, FS_Union
<1> QED
  BY <1>2, <1>3, <1>5, <1>6, <1>7

LEMMA EdgesSound ==
  ASSUME NEW rows, IsFiniteSet(rows), NEW k \in 1 .. Len(EdgePlan(rows))
  PROVE  Sound(EdgePlan(rows)[k])
<1> DEFINE mentions == ServingMentions(rows)
           x == Sorted(EdgeItems(mentions))[k]
           edge == EdgeOf(mentions, x)
           windows == WindowsOf(mentions, x)
           a == TextOrder[x[2]]
           b == TextOrder[x[3]]
<1>1. x \in EdgeItems(mentions) /\ EdgePlan(rows)[k] = edge
  BY EdgePlanIs
<1>2. edge.counts.both > 0
  BY <1>1, EdgeItemsAre
<1>3. IsFiniteSet(mentions)
  BY FS_Subset DEF ServingMentions, Of
<1> HIDE DEF mentions
<1>4. IsFiniteSet(windows)
  BY <1>3, WindowsAreFinite DEF WindowsOf
<1>5. /\ edge.counts.both = WindowsWith(windows, {a, b})
      /\ edge.counts.a = WindowsWith(windows, {a}) /\ edge.counts.b = WindowsWith(windows, {b})
      /\ edge.counts.all = Cardinality(windows)
  BY ZenonT(30), EdgeCounts
<1>6. edge.table = "cooccurrence_edges"
  BY EdgeIs
<1> HIDE DEF edge, windows, a, b
<1>7. CountsOk(edge.counts)
  BY <1>2, <1>4, <1>5, WindowsCount DEF CountsOk
<1> QED
  BY <1>1, <1>6, <1>7 DEF Sound

LEMMA RelationsSound ==
  ASSUME NEW rows, Fits("relations", rows), NEW k \in 1 .. Len(rows)
  PROVE  Sound(rows[k])
<1>1. rows[k].table \in TablesOf["relations"]
  BY DEF Fits
<1> QED
  BY <1>1 DEF Sound, TablesOf

-----------------------------------------------------------------------------
(* What commands plan fits, whatever the others do meanwhile.              *)

\* What a stage refers to in tables that it does not make itself.
Outer(s, row) == row.refs \ RefsIn(s, row)

InsertInv(c) ==
  pc[c] = "insert" =>
    /\ Fits(stage[c], plan[c])
    /\ \A k \in 1 .. Len(plan[c]) :
         /\ Sound(plan[c][k])
         /\ \A key \in Outer(stage[c], plan[c][k]) : key[1] \in {"jd_documents", "surfaces"}
         /\ calm[stage[c]] => Outer(stage[c], plan[c][k]) \subseteq Keys(db)

EvidenceInv(c) ==
  pc[c] = "evidence" =>
    /\ stage[c] = "relations"
    /\ \A row \in surfaces[c] : row.table = "surfaces" /\ Sound(row)
    /\ calm["relations"] => Keys(surfaces[c]) \subseteq Keys(db)

\* The rows are sound, and so is what commands keep in memory; while a rebuild
\* is calm, nobody deletes what it builds on.
FitInv ==
  /\ IsFiniteSet(db)
  /\ \A row \in db : Sound(row)
  /\ \A c \in Commands : InsertInv(c) /\ EvidenceInv(c)

LEMMA FitInvFits ==
  ASSUME FitInv
  PROVE  PlansFit
BY DEF FitInv, InsertInv, PlansFit, Outer

\* Nobody makes a rebuild calm that is under way.
LEMMA CalmBefore ==
  ASSUME PlaceInv, HistoryInv, NEW c \in Commands, Run(c),
         NEW s \in Stages, Rebuilders(s) # {}, calm'[s]
  PROVE  calm[s]
<1>1. CASE Kill(c)
  BY <1>1, KillHistory
<1>2. CASE pc[c] = "clear" /\ Cleared(c)
  <2>1. stage[c] \in Stages
    BY <1>2 DEF PlaceInv
  <2> QED
    BY <1>2, <2>1, ClearHistory
<1>3. ASSUME NEW rows, pc[c] \in {"load", "evidence"}, Plan(c, rows)
      PROVE  calm[s]
  <2>1. stage[c] \in Stages
    BY <1>3 DEF PlaceInv, Rebuilding
  <2> QED
    BY <1>3, <2>1, PlanHistory
<1> QED
  BY <1>1, <1>2, <1>3, Kinds

\* While a rebuild stays calm, the rows that it builds on stay.
LEMMA OuterRowsStay ==
  ASSUME PlaceInv, HistoryInv, NEW c \in Commands, Run(c),
         NEW s \in Stages, Rebuilders(s) # {}, calm'[s],
         NEW key \in Keys(db), key[1] \in {"jd_documents", "surfaces"}, key[1] \notin TablesOf[s]
  PROVE  key \in Keys(db')
<1>1. PICK row \in db : key = Key(row)
  BY DEF Keys
<1>2. row.table = key[1]
  BY <1>1 DEF Key
<1>3. CASE Clear(c) /\ Removable(stage[c])
  <2>1. /\ stage[c] \in Stages /\ Cleared(c) /\ db' = Without(stage[c])
    BY <1>3 DEF Clear, Cleared, PlaceInv
  <2>2. calm[s] /\ (stage[c] = s \/ ~(stage[c] = "extract" /\ s \in Dependent))
    BY <2>1, ClearHistory
  <2>3. row.table \notin TablesOf[stage[c]]
    BY <1>2, <2>1, <2>2, StagesAre DEF TablesOf, Dependent
  <2>4. row \in db'
    BY <1>1, <2>1, <2>3 DEF Without
  <2> QED
    BY <1>1, <2>4 DEF Keys
<1>4. CASE ~(Clear(c) /\ Removable(stage[c]))
  <2>2. db \subseteq db'
    BY <1>4 DEF Run, Start, EnsureRun, ReadLine, InsertDocument, EndImport, Clear,
                LoadDocuments, LoadSurfaces, FindEvidence, LoadMentions, Plan, Insert,
                Finish, Kill, Leave, Enter, database
  <2> QED
    BY <1>1, <2>2 DEF Keys
<1> QED
  BY <1>3, <1>4

LEMMA SurfacesOfOthers ==
  ASSUME NEW c \in Commands, Run(c), NEW d \in Commands, d # c
  PROVE  surfaces'[d] = surfaces[d]
<1>1. surfaces' = surfaces \/ \E x : surfaces' = [surfaces EXCEPT ![c] = x]
  BY Zenon DEF Run, Start, EnsureRun, ReadLine, InsertDocument, EndImport, Clear, Cleared,
     LoadDocuments, LoadSurfaces, FindEvidence, LoadMentions, Plan, Insert, Finish,
     Kill, Leave, Enter
<1>2. CASE surfaces' = surfaces
  BY <1>2
<1>3. ASSUME NEW x, surfaces' = [surfaces EXCEPT ![c] = x]
      PROVE  surfaces'[d] = surfaces[d]
  BY <1>3
<1> QED
  BY <1>1, <1>2, <1>3

\* The others' memory stays right.
LEMMA OthersFit ==
  ASSUME PlaceInv, HistoryInv, MemoryInv, FitInv, NEW c \in Commands, Run(c),
         NEW d \in Commands, d # c
  PROVE  InsertInv(d)' /\ EvidenceInv(d)'
<1>1. /\ pc'[d] = pc[d] /\ stage'[d] = stage[d] /\ plan'[d] = plan[d]
      /\ surfaces'[d] = surfaces[d]
  BY OnlyOwn, OwnMemory, SurfacesOfOthers
<1>2. InsertInv(d) /\ EvidenceInv(d)
  BY DEF FitInv
<1>3. CASE pc[d] = "insert"
  <2> DEFINE s == stage[d]
             rows == plan[d]
  <2>1. s \in Stages /\ Rebuilders(s) # {}
    BY <1>3 DEF PlaceInv, Rebuilders, Rebuilding
  <2>2. Fits(s, rows) /\ \A k \in 1 .. Len(rows) :
          /\ Sound(rows[k])
          /\ \A key \in Outer(s, rows[k]) : key[1] \in {"jd_documents", "surfaces"}
          /\ calm[s] => Outer(s, rows[k]) \subseteq Keys(db)
    BY <1>2, <1>3 DEF InsertInv
  <2>3. ASSUME calm'[s], NEW k \in 1 .. Len(rows), NEW key \in Outer(s, rows[k])
        PROVE  key \in Keys(db')
    <3>1. key[1] \notin TablesOf[s]
      BY DEF Outer, RefsIn
    <3>2. key[1] \in {"jd_documents", "surfaces"}
      BY <2>2
    <3>3. calm[s]
      BY <2>1, <2>3, CalmBefore
    <3> QED
      BY <2>1, <2>2, <2>3, <3>1, <3>2, <3>3, OuterRowsStay
  <2>4. /\ stage'[d] = s /\ plan'[d] = rows
    BY <1>1
  <2> HIDE DEF s, rows
  <2>5. InsertInv(d)'
    BY <2>2, <2>3, <2>4 DEF InsertInv, Outer, RefsIn, Keys
  <2>6. EvidenceInv(d)'
    BY <1>1, <1>3 DEF EvidenceInv
  <2> QED
    BY <2>5, <2>6
<1>4. CASE pc[d] = "evidence"
  <2>1. /\ stage[d] = "relations" /\ "relations" \in Stages /\ Rebuilders("relations") # {}
        /\ \A row \in surfaces[d] : row.table = "surfaces" /\ Sound(row)
    BY <1>2, <1>4, StagesAre DEF EvidenceInv, Rebuilders, Rebuilding
  <2>2. ASSUME calm'["relations"], NEW key \in Keys(surfaces[d])
        PROVE  key \in Keys(db')
    <3>1. key[1] = "surfaces"
      BY <2>1 DEF Keys, Key
    <3>2. "surfaces" \notin TablesOf["relations"]
      BY DEF TablesOf
    <3>3. calm["relations"]
      BY <2>1, <2>2, CalmBefore
    <3>4. key \in Keys(db)
      BY <1>2, <1>4, <3>3 DEF EvidenceInv
    <3> QED
      BY <2>1, <2>2, <3>1, <3>2, <3>4, OuterRowsStay
  <2>3. EvidenceInv(d)'
    BY <1>1, <1>4, <2>1, <2>2 DEF EvidenceInv, Keys
  <2>4. InsertInv(d)'
    BY <1>1, <1>4 DEF InsertInv
  <2> QED
    BY <2>3, <2>4
<1>5. CASE pc[d] # "insert" /\ pc[d] # "evidence"
  BY <1>1, <1>5 DEF InsertInv, EvidenceInv
<1> QED
  BY <1>3, <1>4, <1>5

\* What is in the rows of documents.
DocumentsOk == \A row \in Of(db, "jd_documents") : \E jd \in Jds : row = Document(jd)

LEMMA PlanFits ==
  ASSUME PlaceInv, HistoryInv, MemoryInv, FitInv, NEW c \in Commands, pc[c] \in {"load", "evidence"},
         NEW rows, Plan(c, rows), Fits(stage[c], rows),
         \A k \in 1 .. Len(rows) :
           /\ Sound(rows[k])
           /\ \A key \in Outer(stage[c], rows[k]) :
                /\ key[1] \in {"jd_documents", "surfaces"}
                /\ calm[stage[c]] => key \in Keys(db)
  PROVE  InsertInv(c)' /\ EvidenceInv(c)'
<1> DEFINE s == stage[c]
<1>1. s \in Stages
  BY DEF PlaceInv, Rebuilding
<1>2. /\ pc'[c] = "insert" /\ stage'[c] = s /\ plan'[c] = rows /\ db' = db
  BY DEF Plan, PlaceInv, MemoryInv, database
<1>3. calm'[s] => calm[s]
  BY <1>1, PlanHistory
<1>4. /\ Fits(s, rows)
      /\ \A k \in 1 .. Len(rows) :
           /\ Sound(rows[k])
           /\ \A key \in Outer(s, rows[k]) :
                /\ key[1] \in {"jd_documents", "surfaces"}
                /\ calm[s] => key \in Keys(db)
  OBVIOUS
<1> HIDE DEF s
<1>5. InsertInv(c)'
  BY <1>2, <1>3, <1>4 DEF InsertInv, Outer, RefsIn, Keys
<1> QED
  BY <1>2, <1>5 DEF EvidenceInv

LEMMA ExtractionPlanned ==
  ASSUME PlaceInv, HistoryInv, MemoryInv, FitInv, DocumentsOk,
         NEW c \in Commands, LoadDocuments(c)
  PROVE  InsertInv(c)' /\ EvidenceInv(c)'
<1> DEFINE documents == {row.id[1] : row \in Of(db, "jd_documents")}
           rows == EvidencePlan(documents)
<1>1. stage[c] = "extract" /\ Plan(c, rows) /\ pc[c] = "load"
  BY DEF LoadDocuments
<1>2. \A jd \in documents : DocumentKey(jd) \in Keys(db)
  <2> SUFFICES ASSUME NEW row \in Of(db, "jd_documents")
               PROVE  DocumentKey(row.id[1]) \in Keys(db)
    OBVIOUS
  <2>1. PICK jd \in Jds : row = Document(jd)
    BY DEF DocumentsOk
  <2>2. Key(row) = DocumentKey(row.id[1])
    BY <2>1 DEF Document, Key, DocumentKey
  <2> QED
    BY <2>2 DEF Keys, Of
<1> HIDE DEF documents
<1>3. /\ Fits("extract", rows)
      /\ \A k \in 1 .. Len(rows) :
           \A key \in rows[k].refs \ RefsIn("extract", rows[k]) :
             \E jd \in documents : key = DocumentKey(jd)
  BY EvidenceFits
<1>4. \A k \in 1 .. Len(rows) : Sound(rows[k])
  BY EvidenceSound
<1> HIDE DEF rows
<1>5. \A k \in 1 .. Len(rows) : \A key \in Outer("extract", rows[k]) :
        key[1] \in {"jd_documents", "surfaces"} /\ key \in Keys(db)
  BY <1>2, <1>3 DEF Outer, DocumentKey
<1> QED
  BY <1>1, <1>3, <1>4, <1>5, PlanFits

LEMMA RelationsPlanned ==
  ASSUME PlaceInv, HistoryInv, MemoryInv, FitInv, NEW c \in Commands, FindEvidence(c)
  PROVE  InsertInv(c)' /\ EvidenceInv(c)'
<1> DEFINE surf == surfaces[c]
           aliases == AliasesWithEvidence(db, surf)
           rows == RelationPlan(surf, aliases)
<1>1. pc[c] = "evidence" /\ Plan(c, rows)
  BY DEF FindEvidence
<1>2. /\ stage[c] = "relations"
      /\ \A row \in surf : row.table = "surfaces" /\ Sound(row)
      /\ calm["relations"] => Keys(surf) \subseteq Keys(db)
  BY <1>1 DEF FitInv, EvidenceInv
<1>3. AliasesOk(surf, aliases)
  BY DEF AliasesOk, AliasesWithEvidence
<1> HIDE DEF surf, aliases
<1>4. SurfacesOk(surf)
  BY <1>2 DEF SurfacesOk, Sound
<1>5. /\ Fits("relations", rows)
      /\ \A k \in 1 .. Len(rows) :
           \A key \in rows[k].refs \ RefsIn("relations", rows[k]) :
             \E t \in TextsOf(surf) : key = SurfaceKey(t)
  BY <1>3, <1>4, RelationsFit
<1> HIDE DEF rows
<1>6. \A k \in 1 .. Len(rows) : Sound(rows[k])
  BY <1>5, RelationsSound
<1>7. \A t \in TextsOf(surf) : SurfaceKey(t) \in Keys(surf)
  <2> SUFFICES ASSUME NEW row \in surf PROVE SurfaceKey(row.id[1]) \in Keys(surf)
    BY DEF TextsOf
  <2>1. PICK t \in Texts : row.id = <<t>>
    BY <1>4 DEF SurfacesOk
  <2>2. Key(row) = SurfaceKey(row.id[1])
    BY <1>2, <2>1 DEF Key, SurfaceKey
  <2> QED
    BY <2>2 DEF Keys
<1>8. \A k \in 1 .. Len(rows) : \A key \in Outer("relations", rows[k]) :
        key[1] \in {"jd_documents", "surfaces"} /\ (calm["relations"] => key \in Keys(db))
  BY <1>2, <1>5, <1>7 DEF Outer, SurfaceKey
<1> QED
  BY <1>1, <1>2, <1>5, <1>6, <1>8, PlanFits

LEMMA EdgesPlanned ==
  ASSUME PlaceInv, HistoryInv, MemoryInv, FitInv, NEW c \in Commands, LoadMentions(c)
  PROVE  InsertInv(c)' /\ EvidenceInv(c)'
<1> DEFINE rows == EdgePlan(db)
<1>1. stage[c] = "edges" /\ Plan(c, rows) /\ pc[c] = "load"
  BY DEF LoadMentions
<1>2. /\ Fits("edges", rows)
      /\ \A k \in 1 .. Len(rows) :
           rows[k].refs \ RefsIn("edges", rows[k]) \subseteq
             {key \in Keys(db) : key[1] = "surfaces"}
  BY EdgesFit
<1>3. \A k \in 1 .. Len(rows) : Sound(rows[k])
  BY EdgesSound DEF FitInv
<1> HIDE DEF rows
<1>4. \A k \in 1 .. Len(rows) : \A key \in Outer("edges", rows[k]) :
        key[1] \in {"jd_documents", "surfaces"} /\ key \in Keys(db)
  BY <1>2 DEF Outer
<1> QED
  BY <1>1, <1>2, <1>3, <1>4, PlanFits

LEMMA SurfacesLoaded ==
  ASSUME PlaceInv, FitInv, NEW c \in Commands, LoadSurfaces(c),
         surfaces = [d \in Commands |-> surfaces[d]]
  PROVE  InsertInv(c)' /\ EvidenceInv(c)'
<1>1. /\ pc'[c] = "evidence" /\ stage'[c] = "relations" /\ surfaces'[c] = Of(db, "surfaces")
      /\ db' = db
  BY DEF LoadSurfaces, PlaceInv, database
<1>2. \A row \in Of(db, "surfaces") : row.table = "surfaces" /\ Sound(row) /\ Key(row) \in Keys(db)
  BY DEF Of, FitInv, Keys
<1> QED
  BY <1>1, <1>2 DEF InsertInv, EvidenceInv, Keys

\* Any other step of a command: it inserts from the plan it has, or has none.
LEMMA OtherStepsFit ==
  ASSUME PlaceInv, MemoryInv, FitInv, NEW c \in Commands,
         \/ \E f \in Files : Start(c, "import", f)
         \/ Start(c, "extract", <<>>) \/ Start(c, "relations", <<>>)
         \/ EnsureRun(c) \/ ReadLine(c) \/ InsertDocument(c) \/ EndImport(c)
         \/ Clear(c) \/ Insert(c) \/ Finish(c) \/ Kill(c)
  PROVE  InsertInv(c)' /\ EvidenceInv(c)'
<1>1. CASE Insert(c) /\ pc'[c] = "insert"
  <2>1. /\ stage'[c] = stage[c] /\ plan'[c] = plan[c] /\ pc[c] = "insert"
        /\ calm' = calm /\ db \subseteq db'
    BY <1>1 DEF Insert, PlaceInv, Leave, Enter, history
  <2>2. InsertInv(c)
    BY DEF FitInv
  <2>3. Keys(db) \subseteq Keys(db')
    BY <2>1 DEF Keys
  <2> QED
    BY <1>1, <2>1, <2>2, <2>3 DEF InsertInv, EvidenceInv, Keys, Outer, RefsIn
<1>2. CASE pc'[c] \notin {"insert", "evidence"}
  BY <1>2 DEF InsertInv, EvidenceInv
<1>3. pc'[c] \in {"insert", "evidence"} => Insert(c) /\ pc'[c] = "insert"
  BY DEF PlaceInv, Start, EnsureRun, ReadLine, InsertDocument, EndImport, Clear, Cleared,
         Insert, Finish, Kill, Leave, Enter, First
<1> QED
  BY <1>1, <1>2, <1>3

\* The rows stay sound and finitely many.
LEMMA RowsFit ==
  ASSUME PlaceInv, MemoryInv, FitInv, NEW c \in Commands, Run(c)
  PROVE  IsFiniteSet(db') /\ \A row \in db' : Sound(row)
<1>0. IsFiniteSet(db) /\ \A row \in db : Sound(row)
  BY DEF FitInv
<1>1. ASSUME NEW row, Sound(row), db' = db \union {row}
      PROVE  IsFiniteSet(db') /\ \A r \in db' : Sound(r)
  BY <1>0, <1>1, FS_AddElement
<1>2. CASE db' \subseteq db
  BY <1>0, <1>2, FS_Subset
<1>3. CASE InsertDocument(c) /\ ~(db' \subseteq db)
  <2>1. PICK jd : db' = db \union {Document(jd)}
    BY <1>3 DEF InsertDocument
  <2>2. Sound(Document(jd))
    BY DEF Sound, Document
  <2> QED
    BY <1>1, <2>1, <2>2
<1>4. CASE Insert(c) /\ ~(db' \subseteq db)
  <2> DEFINE row == plan[c][next[c]]
  <2>1. db' = db \union {Filled(row)} /\ pc[c] = "insert" /\ next[c] =< Len(plan[c])
    BY <1>4 DEF Insert
  <2>2. next[c] \in 1 .. Len(plan[c])
    <3>1. Len(plan[c]) \in Nat
      BY <2>1 DEF FitInv, InsertInv, Fits
    <3> QED
      BY <2>1, <3>1 DEF MemoryInv
  <2>3. Sound(row)
    BY <2>1, <2>2 DEF FitInv, InsertInv
  <2> HIDE DEF row
  <2>4. Sound(Filled(row))
    BY <2>3 DEF Sound, Filled, Counted
  <2> QED
    BY <1>1, <2>1, <2>4
<1>5. db' \subseteq db \/ InsertDocument(c) \/ Insert(c)
  BY DEF Run, Start, EnsureRun, ReadLine, EndImport, Clear, Cleared, Without,
         LoadDocuments, LoadSurfaces, FindEvidence, LoadMentions, Plan,
         Finish, Kill, Leave, Enter, database
<1> QED
  BY <1>2, <1>3, <1>4, <1>5

LEMMA FitStep ==
  ASSUME PlaceInv, HistoryInv, MemoryInv, DocumentsOk, FitInv,
         surfaces = [d \in Commands |-> surfaces[d]], [Next]_vars
  PROVE  FitInv'
<1>1. ASSUME NEW c \in Commands, Run(c)
      PROVE  FitInv'
  <2>1. InsertInv(c)' /\ EvidenceInv(c)'
    BY <1>1, ExtractionPlanned, RelationsPlanned, EdgesPlanned, SurfacesLoaded, OtherStepsFit
       DEF Run
  <2>2. \A d \in Commands : InsertInv(d)' /\ EvidenceInv(d)'
    BY <1>1, <2>1, OthersFit
  <2> QED
    BY <1>1, <2>2, RowsFit DEF FitInv
<1>2. ASSUME NEW t \in Texts, AddProbeJob(t)
      PROVE  FitInv'
  <2>1. db' = db \union {ProbeJob(t)} /\ UNCHANGED <<stage, pc, surfaces, plan, calm>>
    BY <1>2 DEF AddProbeJob, commands, history
  <2>2. Sound(ProbeJob(t))
    BY DEF Sound, ProbeJob
  <2>3. IsFiniteSet(db') /\ \A row \in db' : Sound(row)
    BY <2>1, <2>2, FS_AddElement DEF FitInv
  <2>4. Keys(db) \subseteq Keys(db')
    BY <2>1 DEF Keys
  <2>5. \A d \in Commands : InsertInv(d)' /\ EvidenceInv(d)'
    <3> SUFFICES ASSUME NEW d \in Commands PROVE InsertInv(d)' /\ EvidenceInv(d)'
      OBVIOUS
    <3>1. InsertInv(d) /\ EvidenceInv(d)
      BY DEF FitInv
    <3> QED
      BY <2>1, <2>4, <3>1 DEF InsertInv, EvidenceInv, Keys, Outer, RefsIn
  <2> QED
    BY <2>3, <2>5 DEF FitInv
<1>3. CASE UNCHANGED vars
  <2>1. UNCHANGED <<db, stage, pc, surfaces, plan, calm>>
    BY <1>3 DEF vars, database, commands, history
  <2> QED
    BY <2>1 DEF FitInv, InsertInv, EvidenceInv, Keys, Outer, RefsIn
<1> QED
  BY <1>1, <1>2, <1>3 DEF Next

LEMMA FitStart ==
  ASSUME Init
  PROVE  FitInv
BY FS_EmptySet DEF Init, FitInv, InsertInv, EvidenceInv

-----------------------------------------------------------------------------
(* Imports.                                                                *)

\* A row with the key of a document is that document.
LEMMA DocumentKeyMeansDocument ==
  ASSUME \A row \in Of(db, "jd_documents") : \E jd \in Jds : row = Document(jd),
         NEW jd \in Jds
  PROVE  DocumentKey(jd) \in Keys(db) <=> Document(jd) \in db
<1>1. Key(Document(jd)) = DocumentKey(jd)
  BY DEF Key, Document, DocumentKey
<1>2. ASSUME NEW row \in db, Key(row) = DocumentKey(jd)
      PROVE  row = Document(jd)
  <2>1. row.table = "jd_documents" /\ row.id = <<jd>>
    BY <1>2 DEF Key, DocumentKey
  <2>2. PICK e \in Jds : row = Document(e)
    BY <2>1 DEF Of
  <2>3. row.id = <<e>>
    BY <2>2 DEF Document
  <2> QED
    BY <2>1, <2>2, <2>3
<1> QED
  BY <1>1, <1>2 DEF Keys

\* The rows of documents after a step that leaves them alone.
LEMMA DocumentsKept ==
  ASSUME ImportsInv, imported' = imported,
         \A row : row.table = "jd_documents" => (row \in db' <=> row \in db)
  PROVE  /\ imported' \in [Jds -> Nat]
         /\ \A row \in Of(db', "jd_documents") : \E jd \in Jds : row = Document(jd)
         /\ \A jd : Document(jd) \in db => Document(jd) \in db'
         /\ \A jd \in Jds : imported'[jd] = IF Document(jd) \in db' THEN 1 ELSE 0
<1>1. \A jd : Document(jd).table = "jd_documents"
  BY DEF Document
<1> QED
  BY <1>1 DEF ImportsInv, ImportsAddUp, Of

\* What is left to show of the command that makes the step.
LEMMA ImportsOfOne ==
  ASSUME ImportsInv, NEW c \in Commands,
         imported' \in [Jds -> Nat], next' \in [Commands -> Nat \ {0}],
         plan' = [d \in Commands |-> plan'[d]],
         \A row \in Of(db', "jd_documents") : \E jd \in Jds : row = Document(jd),
         \A jd : Document(jd) \in db => Document(jd) \in db',
         \A jd \in Jds : imported'[jd] = IF Document(jd) \in db' THEN 1 ELSE 0,
         \A d \in Commands \ {c} : /\ stage'[d] = stage[d] /\ pc'[d] = pc[d]
                                   /\ plan'[d] = plan[d] /\ next'[d] = next[d],
         pc'[c] \in {"off", "ensure"} => next'[c] = 1,
         stage'[c] = "import" =>
           /\ plan'[c] \in Seq(Jds \union {BadLine})
           /\ \A k \in 1 .. next'[c] - 1 :
                plan'[c][k] # BadLine => Document(plan'[c][k]) \in db',
         pc'[c] = "insert_document" =>
            next'[c] =< Len(plan'[c]) /\ plan'[c][next'[c]] # BadLine
  PROVE  ImportsInv'
<1>1. ASSUME NEW d \in Commands, stage'[d] = "import",
             NEW k \in 1 .. next'[d] - 1, plan'[d][k] # BadLine
      PROVE  Document(plan'[d][k]) \in db'
  <2>1. CASE d = c
    BY <1>1, <2>1
  <2>2. CASE d # c
    <3>1. /\ stage[d] = "import" /\ plan'[d] = plan[d]
          /\ k \in 1 .. next[d] - 1 /\ plan[d][k] # BadLine
      BY <1>1, <2>2
    <3>2. Document(plan[d][k]) \in db
      BY <3>1 DEF ImportsInv, ImportsAddUp
    <3> QED
      BY <3>1, <3>2
  <2> QED
    BY <2>1, <2>2
<1>2. ASSUME NEW d \in Commands
      PROVE  /\ pc'[d] \in {"off", "ensure"} => next'[d] = 1
             /\ stage'[d] = "import" => plan'[d] \in Seq(Jds \union {BadLine})
             /\ pc'[d] = "insert_document" =>
                  next'[d] =< Len(plan'[d]) /\ plan'[d][next'[d]] # BadLine
  BY ZenonT(30) DEF ImportsInv
<1>3. ImportsAddUp'
  BY <1>1 DEF ImportsAddUp
<1> QED
  BY <1>2, <1>3 DEF ImportsInv

\* The places of a command that does not touch the documents, and no other's.
Own(c) ==
  /\ next' \in [Commands -> Nat \ {0}]
  /\ plan' = [d \in Commands |-> plan'[d]]
  /\ \A d \in Commands \ {c} : /\ stage'[d] = stage[d] /\ pc'[d] = pc[d]
                               /\ plan'[d] = plan[d] /\ next'[d] = next[d]

LEMMA LeaveImport ==
  ASSUME PlaceInv, ImportsInv, NEW c \in Commands, Leave(c)
  PROVE  Own(c) /\ pc'[c] = "off" /\ stage'[c] = "none" /\ next'[c] = 1
<1>1. /\ plan' = [d \in Commands |-> plan'[d]]
      /\ \A d \in Commands \ {c} : plan'[d] = plan[d]
  BY DEF Leave, Enter, ImportsInv
<1> QED
  BY <1>1 DEF Leave, Enter, Own, PlaceInv, ImportsInv

LEMMA ImportStart ==
  ASSUME PlaceInv, ImportsInv, NEW c \in Commands, NEW s, NEW f, Start(c, s, f),
         s = "import" => f \in Seq(Jds \union {BadLine}), s # "none"
  PROVE  ImportsInv'
<1>1. Own(c) /\ stage'[c] = s /\ plan'[c] = f /\ next'[c] = 1
        /\ pc'[c] \in {"line", "clear", "ensure"}
  BY Zenon DEF Start, Own, PlaceInv, ImportsInv, First
<1>2. db' = db /\ imported' = imported
  BY DEF Start, database, history
<1> QED
  BY <1>1, <1>2, DocumentsKept, ImportsOfOne DEF Own

LEMMA ImportLine ==
  ASSUME PlaceInv, ImportsInv, NEW c \in Commands, ReadLine(c)
  PROVE  ImportsInv'
<1> DEFINE line == plan[c][next[c]]
<1>1. /\ stage[c] = "import" /\ pc[c] = "line" /\ next[c] \in 1 .. Len(plan[c])
      /\ plan[c] \in Seq(Jds \union {BadLine})
  BY DEF ReadLine, PlaceInv, ImportsInv
<1>2. db' = db /\ imported' = imported /\ plan' = plan /\ stage' = stage
  BY DEF ReadLine, database, history
<1>3. CASE next' = [next EXCEPT ![c] = @ + 1] /\ pc' = pc
                /\ (line = BadLine
                     \/ (\E k \in 1 .. next[c] - 1 : plan[c][k] = line)
                     \/ DocumentKey(line) \in Keys(db))
  <2>1. Own(c) /\ next'[c] = next[c] + 1 /\ pc'[c] = "line"
    BY <1>1, <1>2, <1>3 DEF Own, ImportsInv
  <2>2. line \in Jds \union {BadLine}
    BY <1>1
  <2>3. line # BadLine => Document(line) \in db
    BY <1>1, <1>3, <2>2, DocumentKeyMeansDocument DEF ImportsInv, ImportsAddUp
  <2>4. \A k \in 1 .. next[c] - 1 : plan[c][k] # BadLine => Document(plan[c][k]) \in db
    BY <1>1 DEF ImportsInv, ImportsAddUp
  <2>5. \A k \in 1 .. next'[c] - 1 : k = next[c] \/ k \in 1 .. next[c] - 1
    BY <2>1, <1>1
  <2> HIDE DEF line
  <2>6. \A k \in 1 .. next'[c] - 1 :
          plan'[c][k] # BadLine => Document(plan'[c][k]) \in db'
    BY <1>2, <2>3, <2>4, <2>5 DEF line
  <2> QED
    BY <1>1, <1>2, <2>1, <2>6, DocumentsKept, ImportsOfOne DEF Own
<1>4. CASE next' = next /\ pc' = [pc EXCEPT ![c] = "insert_document"] /\ line # BadLine
  <2>1. Own(c) /\ next'[c] = next[c] /\ pc'[c] = "insert_document"
    BY <1>1, <1>2, <1>4 DEF Own, ImportsInv, PlaceInv
  <2>2. \A k \in 1 .. next[c] - 1 : plan[c][k] # BadLine => Document(plan[c][k]) \in db
    BY <1>1 DEF ImportsInv, ImportsAddUp
  <2>3. \A k \in 1 .. next'[c] - 1 :
          plan'[c][k] # BadLine => Document(plan'[c][k]) \in db'
    BY <1>2, <2>1, <2>2
  <2>4. next'[c] =< Len(plan'[c]) /\ plan'[c][next'[c]] # BadLine
    BY <1>1, <1>2, <1>4, <2>1
  <2> HIDE DEF line
  <2> QED
    BY <1>1, <1>2, <2>1, <2>3, <2>4, DocumentsKept, ImportsOfOne DEF Own
<1>5. \/ /\ next' = [next EXCEPT ![c] = @ + 1] /\ pc' = pc
         /\ \/ line = BadLine
            \/ \E k \in 1 .. next[c] - 1 : plan[c][k] = line
            \/ DocumentKey(line) \in Keys(db)
      \/ /\ next' = next /\ pc' = [pc EXCEPT ![c] = "insert_document"]
         /\ line # BadLine
  BY Zenon DEF ReadLine
<1> HIDE DEF line
<1> QED
  BY <1>3, <1>4, <1>5

LEMMA ImportDocument ==
  ASSUME PlaceInv, ImportsInv, NEW c \in Commands, InsertDocument(c)
  PROVE  ImportsInv'
<1> DEFINE jd == plan[c][next[c]]
<1>1. /\ stage[c] = "import" /\ pc[c] = "insert_document"
      /\ next[c] \in 1 .. Len(plan[c]) /\ jd # BadLine
      /\ plan[c] \in Seq(Jds \union {BadLine})
  BY DEF InsertDocument, PlaceInv, ImportsInv
<1>2. jd \in Jds
  BY <1>1
<1>3. CASE Leave(c) /\ UNCHANGED <<db, imported>>
  BY <1>3, LeaveImport, DocumentsKept, ImportsOfOne DEF Own
<1>4. CASE /\ DocumentKey(jd) \notin Keys(db)
           /\ db' = db \union {Document(jd)}
           /\ imported' = [imported EXCEPT ![jd] = @ + 1]
           /\ next' = [next EXCEPT ![c] = @ + 1]
           /\ pc' = [pc EXCEPT ![c] = "line"]
           /\ UNCHANGED <<stage, surfaces, plan, starts>>
  <2> HIDE DEF jd
  <2>1. Own(c) /\ next'[c] = next[c] + 1 /\ pc'[c] = "line"
    BY <1>1, <1>4 DEF Own, ImportsInv, PlaceInv
  <2>2. Document(jd) \notin db
    BY <1>2, <1>4, DocumentKeyMeansDocument DEF ImportsInv
  <2>3. \A e \in Jds : Document(e) = Document(jd) => e = jd
    <3>1. \A e : Document(e).id[1] = e
      BY DEF Document
    <3> QED
      BY <3>1
  <2>4. imported' \in [Jds -> Nat]
    BY <1>2, <1>4 DEF ImportsInv
  <2>5. \A e \in Jds : imported'[e] = IF Document(e) \in db' THEN 1 ELSE 0
    BY <1>2, <1>4, <2>2, <2>3 DEF ImportsInv, ImportsAddUp
  <2>6. \A row \in Of(db', "jd_documents") : \E e \in Jds : row = Document(e)
    BY <1>2, <1>4 DEF ImportsInv, Of
  <2>7. \A e : Document(e) \in db => Document(e) \in db'
    BY <1>4
  <2>8. \A k \in 1 .. next[c] - 1 : plan[c][k] # BadLine => Document(plan[c][k]) \in db
    BY <1>1 DEF ImportsInv, ImportsAddUp
  <2>9. \A k \in 1 .. next'[c] - 1 : k = next[c] \/ k \in 1 .. next[c] - 1
    BY <2>1, <1>1
  <2>10. \A k \in 1 .. next'[c] - 1 :
           plan'[c][k] # BadLine => Document(plan'[c][k]) \in db'
    BY <1>4, <2>7, <2>8, <2>9 DEF jd
  <2> QED
    BY <1>1, <1>4, <2>1, <2>4, <2>5, <2>6, <2>7, <2>10, ImportsOfOne DEF Own
<1> QED
  BY <1>3, <1>4 DEF InsertDocument

\* What the stages that make tables anew do to documents: nothing.
LEMMA OtherCommands ==
  ASSUME PlaceInv, ImportsInv, PlansFit, NEW c \in Commands,
         \/ EnsureRun(c) \/ EndImport(c) \/ Clear(c) \/ LoadDocuments(c) \/ LoadSurfaces(c)
         \/ FindEvidence(c) \/ LoadMentions(c) \/ Insert(c) \/ Finish(c) \/ Kill(c)
  PROVE  ImportsInv'
<1>1. \A row : row.table = "jd_documents" => (row \in db' <=> row \in db)
  <2>1. CASE Clear(c)
    <3>1. stage[c] \in Stages /\ "jd_documents" \notin TablesOf[stage[c]]
      BY <2>1, TablesDisjoint DEF Clear, PlaceInv
    <3> QED
      BY <2>1, <3>1 DEF Clear, Cleared, Without
  <2>2. CASE Insert(c)
    <3> DEFINE row == plan[c][next[c]]
    <3>1. next[c] \in 1 .. Len(plan[c]) /\ stage[c] \in Stages
      BY <2>2 DEF Insert, ImportsInv, PlaceInv, Rebuilding
    <3>2. row.table \in TablesOf[stage[c]]
      BY <2>2, <3>1 DEF PlansFit, Fits, Insert
    <3>3. row.table # "jd_documents"
      BY <3>1, <3>2, TablesDisjoint
    <3>4. Filled(row).table = row.table
      BY DEF Filled, Counted
    <3>5. db' = db \/ db' = db \union {Filled(row)}
      BY <2>2 DEF Insert
    <3> HIDE DEF row
    <3> QED
      BY <3>3, <3>4, <3>5
  <2>3. CASE ~Clear(c) /\ ~Insert(c)
    BY <2>3 DEF EnsureRun, EndImport, LoadDocuments, LoadSurfaces, FindEvidence,
                LoadMentions, Plan, Finish, Kill, database
  <2> QED
    BY <2>1, <2>2, <2>3
<1>2. imported' = imported
  BY DEF EnsureRun, EndImport, Clear, LoadDocuments, LoadSurfaces, FindEvidence,
         LoadMentions, Plan, Insert, Finish, Kill, history
<1>3. Own(c)
  <2>1. /\ next' \in [Commands -> Nat \ {0}]
        /\ \A d \in Commands \ {c} : /\ stage'[d] = stage[d] /\ pc'[d] = pc[d]
                                     /\ next'[d] = next[d]
    BY DEF EnsureRun, EndImport, Clear, Cleared, LoadDocuments, LoadSurfaces,
           FindEvidence, LoadMentions, Plan, Insert, Finish, Kill, Leave, Enter,
           PlaceInv, ImportsInv
  <2>2. plan' = plan \/ \E rows : plan' = [plan EXCEPT ![c] = rows]
    BY Zenon DEF EnsureRun, EndImport, Clear, Cleared, LoadDocuments, LoadSurfaces,
           FindEvidence, LoadMentions, Plan, Insert, Finish, Kill, Leave, Enter
  <2>3. plan' = [d \in Commands |-> plan'[d]] /\ \A d \in Commands \ {c} : plan'[d] = plan[d]
    BY <2>2 DEF ImportsInv
  <2> QED
    BY <2>1, <2>3 DEF Own
<1>4. \/ stage'[c] # "import" /\ pc'[c] # "insert_document"
           /\ (pc'[c] \in {"off", "ensure"} => next'[c] = 1)
      \/ EnsureRun(c) /\ stage'[c] = "import" /\ pc'[c] = "line"
           /\ plan' = plan /\ next' = next /\ stage' = stage
  <2>1. CASE EnsureRun(c)
    BY <2>1, LeaveImport DEF EnsureRun, First, PlaceInv, ImportsInv
  <2>2. CASE Kill(c) \/ EndImport(c)
    BY <2>2, LeaveImport DEF Kill, EndImport
  <2>3. CASE Clear(c) \/ Insert(c) \/ Finish(c)
    BY <2>3, StagesAre, LeaveImport
       DEF Clear, Cleared, Insert, Finish, Enter, PlaceInv, ImportsInv, Rebuilding
  <2>4. CASE LoadDocuments(c) \/ LoadSurfaces(c) \/ FindEvidence(c) \/ LoadMentions(c)
    BY <2>4, StagesAre
       DEF LoadDocuments, LoadSurfaces, FindEvidence, LoadMentions, Plan, PlaceInv,
           ImportsInv, Rebuilding
  <2> QED
    BY <2>1, <2>2, <2>3, <2>4
<1>5. CASE stage'[c] # "import" /\ pc'[c] # "insert_document"
             /\ (pc'[c] \in {"off", "ensure"} => next'[c] = 1)
  BY <1>1, <1>2, <1>3, <1>5, DocumentsKept, ImportsOfOne DEF Own
<1>6. CASE EnsureRun(c) /\ stage'[c] = "import" /\ pc'[c] = "line"
             /\ plan' = plan /\ next' = next /\ stage' = stage
  <2>1. next[c] = 1 /\ plan[c] \in Seq(Jds \union {BadLine})
    BY <1>6 DEF EnsureRun, ImportsInv
  <2>2. \A k \in 1 .. next'[c] - 1 : FALSE
    BY <1>6, <2>1
  <2> QED
    BY <1>1, <1>2, <1>3, <1>6, <2>1, <2>2, DocumentsKept, ImportsOfOne DEF Own
<1> QED
  BY <1>4, <1>5, <1>6

-----------------------------------------------------------------------------
(* What commands keep in memory.                                           *)

\* What TypeOK says beyond the invariants of places, of the history and of plans.
MemoryOk(c) ==
  /\ pc[c] = "off" <=> stage[c] = "none"
  /\ stage[c] # "import" /\ pc[c] # "insert" => plan[c] = <<>>
  /\ pc[c] # "evidence" => surfaces[c] = {}
  /\ next[c] \in 1 .. Len(plan[c]) + 1

TypeInv ==
  /\ \A row \in db : row.table \in Tables
  /\ knownRun \in BOOLEAN
  /\ starts \in 0 .. MaxStarts
  /\ surfaces = [c \in Commands |-> surfaces[c]]
  /\ \A c \in Commands : MemoryOk(c)

LEMMA Left ==
  ASSUME PlaceInv, MemoryInv, TypeInv, NEW c \in Commands, NEW s, NEW place, Enter(c, s, place)
  PROVE  /\ pc'[c] = place /\ stage'[c] = s /\ plan'[c] = <<>> /\ surfaces'[c] = {}
         /\ next'[c] \in 1 .. Len(plan'[c]) + 1
<1>1. /\ pc'[c] = place /\ stage'[c] = s /\ plan'[c] = <<>> /\ surfaces'[c] = {}
      /\ next'[c] = 1
  BY DEF Enter, PlaceInv, MemoryInv, TypeInv
<1>2. Len(plan'[c]) = 0
  BY <1>1
<1> QED
  BY <1>1, <1>2

\* The command itself.
LEMMA OwnMemoryOk ==
  ASSUME PlaceInv, MemoryInv, ImportsInv, TypeInv, FitInv, FitInv', NEW c \in Commands, Run(c)
  PROVE  MemoryOk(c)'
<1>0. MemoryOk(c)
  BY DEF TypeInv
<1>1. ASSUME NEW s \in {"import", "extract", "relations"}, NEW f, Len(f) \in Nat, Start(c, s, f),
             s # "import" => f = <<>>
      PROVE  MemoryOk(c)'
  <2>1. /\ stage'[c] = s /\ pc'[c] \in {"line", "clear", "ensure"} /\ plan'[c] = f
        /\ surfaces'[c] = surfaces[c] /\ next'[c] = 1 /\ surfaces[c] = {}
    BY <1>0, <1>1 DEF Start, PlaceInv, MemoryInv, First, MemoryOk
  <2> QED
    BY <1>1, <2>1 DEF MemoryOk
<1>2. CASE Kill(c) \/ EndImport(c) \/ (Finish(c) /\ stage[c] # "relations")
  BY <1>2, Left DEF Kill, EndImport, Finish, Leave, MemoryOk
<1>3. CASE Finish(c) /\ stage[c] = "relations"
  BY <1>3, Left DEF Finish, MemoryOk
<1>4. CASE EnsureRun(c)
  <2>1. CASE Leave(c)
    BY <2>1, Left DEF Leave, MemoryOk
  <2>2. CASE pc' = [pc EXCEPT ![c] = First(stage[c])] /\ UNCHANGED <<stage, surfaces, plan, next, starts>>
    BY <1>0, <1>4, <2>2 DEF EnsureRun, MemoryOk, First, PlaceInv
  <2> QED
    BY <1>4, <2>1, <2>2 DEF EnsureRun
<1>5. CASE ReadLine(c)
  <2>1. /\ stage[c] = "import" /\ stage' = stage /\ plan' = plan /\ surfaces' = surfaces
        /\ pc'[c] \in {"line", "insert_document"} /\ next[c] =< Len(plan[c])
        /\ next' = [next EXCEPT ![c] = @ + 1] \/ next' = next
    BY <1>5 DEF ReadLine, PlaceInv
  <2>2. next[c] \in Nat /\ Len(plan[c]) \in Nat
    BY <2>1 DEF ImportsInv
  <2>3. next'[c] \in 1 .. Len(plan[c]) + 1
    BY <1>0, <2>1, <2>2 DEF ImportsInv, MemoryOk
  <2> QED
    BY <1>0, <1>5, <2>1, <2>3 DEF MemoryOk, ReadLine
<1>6. CASE InsertDocument(c)
  <2>1. CASE Leave(c)
    BY <2>1, Left DEF Leave, MemoryOk
  <2>2. CASE /\ next' = [next EXCEPT ![c] = @ + 1] /\ pc' = [pc EXCEPT ![c] = "line"]
             /\ UNCHANGED <<stage, surfaces, plan, starts>>
    <3>1. /\ stage[c] = "import" /\ pc[c] = "insert_document" /\ next[c] =< Len(plan[c])
          /\ next[c] \in Nat \ {0} /\ Len(plan[c]) \in Nat
      BY <1>6 DEF InsertDocument, PlaceInv, ImportsInv
    <3>2. next'[c] \in 1 .. Len(plan[c]) + 1
      BY <2>2, <3>1 DEF ImportsInv
    <3> QED
      BY <1>0, <2>2, <3>1, <3>2 DEF MemoryOk, PlaceInv
  <2> QED
    BY <1>6, <2>1, <2>2 DEF InsertDocument
<1>7. CASE Clear(c)
  <2>1. CASE Leave(c)
    BY <2>1, Left DEF Leave, MemoryOk
  <2>2. CASE Cleared(c)
    <3>1. stage[c] \in Stages /\ pc[c] = "clear"
      BY <1>7 DEF Clear, PlaceInv
    <3>2. pc'[c] = "load" /\ UNCHANGED <<stage, surfaces, plan, next>>
      BY <2>2 DEF Cleared, PlaceInv
    <3> QED
      BY <1>0, <3>1, <3>2, StagesAre DEF MemoryOk
  <2> QED
    BY <1>7, <2>1, <2>2 DEF Clear
<1>8. ASSUME NEW rows, pc[c] \in {"load", "evidence"}, Plan(c, rows)
      PROVE  MemoryOk(c)'
  <2>1. /\ stage'[c] = stage[c] /\ stage[c] \in Stages /\ pc'[c] = "insert"
        /\ surfaces'[c] = {} /\ next'[c] = 1
    BY <1>8 DEF Plan, PlaceInv, MemoryInv, TypeInv, Rebuilding
  <2>2. Len(plan'[c]) \in Nat
    BY <2>1 DEF FitInv, InsertInv, Fits
  <2> QED
    BY <2>1, <2>2, StagesAre DEF MemoryOk
<1>9. CASE LoadSurfaces(c)
  BY <1>0, <1>9 DEF LoadSurfaces, PlaceInv, MemoryOk
<1>10. CASE Insert(c)
  <2>1. CASE Leave(c)
    BY <2>1, Left DEF Leave, MemoryOk
  <2>2. CASE next' = [next EXCEPT ![c] = @ + 1] /\ UNCHANGED <<stage, pc, surfaces, plan, starts>>
    <3>1. pc[c] = "insert" /\ next[c] =< Len(plan[c]) /\ next[c] \in Nat \ {0}
      BY <1>10 DEF Insert, MemoryInv
    <3>2. Len(plan[c]) \in Nat
      BY <3>1 DEF FitInv, InsertInv, Fits
    <3>3. next'[c] \in 1 .. Len(plan[c]) + 1
      BY <2>2, <3>1, <3>2 DEF MemoryInv
    <3> QED
      BY <1>0, <2>2, <3>1, <3>3 DEF MemoryOk
  <2> QED
    BY <1>10, <2>1, <2>2 DEF Insert
<1>11. \A f \in Files : Len(f) \in Nat
  BY FilesAssumption
<1>12. Len(<<>>) \in Nat
  OBVIOUS
<1>13. \A rows : (pc[c] \in {"load", "evidence"} /\ Plan(c, rows)) => MemoryOk(c)'
  BY <1>8
<1>14. CASE LoadDocuments(c) \/ FindEvidence(c) \/ LoadMentions(c)
  BY <1>13, <1>14 DEF LoadDocuments, FindEvidence, LoadMentions
<1>15. CASE Start(c, "extract", <<>>) \/ Start(c, "relations", <<>>)
              \/ \E f \in Files : Start(c, "import", f)
  BY <1>1, <1>11, <1>12, <1>15
<1> QED
  BY <1>2, <1>3, <1>4, <1>5, <1>6, <1>7, <1>9, <1>10, <1>14, <1>15 DEF Run

LEMMA TypeStep ==
  ASSUME PlaceInv, MemoryInv, ImportsInv, TypeInv, FitInv, FitInv', [Next]_vars
  PROVE  TypeInv'
<1>1. ASSUME NEW c \in Commands, Run(c)
      PROVE  TypeInv'
  <2>1. \A d \in Commands : MemoryOk(d)'
    <3> SUFFICES ASSUME NEW d \in Commands, d # c PROVE MemoryOk(d)'
      BY <1>1, OwnMemoryOk
    <3>1. /\ pc'[d] = pc[d] /\ stage'[d] = stage[d] /\ plan'[d] = plan[d] /\ next'[d] = next[d]
          /\ surfaces'[d] = surfaces[d]
      BY <1>1, OnlyOwn, OwnMemory, SurfacesOfOthers
    <3> QED
      BY <3>1 DEF TypeInv, MemoryOk
  <2>2. \A row \in db' : row.table \in Tables
    <3>1. CASE InsertDocument(c) /\ ~(db' \subseteq db)
      <4>1. PICK jd : db' = db \union {Document(jd)}
        BY <3>1 DEF InsertDocument
      <4> QED
        BY <4>1 DEF TypeInv, Document, Tables
    <3>2. CASE Insert(c) /\ ~(db' \subseteq db)
      <4> DEFINE row == plan[c][next[c]]
      <4>1. db' = db \union {Filled(row)} /\ pc[c] = "insert" /\ next[c] =< Len(plan[c])
        BY <3>2 DEF Insert
      <4>2. next[c] \in 1 .. Len(plan[c]) /\ stage[c] \in Stages
        <5>1. Len(plan[c]) \in Nat
          BY <4>1 DEF FitInv, InsertInv, Fits
        <5> QED
          BY <4>1, <5>1 DEF MemoryInv, PlaceInv, Rebuilding
      <4>3. row.table \in TablesOf[stage[c]]
        BY <4>1, <4>2 DEF FitInv, InsertInv, Fits
      <4>4. row.table \in Tables
        BY <4>2, <4>3, StagesAre DEF TablesOf, Tables
      <4> HIDE DEF row
      <4>5. Filled(row).table = row.table
        BY DEF Filled, Counted
      <4> QED
        BY <4>1, <4>4, <4>5 DEF TypeInv
    <3>3. db' \subseteq db \/ InsertDocument(c) \/ Insert(c)
      BY <1>1 DEF Run, Start, EnsureRun, ReadLine, EndImport, Clear, Cleared, Without,
             LoadDocuments, LoadSurfaces, FindEvidence, LoadMentions, Plan,
             Finish, Kill, Leave, Enter, database
    <3> QED
      BY <3>1, <3>2, <3>3 DEF TypeInv
  <2>3. knownRun' \in BOOLEAN /\ starts' \in 0 .. MaxStarts
    <3>1. knownRun' = knownRun \/ knownRun' = TRUE
      BY <1>1 DEF Run, Start, EnsureRun, ReadLine, InsertDocument, EndImport, Clear,
             LoadDocuments, LoadSurfaces, FindEvidence, LoadMentions, Plan, Insert,
             Finish, Kill, database
    <3>2. starts' = starts \/ (starts < MaxStarts /\ starts' = starts + 1)
      BY <1>1 DEF Run, Start, EnsureRun, ReadLine, InsertDocument, EndImport, Clear, Cleared,
             LoadDocuments, LoadSurfaces, FindEvidence, LoadMentions, Plan, Insert,
             Finish, Kill, Leave, Enter
    <3>3. starts' \in 0 .. MaxStarts
      BY <3>2, BoundsAssumption DEF TypeInv
    <3>4. knownRun' \in BOOLEAN
      BY <3>1, Zenon DEF TypeInv
    <3> QED
      BY <3>3, <3>4
  <2>4. surfaces' = [d \in Commands |-> surfaces'[d]]
    <3>1. surfaces' = surfaces \/ \E x : surfaces' = [surfaces EXCEPT ![c] = x]
      BY <1>1, Zenon DEF Run, Start, EnsureRun, ReadLine, InsertDocument, EndImport, Clear,
         Cleared, LoadDocuments, LoadSurfaces, FindEvidence, LoadMentions, Plan, Insert,
         Finish, Kill, Leave, Enter
    <3> QED
      BY <3>1 DEF TypeInv
  <2> QED
    BY <2>1, <2>2, <2>3, <2>4 DEF TypeInv
<1>2. ASSUME NEW t \in Texts, AddProbeJob(t)
      PROVE  TypeInv'
  <2>1. ProbeJob(t).table \in Tables
    BY DEF ProbeJob, Tables
  <2>2. db' = db \union {ProbeJob(t)}
          /\ UNCHANGED <<knownRun, stage, pc, surfaces, plan, next, starts>>
    BY <1>2 DEF AddProbeJob, commands
  <2> QED
    BY <2>1, <2>2 DEF TypeInv, MemoryOk
<1>3. CASE UNCHANGED vars
  BY <1>3 DEF vars, database, commands, TypeInv, MemoryOk
<1> QED
  BY <1>1, <1>2, <1>3 DEF Next

LEMMA TypeStart ==
  ASSUME Init
  PROVE  TypeInv
<1>1. 0 \in 0 .. MaxStarts
  BY BoundsAssumption
<1>2. \A c \in Commands : MemoryOk(c)
  <2> SUFFICES ASSUME NEW c \in Commands PROVE MemoryOk(c)
    OBVIOUS
  <2>1. pc[c] = "off" /\ stage[c] = "none" /\ plan[c] = <<>> /\ next[c] = 1 /\ surfaces[c] = {}
    BY DEF Init
  <2>2. Len(<<>>) = 0
    OBVIOUS
  <2> QED
    BY <2>1, <2>2 DEF MemoryOk
<1> QED
  BY <1>1, <1>2 DEF Init, TypeInv

-----------------------------------------------------------------------------
(* The invariant, and what follows from it.                                *)

BuildInv == PipelineInv /\ FitInv /\ ImportsInv /\ TypeInv

LEMMA ImportsStep ==
  ASSUME PlaceInv, ImportsInv, PlansFit, [Next]_vars
  PROVE  ImportsInv'
<1>1. ASSUME NEW c \in Commands, Run(c) PROVE ImportsInv'
  <2>1. \A f \in Files : f \in Seq(Jds \union {BadLine})
    BY FilesAssumption
  <2> QED
    BY <1>1, <2>1, ImportStart, ImportLine, ImportDocument, OtherCommands DEF Run
<1>2. ASSUME NEW t \in Texts, AddProbeJob(t) PROVE ImportsInv'
  <2>1. \A row : row.table = "jd_documents" => (row \in db' <=> row \in db)
    BY <1>2 DEF AddProbeJob, ProbeJob
  <2>2. UNCHANGED <<imported, stage, pc, plan, next>>
    BY <1>2 DEF AddProbeJob, commands, history
  <2> QED
    BY <2>1, <2>2, DocumentsKept DEF ImportsInv, ImportsAddUp
<1>3. CASE UNCHANGED vars
  BY <1>3 DEF vars, database, commands, history, ImportsInv, ImportsAddUp, Of
<1> QED
  BY <1>1, <1>2, <1>3 DEF Next

\* No command can spoil unnoticed what another has read, planned or counted: the
\* invariant of places, memory, history, rows, plans and imports.
THEOREM BuildInvariant == Spec => []BuildInv
<1>1. Init => BuildInv
  <2>1. Init => ImportsInv
    BY DEF Init, ImportsInv, ImportsAddUp, Of
  <2> QED
    BY <2>1, PipelineStart, FitStart, TypeStart DEF BuildInv
<1>2. BuildInv /\ [Next]_vars => BuildInv'
  <2> SUFFICES ASSUME BuildInv, [Next]_vars PROVE BuildInv'
    OBVIOUS
  <2>1. PipelineInv /\ PlaceInv /\ HistoryInv /\ MemoryInv /\ FitInv /\ ImportsInv /\ TypeInv
    BY DEF BuildInv, PipelineInv
  <2>2. DocumentsOk /\ surfaces = [d \in Commands |-> surfaces[d]] /\ PlansFit
    BY <2>1, FitInvFits DEF ImportsInv, DocumentsOk, TypeInv
  <2>3. FitInv'
    BY <2>1, <2>2, FitStep
  <2>4. PlansFit'
    BY <2>3 DEF FitInv, InsertInv, PlansFit, Outer
  <2>5. PipelineInv'
    BY <2>1, <2>2, <2>4, PipelineStep
  <2>6. ImportsInv'
    BY <2>1, <2>2, ImportsStep
  <2>7. TypeInv'
    BY <2>1, <2>3, TypeStep
  <2> QED
    BY <2>3, <2>5, <2>6, <2>7 DEF BuildInv
<1> QED
  BY <1>1, <1>2, PTL DEF Spec

\* Whatever was read, and whatever other commands have done since: the rows that
\* a command is about to insert are chained, are for the tables of its stage,
\* and, while nothing has disturbed its rebuild, find what they refer to.
THEOREM PlansAlwaysFit == Spec => []PlansFit
<1>1. BuildInv => PlansFit
  BY FitInvFits DEF BuildInv
<1> QED
  BY <1>1, BuildInvariant, PTL

\* The place of a command tells what it works on and keeps in memory.
THEOREM TypeCorrect == Spec => []TypeOK
<1>1. BuildInv => TypeOK
  <2> SUFFICES ASSUME BuildInv PROVE TypeOK
    OBVIOUS
  <2>1. PlansFit /\ PlaceInv /\ HistoryInv /\ TypeInv
    BY FitInvFits DEF BuildInv, PipelineInv
  <2> QED
    BY <2>1 DEF TypeOK, PlaceInv, HistoryInv, TypeInv, MemoryOk
<1> QED
  BY <1>1, BuildInvariant, PTL

\* Every document is counted once, and imports are through with what they have
\* passed, however they overlap with each other and with all other commands.
THEOREM ImportsAlwaysAddUp == Spec => []ImportsAddUp
<1>1. BuildInv => ImportsAddUp
  BY DEF BuildInv, ImportsInv
<1> QED
  BY <1>1, BuildInvariant, PTL

\* The counts of every edge are those of sets of windows, whatever extraction
\* had done, and undone, of the mentions when they were read.
THEOREM EdgesAlwaysCounted == Spec => []EdgesCounted
<1>1. BuildInv => EdgesCounted
  BY DEF BuildInv, FitInv, Sound, CountsOk, EdgesCounted, Of
<1> QED
  BY <1>1, BuildInvariant, PTL

-----------------------------------------------------------------------------
(* Each stage implements Rebuild.                                          *)

\* What Rebuild sees of a stage.
Seen(s) ==
  <<RowsOf(s), StatesOf(s), PositionsOf(s), target[s], planned[s], calm[s]>>

LEMMA PlannedKeepsKey ==
  ASSUME NEW row
  PROVE  Planned(row).table = row.table /\ Key(Planned(row)) = Key(row)
BY DEF Planned, Counted, Key

\* A row that is added belongs to the stage of its table.
LEMMA RowAdded ==
  ASSUME NEW s \in Stages, NEW row, db' = db \union {row}
  PROVE  RowsOf(s)' = IF row.table \in TablesOf[s] THEN RowsOf(s) \union {Planned(row)}
                                                   ELSE RowsOf(s)
<1>1. {r \in db' : r.table \in TablesOf[s]} =
        {r \in db : r.table \in TablesOf[s]}
          \union (IF row.table \in TablesOf[s] THEN {row} ELSE {})
  OBVIOUS
<1> QED
  BY <1>1 DEF RowsOf

\* The keys that Rebuild sees are those of the tables of the stage.
LEMMA KeysSeen ==
  ASSUME NEW s \in Stages
  PROVE  \A key : key \in R(s)!KeysOf(RowsOf(s)) <=>
                    \E row \in db : row.table \in TablesOf[s] /\ key = Key(row)
BY PlannedKeepsKey DEF R!KeysOf, RowsOf

\* Commands at work elsewhere are not seen.
LEMMA Unseen ==
  ASSUME NEW s \in Stages, NEW c \in Commands, PipelineInv, HistoryInv', Run(c),
         c \notin Rebuilders(s), c \notin Rebuilders(s)',
         RowsOf(s)' = RowsOf(s),
         calm'[s] =>
           calm[s] /\ (planned'[s] <=> planned[s]) /\ target'[s] = target[s]
  PROVE  [R(s)!Next]_(Seen(s))
<1>1. CASE calm'[s]
  <2>1. \A d \in Commands :
          StateOf(s, d)' = StateOf(s, d) /\ PositionOf(s, d)' = PositionOf(s, d)
    <3>1. ASSUME NEW d \in Commands, d # c
          PROVE  StateOf(s, d)' = StateOf(s, d) /\ PositionOf(s, d)' = PositionOf(s, d)
      <4>1. pc'[d] = pc[d] /\ stage'[d] = stage[d] /\ next'[d] = next[d]
        BY <3>1, OnlyOwn, OwnMemory DEF PipelineInv
      <4> QED
        BY <4>1 DEF StateOf, PositionOf, Rebuilders
    <3>2. StateOf(s, c)' = StateOf(s, c) /\ PositionOf(s, c)' = PositionOf(s, c)
      BY DEF StateOf, PositionOf
    <3> QED
      BY <3>1, <3>2
  <2>2. StatesOf(s)' = StatesOf(s) /\ PositionsOf(s)' = PositionsOf(s)
    BY <2>1 DEF StatesOf, PositionsOf
  <2>3. planned'[s] = planned[s] /\ calm'[s] = calm[s]
    BY <1>1 DEF PipelineInv, HistoryInv
  <2> QED
    BY <1>1, <2>2, <2>3 DEF Seen
<1>2. CASE ~calm'[s]
  <2>1. calm'[s] = FALSE
    BY <1>2 DEF HistoryInv
  <2> QED
    BY <2>1 DEF R!Next, R!Disturb
<1> QED
  BY <1>1, <1>2

\* What is seen of a command at work on a stage before and after it moves.
LEMMA Moves ==
  ASSUME NEW s \in Stages, NEW c \in Commands, PipelineInv, Run(c)
  PROVE  /\ StatesOf(s)' = [StatesOf(s) EXCEPT ![c] = StateOf(s, c)']
         /\ PositionsOf(s)' = [PositionsOf(s) EXCEPT ![c] = PositionOf(s, c)']
         /\ StateOf(s, c)' = StateOf(s, c) => StatesOf(s)' = StatesOf(s)
         /\ PositionOf(s, c)' = PositionOf(s, c) => PositionsOf(s)' = PositionsOf(s)
<1>1. ASSUME NEW d \in Commands, d # c
      PROVE  StateOf(s, d)' = StateOf(s, d) /\ PositionOf(s, d)' = PositionOf(s, d)
  <2>1. pc'[d] = pc[d] /\ stage'[d] = stage[d] /\ next'[d] = next[d]
    BY <1>1, OnlyOwn, OwnMemory DEF PipelineInv
  <2> QED
    BY <2>1 DEF StateOf, PositionOf, Rebuilders
<1> QED
  BY <1>1 DEF StatesOf, PositionsOf

\* Clearing begins a rebuild or joins one.
LEMMA ClearMaps ==
  ASSUME NEW s \in Stages, NEW c \in Commands, PipelineInv, HistoryInv', Run(c),
         pc[c] = "clear", Cleared(c), stage[c] = s, calm'[s]
  PROVE  R(s)!Next
<1>1. RowsOf(s)' = {}
  BY DEF RowsOf, Cleared, Without
<1>2. /\ c \notin Rebuilders(s)
      /\ StateOf(s, c) = "idle" /\ StateOf(s, c)' = "loading"
      /\ PositionOf(s, c) = 1 /\ PositionOf(s, c)' = 1
  <2>1. pc'[c] = "load" /\ stage'[c] = s /\ next'[c] = 1 /\ next' = next
    BY DEF Cleared, PipelineInv, PlaceInv, MemoryInv
  <2> QED
    BY <2>1 DEF StateOf, PositionOf, Rebuilders, Rebuilding
<1>3. CASE Rebuilders(s) = {}
  <2>1. ~planned'[s]
    BY <1>3, ClearHistory DEF PipelineInv
  <2>2. planned'[s] = FALSE /\ calm'[s] = TRUE
    BY <2>1 DEF HistoryInv
  <2>3. /\ StatesOf(s) = [v \in Commands |-> "idle"]
        /\ PositionsOf(s) = [v \in Commands |-> 1]
    BY <1>3 DEF StatesOf, PositionsOf, StateOf, PositionOf
  <2>4. /\ StatesOf(s)' = [v \in Commands |-> IF v = c THEN "loading" ELSE "idle"]
        /\ PositionsOf(s)' = [v \in Commands |-> 1]
    BY <1>2, <2>3, Moves
  <2>5. R(s)!ClearAlone(c)
    BY <1>1, <2>2, <2>3, <2>4 DEF R!ClearAlone, R!Idle
  <2> QED
    BY <2>5 DEF R!Next
<1>4. CASE Rebuilders(s) # {}
  <2>1. calm[s] /\ (planned'[s] <=> planned[s]) /\ target'[s] = target[s]
    BY <1>4, ClearHistory DEF PipelineInv
  <2>2. planned'[s] = planned[s] /\ calm'[s] = calm[s]
    BY <2>1 DEF PipelineInv, HistoryInv
  <2>3. PositionsOf(s)' = PositionsOf(s)
    BY <1>2, Moves
  <2>4. /\ StatesOf(s)[c] = "idle"
        /\ StatesOf(s)' = [StatesOf(s) EXCEPT ![c] = "loading"]
    BY <1>2, Moves DEF StatesOf
  <2>5. R(s)!ClearAmongOthers(c)
    BY <1>1, <2>1, <2>2, <2>3, <2>4 DEF R!ClearAmongOthers
  <2> QED
    BY <2>5 DEF R!Next
<1> QED
  BY <1>3, <1>4

\* The plan of a command is the target of its rebuild.
LEMMA PlanMaps ==
  ASSUME NEW s \in Stages, NEW c \in Commands, NEW rows,
         PipelineInv, HistoryInv', PlansFit', Run(c),
         pc[c] \in {"load", "evidence"}, Plan(c, rows), stage[c] = s, calm'[s]
  PROVE  R(s)!Next
<1>1. /\ calm[s] /\ planned'[s] /\ target'[s] = rows
      /\ planned[s] => target[s] = rows
  BY PlanHistory DEF PipelineInv
<1>2. planned'[s] = TRUE /\ calm'[s] = calm[s]
  BY <1>1 DEF PipelineInv, HistoryInv
<1>3. /\ pc'[c] = "insert" /\ stage'[c] = s /\ next'[c] = 1 /\ next[c] = 1
      /\ plan'[c] = rows /\ db' = db /\ stage' = stage
  BY DEF Plan, PipelineInv, PlaceInv, MemoryInv, database
<1>4. /\ StateOf(s, c) = "loading" /\ StateOf(s, c)' = "inserting"
      /\ PositionOf(s, c) = 1 /\ PositionOf(s, c)' = 1
  BY <1>3 DEF StateOf, PositionOf, Rebuilders, Rebuilding
<1>5. RowsOf(s)' = RowsOf(s)
  BY <1>3 DEF RowsOf
<1>6. Fits(s, rows)
  BY <1>3 DEF PlansFit
<1>7. rows \in Seq({rows[k] : k \in DOMAIN rows}) /\ R(s)!Chained(rows)
  BY <1>6, StagesAre
     DEF Fits, R!Chained, Extraction!Chained, Relations!Chained, Edges!Chained
<1>8. /\ PositionsOf(s)' = PositionsOf(s)
      /\ StatesOf(s)[c] = "loading"
      /\ StatesOf(s)' = [StatesOf(s) EXCEPT ![c] = "inserting"]
  <2>1. PositionsOf(s)' = PositionsOf(s)
    BY <1>4, Moves
  <2>2. StatesOf(s)' = [StatesOf(s) EXCEPT ![c] = "inserting"]
    BY <1>4, Moves
  <2>3. StatesOf(s)[c] = "loading"
    BY <1>4 DEF StatesOf
  <2> QED
    BY <2>1, <2>2, <2>3
<1>9. IF planned[s] THEN target'[s] = target[s]
      ELSE /\ target'[s] \in Seq({target'[s][k] : k \in DOMAIN target'[s]})
           /\ R(s)!Chained(target'[s])
  BY <1>1, <1>7
<1>10. R(s)!Load(c)
  BY <1>1, <1>2, <1>5, <1>8, <1>9, Zenon DEF R!Load
<1> QED
  BY <1>10 DEF R!Next

\* An inserted row is that of the target, and so is one that is refused.
LEMMA InsertMaps ==
  ASSUME NEW s \in Stages, NEW c \in Commands, PipelineInv, PlansFit, Run(c),
         Insert(c), stage[c] = s, calm[s]
  PROVE  R(s)!Next
<1> DEFINE n == next[c]
           row == plan[c][n]
<1>1. /\ planned[s] /\ plan[c] = target[s] /\ Fits(s, plan[c]) /\ pc[c] = "insert"
      /\ n \in Nat \ {0} /\ n =< Len(target[s])
      /\ \A k \in 1 .. Len(plan[c]) :
           plan[c][k].refs \ RefsIn(s, plan[c][k]) \subseteq Keys(db)
      /\ UNCHANGED <<calm, planned, target>>
  BY DEF PipelineInv, MemoryInv, PlansFit, Insert, history
<1>2. Len(target[s]) \in Nat /\ n \in 1 .. Len(target[s])
  BY <1>1 DEF Fits
<1>3. row.table \in TablesOf[s] /\ Planned(row) = row
  BY <1>1, <1>2 DEF Fits
<1>4. /\ c \in Rebuilders(s)
      /\ StatesOf(s)[c] = "inserting" /\ PositionsOf(s)[c] = n
  BY <1>1 DEF Rebuilders, Rebuilding, StatesOf, StateOf, PositionsOf, PositionOf
<1>5. /\ R(s)!Row(c) = row
      /\ Key(row) \in R(s)!KeysOf(RowsOf(s)) <=> Key(row) \in Keys(db)
      /\ RefsIn(s, row) \subseteq R(s)!KeysOf(RowsOf(s)) <=> row.refs \subseteq Keys(db)
  <2>1. R(s)!Row(c) = row
    BY <1>1, <1>4 DEF R!Row
  <2>2. Key(row)[1] = row.table
    BY DEF Key
  <2>3. \A key : key[1] \in TablesOf[s] =>
          (key \in R(s)!KeysOf(RowsOf(s)) <=> key \in Keys(db))
    <3>1. \A r : Key(r)[1] = r.table
      BY DEF Key
    <3>2. \A key : key \in Keys(db) <=> \E r \in db : key = Key(r)
      BY DEF Keys
    <3> QED
      BY <3>1, <3>2, KeysSeen
  <2>4. \A key \in RefsIn(s, row) : key[1] \in TablesOf[s]
    BY DEF RefsIn
  <2>5. row.refs \ RefsIn(s, row) \subseteq Keys(db) /\ RefsIn(s, row) \subseteq row.refs
    BY <1>1, <1>2 DEF RefsIn
  <2> QED
    BY <1>3, <2>1, <2>2, <2>3, <2>4, <2>5
<1>6. UNCHANGED <<target[s], planned[s], calm[s]>>
  BY <1>1
<1>7. CASE Acceptable(row)
  <2>1. /\ db' = db \union {Filled(row)}
        /\ stage' = stage /\ pc' = pc /\ next'[c] = n + 1
    BY <1>1, <1>7 DEF Insert, PipelineInv, MemoryInv
  <2>2. Filled(row).table = row.table /\ Planned(Filled(row)) = row
    BY <1>3 DEF Filled, Planned, Counted
  <2>3. RowsOf(s)' = RowsOf(s) \union {row}
    BY <1>3, <2>1, <2>2, RowAdded
  <2>4. /\ StatesOf(s)' = StatesOf(s)
        /\ PositionsOf(s)' = [PositionsOf(s) EXCEPT ![c] = n + 1]
    <3>1. PositionOf(s, c)' = n + 1
      BY <1>1, <2>1 DEF PositionOf, Rebuilders, Rebuilding
    <3>2. StatesOf(s)' = StatesOf(s)
      BY <2>1 DEF StatesOf, StateOf, Rebuilders
    <3> QED
      BY <3>1, <3>2, Moves
  <2>5. R(s)!Acceptable(c)
    BY <1>5, <1>7 DEF R!Acceptable, Acceptable
  <2>6. R(s)!Insert(c)
    BY <1>1, <1>2, <1>4, <1>5, <1>6, <2>3, <2>4, <2>5 DEF R!Insert
  <2> QED
    BY <2>6 DEF R!Next
<1>8. CASE ~Acceptable(row)
  <2>1. db' = db /\ pc'[c] = "off"
    BY <1>1, <1>8 DEF Insert, Leave, Enter, PipelineInv, PlaceInv
  <2>2. StateOf(s, c)' = "idle" /\ PositionOf(s, c)' = 1
    BY <2>1 DEF StateOf, PositionOf, Rebuilders, Rebuilding
  <2>3. ~R(s)!Acceptable(c)
    BY <1>5, <1>8 DEF R!Acceptable, Acceptable
  <2>4. RowsOf(s)' = RowsOf(s)
    BY <2>1 DEF RowsOf
  <2>5. R(s)!Refuse(c)
    BY ZenonT(30), <1>1, <1>2, <1>4, <1>6, <2>2, <2>3, <2>4, Moves DEF R!Refuse, R!Stop
  <2> QED
    BY <2>5 DEF R!Next
<1> QED
  BY <1>7, <1>8

\* A command that is through stands behind the last row of the target.
LEMMA FinishMaps ==
  ASSUME NEW s \in Stages, NEW c \in Commands, PipelineInv, PlansFit, Run(c),
         Finish(c), stage[c] = s, calm[s]
  PROVE  R(s)!Next
<1>1. /\ planned[s] /\ plan[c] = target[s] /\ Fits(s, plan[c]) /\ pc[c] = "insert"
      /\ next[c] \in Nat \ {0} /\ next[c] > Len(target[s]) /\ next[c] =< Len(target[s]) + 1
      /\ UNCHANGED <<calm, planned, target>> /\ db' = db
  BY DEF PipelineInv, MemoryInv, PlansFit, Finish, history, database
<1>2. next[c] = Len(target[s]) + 1
  <2>1. Len(target[s]) \in Nat
    BY <1>1 DEF Fits
  <2> QED
    BY <1>1, <2>1
<1>3. /\ c \in Rebuilders(s)
      /\ StatesOf(s)[c] = "inserting" /\ PositionsOf(s)[c] = next[c]
  BY <1>1 DEF Rebuilders, Rebuilding, StatesOf, StateOf, PositionsOf, PositionOf
<1>4. StateOf(s, c)' = "idle" /\ PositionOf(s, c)' = 1
  <2>1. pc'[c] \in {"off", "clear"}
    BY DEF Finish, Leave, Enter, PipelineInv, PlaceInv
  <2> QED
    BY <2>1 DEF StateOf, PositionOf, Rebuilders, Rebuilding
<1>5. RowsOf(s)' = RowsOf(s)
  BY <1>1 DEF RowsOf
<1>6. R(s)!Finish(c)
  BY ZenonT(30), <1>1, <1>2, <1>3, <1>4, <1>5, Moves DEF R!Finish, R!Stop
<1> QED
  BY <1>6 DEF R!Next

\* A step of a command is a step of Rebuild, or is not seen.
LEMMA RunMaps ==
  ASSUME NEW s \in Stages, PipelineInv, HistoryInv', PlansFit, PlansFit',
         NEW c \in Commands, Run(c)
  PROVE  [R(s)!Next]_(Seen(s))
<1>0. /\ stage[c] \in Stages \union {"import", "none"}
      /\ \A t : c \in Rebuilders(t) <=> stage[c] = t /\ pc[c] \in Rebuilding
      /\ \A t : c \in Rebuilders(t)' <=> stage'[c] = t /\ pc'[c] \in Rebuilding
  BY DEF PipelineInv, PlaceInv, Rebuilders
<1>1. ASSUME ~calm'[s]
      PROVE  [R(s)!Next]_(Seen(s))
  <2>1. calm'[s] = FALSE
    BY <1>1 DEF HistoryInv
  <2> QED
    BY <2>1 DEF R!Next, R!Disturb
<1>2. ASSUME db' = db, UNCHANGED <<calm, planned, target>>,
             c \notin Rebuilders(s), c \notin Rebuilders(s)'
      PROVE  [R(s)!Next]_(Seen(s))
  BY <1>2, Unseen DEF RowsOf
<1>3. CASE \/ \E f \in Files : Start(c, "import", f)
           \/ Start(c, "extract", <<>>) \/ Start(c, "relations", <<>>)
           \/ EnsureRun(c) \/ ReadLine(c) \/ EndImport(c)
  <2>1. /\ db' = db /\ UNCHANGED <<calm, planned, target>>
        /\ pc[c] \in {"off", "ensure", "line"} /\ pc'[c] \notin Rebuilding
    BY <1>3 DEF Start, EnsureRun, ReadLine, EndImport, Leave, Enter, First, Rebuilding,
                database, history, PipelineInv, PlaceInv
  <2>2. pc[c] \notin Rebuilding
    BY <2>1 DEF Rebuilding
  <2> QED
    BY <1>0, <1>2, <2>1, <2>2
<1>4. CASE InsertDocument(c)
  <2>1. /\ UNCHANGED <<calm, planned, target>>
        /\ pc[c] \notin Rebuilding /\ pc'[c] \notin Rebuilding
        /\ db' = db \/ \E jd : db' = db \union {Document(jd)}
    BY <1>4 DEF InsertDocument, Leave, Enter, Rebuilding, PipelineInv, PlaceInv
  <2>2. RowsOf(s)' = RowsOf(s)
    <3>1. CASE db' = db
      BY <3>1 DEF RowsOf
    <3>2. ASSUME NEW jd, db' = db \union {Document(jd)}
          PROVE  RowsOf(s)' = RowsOf(s)
      <4>1. Document(jd).table = "jd_documents"
        BY DEF Document
      <4> QED
        BY <3>2, <4>1, RowAdded, TablesDisjoint
    <3> QED
      BY <2>1, <3>1, <3>2
  <2> QED
    BY <1>0, <1>1, <2>1, <2>2, Unseen
<1>5. CASE Kill(c)
  <2>1. db' = db /\ pc'[c] = "off" /\ pc'[c] \notin Rebuilding
    BY <1>5 DEF Kill, Leave, Enter, database, PipelineInv, PlaceInv, Rebuilding
  <2>2. ASSUME calm'[s]
        PROVE  [R(s)!Next]_(Seen(s))
    <3>1. /\ calm[s] /\ c \notin Rebuilders(s)
          /\ (planned'[s] <=> planned[s]) /\ target'[s] = target[s]
      BY <1>5, <2>2, KillHistory DEF PipelineInv
    <3>2. RowsOf(s)' = RowsOf(s)
      BY <2>1 DEF RowsOf
    <3> QED
      BY <1>0, <2>1, <3>1, <3>2, Unseen
  <2> QED
    BY <1>1, <2>2
<1>6. CASE Clear(c)
  <2>0. pc[c] = "clear" /\ pc[c] \notin Rebuilding /\ stage[c] \in Stages
    BY <1>6 DEF Clear, Rebuilding, PipelineInv, PlaceInv
  <2>1. CASE ~Removable(stage[c])
    <3>1. /\ db' = db /\ UNCHANGED <<calm, planned, target>>
          /\ pc'[c] = "off" /\ pc'[c] \notin Rebuilding
      BY <1>6, <2>1 DEF Clear, Leave, Enter, PipelineInv, PlaceInv, Rebuilding
    <3> QED
      BY <1>0, <1>2, <2>0, <3>1
  <2>2. CASE Cleared(c) /\ stage[c] = s
    BY <1>1, <2>0, <2>2, ClearMaps
  <2>3. CASE Cleared(c) /\ stage[c] # s
    <3>1. RowsOf(s)' = RowsOf(s)
      <4>1. /\ TablesOf[s] \intersect TablesOf[stage[c]] = {}
            /\ db' = {row \in db : row.table \notin TablesOf[stage[c]]}
        BY <2>0, <2>3, TablesDisjoint DEF Cleared, Without
      <4>2. {row \in db' : row.table \in TablesOf[s]}
              = {row \in db : row.table \in TablesOf[s]}
        BY <4>1
      <4> QED
        BY <4>2 DEF RowsOf
    <3>2. calm'[s] => calm[s] /\ (planned'[s] <=> planned[s]) /\ target'[s] = target[s]
      BY <2>0, <2>3, ClearHistory DEF PipelineInv
    <3>3. stage' = stage
      BY <2>3 DEF Cleared
    <3> QED
      BY <1>0, <2>3, <3>1, <3>2, <3>3, Unseen
  <2> QED
    BY <1>6, <2>1, <2>2, <2>3 DEF Clear
<1>7. ASSUME NEW rows, pc[c] \in {"load", "evidence"}, Plan(c, rows)
      PROVE  [R(s)!Next]_(Seen(s))
  <2>0. stage[c] \in Stages /\ stage' = stage /\ db' = db
    BY <1>7 DEF Plan, PipelineInv, PlaceInv, Rebuilding, database
  <2>1. CASE stage[c] = s
    BY <1>1, <1>7, <2>1, PlanMaps
  <2>2. CASE stage[c] # s
    <3>1. /\ calm'[s] <=> calm[s]
          /\ planned'[s] <=> planned[s]
          /\ target'[s] = target[s]
      BY <1>7, <2>0, <2>2, PlanHistory DEF PipelineInv
    <3>2. RowsOf(s)' = RowsOf(s)
      BY <2>0 DEF RowsOf
    <3> QED
      BY <1>0, <2>0, <2>2, <3>1, <3>2, Unseen
  <2> QED
    BY <2>1, <2>2
<1>8. CASE LoadDocuments(c) \/ FindEvidence(c) \/ LoadMentions(c)
  BY <1>7, <1>8 DEF LoadDocuments, FindEvidence, LoadMentions
<1>9. CASE LoadSurfaces(c)
  <2>1. /\ db' = db /\ stage' = stage /\ next' = next
        /\ pc[c] = "load" /\ pc'[c] = "evidence"
        /\ UNCHANGED <<calm, planned, target>>
    BY <1>9 DEF LoadSurfaces, database, history, PipelineInv, PlaceInv
  <2>2. StateOf(s, c)' = StateOf(s, c) /\ PositionOf(s, c)' = PositionOf(s, c)
    BY <2>1 DEF StateOf, PositionOf, Rebuilders, Rebuilding
  <2>3. StatesOf(s)' = StatesOf(s)
    BY <2>2, Moves
  <2>4. PositionsOf(s)' = PositionsOf(s) /\ RowsOf(s)' = RowsOf(s)
    BY <2>1, <2>2, Moves DEF RowsOf
  <2> QED
    BY <2>1, <2>3, <2>4 DEF Seen
<1>10. CASE Insert(c) \/ Finish(c)
  <2>0. /\ UNCHANGED <<calm, planned, target>> /\ stage[c] \in Stages /\ pc[c] = "insert"
    BY <1>10 DEF Insert, Finish, history, PipelineInv, PlaceInv, Rebuilding
  <2>1. CASE stage[c] = s
    BY <1>1, <1>10, <2>0, <2>1, InsertMaps, FinishMaps
  <2>2. CASE stage[c] # s
    <3>1. c \notin Rebuilders(s) /\ c \notin Rebuilders(s)'
      <4>1. stage'[c] = stage[c] \/ pc'[c] \in {"off", "clear"}
        BY <1>10 DEF Insert, Finish, Leave, Enter, PipelineInv, PlaceInv
      <4> QED
        BY <1>0, <2>2, <4>1 DEF Rebuilding
    <3>2. RowsOf(s)' = RowsOf(s)
      <4>1. CASE db' = db
        BY <4>1 DEF RowsOf
      <4>2. CASE Insert(c) /\ db' # db
        <5>1. /\ Fits(stage[c], plan[c]) /\ next[c] \in Nat \ {0}
              /\ next[c] =< Len(plan[c])
              /\ db' = db \union {Filled(plan[c][next[c]])}
          BY <2>0, <4>2 DEF Insert, PlansFit, PipelineInv, MemoryInv
        <5>2. next[c] \in 1 .. Len(plan[c])
          BY <5>1 DEF Fits
        <5>3. Filled(plan[c][next[c]]).table \in TablesOf[stage[c]]
          BY <5>1, <5>2 DEF Fits, Filled, Counted
        <5> QED
          BY <2>0, <2>2, <5>1, <5>3, RowAdded, TablesDisjoint
      <4> QED
        BY <1>10, <4>1, <4>2 DEF Finish, database
    <3> QED
      BY <2>0, <3>1, <3>2, Unseen DEF PipelineInv
  <2> QED
    BY <2>1, <2>2
<1> QED
  BY <1>3, <1>4, <1>5, <1>6, <1>8, <1>9, <1>10 DEF Run

LEMMA StepMaps ==
  ASSUME NEW s \in Stages, PipelineInv, PipelineInv', PlansFit, PlansFit', [Next]_vars
  PROVE  [R(s)!Next]_(Seen(s))
<1>1. ASSUME NEW t \in Texts, AddProbeJob(t)
      PROVE  Seen(s)' = Seen(s)
  <2>1. RowsOf(s)' = RowsOf(s)
    <3>1. db' = db \union {ProbeJob(t)} /\ ProbeJob(t).table = "probe_jobs"
      BY <1>1 DEF AddProbeJob, ProbeJob
    <3> QED
      BY <3>1, RowAdded, TablesDisjoint
  <2> QED
    BY <1>1, <2>1 DEF AddProbeJob, Seen, commands, history, StatesOf, StateOf, PositionsOf,
                      PositionOf, Rebuilders
<1>2. CASE UNCHANGED vars
  BY <1>2 DEF vars, database, commands, history, Seen, RowsOf, StatesOf, StateOf,
              PositionsOf, PositionOf, Rebuilders
<1> QED
  BY <1>1, <1>2, RunMaps DEF Next, PipelineInv

LEMMA ExtractionMaps ==
  ASSUME PipelineInv, PipelineInv', PlansFit, PlansFit', [Next]_vars
  PROVE  [Extraction!Next]_(Extraction!vars)
<1>1. [R("extract")!Next]_(Seen("extract"))
  BY StepMaps, StagesAre
<1>2. R("extract")!Next => Extraction!Next
  BY DEF R!Next, Extraction!Next, R!ClearAlone, Extraction!ClearAlone,
         R!ClearAmongOthers, Extraction!ClearAmongOthers, R!Load,
         Extraction!Load, R!Insert, Extraction!Insert, R!Refuse,
         Extraction!Refuse, R!Finish, Extraction!Finish, R!Disturb,
         Extraction!Disturb, R!Idle, Extraction!Idle, R!Chained,
         Extraction!Chained, R!Acceptable, Extraction!Acceptable, R!Row,
         Extraction!Row, R!KeysOf, Extraction!KeysOf, R!Stop, Extraction!Stop
<1> QED
  BY <1>1, <1>2 DEF Seen, Extraction!vars

LEMMA RelationsMaps ==
  ASSUME PipelineInv, PipelineInv', PlansFit, PlansFit', [Next]_vars
  PROVE  [Relations!Next]_(Relations!vars)
<1>1. [R("relations")!Next]_(Seen("relations"))
  BY StepMaps, StagesAre
<1>2. R("relations")!Next => Relations!Next
  BY DEF R!Next, Relations!Next, R!ClearAlone, Relations!ClearAlone,
         R!ClearAmongOthers, Relations!ClearAmongOthers, R!Load, Relations!Load,
         R!Insert, Relations!Insert, R!Refuse, Relations!Refuse, R!Finish,
         Relations!Finish, R!Disturb, Relations!Disturb, R!Idle, Relations!Idle,
         R!Chained, Relations!Chained, R!Acceptable, Relations!Acceptable, R!Row,
         Relations!Row, R!KeysOf, Relations!KeysOf, R!Stop, Relations!Stop
<1> QED
  BY <1>1, <1>2 DEF Seen, Relations!vars

LEMMA EdgesMaps ==
  ASSUME PipelineInv, PipelineInv', PlansFit, PlansFit', [Next]_vars
  PROVE  [Edges!Next]_(Edges!vars)
<1>1. [R("edges")!Next]_(Seen("edges"))
  BY StepMaps, StagesAre
<1>2. R("edges")!Next => Edges!Next
  BY DEF R!Next, Edges!Next, R!ClearAlone, Edges!ClearAlone, R!ClearAmongOthers,
         Edges!ClearAmongOthers, R!Load, Edges!Load, R!Insert, Edges!Insert,
         R!Refuse, Edges!Refuse, R!Finish, Edges!Finish, R!Disturb,
         Edges!Disturb, R!Idle, Edges!Idle, R!Chained, Edges!Chained,
         R!Acceptable, Edges!Acceptable, R!Row, Edges!Row, R!KeysOf,
         Edges!KeysOf, R!Stop, Edges!Stop
<1> QED
  BY <1>1, <1>2 DEF Seen, Edges!vars

\* Each stage rebuilds its tables as Rebuild says, however many commands overlap
\* and are killed.
THEOREM RebuildsRefinement == Spec => RebuildsImplemented
<1>1. Init => Extraction!Init /\ Relations!Init /\ Edges!Init
  <2> SUFFICES ASSUME Init PROVE Extraction!Init /\ Relations!Init /\ Edges!Init
    OBVIOUS
  <2>1. \A s \in Stages : calm[s] = FALSE
    BY DEF Init
  <2> QED
    BY <2>1, StagesAre DEF Extraction!Init, Relations!Init, Edges!Init
<1>2. BuildInv => PipelineInv
  BY DEF BuildInv
<1>3. /\ PipelineInv /\ PipelineInv' /\ PlansFit /\ PlansFit' /\ [Next]_vars
      => /\ [Extraction!Next]_(Extraction!vars)
         /\ [Relations!Next]_(Relations!vars)
         /\ [Edges!Next]_(Edges!vars)
  BY ExtractionMaps, RelationsMaps, EdgesMaps
<1> QED
  BY <1>1, <1>2, <1>3, BuildInvariant, PlansAlwaysFit, PTL
     DEF Spec, RebuildsImplemented, Extraction!Spec, Relations!Spec, Edges!Spec

-----------------------------------------------------------------------------
(* What RebuildProofs says of each stage.                                  *)

ExtractionProofs == INSTANCE RebuildProofs WITH
  Workers <- Commands, Refs <- LAMBDA row : RefsIn("extract", row),
  present <- RowsOf("extract"), state <- StatesOf("extract"),
  next <- PositionsOf("extract"), target <- target["extract"],
  planned <- planned["extract"], calm <- calm["extract"]

LEMMA ExtractionCompletes == Extraction!Spec => []Extraction!Complete
<1>1. Extraction!Init => ExtractionProofs!Init
  BY DEF Extraction!Init, ExtractionProofs!Init
<1>2. Extraction!Next => ExtractionProofs!Next
  BY DEF Extraction!Next, ExtractionProofs!Next, Extraction!ClearAlone,
         ExtractionProofs!ClearAlone, Extraction!ClearAmongOthers,
         ExtractionProofs!ClearAmongOthers, Extraction!Load, ExtractionProofs!Load,
         Extraction!Insert, ExtractionProofs!Insert, Extraction!Refuse,
         ExtractionProofs!Refuse, Extraction!Finish, ExtractionProofs!Finish,
         Extraction!Disturb, ExtractionProofs!Disturb, Extraction!Idle,
         ExtractionProofs!Idle, Extraction!Chained, ExtractionProofs!Chained,
         Extraction!Acceptable, ExtractionProofs!Acceptable, Extraction!Row,
         ExtractionProofs!Row, Extraction!KeysOf, ExtractionProofs!KeysOf,
         Extraction!Stop, ExtractionProofs!Stop
<1>3. ExtractionProofs!Complete => Extraction!Complete
  BY DEF Extraction!Complete, ExtractionProofs!Complete, Extraction!Idle, ExtractionProofs!Idle,
         Extraction!Rows, ExtractionProofs!Rows
<1>4. [Extraction!Next]_(Extraction!vars) => [ExtractionProofs!Next]_(ExtractionProofs!vars)
  BY <1>2 DEF Extraction!vars, ExtractionProofs!vars
<1> QED
  BY <1>1, <1>3, <1>4, ExtractionProofs!RebuildsComplete, PTL
     DEF Extraction!Spec, ExtractionProofs!Spec

RelationsProofs == INSTANCE RebuildProofs WITH
  Workers <- Commands, Refs <- LAMBDA row : RefsIn("relations", row),
  present <- RowsOf("relations"), state <- StatesOf("relations"),
  next <- PositionsOf("relations"), target <- target["relations"],
  planned <- planned["relations"], calm <- calm["relations"]

LEMMA RelationsCompletes == Relations!Spec => []Relations!Complete
<1>1. Relations!Init => RelationsProofs!Init
  BY DEF Relations!Init, RelationsProofs!Init
<1>2. Relations!Next => RelationsProofs!Next
  BY DEF Relations!Next, RelationsProofs!Next, Relations!ClearAlone,
         RelationsProofs!ClearAlone, Relations!ClearAmongOthers,
         RelationsProofs!ClearAmongOthers, Relations!Load, RelationsProofs!Load,
         Relations!Insert, RelationsProofs!Insert, Relations!Refuse,
         RelationsProofs!Refuse, Relations!Finish, RelationsProofs!Finish,
         Relations!Disturb, RelationsProofs!Disturb, Relations!Idle,
         RelationsProofs!Idle, Relations!Chained, RelationsProofs!Chained,
         Relations!Acceptable, RelationsProofs!Acceptable, Relations!Row,
         RelationsProofs!Row, Relations!KeysOf, RelationsProofs!KeysOf,
         Relations!Stop, RelationsProofs!Stop
<1>3. RelationsProofs!Complete => Relations!Complete
  BY DEF Relations!Complete, RelationsProofs!Complete, Relations!Idle, RelationsProofs!Idle,
         Relations!Rows, RelationsProofs!Rows
<1>4. [Relations!Next]_(Relations!vars) => [RelationsProofs!Next]_(RelationsProofs!vars)
  BY <1>2 DEF Relations!vars, RelationsProofs!vars
<1> QED
  BY <1>1, <1>3, <1>4, RelationsProofs!RebuildsComplete, PTL
     DEF Relations!Spec, RelationsProofs!Spec

EdgesProofs == INSTANCE RebuildProofs WITH
  Workers <- Commands, Refs <- LAMBDA row : RefsIn("edges", row),
  present <- RowsOf("edges"), state <- StatesOf("edges"),
  next <- PositionsOf("edges"), target <- target["edges"],
  planned <- planned["edges"], calm <- calm["edges"]

LEMMA EdgesCompletes == Edges!Spec => []Edges!Complete
<1>1. Edges!Init => EdgesProofs!Init
  BY DEF Edges!Init, EdgesProofs!Init
<1>2. Edges!Next => EdgesProofs!Next
  BY DEF Edges!Next, EdgesProofs!Next, Edges!ClearAlone, EdgesProofs!ClearAlone,
         Edges!ClearAmongOthers, EdgesProofs!ClearAmongOthers, Edges!Load,
         EdgesProofs!Load, Edges!Insert, EdgesProofs!Insert, Edges!Refuse,
         EdgesProofs!Refuse, Edges!Finish, EdgesProofs!Finish, Edges!Disturb,
         EdgesProofs!Disturb, Edges!Idle, EdgesProofs!Idle, Edges!Chained,
         EdgesProofs!Chained, Edges!Acceptable, EdgesProofs!Acceptable, Edges!Row,
         EdgesProofs!Row, Edges!KeysOf, EdgesProofs!KeysOf, Edges!Stop,
         EdgesProofs!Stop
<1>3. EdgesProofs!Complete => Edges!Complete
  BY DEF Edges!Complete, EdgesProofs!Complete, Edges!Idle, EdgesProofs!Idle,
         Edges!Rows, EdgesProofs!Rows
<1>4. [Edges!Next]_(Edges!vars) => [EdgesProofs!Next]_(EdgesProofs!vars)
  BY <1>2 DEF Edges!vars, EdgesProofs!vars
<1> QED
  BY <1>1, <1>3, <1>4, EdgesProofs!RebuildsComplete, PTL
     DEF Edges!Spec, EdgesProofs!Spec

\* Then, whenever no command is at work on a stage, nobody was killed since one
\* began alone, and all have planned the same, the rows they planned are there
\* and no others: no command has to come through.
THEOREM StagesComplete ==
  Spec => [](Extraction!Complete /\ Relations!Complete /\ Edges!Complete)
BY RebuildsRefinement, ExtractionCompletes, RelationsCompletes, EdgesCompletes, PTL
   DEF RebuildsImplemented

-----------------------------------------------------------------------------
(* What a calm extraction leaves.                                          *)

Made(documents) == {EvidencePlan(documents)[k] : k \in 1 .. Len(EvidencePlan(documents))}

LEMMA MadeIs ==
  ASSUME NEW documents, NEW r
  PROVE  LET items == Items(documents)
         IN /\ r \in Of(Made(documents), "keyword_mentions") <=>
                 \E x \in items : Kind(x) = "mention" /\ r = EvidenceRow(items, x)
            /\ r \in Of(Made(documents), "jd_sections") <=>
                 \E x \in items : Kind(x) = "section" /\ r = EvidenceRow(items, x)
            /\ r \in Of(Made(documents), "surfaces") <=>
                 \E t \in Texts : MentionsOf(items, t) # {} /\ r = SurfaceRow(items, t)
<1> DEFINE items == Items(documents)
           sorted == Sorted(items)
           found == Ordered(TextOrder, {text \in Texts : MentionsOf(items, text) # {}})
           rows == EvidencePlan(documents)
           N == Cardinality(items)
           M == Len(found)
<1>1. LaidOut(items, sorted, found, rows, N, M)
  BY EvidencePlanIs
<1>2. \A x \in items :
        /\ EvidenceRow(items, x).table \in
             {"jd_sections", "keyword_mentions", "blocked_surface_candidates"}
        /\ Kind(x) = "section" <=> EvidenceRow(items, x).table = "jd_sections"
        /\ Kind(x) = "mention" <=> EvidenceRow(items, x).table = "keyword_mentions"
  BY RefsOfItem
<1>3. \A t : SurfaceRow(items, t).table = "surfaces"
  BY SurfaceRowIs
<1>4. \A s : s \in Made(documents) <=> \E k \in 1 .. Len(rows) : s = rows[k]
  BY DEF Made
<1> HIDE DEF items, sorted, found, rows, N, M
<1>5. r \in Made(documents) <=>
        \/ \E x \in items : r = EvidenceRow(items, x)
        \/ \E t \in Texts : MentionsOf(items, t) # {} /\ r = SurfaceRow(items, t)
  <2>1. ASSUME NEW k \in 1 .. Len(rows), r = rows[k]
        PROVE  \/ \E x \in items : r = EvidenceRow(items, x)
               \/ \E t \in Texts : MentionsOf(items, t) # {} /\ r = SurfaceRow(items, t)
    BY <1>1, <2>1 DEF LaidOut
  <2>2. ASSUME NEW x \in items, r = EvidenceRow(items, x)
        PROVE  \E k \in 1 .. Len(rows) : r = rows[k]
    BY <1>1, <2>2 DEF LaidOut
  <2>3. ASSUME NEW t \in Texts, MentionsOf(items, t) # {}, r = SurfaceRow(items, t)
        PROVE  \E k \in 1 .. Len(rows) : r = rows[k]
    BY <1>1, <2>3 DEF LaidOut
  <2> QED
    BY <1>4, <2>1, <2>2, <2>3
<1> HIDE DEF Made
<1>6. \A table : r \in Of(Made(documents), table) <=> r \in Made(documents) /\ r.table = table
  BY DEF Of
<1> QED
  BY <1>2, <1>3, <1>5, <1>6 DEF items

\* What can be read off a mention.
LEMMA MentionIs ==
  ASSUME NEW documents, NEW x \in Items(documents), Kind(x) = "mention"
  PROVE  LET row == EvidenceRow(Items(documents), x)
         IN row.jd = JdOrder[x[1]] /\ row.section = <<JdOrder[x[1]], x[2]>> /\ row.text = Candidate(x)
<1> DEFINE row == EvidenceRow(Items(documents), x)
           number == Number(Items(documents), x)
<1>1. row = Mention(JdOrder[x[1]], x[2], number, Candidate(x))
  BY RowOfItem
<1> HIDE DEF row, number
<1> QED
  BY <1>1 DEF Mention, row

\* The evidence in some rows, as EvidenceAgrees has it of those of the database.
EvidenceRight(rows) ==
  LET mentions == Of(rows, "keyword_mentions")
      sections == Of(rows, "jd_sections")
      OfText(t) == {m \in mentions : m.text = t}
  IN
  /\ \A t \in Texts : OfText(t) # {} => SurfaceKey(t) \in Keys(rows)
  /\ \A row \in Of(rows, "surfaces") :
       /\ row.tf = Cardinality(OfText(row.id[1])) /\ row.tf > 0
       /\ row.df = Cardinality({m.jd : m \in OfText(row.id[1])})
  /\ \A jd \in {row.id[1] : row \in sections} : \A i \in DOMAIN SectionsOf[jd] :
       /\ SectionKey(jd, i) \in Keys(sections)
       /\ \A t \in Texts :
            Cardinality({m \in OfText(t) : m.section = <<jd, i>>})
              = Cardinality({k \in DOMAIN SectionsOf[jd][i].candidates :
                               SectionsOf[jd][i].candidates[k] = t})

\* The mentions of a text are one for each item that mentions it.
TextCounted(documents, mentions, t) ==
  LET found == MentionsOf(Items(documents), t)
      ofText == {m \in mentions : m.text = t}
  IN
  /\ ofText = {EvidenceRow(Items(documents), x) : x \in found}
  /\ IsFiniteSet(found) /\ found \subseteq Items(documents)
  /\ Cardinality(ofText) = Cardinality(found)
  /\ Cardinality({m.jd : m \in ofText}) = Cardinality({x[1] : x \in found})

LEMMA MentionsOfText ==
  ASSUME NEW documents, NEW mentions, NEW t,
         \A r : r \in mentions <=>
           \E x \in Items(documents) : Kind(x) = "mention" /\ r = EvidenceRow(Items(documents), x)
  PROVE  TextCounted(documents, mentions, t)
<1> DEFINE items == Items(documents)
           found == MentionsOf(items, t)
           ofText == {m \in mentions : m.text = t}
           f == [x \in found |-> EvidenceRow(items, x)]
           g == [d \in {x[1] : x \in found} |-> JdOrder[d]]
           h == [x \in found |-> x[1]]
<1>1. /\ found = {x \in items : Kind(x) = "mention" /\ Candidate(x) = t}
      /\ found \subseteq items
  BY DEF MentionsOf
<1>2. IsFiniteSet(found)
  BY <1>1, ItemsAre, FS_Subset
<1>3. \A x \in found : EvidenceRow(items, x).text = t /\ EvidenceRow(items, x).jd = JdOrder[x[1]]
                         /\ Kind(x) = "mention" /\ x \in items
  BY <1>1, MentionIs
<1>4. ASSUME NEW m \in ofText PROVE \E x \in found : m = EvidenceRow(items, x)
  <2>1. PICK x \in items : Kind(x) = "mention" /\ m = EvidenceRow(items, x)
    OBVIOUS
  <2>2. Candidate(x) = t
    BY <2>1, MentionIs
  <2> QED
    BY <1>1, <2>1, <2>2
<1>5. \A x, y \in items : EvidenceRow(items, x) = EvidenceRow(items, y) => x = y
  BY RowsOfItemsDiffer
<1>6. \A d \in {x[1] : x \in found} : d \in DOMAIN JdOrder
  BY <1>1, ItemParts
<1>7. \A x \in found : EvidenceRow(items, x) \in ofText
  BY <1>3
<1> HIDE DEF items, found, ofText
<1>8. ofText = {EvidenceRow(items, x) : x \in found}
  BY <1>4, <1>7
<1>9. Cardinality(ofText) = Cardinality(found)
  <2>1. \A x, y \in found : f[x] = f[y] => x = y
    BY <1>3, <1>5
  <2>2. ofText = {f[x] : x \in found}
    BY <1>8
  <2> HIDE DEF f
  <2> QED
    BY <1>2, <2>1, <2>2, SameImage
<1>10. Cardinality({m.jd : m \in ofText}) = Cardinality({x[1] : x \in found})
  <2> DEFINE D == {x[1] : x \in found}
  <2>1. {m.jd : m \in ofText} = {JdOrder[d] : d \in D}
    BY <1>3, <1>8
  <2>2. {JdOrder[d] : d \in D} = {g[d] : d \in D}
    OBVIOUS
  <2>3. IsFiniteSet(D)
    <3>1. D = {h[x] : x \in found}
      OBVIOUS
    <3> HIDE DEF h, D
    <3> QED
      BY <1>2, <3>1, FiniteImage
  <2>4. \A d, e \in D : g[d] = g[e] => d = e
    BY <1>6, JdsAre
  <2> HIDE DEF g, D
  <2>5. Cardinality({g[d] : d \in D}) = Cardinality(D)
    BY <2>3, <2>4, SameImage
  <2> QED
    BY <2>1, <2>2, <2>5 DEF D
<1> QED
  BY <1>1, <1>2, <1>8, <1>9, <1>10 DEF items, found, ofText, TextCounted

\* A document that has a section has all of them.
LEMMA SectionKeyed ==
  ASSUME NEW documents, NEW sections,
         \A r : r \in sections <=>
           \E x \in Items(documents) : Kind(x) = "section" /\ r = EvidenceRow(Items(documents), x),
         NEW row \in sections, NEW i \in DOMAIN SectionsOf[row.id[1]]
  PROVE  SectionKey(row.id[1], i) \in Keys(sections)
<1> DEFINE items == Items(documents)
           jd == row.id[1]
<1>1. PICK y \in items : Kind(y) = "section" /\ row = EvidenceRow(items, y)
  OBVIOUS
<1> DEFINE d == y[1]
           x == <<d, i, 0>>
           made == EvidenceRow(items, x)
<1>2. d \in DOMAIN JdOrder /\ JdOrder[d] \in documents /\ jd = JdOrder[d]
  <2>1. y[1] \in DOMAIN JdOrder /\ JdOrder[y[1]] \in documents
    BY ItemParts
  <2>2. row = Section(JdOrder[y[1]], y[2])
    BY <1>1, RowOfItem
  <2> QED
    BY <2>1, <2>2 DEF Section
<1>3. i \in DOMAIN SectionsOf[JdOrder[d]]
  BY <1>2
<1> HIDE DEF d, jd
<1>4. 0 \in 0 .. Len(CandidatesOf(d, i))
  BY <1>2, <1>3, SectionsAre
<1>5. x \in items /\ Kind(x) = "section"
  BY <1>2, <1>3, <1>4, ItemsAre DEF Kind
<1>6. x[1] = d /\ x[2] = i /\ x[3] = 0
  OBVIOUS
<1> HIDE DEF x
<1>7. Key(made) = SectionKey(jd, i)
  BY <1>2, <1>5, <1>6, RefsOfItem
<1>8. made \in sections
  BY <1>5
<1> QED
  BY <1>7, <1>8 DEF Keys, jd

\* A section has its mentions.
SectionRight(mentions, jd, i, t) ==
  Cardinality({m \in mentions : m.text = t /\ m.section = <<jd, i>>})
    = Cardinality({k \in DOMAIN SectionsOf[jd][i].candidates :
                     SectionsOf[jd][i].candidates[k] = t})

LEMMA SectionsMade ==
  ASSUME NEW documents, NEW mentions, NEW sections,
         \A r : r \in mentions <=>
           \E x \in Items(documents) : Kind(x) = "mention" /\ r = EvidenceRow(Items(documents), x),
         \A r : r \in sections <=>
           \E x \in Items(documents) : Kind(x) = "section" /\ r = EvidenceRow(Items(documents), x),
         NEW row \in sections, NEW i \in DOMAIN SectionsOf[row.id[1]], NEW t \in Texts
  PROVE  SectionRight(mentions, row.id[1], i, t)
<1> DEFINE items == Items(documents)
           jd == row.id[1]
<1>1. PICK y \in items : Kind(y) = "section" /\ row = EvidenceRow(items, y)
  OBVIOUS
<1> DEFINE d == y[1]
<1>2. /\ d \in DOMAIN JdOrder /\ JdOrder[d] \in documents
      /\ jd = JdOrder[d]
  <2>1. y[1] \in DOMAIN JdOrder /\ JdOrder[y[1]] \in documents
    BY ItemParts
  <2>2. row = Section(JdOrder[y[1]], y[2])
    BY <1>1, RowOfItem
  <2> QED
    BY <2>1, <2>2 DEF Section
<1> HIDE DEF d, jd
<1> DEFINE candidates == CandidatesOf(d, i)
           places == {k \in DOMAIN candidates : candidates[k] = t}
           f == [k \in places |-> EvidenceRow(items, <<d, i, k>>)]
           there == {m \in mentions : m.text = t /\ m.section = <<jd, i>>}
<1>3. i \in DOMAIN SectionsOf[JdOrder[d]]
  BY <1>2 DEF jd
<1>4. /\ Len(candidates) \in Nat /\ DOMAIN candidates = 1 .. Len(candidates)
      /\ IsFiniteSet(places)
  <2>1. candidates \in Seq(Texts \union {Blocked}) /\ Len(candidates) \in Nat
    BY <1>2, <1>3, SectionsAre
  <2> HIDE DEF candidates
  <2>2. DOMAIN candidates = 1 .. Len(candidates)
    BY <2>1
  <2>3. IsFiniteSet(1 .. Len(candidates))
    BY <2>1, FS_Interval
  <2> QED
    BY <2>1, <2>2, <2>3, FS_Subset
<1>5. candidates = SectionsOf[jd][i].candidates
  BY <1>2 DEF CandidatesOf
<1>6. \A k \in 0 .. Len(candidates) : <<d, i, k>> \in items
  BY <1>2, <1>3, ItemsAre
<1>8. \A k \in places : k \in 1 .. Len(candidates) /\ candidates[k] = t
  BY <1>4
<1>9. ASSUME NEW k \in places
      PROVE  EvidenceRow(items, <<d, i, k>>) \in there
  <2> DEFINE x == <<d, i, k>>
  <2>1. x \in items
    BY <1>4, <1>6, <1>8
  <2>2. Candidate(x) = t /\ x[3] # 0
    BY <1>8 DEF Candidate
  <2>3. Kind(x) = "mention"
    BY <2>2, PlansAssumption DEF Kind
  <2>4. x[1] = d /\ x[2] = i
    OBVIOUS
  <2> HIDE DEF x
  <2>5. /\ EvidenceRow(items, x).text = t /\ EvidenceRow(items, x).section = <<jd, i>>
    BY <1>2, <2>1, <2>2, <2>3, <2>4, MentionIs
  <2>6. EvidenceRow(items, x) \in mentions
    BY <2>1, <2>3
  <2> QED
    BY <2>5, <2>6 DEF x
<1>10. ASSUME NEW m \in there
       PROVE  \E k \in places : m = EvidenceRow(items, <<d, i, k>>)
  <2>1. PICK x \in items : Kind(x) = "mention" /\ m = EvidenceRow(items, x)
    OBVIOUS
  <2>2. m.section = <<JdOrder[x[1]], x[2]>> /\ m.text = Candidate(x)
    BY <2>1, MentionIs
  <2>3. JdOrder[x[1]] = jd /\ x[2] = i /\ Candidate(x) = t
    BY <2>2
  <2>4. /\ x = <<x[1], x[2], x[3]>> /\ x[1] \in DOMAIN JdOrder
        /\ x[3] \in 0 .. Len(CandidatesOf(x[1], x[2])) /\ x[3] # 0 /\ x[3] \in Nat
    BY <2>1, ItemParts
  <2>5. x[1] = d
    BY <1>2, <2>3, <2>4, JdsAre
  <2>6. x = <<d, i, x[3]>>
    BY <2>3, <2>4, <2>5, Zenon
  <2>7. x[3] \in 1 .. Len(candidates)
    BY <1>4, <2>3, <2>4, <2>5
  <2>8. candidates[x[3]] = t
    BY <2>3, <2>5 DEF Candidate
  <2> QED
    BY <1>4, <2>1, <2>6, <2>7, <2>8
<1>11. ASSUME NEW k \in places, NEW l \in places, f[k] = f[l] PROVE k = l
  <2>1. <<d, i, k>> \in items /\ <<d, i, l>> \in items
    BY <1>4, <1>6, <1>8
  <2>2. EvidenceRow(items, <<d, i, k>>) = EvidenceRow(items, <<d, i, l>>)
    BY <1>11
  <2>3. <<d, i, k>> = <<d, i, l>>
    <3> DEFINE x == <<d, i, k>>
               y1 == <<d, i, l>>
    <3> HIDE DEF x, y1
    <3>1. x \in items /\ y1 \in items /\ Key(EvidenceRow(items, x)) = Key(EvidenceRow(items, y1))
      BY <2>1, <2>2 DEF x, y1
    <3>2. x = y1
      BY <3>1, RowsOfItemsDiffer
    <3> QED
      BY <3>2 DEF x, y1
  <2> QED
    BY <2>3
<1>12. there = {f[k] : k \in places}
  <2> HIDE DEF places, there, items
  <2>1. \A k \in places : f[k] = EvidenceRow(items, <<d, i, k>>)
    OBVIOUS
  <2> HIDE DEF f
  <2>2. \A k \in places : f[k] \in there
    BY <1>9, <2>1
  <2>3. ASSUME NEW m \in there PROVE \E k \in places : m = f[k]
    <3>1. PICK k \in places : m = EvidenceRow(items, <<d, i, k>>)
      BY <1>10
    <3> QED
      BY <2>1, <3>1
  <2> QED
    BY <2>2, <2>3
<1> HIDE DEF f, places, there
<1>13. Cardinality(there) = Cardinality(places)
  BY <1>4, <1>11, <1>12, SameImage
<1> QED
  BY <1>5, <1>13 DEF there, places, jd, SectionRight

LEMMA MadeIsRight ==
  ASSUME NEW documents, NEW rows,
         \A table \in TablesOf["extract"] : Of(rows, table) = Of(Made(documents), table)
  PROVE  EvidenceRight(rows)
<1> DEFINE items == Items(documents)
           mentions == Of(rows, "keyword_mentions")
           sections == Of(rows, "jd_sections")
           OfText(t) == {m \in mentions : m.text = t}
           Right(jd, i) ==
             /\ SectionKey(jd, i) \in Keys(sections)
             /\ \A t \in Texts :
                  Cardinality({m \in OfText(t) : m.section = <<jd, i>>})
                    = Cardinality({k \in DOMAIN SectionsOf[jd][i].candidates :
                                     SectionsOf[jd][i].candidates[k] = t})
<1>0. /\ mentions = Of(Made(documents), "keyword_mentions")
      /\ sections = Of(Made(documents), "jd_sections")
      /\ Of(rows, "surfaces") = Of(Made(documents), "surfaces")
  BY DEF TablesOf
<1>1. /\ \A r : r \in mentions <=>
           \E x \in Items(documents) : Kind(x) = "mention" /\ r = EvidenceRow(Items(documents), x)
      /\ \A r : r \in sections <=>
           \E x \in Items(documents) : Kind(x) = "section" /\ r = EvidenceRow(Items(documents), x)
      /\ \A r : r \in Of(rows, "surfaces") <=>
           \E t \in Texts : MentionsOf(items, t) # {} /\ r = SurfaceRow(items, t)
  BY <1>0, MadeIs
<1> HIDE DEF mentions, sections
<1>2. \A t : /\ OfText(t) = {EvidenceRow(items, x) : x \in MentionsOf(items, t)}
             /\ IsFiniteSet(MentionsOf(items, t))
             /\ Cardinality(OfText(t)) = Cardinality(MentionsOf(items, t))
             /\ Cardinality({m.jd : m \in OfText(t)}) = Cardinality({x[1] : x \in MentionsOf(items, t)})
  <2> SUFFICES ASSUME NEW t
      PROVE  /\ OfText(t) = {EvidenceRow(items, x) : x \in MentionsOf(items, t)}
             /\ IsFiniteSet(MentionsOf(items, t))
             /\ Cardinality(OfText(t)) = Cardinality(MentionsOf(items, t))
             /\ Cardinality({m.jd : m \in OfText(t)}) = Cardinality({x[1] : x \in MentionsOf(items, t)})
    OBVIOUS
  <2>1. TextCounted(documents, mentions, t)
    BY <1>1, MentionsOfText
  <2> QED
    BY <2>1 DEF TextCounted
<1>3. ASSUME NEW t \in Texts, OfText(t) # {}
      PROVE  SurfaceKey(t) \in Keys(rows)
  <2>1. MentionsOf(items, t) # {}
    BY <1>2, <1>3
  <2>2. SurfaceRow(items, t) \in Of(rows, "surfaces")
    BY <1>1, <2>1
  <2>3. SurfaceRow(items, t) \in rows
    BY <2>2 DEF Of
  <2>4. Key(SurfaceRow(items, t)) = SurfaceKey(t)
    BY SurfaceRowIs
  <2> QED
    BY <2>3, <2>4 DEF Keys
<1>4. ASSUME NEW row \in Of(rows, "surfaces")
      PROVE  /\ row.tf = Cardinality(OfText(row.id[1])) /\ row.tf > 0
             /\ row.df = Cardinality({m.jd : m \in OfText(row.id[1])})
  <2>1. PICK t \in Texts : MentionsOf(items, t) # {} /\ row = SurfaceRow(items, t)
    BY <1>1
  <2>2. /\ row.id[1] = t /\ row.tf = Cardinality(MentionsOf(items, t))
        /\ row.df = Cardinality({x[1] : x \in MentionsOf(items, t)})
    BY <2>1 DEF SurfaceRow, Surface
  <2>3. /\ IsFiniteSet(MentionsOf(items, t))
        /\ Cardinality(OfText(t)) = Cardinality(MentionsOf(items, t))
        /\ Cardinality({m.jd : m \in OfText(t)}) = Cardinality({x[1] : x \in MentionsOf(items, t)})
    BY <1>2
  <2> HIDE DEF OfText, items
  <2>4. Cardinality(MentionsOf(items, t)) # 0 /\ Cardinality(MentionsOf(items, t)) \in Nat
    BY <2>1, <2>3, FS_EmptySet, FS_CardinalityType
  <2> QED
    BY <2>2, <2>3, <2>4
<1>5. ASSUME NEW row \in sections, NEW i \in DOMAIN SectionsOf[row.id[1]]
      PROVE  Right(row.id[1], i)
  <2>1. \A t \in Texts : SectionRight(mentions, row.id[1], i, t)
    BY <1>1, SectionsMade
  <2>2. \A t : {m \in OfText(t) : m.section = <<row.id[1], i>>}
                 = {m \in mentions : m.text = t /\ m.section = <<row.id[1], i>>}
    OBVIOUS
  <2>3. SectionKey(row.id[1], i) \in Keys(sections)
    BY <1>1, SectionKeyed
  <2> QED
    BY <2>1, <2>2, <2>3 DEF SectionRight
<1> HIDE DEF Right
<1>6. ASSUME NEW jd \in {row.id[1] : row \in sections}, NEW i \in DOMAIN SectionsOf[jd]
      PROVE  Right(jd, i)
  <2>1. PICK row \in sections : jd = row.id[1]
    OBVIOUS
  <2> QED
    BY <1>5, <2>1
<1> QED
  BY <1>3, <1>4, <1>6 DEF EvidenceRight, mentions, sections, Right

-----------------------------------------------------------------------------
(* What the targets of calm rebuilds are computed from.                    *)

\* A calm extraction aims at the evidence in some documents.  While relations
\* are calm, no extraction is at work since they began, so what they are
\* computed from is still what is there, and so is what concepts counted.
TargetInv ==
  /\ planned["extract"] => \E documents \in SUBSET Jds : target["extract"] = EvidencePlan(documents)
  /\ calm["relations"] =>
       /\ Rebuilders("extract") = {}
       /\ planned["relations"] =>
            \E aliases \in SUBSET ToSet(Aliases) :
              /\ AliasesOk(Of(db, "surfaces"), aliases)
              /\ target["relations"] = RelationPlan(Of(db, "surfaces"), aliases)
       /\ \A c \in Commands : pc[c] = "evidence" => surfaces[c] = Of(db, "surfaces")
       /\ \A k \in Of(db, "concepts") : k.df = ConceptDf(db, k)

\* Relations are calm because they were, or because they begin alone.
Began(c) ==
  /\ pc[c] = "clear" /\ Cleared(c) /\ stage[c] = "relations"
  /\ Rebuilders("relations") = {} /\ Rebuilders("extract") = {} /\ ~planned'["relations"]

LEMMA CalmRelations ==
  ASSUME PlaceInv, HistoryInv, NEW c \in Commands, Run(c), calm'["relations"]
  PROVE  \/ calm["relations"] /\ ~(pc[c] = "clear" /\ Cleared(c) /\ stage[c] = "extract")
         \/ Began(c)
<1>1. CASE pc[c] = "clear" /\ Cleared(c)
  <2> DEFINE t == stage[c]
             alone == Rebuilders(t) = {}
             undisturbed == IF alone THEN t = "extract" \/ Rebuilders("extract") = {} ELSE calm[t]
  <2>1. /\ calm' = [s \in Stages |-> IF s = t THEN undisturbed
                                     ELSE calm[s] /\ ~(t = "extract" /\ s \in Dependent)]
        /\ t \in Stages /\ "relations" \in Stages /\ "relations" \in Dependent
    BY <1>1, StagesAre DEF Cleared, Remember, PlaceInv, Dependent
  <2>2. CASE t # "relations"
    BY <2>1, <2>2
  <2>3. CASE t = "relations" /\ ~alone
    BY <2>1, <2>3
  <2>4. CASE t = "relations" /\ alone
    <3>1. Rebuilders("extract") = {}
      BY <2>1, <2>4
    <3>2. ~planned'["relations"]
      BY <1>1, <2>1, <2>4, ClearHistory
    <3> QED
      BY <1>1, <2>4, <3>1, <3>2 DEF Began
  <2> QED
    BY <2>2, <2>3, <2>4
<1>2. CASE ~(pc[c] = "clear" /\ Cleared(c))
  <2>1. CASE Kill(c)
    BY <1>2, <2>1, StagesAre, KillHistory
  <2>2. ASSUME NEW rows, pc[c] \in {"load", "evidence"}, Plan(c, rows)
        PROVE  calm["relations"]
    <3>1. stage[c] \in Stages
      BY <2>2 DEF PlaceInv, Rebuilding
    <3> QED
      BY <2>2, <3>1, StagesAre, PlanHistory
  <2> QED
    BY <1>2, <2>1, <2>2, Kinds
<1> QED
  BY <1>1, <1>2

\* Only clearing makes a command a rebuilder.
LEMMA NewRebuilder ==
  ASSUME PlaceInv, NEW c \in Commands, Run(c), NEW s \in Stages, NEW d \in Rebuilders(s)'
  PROVE  d \in Rebuilders(s) \/ (d = c /\ pc[c] = "clear" /\ Cleared(c) /\ stage[c] = s)
<1>1. CASE d # c
  BY <1>1, OnlyOwn DEF Rebuilders
<1>2. CASE d = c /\ ~(pc[c] = "clear" /\ Cleared(c))
  <2>1. pc'[c] \in Rebuilding => pc[c] \in Rebuilding /\ stage'[c] = stage[c]
    BY <1>2 DEF PlaceInv, Rebuilding, Run, Start, EnsureRun, ReadLine, InsertDocument, EndImport,
       Clear, LoadDocuments, LoadSurfaces, FindEvidence, LoadMentions, Plan, Insert,
       Finish, Kill, Leave, Enter, First
  <2> QED
    BY <1>2, <2>1 DEF Rebuilders
<1>3. CASE d = c /\ pc[c] = "clear" /\ Cleared(c)
  <2>1. stage'[c] = stage[c]
    BY <1>3 DEF Cleared
  <2> QED
    BY <1>3, <2>1 DEF Rebuilders
<1> QED
  BY <1>1, <1>2, <1>3

\* The evidence stays as long as no extraction is at work.
LEMMA EvidenceFrozen ==
  ASSUME PlaceInv, MemoryInv, FitInv, NEW c \in Commands, Run(c), Rebuilders("extract") = {},
         ~(pc[c] = "clear" /\ Cleared(c) /\ stage[c] = "extract"),
         NEW table \in TablesOf["extract"]
  PROVE  Of(db', table) = Of(db, table)
<1>0. "extract" \in Stages /\ table # "jd_documents"
  BY StagesAre DEF TablesOf
<1>1. CASE Clear(c) /\ Removable(stage[c])
  <2>1. /\ stage[c] \in Stages /\ stage[c] # "extract" /\ db' = Without(stage[c])
    BY <1>1 DEF Clear, Cleared, PlaceInv
  <2>2. table \notin TablesOf[stage[c]]
    BY <1>0, <2>1, TablesDisjoint
  <2> QED
    BY <2>1, <2>2 DEF Of, Without
<1>2. CASE InsertDocument(c) /\ db' # db
  <2>1. PICK jd : db' = db \union {Document(jd)}
    BY <1>2 DEF InsertDocument
  <2>2. Document(jd).table = "jd_documents"
    BY DEF Document
  <2> QED
    BY <1>0, <2>1, <2>2 DEF Of
<1>3. CASE Insert(c) /\ db' # db
  <2> DEFINE row == plan[c][next[c]]
  <2>1. db' = db \union {Filled(row)} /\ pc[c] = "insert" /\ next[c] =< Len(plan[c])
    BY <1>3 DEF Insert
  <2>2. next[c] \in 1 .. Len(plan[c]) /\ stage[c] \in Stages
    <3>1. Len(plan[c]) \in Nat
      BY <2>1 DEF FitInv, InsertInv, Fits
    <3> QED
      BY <2>1, <3>1 DEF MemoryInv, PlaceInv, Rebuilding
  <2>3. stage[c] # "extract"
    BY <2>1 DEF Rebuilders, Rebuilding
  <2>4. row.table \in TablesOf[stage[c]]
    BY <2>1, <2>2 DEF FitInv, InsertInv, Fits
  <2>5. row.table # table
    BY <1>0, <2>2, <2>3, <2>4, TablesDisjoint
  <2> HIDE DEF row
  <2>6. Filled(row).table = row.table
    BY DEF Filled, Counted
  <2> QED
    BY <2>1, <2>5, <2>6 DEF Of
<1>4. db' = db \/ (Clear(c) /\ Removable(stage[c])) \/ InsertDocument(c) \/ Insert(c)
  BY DEF Run, Start, EnsureRun, ReadLine, EndImport, Clear,
         LoadDocuments, LoadSurfaces, FindEvidence, LoadMentions, Plan,
         Finish, Kill, Leave, Enter, database
<1> QED
  BY <1>1, <1>2, <1>3, <1>4

\* A concept keeps what it was counted from.
LEMMA CountedIs ==
  ASSUME NEW rows, NEW row, NEW n
  PROVE  /\ Counted(row, n).df = n /\ Counted(row, n).table = "concepts"
         /\ ConceptDf(rows, Counted(row, n)) = ConceptDf(rows, row)
BY DEF Counted, ConceptDf

LEMMA ConceptsFrozen ==
  ASSUME PlaceInv, MemoryInv, NEW c \in Commands, Run(c),
         Of(db', "keyword_mentions") = Of(db, "keyword_mentions"),
         \A k \in Of(db, "concepts") : k.df = ConceptDf(db, k)
  PROVE  \A k \in Of(db', "concepts") : k.df = ConceptDf(db', k)
<1>1. \A k : ConceptDf(db', k) = ConceptDf(db, k)
  BY DEF ConceptDf
<1>2. CASE db' \subseteq db
  BY <1>1, <1>2 DEF Of
<1>3. CASE InsertDocument(c) /\ ~(db' \subseteq db)
  <2>1. PICK jd : db' = db \union {Document(jd)}
    BY <1>3 DEF InsertDocument
  <2>2. Document(jd).table = "jd_documents"
    BY DEF Document
  <2> QED
    BY <1>1, <2>1, <2>2 DEF Of
<1>4. CASE Insert(c) /\ ~(db' \subseteq db)
  <2> DEFINE row == plan[c][next[c]]
             filled == Filled(row)
  <2>1. db' = db \union {filled}
    BY <1>4 DEF Insert
  <2>2. filled.table = "concepts" => filled.df = ConceptDf(db, filled)
    <3>1. CASE row.table = "concepts"
      BY <3>1, CountedIs DEF Filled
    <3>2. CASE row.table # "concepts"
      BY <3>2 DEF Filled
    <3> QED
      BY <3>1, <3>2
  <2> HIDE DEF filled
  <2>3. \A k \in Of(db', "concepts") : k \in Of(db, "concepts") \/ k = filled
    BY <2>1 DEF Of
  <2>4. \A k \in Of(db', "concepts") : k.table = "concepts"
    BY DEF Of
  <2> QED
    BY <1>1, <2>2, <2>3, <2>4
<1>5. db' \subseteq db \/ InsertDocument(c) \/ Insert(c)
  BY DEF Run, Start, EnsureRun, ReadLine, EndImport, Clear, Cleared, Without,
         LoadDocuments, LoadSurfaces, FindEvidence, LoadMentions, Plan,
         Finish, Kill, Leave, Enter, database
<1> QED
  BY <1>2, <1>3, <1>4, <1>5

\* Who plans what.
LEMMA WhoPlans ==
  ASSUME PlaceInv, FitInv, NEW c \in Commands, Run(c),
         pc[c] \in {"load", "evidence"}, pc'[c] = "insert"
  PROVE  \/ LoadDocuments(c) /\ stage[c] = "extract"
         \/ FindEvidence(c) /\ stage[c] = "relations"
         \/ LoadMentions(c) /\ stage[c] = "edges"
<1>1. LoadDocuments(c) \/ FindEvidence(c) \/ LoadMentions(c)
  BY DEF PlaceInv, Run, Start, EnsureRun, ReadLine, InsertDocument, EndImport, Clear, Cleared,
     LoadSurfaces, Insert, Finish, Kill, Leave, Enter, First
<1> QED
  BY <1>1 DEF LoadDocuments, FindEvidence, LoadMentions, FitInv, EvidenceInv

\* The target of a stage is what it was, or what somebody has just planned.
LEMMA NewTarget ==
  ASSUME PlaceInv, HistoryInv, MemoryInv, FitInv, NEW c \in Commands, Run(c),
         NEW s \in Stages, planned'[s]
  PROVE  \/ planned[s] /\ target'[s] = target[s] /\ calm[s]
         \/ s = "extract" /\ LoadDocuments(c) /\ calm[s]
              /\ target'[s] = EvidencePlan({row.id[1] : row \in Of(db, "jd_documents")})
         \/ s = "relations" /\ FindEvidence(c) /\ calm[s]
              /\ target'[s] = RelationPlan(surfaces[c], AliasesWithEvidence(db, surfaces[c]))
         \/ s = "edges" /\ LoadMentions(c) /\ calm[s]
<1>1. CASE Kill(c)
  <2>1. HistoryInv' /\ (calm'[s] => calm[s] /\ (planned'[s] <=> planned[s]) /\ target'[s] = target[s])
    BY <1>1, KillHistory
  <2>2. calm'[s]
    BY <2>1 DEF HistoryInv
  <2> QED
    BY <2>1, <2>2
<1>2. CASE pc[c] = "clear" /\ Cleared(c)
  <2>1. stage[c] \in Stages
    BY <1>2 DEF PlaceInv
  <2>2. HistoryInv'
    BY <1>2, <2>1, ClearHistory
  <2>3. calm'[s]
    BY <2>2 DEF HistoryInv
  <2>4. \/ calm[s] /\ (planned'[s] <=> planned[s]) /\ target'[s] = target[s]
        \/ ~planned'[s]
    BY <1>2, <2>1, <2>3, ClearHistory
  <2> QED
    BY <2>4
<1>3. ASSUME NEW rows, pc[c] \in {"load", "evidence"}, Plan(c, rows)
      PROVE  \/ planned[s] /\ target'[s] = target[s] /\ calm[s]
             \/ s = stage[c] /\ pc'[c] = "insert" /\ calm[s] /\ target'[s] = rows
  <2>1. stage[c] \in Stages /\ pc'[c] = "insert"
    BY <1>3 DEF PlaceInv, Rebuilding, Plan
  <2>2. HistoryInv'
    BY <1>3, <2>1, PlanHistory
  <2>3. calm'[s]
    BY <2>2 DEF HistoryInv
  <2> QED
    BY <1>3, <2>1, <2>3, PlanHistory
<1>4. CASE UNCHANGED <<calm, planned, target>>
  BY <1>4 DEF HistoryInv
<1>5. CASE ~Kill(c) /\ ~(pc[c] = "clear" /\ Cleared(c)) /\ ~UNCHANGED <<calm, planned, target>>
  <2>1. PICK rows : pc[c] \in {"load", "evidence"} /\ Plan(c, rows)
    BY <1>5, Kinds
  <2>2. pc'[c] = "insert"
    BY <2>1 DEF Plan, PlaceInv
  <2>3. \/ planned[s] /\ target'[s] = target[s] /\ calm[s]
        \/ s = stage[c] /\ calm[s] /\ pc'[c] = "insert"
    BY <1>3, <2>1
  <2>4. \/ LoadDocuments(c) /\ stage[c] = "extract"
        \/ FindEvidence(c) /\ stage[c] = "relations"
        \/ LoadMentions(c) /\ stage[c] = "edges"
    BY <2>1, <2>2, WhoPlans
  <2>5. CASE LoadDocuments(c) /\ stage[c] = "extract"
    <3>1. Plan(c, EvidencePlan({row.id[1] : row \in Of(db, "jd_documents")}))
      BY <2>5 DEF LoadDocuments
    <3> QED
      BY <1>3, <2>1, <2>3, <2>5, <3>1
  <2>6. CASE FindEvidence(c) /\ stage[c] = "relations"
    <3>1. Plan(c, RelationPlan(surfaces[c], AliasesWithEvidence(db, surfaces[c])))
      BY <2>6 DEF FindEvidence
    <3> QED
      BY <1>3, <2>1, <2>3, <2>6, <3>1
  <2>7. CASE LoadMentions(c) /\ stage[c] = "edges"
    BY <2>3, <2>7
  <2> QED
    BY <2>4, <2>5, <2>6, <2>7
<1> QED
  BY <1>1, <1>2, <1>4, <1>5

\* The documents that are there are job descriptions.
LEMMA DocumentsAre ==
  ASSUME DocumentsOk
  PROVE  {row.id[1] : row \in Of(db, "jd_documents")} \in SUBSET Jds
<1> SUFFICES ASSUME NEW row \in Of(db, "jd_documents") PROVE row.id[1] \in Jds
  OBVIOUS
<1>1. PICK jd \in Jds : row = Document(jd)
  BY DEF DocumentsOk
<1> QED
  BY <1>1 DEF Document

LEMMA TargetOfExtraction ==
  ASSUME PlaceInv, HistoryInv, MemoryInv, FitInv, DocumentsOk, TargetInv,
         NEW c \in Commands, Run(c), planned'["extract"]
  PROVE  \E documents \in SUBSET Jds : target'["extract"] = EvidencePlan(documents)
<1>1. "extract" \in Stages
  BY StagesAre
<1> DEFINE documents == {row.id[1] : row \in Of(db, "jd_documents")}
<1>2. documents \in SUBSET Jds
  BY DocumentsAre
<1> HIDE DEF documents
<1>3. \/ planned["extract"] /\ target'["extract"] = target["extract"]
      \/ target'["extract"] = EvidencePlan(documents)
  BY <1>1, NewTarget DEF documents
<1> QED
  BY <1>2, <1>3 DEF TargetInv

\* Relations stay calm: nothing they are computed from changes.
LEMMA TargetOfRelations ==
  ASSUME PlaceInv, HistoryInv, MemoryInv, FitInv, TypeInv, TargetInv, NEW c \in Commands, Run(c),
         calm["relations"], ~(pc[c] = "clear" /\ Cleared(c) /\ stage[c] = "extract")
  PROVE  /\ Rebuilders("extract")' = {}
         /\ planned'["relations"] =>
              \E aliases \in SUBSET ToSet(Aliases) :
                /\ AliasesOk(Of(db', "surfaces"), aliases)
                /\ target'["relations"] = RelationPlan(Of(db', "surfaces"), aliases)
         /\ \A d \in Commands : pc'[d] = "evidence" => surfaces'[d] = Of(db', "surfaces")
         /\ \A k \in Of(db', "concepts") : k.df = ConceptDf(db', k)
<1> DEFINE surf == Of(db, "surfaces")
<1>0. {"surfaces", "keyword_mentions"} \subseteq TablesOf["extract"] /\ {"extract", "relations"} \subseteq Stages
  BY StagesAre DEF TablesOf
<1>1. /\ Rebuilders("extract") = {}
      /\ planned["relations"] =>
           \E aliases \in SUBSET ToSet(Aliases) :
             AliasesOk(surf, aliases) /\ target["relations"] = RelationPlan(surf, aliases)
      /\ \A d \in Commands : pc[d] = "evidence" => surfaces[d] = surf
      /\ \A k \in Of(db, "concepts") : k.df = ConceptDf(db, k)
  BY DEF TargetInv
<1>2. Of(db', "surfaces") = surf /\ Of(db', "keyword_mentions") = Of(db, "keyword_mentions")
  BY <1>0, <1>1, EvidenceFrozen
<1> HIDE DEF surf
<1>3. Rebuilders("extract")' = {}
  BY <1>0, <1>1, NewRebuilder
<1>4. ASSUME NEW d \in Commands, pc'[d] = "evidence"
      PROVE  surfaces'[d] = surf
  <2>1. CASE d # c
    BY <1>1, <1>4, <2>1, OnlyOwn, SurfacesOfOthers
  <2>2. CASE d = c
    <3>1. LoadSurfaces(c)
      BY <1>4, <2>2 DEF PlaceInv, Run, Start, EnsureRun, ReadLine, InsertDocument, EndImport,
         Clear, Cleared, LoadDocuments, FindEvidence, LoadMentions, Plan, Insert, Finish, Kill,
         Leave, Enter, First
    <3> QED
      BY <2>2, <3>1 DEF LoadSurfaces, TypeInv, surf
  <2> QED
    BY <2>1, <2>2
<1>5. ASSUME planned'["relations"]
      PROVE  \E aliases \in SUBSET ToSet(Aliases) :
               AliasesOk(surf, aliases) /\ target'["relations"] = RelationPlan(surf, aliases)
  <2> DEFINE found == AliasesWithEvidence(db, surfaces[c])
  <2>1. \/ planned["relations"] /\ target'["relations"] = target["relations"]
        \/ FindEvidence(c) /\ target'["relations"] = RelationPlan(surfaces[c], found)
    BY <1>0, <1>5, NewTarget
  <2>2. found \in SUBSET ToSet(Aliases) /\ AliasesOk(surfaces[c], found)
    BY DEF AliasesOk, AliasesWithEvidence
  <2>3. FindEvidence(c) => surfaces[c] = surf
    BY <1>1 DEF FindEvidence
  <2> HIDE DEF found
  <2> QED
    BY <1>1, <2>1, <2>2, <2>3
<1>6. \A k \in Of(db', "concepts") : k.df = ConceptDf(db', k)
  BY <1>1, <1>2, ConceptsFrozen
<1> QED
  BY <1>2, <1>3, <1>4, <1>5, <1>6

\* Relations begin: there are none, and nobody has read anything.
LEMMA TargetBegins ==
  ASSUME PlaceInv, FitInv, NEW c \in Commands, Run(c), Began(c)
  PROVE  /\ Rebuilders("extract")' = {} /\ ~planned'["relations"]
         /\ \A d \in Commands : pc'[d] # "evidence"
         /\ Of(db', "concepts") = {}
<1>0. {"extract", "relations"} \subseteq Stages
  BY StagesAre
<1>1. /\ Cleared(c) /\ stage[c] = "relations" /\ Rebuilders("relations") = {}
      /\ Rebuilders("extract") = {} /\ ~planned'["relations"]
  BY DEF Began
<1>2. Rebuilders("extract")' = {}
  BY <1>0, <1>1, NewRebuilder
<1>3. ASSUME NEW d \in Commands, pc'[d] = "evidence" PROVE FALSE
  <2>1. d # c
    BY <1>1, <1>3 DEF Cleared, PlaceInv
  <2>2. pc[d] = "evidence"
    BY <1>3, <2>1, OnlyOwn
  <2>3. d \in Rebuilders("relations")
    BY <2>2 DEF FitInv, EvidenceInv, Rebuilders, Rebuilding
  <2> QED
    BY <1>1, <2>3
<1>4. Of(db', "concepts") = {}
  BY <1>1 DEF Cleared, Without, Of, TablesOf
<1> QED
  BY <1>1, <1>2, <1>3, <1>4

LEMMA TargetStep ==
  ASSUME PlaceInv, HistoryInv, MemoryInv, FitInv, DocumentsOk, TypeInv, TargetInv, [Next]_vars
  PROVE  TargetInv'
<1>1. ASSUME NEW c \in Commands, Run(c)
      PROVE  TargetInv'
  <2>1. planned'["extract"] =>
          \E documents \in SUBSET Jds : target'["extract"] = EvidencePlan(documents)
    BY <1>1, TargetOfExtraction
  <2>2. CASE ~calm'["relations"]
    BY <2>1, <2>2 DEF TargetInv
  <2>3. CASE calm["relations"] /\ ~(pc[c] = "clear" /\ Cleared(c) /\ stage[c] = "extract")
    BY <1>1, <2>1, <2>3, TargetOfRelations DEF TargetInv
  <2>4. CASE Began(c)
    BY <1>1, <2>1, <2>4, TargetBegins DEF TargetInv
  <2> QED
    BY <1>1, <2>2, <2>3, <2>4, CalmRelations
<1>2. CASE (\E t \in Texts : AddProbeJob(t)) \/ UNCHANGED vars
  <2>1. UNCHANGED <<stage, pc, surfaces, calm, planned, target>>
    BY <1>2 DEF AddProbeJob, commands, history, vars
  <2>2. \A table : table # "probe_jobs" => Of(db', table) = Of(db, table)
    <3>1. CASE UNCHANGED vars
      BY <3>1 DEF vars, database
    <3>2. ASSUME NEW t \in Texts, AddProbeJob(t)
          PROVE  \A table : table # "probe_jobs" => Of(db', table) = Of(db, table)
      <4>1. db' = db \union {ProbeJob(t)} /\ ProbeJob(t).table = "probe_jobs"
        BY <3>2 DEF AddProbeJob, ProbeJob
      <4> QED
        BY <4>1 DEF Of
    <3> QED
      BY <1>2, <3>1, <3>2
  <2>3. /\ Of(db', "surfaces") = Of(db, "surfaces") /\ Of(db', "concepts") = Of(db, "concepts")
        /\ Of(db', "keyword_mentions") = Of(db, "keyword_mentions")
    BY <2>2
  <2>4. \A k : ConceptDf(db', k) = ConceptDf(db, k)
    BY <2>3 DEF ConceptDf
  <2>5. Rebuilders("extract")' = Rebuilders("extract")
    BY <2>1 DEF Rebuilders
  <2> QED
    BY <2>1, <2>3, <2>4, <2>5 DEF TargetInv
<1> QED
  BY <1>1, <1>2 DEF Next

LEMMA TargetStart ==
  ASSUME Init
  PROVE  TargetInv
BY StagesAre DEF Init, TargetInv

\* What a calm rebuild aims at was computed from rows that are still there.
THEOREM TargetInvariant == Spec => []TargetInv
<1>1. Init => TargetInv
  BY TargetStart
<1>2. BuildInv /\ TargetInv /\ [Next]_vars => TargetInv'
  BY TargetStep DEF BuildInv, PipelineInv, ImportsInv, DocumentsOk
<1> QED
  BY <1>1, <1>2, BuildInvariant, PTL DEF Spec

\* When a calm rebuild has ended, its tables have the rows of its target.
LEMMA RebuiltRows ==
  ASSUME NEW s \in Stages, Rebuilders(s) = {},
         calm[s] /\ (\A w \in Commands : StatesOf(s)[w] = "idle") =>
           planned[s] /\ RowsOf(s) = {target[s][k] : k \in 1 .. Len(target[s])},
         calm[s]
  PROVE  /\ planned[s]
         /\ \A row : (row \in db /\ row.table \in TablesOf[s]) =>
              \E k \in 1 .. Len(target[s]) : Planned(row) = target[s][k]
         /\ \A k \in 1 .. Len(target[s]) :
              \E row \in db : row.table \in TablesOf[s] /\ Planned(row) = target[s][k]
<1>1. \A w \in Commands : StatesOf(s)[w] = "idle"
  BY DEF StatesOf, StateOf
<1>2. planned[s] /\ RowsOf(s) = {target[s][k] : k \in 1 .. Len(target[s])}
  BY <1>1
<1> QED
  BY <1>2 DEF RowsOf

\* The evidence of a calm extraction that has ended is that of documents.
LEMMA EvidenceRebuilt ==
  ASSUME TargetInv, Extraction!Complete, calm["extract"], Rebuilders("extract") = {}
  PROVE  EvidenceRight(db)
<1>1. "extract" \in Stages
  BY StagesAre
<1>2. calm["extract"] /\ (\A w \in Commands : StatesOf("extract")[w] = "idle") =>
        planned["extract"] /\ RowsOf("extract") = {target["extract"][k] : k \in 1 .. Len(target["extract"])}
  BY DEF Extraction!Complete, Extraction!Idle, Extraction!Rows
<1>3. PICK documents \in SUBSET Jds : target["extract"] = EvidencePlan(documents)
  BY <1>1, <1>2, RebuiltRows DEF TargetInv
<1>4. \A row : row.table \in TablesOf["extract"] =>
        (row \in db <=> row \in Made(documents))
  <2>1. \A row : row.table \in TablesOf["extract"] => Planned(row) = row
    BY DEF Planned, TablesOf
  <2>2. \A row : Planned(row).table = row.table
    BY PlannedKeepsKey
  <2>3. ASSUME NEW row, row.table \in TablesOf["extract"], row \in db
        PROVE  row \in Made(documents)
    <3>1. PICK k \in 1 .. Len(target["extract"]) : Planned(row) = target["extract"][k]
      BY <1>1, <1>2, <2>3, RebuiltRows
    <3> QED
      BY <1>3, <2>1, <2>3, <3>1 DEF Made
  <2>4. ASSUME NEW row, row.table \in TablesOf["extract"], row \in Made(documents)
        PROVE  row \in db
    <3>1. PICK k \in 1 .. Len(target["extract"]) : row = target["extract"][k]
      BY <1>3, <2>4 DEF Made
    <3>2. PICK r \in db : r.table \in TablesOf["extract"] /\ Planned(r) = target["extract"][k]
      BY <1>1, <1>2, RebuiltRows
    <3> QED
      BY <2>1, <3>1, <3>2
  <2> QED
    BY <2>3, <2>4
<1>5. \A table \in TablesOf["extract"] : Of(db, table) = Of(Made(documents), table)
  BY <1>4 DEF Of
<1> QED
  BY <1>5, MadeIsRight

\* Extractions that overlap leave the evidence of documents, all of it and once:
\* with StagesComplete, because what they aim at is right.
THEOREM EvidenceAlwaysAgrees == Spec => []EvidenceAgrees
<1>1. TargetInv /\ Extraction!Complete => EvidenceAgrees
  BY EvidenceRebuilt DEF EvidenceAgrees, EvidenceRight
<1> QED
  BY <1>1, TargetInvariant, StagesComplete, PTL

-----------------------------------------------------------------------------
(* What calm relations leave.                                              *)

LEMMA GraphMade ==
  ASSUME NEW surf, NEW aliases, SurfacesOk(surf), AliasesOk(surf, aliases), NEW r
  PROVE  LET rows == RelationPlan(surf, aliases)
             made == \E k \in 1 .. Len(rows) : r = rows[k]
         IN /\ made /\ r.table = "concepts" =>
                 \E h \in Heads(surf, aliases) : r = ConceptRow(surf, aliases, <<h, 0>>)
            /\ made /\ r.table = "concept_surfaces" <=>
                 \E h \in Heads(surf, aliases) : \E t \in MembersOf(surf, aliases, h) :
                   r = Membership(NameOf(surf, aliases, h), t)
            /\ made /\ r.table = "surface_relations" =>
                 \E p \in aliases \union VersionsOf(surf) : r.id[2] = p[1] /\ r.id[3] = p[2]
<1> DEFINE rows == RelationPlan(surf, aliases)
           items == ConceptItems(surf, aliases)
           sorted == Sorted(items)
           as == Ordered(Aliases, aliases)
           vs == Ordered(Versions, VersionsOf(surf))
           N == Cardinality(items)
           A == Len(as)
           V == Len(vs)
           made == \E k \in 1 .. Len(rows) : r = rows[k]
           Links == aliases \union VersionsOf(surf)
<1>1. RelationsLaidOut(surf, aliases, sorted, as, vs, rows, N, A, V)
  BY RelationPlanIs
<1>2. /\ \A x \in items :
           /\ x = <<x[1], x[2]>> /\ x[1] \in Heads(surf, aliases)
           /\ x[2] # 0 => x[2] \in DOMAIN TextOrder
                          /\ TextOrder[x[2]] \in MembersOf(surf, aliases, x[1])
      /\ \A h \in Heads(surf, aliases) : \A m \in DOMAIN TextOrder :
           TextOrder[m] \in MembersOf(surf, aliases, h) => <<h, m>> \in items
  BY ConceptItemsAre
<1> HIDE DEF rows, items, sorted, as, vs, N, A, V
<1>3. \A x \in items : ConceptRow(surf, aliases, x).table =
                         IF x[2] = 0 THEN "concepts" ELSE "concept_surfaces"
  <2> SUFFICES ASSUME NEW x \in items
      PROVE  ConceptRow(surf, aliases, x).table = IF x[2] = 0 THEN "concepts" ELSE "concept_surfaces"
    OBVIOUS
  <2> QED
    BY ConceptRowIs
<1>4. made => \/ \E x \in items : r = ConceptRow(surf, aliases, x)
              \/ \E p \in Links : \E type : r = Relation(type, p[1], p[2])
  <2> SUFFICES ASSUME NEW k \in 1 .. Len(rows), r = rows[k]
               PROVE  \/ \E x \in items : r = ConceptRow(surf, aliases, x)
                      \/ \E p \in Links : \E type : r = Relation(type, p[1], p[2])
    OBVIOUS
  <2>1. \/ sorted[k] \in ConceptItems(surf, aliases) /\ rows[k] = ConceptRow(surf, aliases, sorted[k])
        \/ as[k - N] \in aliases /\ rows[k] = Relation("alias", as[k - N][1], as[k - N][2])
        \/ /\ vs[k - N - A] \in VersionsOf(surf)
           /\ rows[k] = Relation("version_variant", vs[k - N - A][1], vs[k - N - A][2])
    BY <1>1 DEF RelationsLaidOut
  <2> QED
    BY <2>1 DEF items
<1>5. ASSUME NEW p, NEW type, r = Relation(type, p[1], p[2])
      PROVE  r.table = "surface_relations" /\ r.id[2] = p[1] /\ r.id[3] = p[2]
  BY <1>5 DEF Relation
<1>6. ASSUME NEW x \in items, r = ConceptRow(surf, aliases, x), x[2] = 0
      PROVE  \E h \in Heads(surf, aliases) : r = ConceptRow(surf, aliases, <<h, 0>>)
  BY <1>2, <1>6
<1>7. ASSUME NEW x \in items, r = ConceptRow(surf, aliases, x), x[2] # 0
      PROVE  \E h \in Heads(surf, aliases) : \E t \in MembersOf(surf, aliases, h) :
               r = Membership(NameOf(surf, aliases, h), t)
  <2>1. r = Membership(NameOf(surf, aliases, x[1]), TextOrder[x[2]])
    BY <1>7, ConceptRowIs
  <2> QED
    BY <1>2, <1>7, <2>1
<1>8. ASSUME NEW h \in Heads(surf, aliases), NEW t \in MembersOf(surf, aliases, h),
             r = Membership(NameOf(surf, aliases, h), t)
      PROVE  made /\ r.table = "concept_surfaces"
  <2>1. t \in Texts
    BY MembersAre, SurfacesAre DEF Heads
  <2>2. PICK m \in DOMAIN TextOrder : TextOrder[m] = t
    BY <2>1, TextsAre
  <2>3. m # 0
    BY <2>2, TextsAre
  <2> DEFINE x == <<h, m>>
  <2>4. x \in items /\ x[1] = h /\ x[2] = m
    BY <1>2, <2>2
  <2> HIDE DEF x
  <2>5. ConceptRow(surf, aliases, x) = Membership(NameOf(surf, aliases, h), t)
    BY <2>2, <2>3, <2>4, ConceptRowIs
  <2>6. \E k \in 1 .. Len(rows) : rows[k] = ConceptRow(surf, aliases, x)
    BY <1>1, <2>4 DEF RelationsLaidOut, items
  <2>7. r.table = "concept_surfaces"
    BY <1>8 DEF Membership
  <2> QED
    BY <1>8, <2>5, <2>6, <2>7
<1>9. made /\ r.table = "concepts" =>
        \E h \in Heads(surf, aliases) : r = ConceptRow(surf, aliases, <<h, 0>>)
  BY <1>3, <1>4, <1>5, <1>6
<1>10. made /\ r.table = "concept_surfaces" =>
         \E h \in Heads(surf, aliases) : \E t \in MembersOf(surf, aliases, h) :
           r = Membership(NameOf(surf, aliases, h), t)
  BY <1>3, <1>4, <1>5, <1>7
<1>11. made /\ r.table = "surface_relations" =>
         \E p \in Links : r.id[2] = p[1] /\ r.id[3] = p[2]
  BY <1>3, <1>4, <1>5
<1> QED
  BY <1>8, <1>9, <1>10, <1>11 DEF rows

\* The concepts of a text, by the memberships.
ConceptsIn(memberships, t) == {m.id[1] : m \in {m \in memberships : m.id[2] = t}}

IsMembership(surf, aliases, m) ==
  \E h \in Heads(surf, aliases) : \E t \in MembersOf(surf, aliases, h) :
    m = Membership(NameOf(surf, aliases, h), t)

LEMMA ConceptsAre ==
  ASSUME NEW surf, NEW aliases, NEW memberships,
         \A m : m \in memberships <=> IsMembership(surf, aliases, m), NEW t, NEW name
  PROVE  name \in ConceptsIn(memberships, t) <=>
           \E h \in Heads(surf, aliases) :
             t \in MembersOf(surf, aliases, h) /\ name = NameOf(surf, aliases, h)
<1>1. \A h, u : Membership(NameOf(surf, aliases, h), u).id = <<NameOf(surf, aliases, h), u>>
  BY DEF Membership
<1>2. ASSUME NEW m \in memberships, m.id[2] = t, name = m.id[1]
      PROVE  \E h \in Heads(surf, aliases) :
               t \in MembersOf(surf, aliases, h) /\ name = NameOf(surf, aliases, h)
  <2>1. PICK h \in Heads(surf, aliases) : \E u \in MembersOf(surf, aliases, h) :
          m = Membership(NameOf(surf, aliases, h), u)
    BY DEF IsMembership
  <2>2. PICK u \in MembersOf(surf, aliases, h) : m = Membership(NameOf(surf, aliases, h), u)
    BY <2>1
  <2>3. m.id = <<NameOf(surf, aliases, h), u>>
    BY <1>1, <2>2
  <2> QED
    BY <1>2, <2>3
<1>3. ASSUME NEW h \in Heads(surf, aliases), t \in MembersOf(surf, aliases, h),
             name = NameOf(surf, aliases, h)
      PROVE  \E m \in memberships : m.id[2] = t /\ name = m.id[1]
  <2> DEFINE m == Membership(NameOf(surf, aliases, h), t)
  <2>1. m \in memberships
    BY <1>3 DEF IsMembership
  <2>2. m.id = <<NameOf(surf, aliases, h), t>>
    BY <1>1
  <2> HIDE DEF m
  <2>3. m.id[1] = name /\ m.id[2] = t
    BY <1>3, <2>2
  <2> QED
    BY <2>1, <2>3
<1> QED
  BY <1>2, <1>3 DEF ConceptsIn

\* Every text is in one concept at most, and in one if it is safe to query.
LEMMA OneConcept ==
  ASSUME NEW surf, NEW aliases, SurfacesOk(surf), AliasesOk(surf, aliases), NEW memberships,
         \A m : m \in memberships <=> IsMembership(surf, aliases, m), NEW t \in TextsOf(surf)
  PROVE  Cardinality(ConceptsIn(memberships, t)) \in IF t \in QuerySafe THEN {1} ELSE {0, 1}
<1> DEFINE C == ConceptsIn(memberships, t)
<1>1. \A name : name \in C <=> \E h \in Heads(surf, aliases) :
        t \in MembersOf(surf, aliases, h) /\ name = NameOf(surf, aliases, h)
  BY ConceptsAre
<1> HIDE DEF C
<1>2. \A a, b \in C : a = b
  <2> SUFFICES ASSUME NEW a \in C, NEW b \in C PROVE a = b
    OBVIOUS
  <2>1. PICK h \in Heads(surf, aliases) :
          t \in MembersOf(surf, aliases, h) /\ a = NameOf(surf, aliases, h)
    BY <1>1
  <2>2. PICK g \in Heads(surf, aliases) :
          t \in MembersOf(surf, aliases, g) /\ b = NameOf(surf, aliases, g)
    BY <1>1
  <2>3. h = g
    BY <2>1, <2>2, HeadsDiffer
  <2> QED
    BY <2>1, <2>2, <2>3
<1>3. t \in QuerySafe => C # {}
  <2> SUFFICES ASSUME t \in QuerySafe PROVE C # {}
    OBVIOUS
  <2>1. PICK h \in DOMAIN TextOrder :
          /\ t \in MembersOf(surf, aliases, h)
          /\ MembersOf(surf, aliases, h) \intersect QuerySafe # {} => h \in Heads(surf, aliases)
    BY HeadOf
  <2>2. h \in Heads(surf, aliases)
    BY <2>1
  <2> QED
    BY <1>1, <2>1, <2>2
<1>4. C = {} \/ \E a \in C : C = {a}
  BY <1>2
<1>5. Cardinality({}) = 0 /\ \A a : Cardinality({a}) = 1
  BY FS_EmptySet, FS_Singleton
<1>6. Cardinality(C) \in IF t \in QuerySafe THEN {1} ELSE {0, 1}
  BY <1>3, <1>4, <1>5
<1> QED
  BY <1>6 DEF C

\* Related surfaces are in the same concepts.
LEMMA RelatedConcepts ==
  ASSUME NEW surf, NEW aliases, SurfacesOk(surf), AliasesOk(surf, aliases), NEW memberships,
         \A m : m \in memberships <=> IsMembership(surf, aliases, m),
         NEW p \in aliases \union VersionsOf(surf)
  PROVE  ConceptsIn(memberships, p[1]) = ConceptsIn(memberships, p[2])
<1>1. \A h \in Heads(surf, aliases) :
        p[1] \in MembersOf(surf, aliases, h) <=> p[2] \in MembersOf(surf, aliases, h)
  BY MembersAre DEF Heads
<1>2. ASSUME NEW name
      PROVE  name \in ConceptsIn(memberships, p[1]) <=> name \in ConceptsIn(memberships, p[2])
  <2> DEFINE a == p[1]
             b == p[2]
  <2> HIDE DEF a, b
  <2>1. /\ name \in ConceptsIn(memberships, a) <=> \E h \in Heads(surf, aliases) :
             a \in MembersOf(surf, aliases, h) /\ name = NameOf(surf, aliases, h)
        /\ name \in ConceptsIn(memberships, b) <=> \E h \in Heads(surf, aliases) :
             b \in MembersOf(surf, aliases, h) /\ name = NameOf(surf, aliases, h)
    BY ConceptsAre
  <2> QED
    BY <1>1, <2>1 DEF a, b
<1> QED
  BY <1>2

\* A concept has the members that its memberships say.
LEMMA ConceptMembers ==
  ASSUME NEW surf, NEW aliases, SurfacesOk(surf), AliasesOk(surf, aliases), NEW memberships,
         \A m : m \in memberships <=> IsMembership(surf, aliases, m),
         NEW h \in Heads(surf, aliases)
  PROVE  LET members == MembersOf(surf, aliases, h)
             name == NameOf(surf, aliases, h)
         IN /\ name \in QuerySafe /\ name \in members /\ name \in TextsOf(surf)
            /\ members = {t \in Texts : name \in ConceptsIn(memberships, t)}
<1> DEFINE members == MembersOf(surf, aliases, h)
           name == NameOf(surf, aliases, h)
<1>1. name \in QuerySafe /\ name \in members /\ name \in TextsOf(surf)
  BY NameIs
<1>2. members \subseteq Texts
  BY MembersAre, SurfacesAre DEF Heads
<1>3. ASSUME NEW t \in members PROVE name \in ConceptsIn(memberships, t)
  BY ConceptsAre
<1>4. ASSUME NEW t, name \in ConceptsIn(memberships, t) PROVE t \in members
  <2>1. PICK g \in Heads(surf, aliases) :
          t \in MembersOf(surf, aliases, g) /\ name = NameOf(surf, aliases, g)
    BY <1>4, ConceptsAre
  <2>2. name \in MembersOf(surf, aliases, g)
    BY <2>1, NameIs
  <2>3. g = h
    BY <1>1, <2>2, HeadsDiffer
  <2> QED
    BY <2>1, <2>3
<1> QED
  BY <1>1, <1>2, <1>3, <1>4

\* What calm relations have made is there, computed from the surfaces there are.
LEMMA RelationsRebuilt ==
  ASSUME TargetInv, Relations!Complete, calm["relations"], Rebuilders("relations") = {}
  PROVE  \E aliases : AliasesOk(Of(db, "surfaces"), aliases) /\
           LET rows == RelationPlan(Of(db, "surfaces"), aliases)
           IN /\ \A row : (row \in db /\ row.table \in TablesOf["relations"]) =>
                   \E k \in 1 .. Len(rows) : Planned(row) = rows[k]
              /\ \A k \in 1 .. Len(rows) :
                   \E row \in db : row.table \in TablesOf["relations"] /\ Planned(row) = rows[k]
<1>1. "relations" \in Stages
  BY StagesAre
<1>2. calm["relations"] /\ (\A w \in Commands : StatesOf("relations")[w] = "idle") =>
        planned["relations"]
          /\ RowsOf("relations") = {target["relations"][k] : k \in 1 .. Len(target["relations"])}
  BY DEF Relations!Complete, Relations!Idle, Relations!Rows
<1>3. /\ planned["relations"]
      /\ \A row : (row \in db /\ row.table \in TablesOf["relations"]) =>
           \E k \in 1 .. Len(target["relations"]) : Planned(row) = target["relations"][k]
      /\ \A k \in 1 .. Len(target["relations"]) :
           \E row \in db : row.table \in TablesOf["relations"]
                             /\ Planned(row) = target["relations"][k]
  BY <1>1, <1>2, RebuiltRows
<1>4. PICK aliases \in SUBSET ToSet(Aliases) :
        /\ AliasesOk(Of(db, "surfaces"), aliases)
        /\ target["relations"] = RelationPlan(Of(db, "surfaces"), aliases)
  BY <1>3 DEF TargetInv
<1> QED
  BY <1>3, <1>4

\* The rows of the graph, by what they are.
LEMMA GraphRows ==
  ASSUME NEW surf, NEW aliases, SurfacesOk(surf), AliasesOk(surf, aliases),
         LET rows == RelationPlan(surf, aliases)
         IN /\ \A row : (row \in db /\ row.table \in TablesOf["relations"]) =>
                 \E k \in 1 .. Len(rows) : Planned(row) = rows[k]
            /\ \A k \in 1 .. Len(rows) :
                 \E row \in db : row.table \in TablesOf["relations"] /\ Planned(row) = rows[k]
  PROVE  /\ \A m : m \in Of(db, "concept_surfaces") <=> IsMembership(surf, aliases, m)
         /\ \A r \in Of(db, "surface_relations") :
              \E p \in aliases \union VersionsOf(surf) : r.id[2] = p[1] /\ r.id[3] = p[2]
         /\ \A k \in Of(db, "concepts") : \E h \in Heads(surf, aliases) :
              k.id = <<NameOf(surf, aliases, h)>> /\ k.members = MembersOf(surf, aliases, h)
<1> DEFINE rows == RelationPlan(surf, aliases)
<1>0. /\ \A row : (row \in db /\ row.table \in TablesOf["relations"]) =>
           \E k \in 1 .. Len(rows) : Planned(row) = rows[k]
      /\ \A k \in 1 .. Len(rows) :
           \E row \in db : row.table \in TablesOf["relations"] /\ Planned(row) = rows[k]
  OBVIOUS
<1>1. {"surface_relations", "concept_surfaces", "concepts"} = TablesOf["relations"]
  BY DEF TablesOf
<1>2. \A row : row.table # "concepts" => Planned(row) = row
  BY DEF Planned
<1>3. \A row : /\ Planned(row).table = row.table
               /\ row.table = "concepts" =>
                    Planned(row).id = row.id /\ Planned(row).members = row.members
  BY DEF Planned, Counted
<1>4. \A r : LET made == \E k \in 1 .. Len(rows) : r = rows[k]
             IN /\ made /\ r.table = "concepts" =>
                     \E h \in Heads(surf, aliases) : r = ConceptRow(surf, aliases, <<h, 0>>)
                /\ made /\ r.table = "concept_surfaces" <=>
                     \E h \in Heads(surf, aliases) : \E t \in MembersOf(surf, aliases, h) :
                       r = Membership(NameOf(surf, aliases, h), t)
                /\ made /\ r.table = "surface_relations" =>
                     \E p \in aliases \union VersionsOf(surf) : r.id[2] = p[1] /\ r.id[3] = p[2]
  <2> SUFFICES ASSUME NEW r
      PROVE  LET made == \E k \in 1 .. Len(rows) : r = rows[k]
             IN /\ made /\ r.table = "concepts" =>
                     \E h \in Heads(surf, aliases) : r = ConceptRow(surf, aliases, <<h, 0>>)
                /\ made /\ r.table = "concept_surfaces" <=>
                     \E h \in Heads(surf, aliases) : \E t \in MembersOf(surf, aliases, h) :
                       r = Membership(NameOf(surf, aliases, h), t)
                /\ made /\ r.table = "surface_relations" =>
                     \E p \in aliases \union VersionsOf(surf) : r.id[2] = p[1] /\ r.id[3] = p[2]
    OBVIOUS
  <2> QED
    BY GraphMade
<1> HIDE DEF rows
<1>5. ASSUME NEW m, m \in Of(db, "concept_surfaces") PROVE IsMembership(surf, aliases, m)
  <2>1. m \in db /\ m.table = "concept_surfaces"
    BY <1>5 DEF Of
  <2>2. \E k \in 1 .. Len(rows) : m = rows[k]
    <3>1. Planned(m) = m
      BY <1>2, <2>1
    <3>2. \E k \in 1 .. Len(rows) : Planned(m) = rows[k]
      BY <1>0, <1>1, <2>1
    <3> QED
      BY <3>1, <3>2
  <2> QED
    BY <1>4, <2>1, <2>2 DEF IsMembership
<1>6. ASSUME NEW m, IsMembership(surf, aliases, m) PROVE m \in Of(db, "concept_surfaces")
  <2>1. (\E k \in 1 .. Len(rows) : m = rows[k]) /\ m.table = "concept_surfaces"
    BY <1>4, <1>6 DEF IsMembership
  <2>2. PICK k \in 1 .. Len(rows) : m = rows[k]
    BY <2>1
  <2>3. PICK row \in db : Planned(row) = m
    BY <1>0, <2>2
  <2>4. row.table = "concept_surfaces"
    BY <1>3, <2>1, <2>3
  <2>5. row = m
    BY <1>2, <2>3, <2>4
  <2> QED
    BY <2>3, <2>4, <2>5 DEF Of
<1>7. ASSUME NEW r \in Of(db, "surface_relations")
      PROVE  \E p \in aliases \union VersionsOf(surf) : r.id[2] = p[1] /\ r.id[3] = p[2]
  <2>1. r \in db /\ r.table = "surface_relations"
    BY DEF Of
  <2>2. \E k \in 1 .. Len(rows) : r = rows[k]
    <3>1. Planned(r) = r
      BY <1>2, <2>1
    <3>2. \E k \in 1 .. Len(rows) : Planned(r) = rows[k]
      BY <1>0, <1>1, <2>1
    <3> QED
      BY <3>1, <3>2
  <2> QED
    BY <1>4, <2>1, <2>2
<1>8. ASSUME NEW k \in Of(db, "concepts")
      PROVE  \E h \in Heads(surf, aliases) :
               k.id = <<NameOf(surf, aliases, h)>> /\ k.members = MembersOf(surf, aliases, h)
  <2>1. k \in db /\ k.table = "concepts"
    BY DEF Of
  <2> DEFINE r == Planned(k)
  <2>2. r.table = "concepts" /\ r.id = k.id /\ r.members = k.members
    BY <1>3, <2>1
  <2>3. \E n \in 1 .. Len(rows) : r = rows[n]
    BY <1>0, <1>1, <2>1
  <2> HIDE DEF r
  <2>4. PICK h \in Heads(surf, aliases) : r = ConceptRow(surf, aliases, <<h, 0>>)
    BY <1>4, <2>2, <2>3
  <2>5. r = Concept(NameOf(surf, aliases, h), MembersOf(surf, aliases, h),
                    SumOver(MembersOf(surf, aliases, h), DfOf(surf)))
    <3> DEFINE x == <<h, 0>>
    <3>1. x[1] = h /\ x[2] = 0
      OBVIOUS
    <3> HIDE DEF x
    <3>2. ConceptRow(surf, aliases, x) =
            Concept(NameOf(surf, aliases, x[1]), MembersOf(surf, aliases, x[1]),
                    SumOver(MembersOf(surf, aliases, x[1]), DfOf(surf)))
      BY <3>1, ConceptRowIs
    <3> QED
      BY <2>4, <3>1, <3>2 DEF x
  <2>6. r.id = <<NameOf(surf, aliases, h)>> /\ r.members = MembersOf(surf, aliases, h)
    BY <2>5 DEF Concept
  <2> QED
    BY <2>2, <2>6
<1> QED
  BY <1>5, <1>6, <1>7, <1>8

\* A concept whose name is mentioned has the documents of its members.
LEMMA ConceptCounted ==
  ASSUME NEW k, k.df = ConceptDf(db, k), k.id[1] \in k.members,
         EvidenceRight(db), k.id[1] \in TextsOf(Of(db, "surfaces")), FitInv
  PROVE  k.df = Cardinality({m.jd : m \in {m \in Of(db, "keyword_mentions") :
                                              m.text \in k.members}})
<1> DEFINE mentions == Of(db, "keyword_mentions")
           name == k.id[1]
           counted == {m \in mentions : m.text \in k.members}
           found == {m.jd : m \in counted}
<1>1. PICK row \in Of(db, "surfaces") : row.id[1] = name
  BY DEF TextsOf
<1>2. row.tf = Cardinality({m \in mentions : m.text = name}) /\ row.tf > 0
  BY ZenonT(30), <1>1 DEF EvidenceRight
<1>3. {m \in mentions : m.text = name} # {}
  <2>1. ASSUME {m \in mentions : m.text = name} = {} PROVE FALSE
    <3>1. row.tf = 0
      BY <1>2, <2>1, FS_EmptySet
    <3> QED
      BY <1>2, <3>1
  <2> QED
    BY <2>1
<1>4. found # {}
  BY <1>3
<1> QED
  BY <1>4 DEF ConceptDf

\* What calm relations leave agrees with the surfaces.
LEMMA GraphRebuilt ==
  ASSUME FitInv, TargetInv, Extraction!Complete, Relations!Complete
  PROVE  GraphAgrees
<1> SUFFICES ASSUME calm["relations"], Rebuilders("relations") = {}
             PROVE  LET memberships == Of(db, "concept_surfaces")
                        ConceptsOf(t) == {m.id[1] : m \in {m \in memberships : m.id[2] = t}}
                    IN
                    /\ \A row \in Of(db, "surfaces") :
                         LET t == row.id[1] IN
                         Cardinality(ConceptsOf(t)) \in IF t \in QuerySafe THEN {1} ELSE {0, 1}
                    /\ \A r \in Of(db, "surface_relations") : ConceptsOf(r.id[2]) = ConceptsOf(r.id[3])
                    /\ \A k \in Of(db, "concepts") :
                         /\ k.id[1] \in QuerySafe /\ k.id[1] \in k.members
                         /\ k.members = {t \in Texts : k.id[1] \in ConceptsOf(t)}
                         /\ calm["extract"] =>
                              k.df = Cardinality({m.jd : m \in {m \in Of(db, "keyword_mentions") :
                                                                   m.text \in k.members}})
  BY DEF GraphAgrees
<1> DEFINE surf == Of(db, "surfaces")
           memberships == Of(db, "concept_surfaces")
           ConceptsOf(t) == {m.id[1] : m \in {m \in memberships : m.id[2] = t}}
<1>1. SurfacesOk(surf)
  BY DEF FitInv, Sound, SurfacesOk, Of
<1>2. PICK aliases : AliasesOk(surf, aliases) /\
           LET rows == RelationPlan(surf, aliases)
           IN /\ \A row : (row \in db /\ row.table \in TablesOf["relations"]) =>
                   \E k \in 1 .. Len(rows) : Planned(row) = rows[k]
              /\ \A k \in 1 .. Len(rows) :
                   \E row \in db : row.table \in TablesOf["relations"] /\ Planned(row) = rows[k]
  BY RelationsRebuilt
<1>3. \A t : ConceptsOf(t) = ConceptsIn(memberships, t)
  BY DEF ConceptsIn
<1>4. \A row \in surf : row.id[1] \in TextsOf(surf)
  BY DEF TextsOf
<1>5. \A k \in Of(db, "concepts") : k.df = ConceptDf(db, k)
  BY DEF TargetInv
<1>6. calm["extract"] => EvidenceRight(db)
  BY EvidenceRebuilt DEF TargetInv
<1> HIDE DEF surf
<1>7. /\ \A m : m \in memberships <=> IsMembership(surf, aliases, m)
      /\ \A r \in Of(db, "surface_relations") :
           \E p \in aliases \union VersionsOf(surf) : r.id[2] = p[1] /\ r.id[3] = p[2]
      /\ \A k \in Of(db, "concepts") : \E h \in Heads(surf, aliases) :
           k.id = <<NameOf(surf, aliases, h)>> /\ k.members = MembersOf(surf, aliases, h)
  BY <1>1, <1>2, GraphRows
<1> HIDE DEF memberships, ConceptsOf
<1>8. ASSUME NEW row \in surf
      PROVE  Cardinality(ConceptsOf(row.id[1])) \in IF row.id[1] \in QuerySafe THEN {1} ELSE {0, 1}
  <2> DEFINE t == row.id[1]
  <2>1. t \in TextsOf(surf)
    BY <1>4
  <2> HIDE DEF t
  <2>2. Cardinality(ConceptsIn(memberships, t)) \in IF t \in QuerySafe THEN {1} ELSE {0, 1}
    BY <1>1, <1>2, <1>7, <2>1, OneConcept
  <2> QED
    BY <1>3, <2>2 DEF t
<1>9. ASSUME NEW r \in Of(db, "surface_relations") PROVE ConceptsOf(r.id[2]) = ConceptsOf(r.id[3])
  <2>1. PICK p \in aliases \union VersionsOf(surf) : r.id[2] = p[1] /\ r.id[3] = p[2]
    BY <1>7
  <2>2. ConceptsIn(memberships, p[1]) = ConceptsIn(memberships, p[2])
    BY <1>1, <1>2, <1>7, RelatedConcepts
  <2> QED
    BY <1>3, <2>1, <2>2
<1>10. ASSUME NEW k \in Of(db, "concepts")
       PROVE  /\ k.id[1] \in QuerySafe /\ k.id[1] \in k.members
              /\ k.members = {t \in Texts : k.id[1] \in ConceptsOf(t)}
              /\ k.id[1] \in TextsOf(surf)
  <2>1. PICK h \in Heads(surf, aliases) :
          k.id = <<NameOf(surf, aliases, h)>> /\ k.members = MembersOf(surf, aliases, h)
    BY <1>7
  <2>2. k.id[1] = NameOf(surf, aliases, h)
    BY <2>1
  <2>3. LET members == MembersOf(surf, aliases, h)
            name == NameOf(surf, aliases, h)
        IN /\ name \in QuerySafe /\ name \in members /\ name \in TextsOf(surf)
           /\ members = {t \in Texts : name \in ConceptsIn(memberships, t)}
    BY SMTT(30), <1>1, <1>2, <1>7, ConceptMembers
  <2> QED
    BY <1>3, <2>1, <2>2, <2>3
<1>11. ASSUME NEW k \in Of(db, "concepts"), calm["extract"]
       PROVE  k.df = Cardinality({m.jd : m \in {m \in Of(db, "keyword_mentions") :
                                                   m.text \in k.members}})
  BY <1>5, <1>6, <1>10, <1>11, ConceptCounted DEF surf
<1> QED
  BY <1>8, <1>9, <1>10, <1>11 DEF surf, memberships, ConceptsOf

\* What build-relations made agrees with the surfaces for as long as no
\* extraction comes in between, whichever commands overlapped while it was made:
\* every query-safe surface is in one concept, related ones in the same, and
\* concepts count the documents of their members.
THEOREM GraphAlwaysAgrees == Spec => []GraphAgrees
<1>1. BuildInv /\ TargetInv /\ Extraction!Complete /\ Relations!Complete => GraphAgrees
  BY GraphRebuilt DEF BuildInv
<1> QED
  BY <1>1, BuildInvariant, TargetInvariant, StagesComplete, PTL

=============================================================================
