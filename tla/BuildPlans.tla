----------------------------- MODULE BuildPlans -----------------------------
(***************************************************************************)
(* The rows of the build database and how they are computed: what          *)
(* extract-surfaces makes of the documents, build-relations of the         *)
(* surfaces, and the co-occurrence step of the mentions.  A row has a key, *)
(* its table and id, and the keys its foreign keys name.                   *)
(*                                                                         *)
(* How a text is split into sections and searched for candidates is not    *)
(* modelled: SectionsOf says what comes out of it.                         *)
(***************************************************************************)
EXTENDS LexOrder, SequencesExt

CONSTANTS
  Texts,       \* the texts (text_norm) surfaces may have
  JdOrder,     \* all job descriptions, sorted by id
  TextOrder,   \* Texts, sorted
  ByLength,    \* Texts, sorted by length first
  SectionsOf,  \* job description -> its sections, [type, candidates] each
  Blocked,     \* a candidate that is blocked; the others are in Texts
  Aliases,     \* the items <<alias, canonical>> of _SEED_ALIASES
  Versions,    \* <<text, base>> for the texts with a version suffix, sorted
  QuerySafe    \* the texts that classify_surface takes for query-safe

Jds == ToSet(JdOrder)

\* The elements of a set, in a given order.
Ordered(order, set) ==
  LET found == Sorted({<<k>> : k \in {k \in DOMAIN order : order[k] \in set}})
  IN [n \in DOMAIN found |-> order[found[n][1]]]

IsOrder(order) == order \in Seq(ToSet(order)) /\ IsInjective(order)

ASSUME PlansAssumption ==
  /\ IsOrder(JdOrder)
  /\ IsOrder(TextOrder) /\ ToSet(TextOrder) = Texts
  /\ IsOrder(ByLength) /\ ToSet(ByLength) = Texts
  /\ \A jd \in Jds :
       /\ SectionsOf[jd] \in Seq(ToSet(SectionsOf[jd]))
       /\ \A i \in DOMAIN SectionsOf[jd] :
            SectionsOf[jd][i].candidates \in Seq(Texts \union {Blocked})
  /\ \A links \in {Aliases, Versions} : IsOrder(links) /\ ToSet(links) \subseteq Texts \X Texts
  /\ QuerySafe \subseteq Texts /\ Blocked \notin Texts

Tables ==
  {"jd_documents", "jd_sections", "keyword_mentions", "blocked_surface_candidates",
   "surfaces", "concepts", "concept_surfaces", "surface_relations",
   "cooccurrence_edges", "probe_jobs"}

Key(row) == <<row.table, row.id>>
Keys(rows) == {Key(row) : row \in rows}
Of(rows, table) == {row \in rows : row.table = table}

DocumentKey(jd) == <<"jd_documents", <<jd>>>>
SectionKey(jd, i) == <<"jd_sections", <<jd, i>>>>
SurfaceKey(text) == <<"surfaces", <<text>>>>
ConceptKey(text) == <<"concepts", <<text>>>>

Document(jd) == [table |-> "jd_documents", id |-> <<jd>>, refs |-> {}]

Section(jd, i) ==
  [table |-> "jd_sections", id |-> <<jd, i>>, refs |-> {DocumentKey(jd)},
   type |-> SectionsOf[jd][i].type]

\* Mentions are numbered through all documents of one extraction.
Mention(jd, i, number, text) ==
  [table |-> "keyword_mentions", id |-> <<jd, number>>,
   refs |-> {DocumentKey(jd), SectionKey(jd, i)},
   jd |-> jd, section |-> <<jd, i>>, text |-> text]

BlockedCandidate(jd, i, number) ==
  [table |-> "blocked_surface_candidates", id |-> <<jd, number>>,
   refs |-> {DocumentKey(jd), SectionKey(jd, i)}]

Surface(text, df, tf) ==
  [table |-> "surfaces", id |-> <<text>>, refs |-> {}, df |-> df, tf |-> tf]

\* A concept is named after its primary surface.  Its df is known only when it
\* is inserted; fallback is what it is if no mention is found then.
Concept(primary, members, fallback) ==
  [table |-> "concepts", id |-> <<primary>>, refs |-> {SurfaceKey(primary)},
   members |-> members, fallback |-> fallback, df |-> 0]

Counted(concept, df) ==
  [table |-> "concepts", id |-> concept.id, refs |-> concept.refs,
   members |-> concept.members, fallback |-> concept.fallback, df |-> df]

Membership(primary, text) ==
  [table |-> "concept_surfaces", id |-> <<primary, text>>,
   refs |-> {ConceptKey(primary), SurfaceKey(text)}]

Relation(type, from, to) ==
  [table |-> "surface_relations", id |-> <<type, from, to>>,
   refs |-> {SurfaceKey(from), SurfaceKey(to)}]

Edge(window, a, b, counts) ==
  [table |-> "cooccurrence_edges", id |-> <<window, a, b>>,
   refs |-> {SurfaceKey(a), SurfaceKey(b)}, counts |-> counts]

ProbeJob(text) ==
  [table |-> "probe_jobs", id |-> <<text>>, refs |-> {SurfaceKey(text)}]

-----------------------------------------------------------------------------
(* Extraction.                                                             *)

CandidatesOf(d, i) == SectionsOf[JdOrder[d]][i].candidates

\* What is inserted for documents, and in which order: <<d, i, 0>> is section i
\* of the d-th document, <<d, i, k>> the k-th candidate in it.
Items(documents) ==
  UNION {UNION {{<<d, i, k>> : k \in 0 .. Len(CandidatesOf(d, i))} :
                  i \in DOMAIN SectionsOf[JdOrder[d]]} :
           d \in {d \in DOMAIN JdOrder : JdOrder[d] \in documents}}

Candidate(item) == CandidatesOf(item[1], item[2])[item[3]]

Kind(item) ==
  IF item[3] = 0 THEN "section" ELSE IF Candidate(item) = Blocked THEN "blocked" ELSE "mention"

EvidenceRow(items, item) ==
  LET jd == JdOrder[item[1]]
      number == Cardinality({x \in items : Kind(x) = Kind(item) /\ ~LexLess(item, x)})
  IN CASE Kind(item) = "section" -> Section(jd, item[2])
       [] Kind(item) = "mention" -> Mention(jd, item[2], number, Candidate(item))
       [] Kind(item) = "blocked" -> BlockedCandidate(jd, item[2], number)

MentionsOf(items, text) == {x \in items : Kind(x) = "mention" /\ Candidate(x) = text}

\* surface_evidence: the surfaces with their document and term frequencies.
SurfaceRow(items, text) ==
  Surface(text, Cardinality({x[1] : x \in MentionsOf(items, text)}),
          Cardinality(MentionsOf(items, text)))

EvidencePlan(documents) ==
  LET items == Items(documents)
      sorted == Sorted(items)
      found == Ordered(TextOrder, {text \in Texts : MentionsOf(items, text) # {}})
  IN [n \in DOMAIN sorted |-> EvidenceRow(items, sorted[n])] \o
     [n \in DOMAIN found |-> SurfaceRow(items, found[n])]

-----------------------------------------------------------------------------
(* Relations.  They are computed from the surface rows that were loaded    *)
(* and from the aliases that occur together with their canonical text.     *)

TextsOf(surfaces) == {row.id[1] : row \in surfaces}

\* Two different mentions in one document.
CoMentioned(rows, s, t) ==
  \E l, r \in Of(rows, "keyword_mentions") :
    l.text = s /\ r.text = t /\ l.jd = r.jd /\ l # r

AliasesWithEvidence(rows, surfaces) ==
  {p \in ToSet(Aliases) :
     {p[1], p[2]} \subseteq TextsOf(surfaces) /\ CoMentioned(rows, p[1], p[2])}

VersionsOf(surfaces) == {p \in ToSet(Versions) : {p[1], p[2]} \subseteq TextsOf(surfaces)}

\* Fault: a version variant is related to its base, but not joined with it.
GroupByAliases(texts, links, text) ==
  {u \in texts : \A G \in SUBSET texts :
     text \in G /\ (\A p \in links \ ToSet(Versions) : p[1] \in G <=> p[2] \in G) => u \in G}

\* The texts that text is linked with, directly or through others.
Group(texts, links, text) ==
  {u \in texts : \A G \in SUBSET texts :
     text \in G /\ (\A p \in links : p[1] \in G <=> p[2] \in G) => u \in G}

PrimaryRank(text) ==
  IF \E p \in ToSet(Aliases) : p[2] = text THEN 0
  ELSE IF \E p \in ToSet(Versions) : p[1] = text THEN 2 ELSE 1

Position(order, text) == CHOOSE k \in DOMAIN order : order[k] = text

\* _primary_surface; dfOf are the document frequencies that were loaded.
Primary(members, dfOf) ==
  LET KeyOf(t) == <<PrimaryRank(t), -dfOf[t], Position(ByLength, t)>>
  IN CHOOSE s \in members : \A t \in members \ {s} : LexLess(KeyOf(s), KeyOf(t))

SumOver(members, dfOf) == MapThenSumSet(LAMBDA t : dfOf[t], members)

DfOf(surfaces) == [t \in TextsOf(surfaces) |-> (CHOOSE row \in surfaces : row.id = <<t>>).df]

\* The group of the text at a position of TextOrder.
MembersOf(surfaces, aliases, h) ==
  Group(TextsOf(surfaces), aliases \union VersionsOf(surfaces), TextOrder[h])

\* Concepts come in the order of the primary surfaces of their groups, without
\* the groups that have no query-safe member.
Heads(surfaces, aliases) ==
  {h \in DOMAIN TextOrder :
     /\ TextOrder[h] \in TextsOf(surfaces)
     /\ Primary(MembersOf(surfaces, aliases, h), DfOf(surfaces)) = TextOrder[h]
     /\ MembersOf(surfaces, aliases, h) \intersect QuerySafe # {}}

\* <<h, 0>> is a concept, <<h, m>> a member of it.
ConceptItems(surfaces, aliases) ==
  UNION {{<<h, m>> : m \in {0} \union {m \in DOMAIN TextOrder :
                                      TextOrder[m] \in MembersOf(surfaces, aliases, h)}} :
           h \in Heads(surfaces, aliases)}

ConceptRow(surfaces, aliases, item) ==
  LET members == MembersOf(surfaces, aliases, item[1])
      primary == Primary(members \intersect QuerySafe, DfOf(surfaces))
  IN IF item[2] = 0 THEN Concept(primary, members, SumOver(members, DfOf(surfaces)))
     ELSE Membership(primary, TextOrder[item[2]])

ConceptRows(surfaces, aliases, items) ==
  LET sorted == Sorted(items)
  IN [n \in DOMAIN sorted |-> ConceptRow(surfaces, aliases, sorted[n])]

LinkRows(type, order, links) ==
  LET found == Ordered(order, links)
  IN [n \in DOMAIN found |-> Relation(type, found[n][1], found[n][2])]

\* Fault: all concepts are inserted before their members.
PlanConceptsFirst(surfaces, aliases) ==
  LET items == ConceptItems(surfaces, aliases) IN
  ConceptRows(surfaces, aliases, {x \in items : x[2] = 0}) \o
  ConceptRows(surfaces, aliases, {x \in items : x[2] # 0}) \o
  LinkRows("alias", Aliases, aliases) \o
  LinkRows("version_variant", Versions, VersionsOf(surfaces))

\* The concepts, each followed by its members, then the relations.
RelationPlan(surfaces, aliases) ==
  ConceptRows(surfaces, aliases, ConceptItems(surfaces, aliases)) \o
  LinkRows("alias", Aliases, aliases) \o
  LinkRows("version_variant", Versions, VersionsOf(surfaces))

\* _concept_jd_df: the documents that mention a member.
ConceptDf(rows, concept) ==
  LET found == {m.jd : m \in {m \in Of(rows, "keyword_mentions") : m.text \in concept.members}}
  IN IF found # {} THEN Cardinality(found) ELSE concept.fallback

-----------------------------------------------------------------------------
(* Co-occurrence.                                                          *)

WindowTypes == <<"jd", "section", "title_plus_requirements">>

\* _load_serving_mentions: the mentions that find their section and an active,
\* query-safe surface.
ServingMentions(rows) ==
  {m \in Of(rows, "keyword_mentions") :
     {<<"jd_sections", m.section>>, SurfaceKey(m.text)} \subseteq Keys(rows)}

SectionType(section) == SectionsOf[section[1]][section[2]].type

\* The windows of a type: a document or a section, and the mentions in it.
Windows(window, mentions) ==
  LET counted == IF window = "title_plus_requirements"
                 THEN {m \in mentions : SectionType(m.section) \in {"title", "requirements"}}
                 ELSE mentions
      PlaceOf(m) == IF window = "section" THEN m.section ELSE <<m.jd>>
  IN {{n \in counted : PlaceOf(n) = PlaceOf(m)} : m \in counted}

\* Fault: a window that mentions a text twice counts twice.
WindowsWithMentions(windows, texts) ==
  IF Cardinality(texts) = 1
  THEN Cardinality({m \in UNION windows : m.text \in texts})
  ELSE Cardinality({w \in windows : texts \subseteq {m.text : m \in w}})

\* How many windows mention all of the texts.
WindowsWith(windows, texts) ==
  Cardinality({w \in windows : texts \subseteq {m.text : m \in w}})

\* An edge for the w-th type of window, and the texts at two positions.
EdgeOf(mentions, item) ==
  LET windows == Windows(WindowTypes[item[1]], mentions)
      a == TextOrder[item[2]]
      b == TextOrder[item[3]]
  IN Edge(WindowTypes[item[1]], a, b,
          [both |-> WindowsWith(windows, {a, b}), a |-> WindowsWith(windows, {a}),
           b |-> WindowsWith(windows, {b}), all |-> Cardinality(windows)])

EdgePlan(rows) ==
  LET mentions == ServingMentions(rows)
      sorted == Sorted({x \in (1 .. 3) \X (1 .. Len(TextOrder)) \X (1 .. Len(TextOrder)) :
                          x[2] < x[3] /\ EdgeOf(mentions, x).counts.both > 0})
  IN [n \in DOMAIN sorted |-> EdgeOf(mentions, sorted[n])]

=============================================================================
