--------------------------- MODULE MCKeywordGraph ---------------------------
(* KeywordGraph on small snapshots, as the builder would make them. *)
EXTENDS KeywordGraph

CONSTANT SomeBuckets

Edge(s, t, windows, ofA, ofB, together) ==
  [a |-> s, b |-> t, windows |-> windows, ofA |-> ofA, ofB |-> ofB,
   together |-> together]

\* Two surfaces always together in half of the windows, often together in
\* other ways, and two kinds of windows.
SomeEdges ==
  {{}, {Edge(1, 2, 5, 2, 3, 1), Edge(1, 2, 5, 3, 4, 3), Edge(1, 3, 5, 2, 2, 2)},
   {Edge(1, 2, 4, 2, 2, 2), Edge(1, 2, 4, 3, 3, 3), Edge(2, 3, 4, 3, 2, 2)}}

\* A base is another surface of the snapshot, and there is one seed alias at
\* most, of a surface without a version and without a base of its own.  One
\* stale observation is enough, and edges need all surfaces.  Labels sort by
\* their texts, unless one of these begins the other one: then what follows is
\* compared with the type, and a number comes first.
AsBuilt(snapshots) ==
  {g \in snapshots :
     /\ g.edges = {} <=> 3 \notin g.active
     /\ g.blocked \intersect Surfaces \subseteq g.unsafe
     /\ \A s \in Surfaces :
          /\ g.base[s] # 0 => s \in g.active /\ (s = g.alias \/ s \in g.versioned)
          /\ s = g.alias =>
               /\ g.base[s] # 0 /\ g.base[g.base[s]] = 0
               /\ {s, g.base[s]} \intersect (g.versioned \union g.unsafe) = {}
          /\ s \notin g.active => g.bucket[s] = "none" /\ s \notin g.versioned \union g.unsafe
          /\ s \in g.versioned /\ 0 \notin {g.base[s], g.prefix[s]} => g.prefix[s] = g.base[s]
          /\ g.bucket[s] = "stale" => s = 1
     /\ \A type \in BundleTypes : \A s, t \in Surfaces :
          LET before == g.labels[type][s] < g.labels[type][t]
          IN /\ s < t /\ g.prefix[s] # t /\ g.prefix[t] # s => before
             /\ s \in g.versioned /\ t = g.prefix[s] /\ t = g.base[s] => before}

\* The places of the labels are the same for each type, or not the same for two
\* of the types.
Labels(others, precision) ==
  [type \in BundleTypes |->
     IF type \in {"precision", "exploration"} THEN precision ELSE others]

\* What recall depends on: relations of every kind.
RelatedSnapshots ==
  AsBuilt([active : {{1, 2, 3}, {1, 2}}, unsafe : {{}, {1}}, blocked : {{8}},
           bucket : [Surfaces -> SomeBuckets],
           base : {<<0, b, c>> : b \in {0, 1}, c \in {0, 1, 2}},
           alias : {0, 2, 3}, versioned : {{}, {2}, {3}, {2, 3}, {1, 3}},
           order : {<<3, 2, 1>>, <<1, 3, 2>>}, prefix : {<<0, 0, 0>>},
           labels : {Labels(<<1, 2, 3>>, <<1, 2, 3>>)}, edges : SomeEdges])

\* What the order of a plan depends on: texts that begin with one another.
ExtendedSnapshots ==
  AsBuilt([active : {Surfaces}, unsafe : {{1}, {}}, blocked : {{8}, {1, 8}},
           bucket : [Surfaces -> SomeBuckets \ {"none"}],
           base : {<<0, 0, 0>>, <<0, 1, 1>>}, alias : {0}, versioned : {{2}, {2, 3}},
           order : {<<3, 2, 1>>}, prefix : {<<0, 1, 0>>, <<0, 1, 1>>, <<0, 1, 2>>},
           labels : {Labels(<<1, 2, 3>>, <<1, 2, 3>>), Labels(<<3, 1, 2>>, <<3, 1, 2>>),
                     Labels(<<2, 1, 3>>, <<2, 1, 3>>), Labels(<<1, 2, 3>>, <<3, 1, 2>>)},
           edges : SomeEdges])

BuiltSnapshots == RelatedSnapshots \union ExtendedSnapshots

Recall(text, pool, max, companions) ==
  [kind |-> "recall", text |-> text,
   terms |-> [n \in DOMAIN pool |-> [term |-> pool[n], typed |-> FALSE]],
   max |-> max, companions |-> companions, supported |-> TRUE]

SomeRecallRequests ==
  {Recall(1, <<>>, 5, 1), Recall(2, <<2, 1>>, 0, 1), Recall(0, <<3, 1, 9, 3>>, 1, 1),
   Recall(2, <<3, 1>>, 2, 0), Recall(9, <<1>>, 0, 0),
   [Recall(0, <<2, 1>>, 5, 1) EXCEPT !.terms[1].typed = TRUE],
   [Recall(1, <<>>, 5, 1) EXCEPT !.supported = FALSE]}

Term(text, strength) == [text |-> text, strength |-> strength]

Plan(terms, mentions, max, exploration) ==
  [kind |-> "plan", terms |-> terms, mentions |-> mentions, max |-> max,
   exploration |-> exploration]

SomePlanRequests ==
  {Plan(<<Term(1, "required"), Term(2, "nice_to_have")>>, <<3>>, 2, TRUE),
   Plan(<<Term(3, "preferred"), Term(9, "required"), Term(8, "required")>>,
        <<1, 2, 1>>, 1, FALSE),
   Plan(<<Term(2, "nice_to_have"), Term(1, "required"), Term(2, "required"),
          Term(3, "preferred")>>, <<>>, 5, FALSE),
   Plan(<<Term(9, "nice_to_have"), Term(8, "required")>>, <<>>, 1, TRUE)}

=============================================================================
