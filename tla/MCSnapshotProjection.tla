------------------------ MODULE MCSnapshotProjection ------------------------
\* Small instances of SnapshotProjection.
EXTENDS SnapshotProjection, TLC

CONSTANTS s1, s2, cts, other, q1, q2, none

\* What the command line passes by default.
CliConfiguration == {[sources |-> none, serving |-> cts]}

\* And what else the library accepts: nothing given, or everything.
SomeConfigurations ==
  CliConfiguration \union
  {[sources |-> none, serving |-> none],
   [sources |-> {cts, other}, serving |-> other]}

\* Nothing tells the queries apart.
QuerySymmetry == Permutations({q1, q2})

=============================================================================
