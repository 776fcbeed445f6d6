------------------------------ MODULE LexOrder ------------------------------
(***************************************************************************)
(* Keys as Python sorts them: tuples of numbers of the same length.        *)
(***************************************************************************)
EXTENDS Integers, FiniteSets

LexLess(k, l) ==
  \E n \in DOMAIN k : k[n] < l[n] /\ \A m \in 1 .. n - 1 : k[m] = l[m]

\* The keys of a finite set, in their order.
Sorted(keys) ==
  [n \in 1 .. Cardinality(keys) |->
     CHOOSE k \in keys : Cardinality({l \in keys : LexLess(l, k)}) = n - 1]

=============================================================================
