--------------------------- MODULE RebuildProofs ---------------------------
(***************************************************************************)
(* Proof that overlapping rebuilds which nobody kills leave all rows, for  *)
(* any number of commands and any rows that are chained.                   *)
(***************************************************************************)
EXTENDS Rebuild, WellFoundedInduction, TLAPS

States == {"idle", "loading", "inserting"}

\* Before the first worker has loaded, the tables are empty and one will load.
Unplanned ==
  /\ present = {}
  /\ \A w \in Workers : state[w] # "inserting"
  /\ \E w \in Workers : state[w] = "loading"

\* A worker stands at position k.
Stands(k) == \E w \in Workers : state[w] = "inserting" /\ next[w] = k

\* Wherever rows are missing behind a row that is there, or at the beginning,
\* a worker stands, or is on its way to the beginning.
GapsHeld ==
  \A k \in 1 .. Len(target) :
    /\ target[k] \notin present
    /\ k > 1 => target[k - 1] \in present
    => \/ Stands(k)
       \/ k = 1 /\ \E w \in Workers : state[w] = "loading"

Planned ==
  /\ Len(target) \in Nat
  /\ Chained(target)
  /\ present \subseteq Rows
  /\ \A r \in present : Refs(r) \subseteq KeysOf(present)
  /\ \A w \in Workers : state[w] = "inserting" => next[w] \in 1 .. Len(target) + 1
  /\ GapsHeld

\* The inductive invariant of a calm rebuild.
CalmInv ==
  calm =>
    /\ state \in [Workers -> States]
    /\ next \in [Workers -> Nat]
    /\ \A w \in Workers : state[w] # "inserting" => next[w] = 1
    /\ planned \in BOOLEAN
    /\ ~planned => Unplanned
    /\ planned => Planned

\* The facts of the invariant about a calm rebuild with a target.
LEMMA CalmPlanned ==
  ASSUME CalmInv, calm, planned
  PROVE  /\ state \in [Workers -> States]
         /\ next \in [Workers -> Nat]
         /\ Len(target) \in Nat
         /\ Chained(target)
         /\ present \subseteq Rows
         /\ \A r \in present : Refs(r) \subseteq KeysOf(present)
         /\ \A w \in Workers : state[w] = "inserting" => next[w] \in 1 .. Len(target) + 1
         /\ GapsHeld
BY DEF CalmInv, Planned

\* Only after a target was loaded does a worker insert.
LEMMA InsertingPlanned ==
  ASSUME CalmInv, calm, NEW w \in Workers, state[w] = "inserting"
  PROVE  planned
BY DEF CalmInv, Unplanned

\* Clearing leaves nothing, and the one who cleared will load.
LEMMA ClearStep ==
  ASSUME CalmInv, NEW w \in Workers, ClearAlone(w) \/ ClearAmongOthers(w)
  PROVE  CalmInv'
<1>1. CASE ClearAlone(w)
  BY <1>1 DEF ClearAlone, CalmInv, Unplanned, States
<1>2. CASE ClearAmongOthers(w)
  <2>0. state[w] = "idle" /\ state' = [state EXCEPT ![w] = "loading"] /\ calm /\ calm'
    BY <1>2 DEF ClearAmongOthers
  <2>1. /\ state' \in [Workers -> States] /\ state'[w] = "loading"
        /\ \A v \in Workers : v # w => state'[v] = state[v]
        /\ \A v \in Workers : state'[v] = "inserting" => state[v] = "inserting"
        /\ \A v \in Workers : state'[v] # "inserting" => state[v] # "inserting"
    BY <2>0 DEF CalmInv, States
  <2>2. CASE ~planned
    BY <1>2, <2>0, <2>1, <2>2 DEF ClearAmongOthers, CalmInv, Unplanned
  <2>3. CASE planned
    <3>1. Len(target) \in Nat
      BY <2>0, <2>3, CalmPlanned
    <3>2. GapsHeld'
      BY <1>2, <2>1, <3>1 DEF ClearAmongOthers, GapsHeld
    <3>3. /\ target' = target /\ next' = next /\ planned' = planned
          /\ present' = {} /\ Chained(target)
      BY <1>2, <2>0, <2>3, CalmPlanned DEF ClearAmongOthers
    <3>4. \A v \in Workers : state'[v] = "inserting" => next'[v] \in 1 .. Len(target') + 1
      BY <2>0, <2>1, <2>3, <3>3, CalmPlanned
    <3>5. Chained(target)'
      BY <3>3 DEF Chained
    <3>6. Planned'
      BY <3>1, <3>2, <3>3, <3>4, <3>5 DEF Planned
    <3> QED
      BY <2>0, <2>1, <2>3, <3>3, <3>6 DEF CalmInv
  <2> QED
    BY <2>0, <2>2, <2>3 DEF CalmInv
<1> QED
  BY <1>1, <1>2

\* Loading puts the worker at the first row.
LEMMA LoadStep ==
  ASSUME CalmInv, NEW w \in Workers, Load(w)
  PROVE  CalmInv'
<1>0. /\ calm /\ calm' /\ planned' /\ state[w] = "loading"
      /\ state' = [state EXCEPT ![w] = "inserting"]
      /\ next' = next /\ present' = present
  BY DEF Load
<1>1. /\ state' \in [Workers -> States] /\ state'[w] = "inserting" /\ next[w] = 1
      /\ \A v \in Workers : v # w => state'[v] = state[v]
      /\ next \in [Workers -> Nat]
  BY <1>0 DEF CalmInv, States
<1>2. CASE planned
  <2>1. target' = target
    BY <1>2 DEF Load
  <2>2. GapsHeld'
    BY <1>0, <1>1, <1>2, <2>1, CalmPlanned DEF GapsHeld, Stands
  <2>3. \A v \in Workers : state'[v] = "inserting" => next'[v] \in 1 .. Len(target') + 1
    BY <1>0, <1>1, <1>2, <2>1, CalmPlanned
  <2>4. Chained(target)'
    BY <1>0, <1>2, <2>1, CalmPlanned DEF Chained
  <2>5. Planned'
    BY <1>0, <1>2, <2>1, <2>2, <2>3, <2>4, CalmPlanned DEF Planned, Rows
  <2> QED
    BY <1>0, <1>1, <2>5 DEF CalmInv
<1>3. CASE ~planned
  <2>1. Chained(target)' /\ Len(target') \in Nat
    <3>1. target' \in Seq({target'[k] : k \in DOMAIN target'}) /\ Chained(target')
      BY <1>3 DEF Load
    <3>2. Chained(target)'
      BY <3>1, Zenon DEF Chained
    <3>3. Len(target') \in Nat
      BY <3>1
    <3> QED
      BY <3>2, <3>3
  <2>2. present = {} /\ \A v \in Workers : state[v] # "inserting"
    BY <1>0, <1>3 DEF CalmInv, Unplanned
  <2>3. \A k \in 1 .. Len(target') : k > 1 => target'[k - 1] \notin present'
    BY <1>0, <2>2
  <2>4. GapsHeld'
    BY <1>0, <1>1, <2>1, <2>3 DEF GapsHeld, Stands
  <2>5. Planned'
    BY <1>0, <1>1, <2>1, <2>2, <2>4 DEF Planned, Rows
  <2> QED
    BY <1>0, <1>1, <2>5 DEF CalmInv
<1> QED
  BY <1>2, <1>3

\* An inserted row closes the gap before it, and the worker moves on to the
\* gap behind it.
LEMMA InsertStep ==
  ASSUME CalmInv, NEW w \in Workers, Insert(w)
  PROVE  CalmInv'
<1> DEFINE n == next[w]
<1>0. /\ calm /\ calm' /\ state[w] = "inserting" /\ planned
      /\ UNCHANGED <<state, target, planned>>
  BY InsertingPlanned DEF Insert
<1>1. n \in 1 .. Len(target) /\ Len(target) \in Nat /\ next \in [Workers -> Nat]
  BY <1>0, CalmPlanned DEF Insert
<1>2. /\ next' \in [Workers -> Nat] /\ next'[w] = n + 1
      /\ \A v \in Workers : v # w => next'[v] = next[v]
  BY <1>1 DEF Insert
<1>3. /\ present' = present \union {target[n]}
      /\ target[n] \notin present
      /\ Refs(target[n]) \subseteq KeysOf(present)
  BY DEF Insert, Acceptable, Row, KeysOf
<1>4. \A k \in 1 .. Len(target) : target[k] = target[n] => k = n
  BY <1>0, <1>1, CalmPlanned DEF Chained
<1>5. GapsHeld'
  <2> SUFFICES ASSUME NEW k \in 1 .. Len(target), target[k] \notin present',
                      k > 1 => target[k - 1] \in present'
               PROVE  Stands(k)' \/ (k = 1 /\ \E v \in Workers : state[v] = "loading")
    BY <1>0 DEF GapsHeld
  <2>1. CASE k = n + 1
    BY <1>0, <1>2, <2>1 DEF Stands
  <2>2. CASE k # n + 1
    <3>1. k > 1 => k - 1 \in 1 .. Len(target) /\ k - 1 # n
      BY <1>1, <2>2
    <3>2. k > 1 => target[k - 1] \in present
      BY <1>3, <1>4, <3>1
    <3>3. k # n /\ target[k] \notin present
      BY <1>3
    <3>4. Stands(k) \/ (k = 1 /\ \E v \in Workers : state[v] = "loading")
      BY <1>0, <3>2, <3>3, CalmPlanned DEF GapsHeld
    <3>5. Stands(k) => Stands(k)'
      BY <1>0, <1>2, <3>3 DEF Stands
    <3> QED
      BY <3>4, <3>5
  <2> QED
    BY <2>1, <2>2
<1>6. /\ present' \subseteq Rows'
      /\ \A r \in present' : Refs(r) \subseteq KeysOf(present)'
  <2>1. KeysOf(present) \subseteq KeysOf(present)'
    BY <1>3 DEF KeysOf
  <2> QED
    BY <1>0, <1>1, <1>3, <2>1, CalmPlanned DEF Rows
<1>7. \A v \in Workers : state'[v] = "inserting" => next'[v] \in 1 .. Len(target') + 1
  BY SMTT(30), <1>0, <1>1, <1>2, CalmPlanned
<1>8. Planned'
  BY <1>0, <1>5, <1>6, <1>7, CalmPlanned DEF Planned, Chained
<1> QED
  BY <1>0, <1>2, <1>8 DEF CalmInv

\* A worker that is refused did not stand at a gap, and one that is through
\* stands behind the last row.
LEMMA StopStep ==
  ASSUME CalmInv, NEW w \in Workers, Refuse(w) \/ Finish(w)
  PROVE  CalmInv'
<1> DEFINE n == next[w]
<1>0. /\ calm /\ calm' /\ state[w] = "inserting" /\ planned
      /\ state' = [state EXCEPT ![w] = "idle"]
      /\ next' = [next EXCEPT ![w] = 1]
      /\ UNCHANGED <<present, target, planned>>
  BY InsertingPlanned DEF Refuse, Finish, Stop
<1>1. /\ n \in 1 .. Len(target) + 1 /\ Len(target) \in Nat
      /\ state \in [Workers -> States] /\ next \in [Workers -> Nat]
  BY <1>0, CalmPlanned
<1>2. /\ state' \in [Workers -> States] /\ next' \in [Workers -> Nat]
      /\ state'[w] = "idle" /\ next'[w] = 1
      /\ \A v \in Workers : v # w => state'[v] = state[v] /\ next'[v] = next[v]
  BY <1>0, <1>1 DEF States
<1>3. ASSUME n \in 1 .. Len(target), target[n] \notin present,
             n > 1 => target[n - 1] \in present
      PROVE  FALSE
  <2>1. Refuse(w)
    BY <1>1, <1>3 DEF Finish
  <2>2. Key(target[n]) \notin KeysOf(present)
    <3> SUFFICES ASSUME NEW i \in 1 .. Len(target), target[i] \in present,
                        Key(target[i]) = Key(target[n])
                 PROVE  FALSE
      BY <1>0, CalmPlanned DEF KeysOf, Rows
    <3> QED
      BY <1>0, <1>3, CalmPlanned DEF Chained
  <2>3. ~(Refs(target[n]) \subseteq KeysOf(present))
    BY <2>1, <2>2, <1>3 DEF Refuse, Acceptable, Row
  <2>4. Refs(target[n]) \subseteq
          (IF n = 1 THEN {} ELSE {Key(target[n - 1])} \union Refs(target[n - 1]))
    BY <1>0, <1>3, CalmPlanned DEF Chained
  <2>5. n > 1 => /\ Refs(target[n - 1]) \subseteq KeysOf(present)
                 /\ Key(target[n - 1]) \in KeysOf(present)
    BY <1>0, <1>3, CalmPlanned DEF KeysOf
  <2> QED
    BY <1>3, <2>3, <2>4, <2>5
<1>4. GapsHeld'
  <2> SUFFICES ASSUME NEW k \in 1 .. Len(target), target[k] \notin present,
                      k > 1 => target[k - 1] \in present
               PROVE  Stands(k)' \/ (k = 1 /\ \E v \in Workers : state'[v] = "loading")
    BY <1>0 DEF GapsHeld
  <2>1. k # n
    BY <1>3
  <2>2. Stands(k) \/ (k = 1 /\ \E v \in Workers : state[v] = "loading")
    BY <1>0, CalmPlanned DEF GapsHeld
  <2>3. Stands(k) => Stands(k)'
    BY <1>2, <2>1 DEF Stands
  <2>4. (\E v \in Workers : state[v] = "loading") => \E v \in Workers : state'[v] = "loading"
    BY <1>0, <1>2
  <2> QED
    BY <2>2, <2>3, <2>4
<1>5. \A v \in Workers : state'[v] = "inserting" => next'[v] \in 1 .. Len(target') + 1
  BY <1>0, <1>2, CalmPlanned
<1>6. Planned'
  <2>1. Chained(target)'
    BY <1>0, CalmPlanned DEF Chained
  <2>2. /\ present' \subseteq Rows'
        /\ \A r \in present' : Refs(r) \subseteq KeysOf(present)'
    BY <1>0, CalmPlanned DEF Rows, KeysOf
  <2> QED
    BY <1>0, <1>1, <1>4, <1>5, <2>1, <2>2 DEF Planned
<1>7. \A v \in Workers : state'[v] # "inserting" => next'[v] = 1
  BY <1>0, <1>2 DEF CalmInv
<1> QED
  BY <1>0, <1>2, <1>6, <1>7 DEF CalmInv

\* The invariant holds in every reachable state.
THEOREM CalmInvariant == Spec => []CalmInv
<1>1. Init => CalmInv
  BY DEF Init, CalmInv
<1>2. CalmInv /\ [Next]_vars => CalmInv'
  <2> SUFFICES ASSUME CalmInv, [Next]_vars PROVE CalmInv'
    OBVIOUS
  <2>1. ASSUME NEW w \in Workers,
               ClearAlone(w) \/ ClearAmongOthers(w) \/ Load(w)
                 \/ Insert(w) \/ Refuse(w) \/ Finish(w)
        PROVE  CalmInv'
    BY <2>1, ClearStep, LoadStep, InsertStep, StopStep
  <2>2. CASE Disturb
    BY <2>2 DEF Disturb, CalmInv
  <2>3. CASE UNCHANGED vars
    <3>1. planned /\ Planned => Planned'
      <4>1. /\ Chained(target) => Chained(target)' /\ Rows' = Rows
            /\ KeysOf(present)' = KeysOf(present)
        BY <2>3 DEF vars, Chained, Rows, KeysOf
      <4>2. GapsHeld => GapsHeld'
        BY <2>3 DEF vars, GapsHeld, Stands
      <4> QED
        BY <2>3, <4>1, <4>2 DEF vars, Planned
    <3>2. Unplanned => Unplanned'
      BY <2>3 DEF vars, Unplanned
    <3> QED
      BY <2>3, <3>1, <3>2 DEF vars, CalmInv
  <2> QED
    BY <2>1, <2>2, <2>3 DEF Next
<1> QED
  BY <1>1, <1>2, PTL DEF Spec

\* A set of numbers that is not empty has a least one.
LEMMA LeastNumber ==
  ASSUME NEW T \in SUBSET Nat, T # {}
  PROVE  \E x \in T : \A y \in T : ~(y < x)
<1> DEFINE Less == {ss \in Nat \X Nat : ss[1] < ss[2]}
<1>1. IsWellFoundedOn(Less, Nat)
  BY NatLessThanWellFounded DEF OpToRel
<1>2. \E x \in T : \A y \in T : ~(<<y, x>> \in Less)
  <2> HIDE DEF Less
  <2> QED
    BY <1>1, WFMin
<1> QED
  BY <1>2

\* With nobody at work there is no first row that is missing.
LEMMA NoGaps ==
  ASSUME CalmInv, calm, planned, Idle
  PROVE  Rows \subseteq present
<1> DEFINE Missing == {k \in 1 .. Len(target) : target[k] \notin present}
<1>1. Len(target) \in Nat
  BY CalmPlanned
<1>2. \A k \in 1 .. Len(target) :
        (k > 1 => target[k - 1] \in present) => target[k] \in present
  BY CalmPlanned DEF GapsHeld, Stands, Idle
<1>3. ASSUME Missing # {} PROVE FALSE
  <2>1. PICK k \in Missing : \A y \in Missing : ~(y < k)
    <3>1. Missing \in SUBSET Nat
      BY <1>1
    <3> HIDE DEF Missing
    <3> QED
      BY <1>3, <3>1, LeastNumber
  <2>2. k > 1 => k - 1 \in 1 .. Len(target) /\ k - 1 \notin Missing
    BY <1>1, <2>1
  <2> QED
    BY <1>2, <2>1, <2>2
<1> QED
  BY <1>3 DEF Rows

\* When all commands have ended, the rows of the target are there, and no
\* others, however many commands overlapped and however they made each other
\* fail.
THEOREM RebuildsComplete == Spec => []Complete
<1>1. CalmInv => Complete
  <2> SUFFICES ASSUME CalmInv, calm, Idle PROVE planned /\ present = Rows
    BY DEF Complete
  <2>1. planned
    BY DEF CalmInv, Unplanned, Idle
  <2> QED
    BY <2>1, NoGaps, CalmPlanned
<1> QED
  BY <1>1, CalmInvariant, PTL

=============================================================================
