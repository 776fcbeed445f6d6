------------------------------ MODULE Rebuild ------------------------------
(***************************************************************************)
(* What extract-surfaces, build-relations and the co-occurrence step have  *)
(* in common.  A command deletes all rows of its tables in one             *)
(* transaction, reads its input, and inserts the rows computed from it one *)
(* after the other, each in a transaction of its own.  An insert whose key *)
(* is taken, or whose foreign key leads nowhere, ends the command.         *)
(* Nothing keeps two such commands apart.                                  *)
(*                                                                         *)
(* The specification says what commands make of the rows while the rebuild *)
(* is calm: since the last time a command cleared the tables with no other *)
(* at work, no command was killed, and all of them work for one target.    *)
(* It says nothing of times when it is not.                                *)
(***************************************************************************)
EXTENDS Integers, Sequences

CONSTANTS
  Workers,
  Key(_),     \* the key of a row
  Refs(_)     \* the keys of rows of the same rebuild that a row refers to

VARIABLES
  present,  \* rows in the tables
  state,    \* worker -> "idle", "loading" (it has cleared) or "inserting"
  next,     \* worker -> position in target of the row it inserts next, or 1
  target,   \* the rows to insert, in their order
  planned,  \* some worker has computed the target
  calm

vars == <<present, state, next, target, planned, calm>>

Init == calm = FALSE

KeysOf(rows) == {Key(row) : row \in rows}

\* No key comes twice, and a row refers to nothing of the rebuild but the row
\* before it and what that row refers to.
Chained(rows) ==
  \A k \in 1 .. Len(rows) :
    /\ \A i \in 1 .. Len(rows) : Key(rows[i]) = Key(rows[k]) => i = k
    /\ Refs(rows[k]) \subseteq
         (IF k = 1 THEN {} ELSE {Key(rows[k - 1])} \union Refs(rows[k - 1]))

Idle == \A w \in Workers : state[w] = "idle"

\* Nobody is at work: whatever happened before, calm begins.
ClearAlone(w) ==
  /\ Idle
  /\ present' = {}
  /\ state' = [v \in Workers |-> IF v = w THEN "loading" ELSE "idle"]
  /\ next' = [v \in Workers |-> 1]
  /\ planned' = FALSE
  /\ calm' = TRUE

ClearAmongOthers(w) ==
  /\ calm /\ state[w] = "idle"
  /\ present' = {}
  /\ state' = [state EXCEPT ![w] = "loading"]
  /\ UNCHANGED <<next, target, planned, calm>>

\* The first to load sets the target, the others have to agree with it.
Load(w) ==
  /\ calm /\ state[w] = "loading"
  /\ state' = [state EXCEPT ![w] = "inserting"]
  /\ planned' = TRUE
  /\ IF planned THEN target' = target
     ELSE target' \in Seq({target'[k] : k \in DOMAIN target'}) /\ Chained(target')
  /\ UNCHANGED <<present, next, calm>>

Row(w) == target[next[w]]

Acceptable(w) ==
  Key(Row(w)) \notin KeysOf(present) /\ Refs(Row(w)) \subseteq KeysOf(present)

Insert(w) ==
  /\ calm /\ state[w] = "inserting" /\ next[w] =< Len(target)
  /\ Acceptable(w)
  /\ present' = present \union {Row(w)}
  /\ next' = [next EXCEPT ![w] = @ + 1]
  /\ UNCHANGED <<state, target, planned, calm>>

Stop(w) ==
  /\ state' = [state EXCEPT ![w] = "idle"]
  /\ next' = [next EXCEPT ![w] = 1]
  /\ UNCHANGED <<present, target, planned, calm>>

\* The database refuses the row and the command ends.
Refuse(w) ==
  /\ calm /\ state[w] = "inserting" /\ next[w] =< Len(target)
  /\ ~Acceptable(w)
  /\ Stop(w)

Finish(w) ==
  /\ calm /\ state[w] = "inserting" /\ next[w] = Len(target) + 1
  /\ Stop(w)

\* A worker is killed, or reads another input than the others did.
Disturb == calm' = FALSE

Next ==
  \/ \E w \in Workers :
       \/ ClearAlone(w) \/ ClearAmongOthers(w) \/ Load(w)
       \/ Insert(w) \/ Refuse(w) \/ Finish(w)
  \/ Disturb

Spec == Init /\ [][Next]_vars

-----------------------------------------------------------------------------
Rows == {target[k] : k \in 1 .. Len(target)}

\* When all commands have ended, whether well or refused, the rows are there:
\* overlapping commands may make each other fail, but never all of them, and
\* those that fail take nothing away from what the others leave.
Complete == calm /\ Idle => planned /\ present = Rows

=============================================================================
