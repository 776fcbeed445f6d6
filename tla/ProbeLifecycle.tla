--------------------------- MODULE ProbeLifecycle ---------------------------
(***************************************************************************)
(* What the probe queue promises about each job when runs do not overlap:  *)
(* the life of a job, without runs, rows, leases, clocks or observations.  *)
(* A job is submitted once, is picked up, and each pick-up costs one try;  *)
(* a try ends the job or sends it back to wait, at most MaxTries times in  *)
(* all.  A job that waits or runs may be suspended, and then stays so.     *)
(* A job whose run died stays where it is.                                 *)
(***************************************************************************)
EXTENDS Integers

CONSTANTS
  Jobs,      \* job ids
  MaxTries   \* how often a job may be tried

VARIABLES
  phase,     \* the phase of each job
  tries      \* how many tries of each job have an answer

Waiting == {"pending", "retry_wait"}
Phases == {"new", "running", "success", "failed", "suspended"} \cup Waiting

Init ==
  /\ phase = [j \in Jobs |-> "new"]
  /\ tries = [j \in Jobs |-> 0]

\* All jobs of S change to the given phase.
MoveAll(S, newPhase) ==
  /\ phase' = [j \in Jobs |-> IF j \in S THEN newPhase ELSE phase[j]]
  /\ UNCHANGED tries

Submit(j) ==
  /\ phase[j] = "new"
  /\ MoveAll({j}, "pending")

\* A run picks up some waiting jobs at once.
Pick(S) ==
  /\ \A j \in S : phase[j] \in Waiting
  /\ MoveAll(S, "running")

\* The answer to a try: the job is settled, or waits if a try is left.
Answer(j, newPhase) ==
  /\ phase[j] = "running"
  /\ newPhase \in {"success", "failed", "retry_wait"}
  /\ newPhase = "retry_wait" => tries[j] + 1 < MaxTries
  /\ phase' = [phase EXCEPT ![j] = newPhase]
  /\ tries' = [tries EXCEPT ![j] = @ + 1]

Suspend(S) ==
  /\ \A j \in S : phase[j] \in Waiting \cup {"running"}
  /\ MoveAll(S, "suspended")

Next ==
  \/ \E j \in Jobs : \/ Submit(j)
                     \/ \E newPhase \in Phases : Answer(j, newPhase)
  \/ \E S \in SUBSET Jobs : Pick(S) \/ Suspend(S)

Spec == Init /\ [][Next]_<<phase, tries>>

=============================================================================
