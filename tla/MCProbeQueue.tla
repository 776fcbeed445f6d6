---------------------------- MODULE MCProbeQueue ----------------------------
(* Instances of ProbeQueue for TLC. *)
EXTENDS ProbeQueue, TLC

\* Values of the constants the cfg files cannot write.
TwoSurfaces == 1..2
OneSurface == {1}
AlwaysOpen == Times

\* Processes that run probe-cts are interchangeable.
RunnerSymmetry == Permutations(Runners)
=============================================================================
