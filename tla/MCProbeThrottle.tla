--------------------------- MODULE MCProbeThrottle ---------------------------
(* Instances of ProbeThrottle for TLC.  The liveness property rules symmetry  *)
(* out, and the instances are small without it.                               *)
EXTENDS ProbeThrottle
=============================================================================
