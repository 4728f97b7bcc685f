--------------------------- MODULE MCSimulateData ---------------------------
(***************************************************************************)
(* 64-bit words scaled to 128 values and int to 16, so that ranges wrap,   *)
(* quotients are cut and times leave the signed half.  Printed values are  *)
(* 8 ("0.0000" with its quote marks) or 11 ("5000.0000") characters long.  *)
(* The belts have periods of 16, 24 and (by a product that wraps) 8, and   *)
(* one of zero.  A pause depends on three random numbers in a row: every   *)
(* such triple is tried, and repeats.                                      *)
(***************************************************************************)
EXTENDS WtTonnes

MCTimes == {0, 1, 2, 7, 13, 20, 62, 63}
MCSteps == 0 .. 8 \cup {31, 63}

S(metric, labels) == [metric |-> metric, labels |-> labels]

MCSeries ==
  {S("sin", {"group", "period", "scale"}), S("wt_tonnes", {"level", "width"}),
   S("ping_time_ms", {"group"}), S("bytes_received", {"host_lan"})}

MCNoise == {[k \in 0 .. LastBlock |-> f[k % 3]] : f \in [0 .. 2 -> 0 .. FINE]}
=============================================================================
