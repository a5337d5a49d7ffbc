---------------------------- MODULE MCObservations ----------------------------
(* Instances of Observations for TLC: nothing to define but the constants.     *)
EXTENDS Observations
===============================================================================
