------------------------------ MODULE MCWsBridge ------------------------------
(* An instance of WsBridge for TLC: nothing to define but the constants.   *)
EXTENDS WsBridge
===============================================================================
