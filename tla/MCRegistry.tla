------------------------------ MODULE MCRegistry ------------------------------
(* An instance of Registry for TLC: two connections, each on an event loop of *)
(* its own.                                                                   *)
EXTENDS Registry, TLC

CONSTANTS c1, c2

TwoLoops == (c1 :> 1) @@ (c2 :> 2)
================================================================================
