------------------------------ MODULE MCRuntime ------------------------------
(* The runtime with every failure of its startup, and with none. *)
EXTENDS Runtime
=============================================================================
