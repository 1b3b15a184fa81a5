----------------------------- MODULE MCRuntime -----------------------------
(* The runtime with one component of each kind.                               *)
EXTENDS Runtime

Components == <<"storage", "vacuum", "server">>
=============================================================================
