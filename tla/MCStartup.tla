------------------------------ MODULE MCStartup ------------------------------
(* An instance of Startup for TLC. *)
EXTENDS Startup, TLC

\* Server 0 may be started a second time.
OneRestart == (0 :> 2) @@ (1 :> 1)
=============================================================================
