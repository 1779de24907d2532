--------------------------- MODULE MCServerCache ---------------------------
(* A small instance of ServerCache for TLC; its values are in the .cfg. *)
EXTENDS ServerCache
=============================================================================
