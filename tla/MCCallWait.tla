------------------------------ MODULE MCCallWait ------------------------------
(* Small instances of CallWait for TLC; their values are in the .cfg files. *)
EXTENDS CallWait
===============================================================================
