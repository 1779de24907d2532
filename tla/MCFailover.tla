----------------------------- MODULE MCFailover -----------------------------
(* A small instance of Failover for TLC. *)
EXTENDS Failover, TLC

CONSTANTS p1

\* The points of the virtual nodes of two servers alternate on the ring, but
\* for the last replicas, which share one.
TwoServers == [name \in Names |-> IF name % 10 = 2 THEN 15 ELSE (7 * name) % 23]
\* The tracked path lies just before a point of server 1, where its opens go
\* as well, the empty path before one of server 2.
PathHash   == (p1 :> 3) @@ (EmptyPath :> 2)
OpenHost   == (p1 :> 0) @@ (EmptyPath :> 1)
=============================================================================
