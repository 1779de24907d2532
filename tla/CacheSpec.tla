------------------------------ MODULE CacheSpec ------------------------------
(***************************************************************************)
(* What the cache of one server promises, with no thread, lock or copy in  *)
(* sight: closing a file that is not cached makes it pending once more, a  *)
(* pending entry is worked off by caching its file (or by giving it up),   *)
(* and what is cached stays cached and is not queued again.                *)
(***************************************************************************)
EXTENDS Naturals

CONSTANTS Paths,
          MayFail   \* may the copy of a file fail?

VARIABLES cached,   \* files that have a copy
          pending   \* how many entries of each file wait for the data mover

cacheVars == <<cached, pending>>

CacheInit == cached = {} /\ pending = [p \in Paths |-> 0]

Enqueue(p) ==
    /\ p \notin cached
    /\ pending' = [pending EXCEPT ![p] = @ + 1]
    /\ UNCHANGED cached

Finish(p) ==
    /\ pending[p] > 0
    /\ pending' = [pending EXCEPT ![p] = @ - 1]
    /\ cached' = cached \cup {p} \/ (MayFail /\ UNCHANGED cached)

CacheNext == \E p \in Paths : Enqueue(p) \/ Finish(p)

\* Every entry is worked off some time.
CacheSpec == /\ CacheInit /\ [][CacheNext]_cacheVars
             /\ \A p \in Paths : WF_cacheVars(Finish(p))
==============================================================================
