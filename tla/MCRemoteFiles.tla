--------------------------- MODULE MCRemoteFiles ---------------------------
(* Small instances of RemoteFiles for TLC. *)
EXTENDS RemoteFiles, TLC

CONSTANTS p1, p2, s1, s2

\* One server: both ways of choosing a host agree trivially.
OneHost == [p \in Paths |-> s1]
\* Two servers: a host for every path, and the other one.
SplitHost == (p1 :> s1) @@ (p2 :> s2)
CrossHost == (p1 :> s2) @@ (p2 :> s1)

\* Forwards and backwards, and beyond what is possible.
ShareSeeks == {<<-1, "cur">>, <<0, "end">>}
\* To positions that an int counts and to one that it does not, from the
\* beginning, the current position and the end.
LongSeeks == {<<1, "set">>, <<3, "set">>, <<-2, "cur">>, <<1, "cur">>, <<-1, "end">>}
\* Where an int holds -1 and 0, a seek to 2 arrives as one to 0.
WildSeeks == {<<2, "set">>}
NoSeeks   == {}

Symmetry == Permutations(Clients) \cup Permutations(Fds) \cup Permutations(RemoteFds)
\* With one host and every path tracked, paths are interchangeable as well.
OneHostSymmetry == Symmetry \cup Permutations(Paths)
=============================================================================
