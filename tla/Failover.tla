------------------------------ MODULE Failover ------------------------------
(***************************************************************************)
(* The threads of one client process around the failure detector: opens    *)
(* that time out are counted by server, and a server with TIMEOUT_LIMIT of *)
(* them is taken off the hash ring by the next pread or close that is      *)
(* routed to it.  The counters, the flags, fd_map and the ring are shared; *)
(* only the counters and flags are guarded, by timeout_mutex.              *)
(*                                                                         *)
(* Answers are abstracted to whether a server serves, fails every read, or *)
(* is dead; which descriptor a request names is the subject of RemoteFiles.*)
(* Concurrent use of fd_map is modelled at the granularity of its          *)
(* operations: that std::map tolerates it is assumed here.                 *)
(***************************************************************************)
EXTENDS Ring, Integers, FiniteSets

CONSTANTS
    Threads, Fds,
    DataDir,        \* paths below HVAC_DATA_DIR
    OtherPath,      \* a path elsewhere: never tracked
    EmptyPath,      \* the empty string, which operator[] inserts
    NoPath, NoThread,
    ModHost,        \* std::hash(path) % server count, used by opens and reads
    TimeoutLimit,   \* TIMEOUT_LIMIT
    Faulty,         \* bound: hosts that may fail
    Streams,        \* bound: descriptors that may be closed inside libc
    Watched         \* bound: threads whose calls CallsEnd follows

Hosts == 0 .. ServerCount - 1

ASSUME FailoverAssumption ==
    /\ Keys = DataDir \cup {EmptyPath}
    /\ ModHost \in [Keys -> Hosts]
    /\ TimeoutLimit \in Nat \ {0}
    /\ Faulty \subseteq Hosts /\ Streams \subseteq Fds /\ Watched \subseteq Threads
    /\ Fds # {} /\ NoThread \notin Threads
    /\ NoPath \notin Keys /\ OtherPath \notin Keys /\ NoPath # OtherPath
    /\ IsFiniteSet(Threads)

VARIABLES
    process,        \* "starting", "running" or "ended"
    added,          \* servers that initialize_hash_ring has added
    ring_,
    timeout_counters, failure_flags,
    timeout_mutex,  \* the thread that holds it
    fd_map,
    local,          \* the file that the kernel has open under a descriptor
    stale,          \* history: descriptors that libc closed while fd_map had them
    thread,         \* where each thread is: its call, and the host it chose
    health          \* of each server

mapVars == <<fd_map, local, stale>>
detectorVars == <<timeout_counters, failure_flags>>
vars == <<process, added, ring_, detectorVars, timeout_mutex, mapVars, thread, health>>

\* ConvertHostToNumber: "server1" is host 0.
ConvertHostToNumber(n) == n - 1
NodeOf(h) == h + 1

\* A thread: at is "opening", "exiting" (in exit(-1), after an open timed
\* out), or the stage of another call, which first "found" the descriptor
\* tracked, then "looked" its host up, may be "removing" the host, whose
\* replicas below r are erased, or is "waiting" for the answer.
Stages == {"idle", "opening", "exiting", "found", "looked", "removing", "waiting"}
Calls  == {"none", "open", "read", "pread", "seek", "close"}
Thread == [at : Stages, call : Calls, fd : Fds, host : Hosts, r : Nat]

IdleThread == [at |-> "idle", call |-> "none", fd |-> CHOOSE fd \in Fds : TRUE,
               host |-> 0, r |-> 0]

At(t, stage) == thread[t].at = stage
Running      == process = "running"
Tracked(fd)  == fd_map[fd] # NoPath

TypeOK ==
    /\ process \in {"starting", "running", "ended"}
    /\ added \in 0 .. ServerCount
    /\ DOMAIN ring_ \subseteq Nat /\ ring_ \in [DOMAIN ring_ -> Nodes]
    /\ timeout_counters \in [Hosts -> Nat]
    /\ failure_flags \in [Hosts -> BOOLEAN]
    /\ timeout_mutex \in Threads \cup {NoThread}
    /\ fd_map \in [Fds -> Keys \cup {NoPath}]
    /\ local \in [Fds -> DataDir \cup {OtherPath, NoPath}]
    /\ stale \subseteq Fds
    /\ thread \in [Threads -> Thread]
    /\ health \in [Hosts -> {"serving", "failing", "dead"}]

Init ==
    /\ process = "starting" /\ added = 0 /\ ring_ = EmptyRing
    /\ timeout_counters = [h \in Hosts |-> 0]
    /\ failure_flags = [h \in Hosts |-> FALSE]
    /\ timeout_mutex = NoThread
    /\ fd_map = [fd \in Fds |-> NoPath]
    /\ local = [fd \in Fds |-> NoPath] /\ stale = {}
    /\ thread = [t \in Threads |-> IdleThread]
    /\ health = [h \in Hosts |-> "serving"]

Release(fd)    == local' = [local EXCEPT ![fd] = NoPath] /\ stale' = stale \ {fd}
Return(t)      == thread' = [thread EXCEPT ![t] = IdleThread]
Goto(t, stage) == thread' = [thread EXCEPT ![t].at = stage]
Forget(fd)     == fd_map' = [fd_map EXCEPT ![fd] = NoPath]

-----------------------------------------------------------------------------
\* initialize_hash_ring fills the ring, server by server, before any call of
\* the application (Startup shows when that is so).
InitializeRing ==
    /\ process = "starting"
    /\ ring_' = With(ring_, added + 1)
    /\ added' = added + 1
    /\ process' = IF added' = ServerCount THEN "running" ELSE "starting"
    /\ UNCHANGED <<detectorVars, timeout_mutex, mapVars, thread, health>>

-----------------------------------------------------------------------------
(* Opens: routed by the modulo host, with a timeout.                       *)

Open(t, fd, p) ==
    /\ Running /\ At(t, "idle") /\ local[fd] = NoPath
    /\ local' = [local EXCEPT ![fd] = p]
    /\ \/ /\ p \in DataDir
          /\ fd_map' = [fd_map EXCEPT ![fd] = p]
          /\ stale' = stale \ {fd}
          /\ thread' = [thread EXCEPT ![t] = [at |-> "opening", call |-> "open", fd |-> fd,
                                              host |-> ModHost[p], r |-> 0]]
       \/ /\ p = OtherPath
          /\ UNCHANGED <<fd_map, stale, thread>>
    /\ UNCHANGED <<process, added, ring_, detectorVars, timeout_mutex, health>>

OpenAnswered(t) ==
    /\ Running /\ At(t, "opening") /\ health[thread[t].host] # "dead"
    /\ Return(t)
    /\ UNCHANGED <<process, added, ring_, detectorVars, timeout_mutex, mapVars, health>>

\* Slips: the open goes on as if it had been answered; the counter is lowered.
TimeoutGoesOn(t) ==
    /\ Running /\ At(t, "opening") /\ timeout_mutex = NoThread
    /\ timeout_counters' = [timeout_counters EXCEPT ![thread[t].host] = @ + 1]
    /\ Return(t)
    /\ UNCHANGED <<process, added, ring_, failure_flags, timeout_mutex, mapVars, health>>
TimeoutCountsDown(t) ==
    /\ Running /\ At(t, "opening") /\ timeout_mutex = NoThread
    /\ timeout_counters' = [timeout_counters EXCEPT ![thread[t].host] = @ - 1]
    /\ Goto(t, "exiting")
    /\ UNCHANGED <<process, added, ring_, failure_flags, timeout_mutex, mapVars, health>>

\* After five seconds the thread counts the timeout and calls exit(-1).
OpenTimesOut(t) ==
    /\ Running /\ At(t, "opening") /\ timeout_mutex = NoThread
    /\ timeout_counters' = [timeout_counters EXCEPT ![thread[t].host] = @ + 1]
    /\ Goto(t, "exiting")
    /\ UNCHANGED <<process, added, ring_, failure_flags, timeout_mutex, mapVars, health>>

\* exit() runs hvac_client_shutdown, which stops the progress thread and
\* deletes the ring.  Whatever the other threads still do with the deleted
\* ring (crash, or send a request to any server), they get no answer any more
\* and the process ends.
Shutdown(t) ==
    /\ Running /\ At(t, "exiting")
    /\ process' = "ended"
    /\ UNCHANGED <<added, ring_, detectorVars, timeout_mutex, mapVars, thread, health>>

-----------------------------------------------------------------------------
(* The other calls: routed by the ring (reads by the modulo host).         *)

\* A program does not use a descriptor whose open has not returned, nor close
\* one that another thread is using.
InUse(fd)   == \E u \in Threads : ~At(u, "idle") /\ thread[u].fd = fd
Opening(fd) == \E u \in Threads : (At(u, "opening") \/ At(u, "exiting")) /\ thread[u].fd = fd
Closing(fd) == \E u \in Threads : ~At(u, "idle") /\ thread[u].call = "close" /\ thread[u].fd = fd
MayUse(call, fd) == /\ ~Opening(fd) /\ ~Closing(fd)
                    /\ call = "close" => ~InUse(fd)

\* Slip: the call does not ask hvac_file_tracked.
BeginUnasked(t, call, fd) ==
    /\ Running /\ At(t, "idle") /\ local[fd] # NoPath /\ MayUse(call, fd)
    /\ thread' = [thread EXCEPT ![t] = [@ EXCEPT !.at = "found", !.call = call, !.fd = fd]]
    /\ UNCHANGED <<process, added, ring_, detectorVars, timeout_mutex, mapVars, health>>

\* hvac_file_tracked decides whether the call goes to a server; otherwise
\* only a close has an effect here, the kernel's.
Begin(t, call, fd) ==
    /\ Running /\ At(t, "idle") /\ local[fd] # NoPath /\ MayUse(call, fd)
    /\ \/ /\ Tracked(fd)
          /\ thread' = [thread EXCEPT ![t] =
                          [@ EXCEPT !.at = "found", !.call = call, !.fd = fd]]
          /\ UNCHANGED <<local, stale>>
       \/ /\ ~Tracked(fd) /\ call = "close"
          /\ Release(fd)
          /\ UNCHANGED thread
    /\ UNCHANGED <<process, added, ring_, detectorVars, timeout_mutex, fd_map, health>>

\* A close inside libc (fclose, after fdopen) passes no wrapper, as wrappers.c
\* compiles its fclose out: the kernel forgets the descriptor, fd_map does not.
Fclose(t, fd) ==
    /\ Running /\ At(t, "idle") /\ local[fd] # NoPath /\ MayUse("close", fd)
    /\ local' = [local EXCEPT ![fd] = NoPath]
    /\ stale' = IF Tracked(fd) THEN stale \cup {fd} ELSE stale \ {fd}
    /\ UNCHANGED <<process, added, ring_, detectorVars, timeout_mutex, fd_map, thread, health>>

\* fd_map[fd]: if another thread has erased the entry since, operator[]
\* inserts it again with an empty path.
PathAt(fd) == IF Tracked(fd) THEN fd_map[fd] ELSE EmptyPath

\* The host is looked up without a lock.  A read and a seek are forwarded.
Lookup(t) ==
    LET call == thread[t].call
        path == PathAt(thread[t].fd)
    IN
    /\ Running /\ At(t, "found")
    /\ call # "read" => CanGet(ring_)
    /\ fd_map' = [fd_map EXCEPT ![thread[t].fd] = path]
    /\ thread' = [thread EXCEPT ![t] =
                    [@ EXCEPT !.at = IF call \in {"read", "seek"} THEN "waiting" ELSE "looked",
                              !.host = IF call = "read" THEN ModHost[path]
                                       ELSE ConvertHostToNumber(GetNode(ring_, path))]]
    /\ UNCHANGED <<process, added, ring_, detectorVars, timeout_mutex, local, stale, health>>

\* GetNode throws on an empty ring, and may crash when another thread erases
\* points at that moment.
LookupFails(t) ==
    /\ Running /\ At(t, "found") /\ thread[t].call # "read"
    /\ ~CanGet(ring_) \/ timeout_mutex # NoThread
    /\ process' = "ended"
    /\ UNCHANGED <<added, ring_, detectorVars, timeout_mutex, mapVars, thread, health>>

\* Slip: the limit is compared off by one.
OverLimitEarly(h) == timeout_counters[h] >= TimeoutLimit - 1 /\ ~failure_flags[h]

OverLimit(h) == timeout_counters[h] >= TimeoutLimit /\ ~failure_flags[h]

\* A close ends with hvac_remove_fd erasing the entry and the kernel's close.
FinishClose(t) ==
    /\ Forget(thread[t].fd) /\ Release(thread[t].fd) /\ Return(t)

\* A pread and a close lock timeout_mutex and check the host they looked up.
Check(t) ==
    /\ Running /\ At(t, "looked") /\ timeout_mutex = NoThread
    /\ \/ /\ OverLimit(thread[t].host)
          /\ timeout_mutex' = t
          /\ thread' = [thread EXCEPT ![t].at = "removing", ![t].r = 0]
          /\ UNCHANGED mapVars
       \/ /\ ~OverLimit(thread[t].host)
          /\ \/ thread[t].call = "pread" /\ Goto(t, "waiting") /\ UNCHANGED mapVars
             \/ thread[t].call = "close" /\ FinishClose(t)
          /\ UNCHANGED timeout_mutex
    /\ UNCHANGED <<process, added, ring_, detectorVars, health>>

RemovedPoint(t) == Point(NodeOf(thread[t].host), thread[t].r)

\* Slips: the point after the replica's is erased; only the first replica is.
RemoveNextPoint(t) ==
    /\ Running /\ At(t, "removing") /\ thread[t].r < ReplicaCount
    /\ ring_' = WithoutPoints(ring_, {PointOf(ring_, RemovedPoint(t) + 1)})
    /\ thread' = [thread EXCEPT ![t].r = @ + 1]
    /\ UNCHANGED <<process, added, detectorVars, timeout_mutex, mapVars, health>>
RemoveFirstReplica(t) ==
    /\ Running /\ At(t, "removing") /\ thread[t].r < ReplicaCount
    /\ ring_' = WithoutPoints(ring_, {RemovedPoint(t)})
    /\ thread' = [thread EXCEPT ![t].r = ReplicaCount]
    /\ UNCHANGED <<process, added, detectorVars, timeout_mutex, mapVars, health>>

\* RemoveNode erases the server's points one after the other.
RemoveReplica(t) ==
    /\ Running /\ At(t, "removing") /\ thread[t].r < ReplicaCount
    /\ ring_' = WithoutPoints(ring_, {RemovedPoint(t)})
    /\ thread' = [thread EXCEPT ![t].r = @ + 1]
    /\ UNCHANGED <<process, added, detectorVars, timeout_mutex, mapVars, health>>

\* Slip: the flag is not set.
FinishRemovalUnflagged(t) ==
    /\ Running /\ At(t, "removing") /\ thread[t].r = ReplicaCount
    /\ timeout_mutex' = NoThread
    /\ Forget(thread[t].fd) /\ Return(t)
    /\ IF thread[t].call = "close" THEN Release(thread[t].fd) ELSE UNCHANGED <<local, stale>>
    /\ UNCHANGED <<process, added, ring_, detectorVars, health>>

\* The pread returns -1 and the descriptor is no longer tracked; a close is
\* over without its RPC.
FinishRemoval(t) ==
    /\ Running /\ At(t, "removing") /\ thread[t].r = ReplicaCount
    /\ failure_flags' = [failure_flags EXCEPT ![thread[t].host] = TRUE]
    /\ timeout_mutex' = NoThread
    /\ \/ /\ thread[t].call = "pread"
          /\ Forget(thread[t].fd) /\ Return(t) /\ UNCHANGED <<local, stale>>
       \/ thread[t].call = "close" /\ FinishClose(t)
    /\ UNCHANGED <<process, added, ring_, timeout_counters, health>>

\* Slip: the callback of a failed read does not signal.
AnsweredUnlessFailed(t) ==
    /\ Running /\ At(t, "waiting") /\ health[thread[t].host] = "serving"
    /\ Return(t)
    /\ UNCHANGED <<process, added, ring_, detectorVars, timeout_mutex, mapVars, health>>

\* A read that failed stops the tracking of the descriptor; a seek does not.
Answered(t) ==
    LET h == thread[t].host IN
    /\ Running /\ At(t, "waiting") /\ health[h] # "dead"
    /\ IF health[h] = "failing" /\ thread[t].call # "seek"
       THEN Forget(thread[t].fd)
       ELSE UNCHANGED fd_map
    /\ Return(t)
    /\ UNCHANGED <<process, added, ring_, detectorVars, timeout_mutex, local, stale, health>>

\* If Mercury reports that the server died, an assertion fails: that of the
\* caller, if HG_Forward reports it (for a close, after the detector was
\* checked), or that of the callback of an open or a read.  The callback of a
\* seek goes on.
Unanswered(t) ==
    /\ Running /\ health[thread[t].host] = "dead"
    /\ \/ /\ \/ At(t, "opening") \/ At(t, "waiting")
             \/ /\ At(t, "looked") /\ thread[t].call = "close"
                /\ timeout_mutex = NoThread /\ ~OverLimit(thread[t].host)
          /\ process' = "ended" /\ UNCHANGED thread
       \/ /\ At(t, "waiting") /\ thread[t].call = "seek"
          /\ Return(t) /\ UNCHANGED process
    /\ UNCHANGED <<added, ring_, detectorVars, timeout_mutex, mapVars, health>>

\* A server starts to fail its reads, or dies.
ServerFails(h) ==
    /\ Running /\ health[h] # "dead"
    /\ \E state \in {"failing", "dead"} : health' = [health EXCEPT ![h] = state]
    /\ UNCHANGED <<process, added, ring_, detectorVars, timeout_mutex, mapVars, thread>>

-----------------------------------------------------------------------------
\* What a thread, or the progress thread for it, does once its call has begun.
Step(t) ==
    \/ OpenAnswered(t) \/ OpenTimesOut(t) \/ Shutdown(t)
    \/ Lookup(t) \/ LookupFails(t)
    \/ Check(t) \/ RemoveReplica(t) \/ FinishRemoval(t)
    \/ Answered(t) \/ Unanswered(t)

\* What the application does with descriptors in a thread that is in no call.
Use(t) ==
    \/ \E fd \in Fds : \/ \E p \in DataDir \cup {OtherPath} : Open(t, fd, p)
                       \/ \E call \in Calls \ {"none", "open"} : Begin(t, call, fd)
    \/ \E fd \in Streams : Fclose(t, fd)

Next ==
    \/ InitializeRing
    \/ \E t \in Threads : Step(t) \/ Use(t)
    \/ \E h \in Faulty : ServerFails(h)

Spec == Init /\ [][Next]_vars

\* Every thread is scheduled, five seconds pass, the progress thread triggers
\* callbacks until it is stopped, and exit() ends the process.
FairSpec == Spec /\ \A t \in Threads : WF_vars(Step(t))

-----------------------------------------------------------------------------
(* The ring that the threads share is a HashRing: a removal takes effect   *)
(* when its first point is about to be erased.                             *)

Removing(h) == \E t \in Threads : At(t, "removing") /\ thread[t].host = h
Standing(h) == ~failure_flags[h] /\ ~Removing(h)
Members     == {n \in 1 .. added : Standing(ConvertHostToNumber(n))}
RemovedPoints == UNION {Points(NodeOf(h)) : h \in {g \in Hosts : Removing(g)}}

Shared == INSTANCE HashRing WITH
    ring_   <- WithoutPoints(ring_, RemovedPoints),
    members <- Members

SharedRing == Shared!RingSpec

-----------------------------------------------------------------------------
(* Safety.                                                                 *)

Exiting(h) == {t \in Threads : At(t, "exiting") /\ thread[t].host = h}

\* Only threads that are already in exit() have been counted
\* (hvac_comm_client.cpp:247-255): the counter of a process that goes on
\* living stays 0.
CountersCountExits == \A h \in Hosts : timeout_counters[h] = Cardinality(Exiting(h))

\* A server is flagged, or taken off the ring, only while at least
\* TIMEOUT_LIMIT threads whose open it did not answer are in exit()
\* (hvac_client.cpp:275).
RemovedAtLimit ==
    \A h \in Hosts : failure_flags[h] \/ Removing(h) => Cardinality(Exiting(h)) >= TimeoutLimit

\* The ring of the first servers as initialize_hash_ring builds it: a point of
\* several servers (names clash from eleven on) belongs to the last of them.
RingOf(last) ==
    [p \in UNION {Points(n) : n \in 1 .. last} |->
        CHOOSE n \in 1 .. last : p \in Points(n) /\ \A m \in n + 1 .. last : p \notin Points(m)]

WholeRing == RingOf(ServerCount)

\* No server that has or had the point p is being removed, or was.
Undisputed(p) == \A n \in 1 .. added : p \in Points(n) => Standing(ConvertHostToNumber(n))

\* The flags and the ring agree: a flagged server has lost all of its points,
\* and a point of servers of which none is removed is where it was put.
FlagsMatchRing ==
    /\ \A n \in 1 .. added :
          failure_flags[ConvertHostToNumber(n)] => Points(n) \cap DOMAIN ring_ = {}
    /\ \A p \in DOMAIN RingOf(added) :
          Undisputed(p) => p \in DOMAIN ring_ /\ ring_[p] = RingOf(added)[p]

\* A path whose point initially belonged to servers that still stand keeps its
\* route, even while the points of another server are erased one by one
\* (hvac_hashing.h:63-84): only then does a translated descriptor reach the
\* server that gave it out.
RoutesKept ==
    process # "starting" =>
        \A key \in Keys : Undisputed(PointOf(WholeRing, KeyHash[key])) =>
            CanGet(ring_) /\ GetNode(ring_, key) = GetNode(WholeRing, key)

\* As long as no thread is exiting, the detector has done nothing: every path
\* is routed as it was when the library was initialized.
DetectorIdle ==
    Running /\ (\A t \in Threads : ~At(t, "exiting")) =>
        /\ \A h \in Hosts : timeout_counters[h] = 0 /\ ~failure_flags[h]
        /\ ring_ = WholeRing

\* The detector, a failing read and the calls that looked their descriptor up
\* before may lose the path of an open file, or leave the empty path of
\* operator[] for it; but only once a server has failed or an open has timed
\* out (hvac_client.cpp:267, 295).  Else an open file below DataDir is tracked
\* by its own path, and a descriptor without one is not tracked: no call ever
\* brings an erased entry back, or finds that of another file.  The exception
\* is a descriptor that was closed inside libc while it was tracked, until it
\* is opened below DataDir or closed by close() (wrappers.c:348).
Disturbed == \/ \E h \in Hosts : health[h] # "serving"
             \/ \E t \in Threads : At(t, "exiting")
PathsKept ==
    \A fd \in Fds \ stale :
        \/ fd_map[fd] = IF local[fd] \in DataDir THEN local[fd] ELSE NoPath
        \/ Disturbed /\ local[fd] \in DataDir /\ fd_map[fd] \in {NoPath, EmptyPath}

\* A call that looks its host up after a removal is not sent to the removed
\* server; one that looked it up before still may be.
NoNewCallsToRemoved ==
    [][\A t \in Threads :
         /\ At(t, "found") /\ thread'[t].at \in {"looked", "waiting"}
         /\ thread[t].call # "read" /\ Running
         => ~failure_flags[thread'[t].host]]_vars

-----------------------------------------------------------------------------
(* Liveness.                                                               *)

\* Every call returns or the process ends, except that a call to a server that
\* is dead may wait for ever, unless it is an open.  As the threads are all
\* alike, the calls of one stand for those of each.
CallsEnd ==
    \A t \in Watched :
        ~At(t, "idle") ~> \/ At(t, "idle") \/ process = "ended"
                          \/ At(t, "waiting") /\ health[thread[t].host] = "dead"

=============================================================================
