--------------------------- MODULE FailoverProofs ---------------------------
(***************************************************************************)
(* Proofs about Failover, for any number of servers, threads, descriptors  *)
(* and paths, any TIMEOUT_LIMIT, and any hash functions, servers that      *)
(* share points included.                                                  *)
(***************************************************************************)
EXTENDS Failover, RingProofs, FiniteSetTheorems

-----------------------------------------------------------------------------
(* The inductive invariant.                                                *)

\* Before the ring is complete no thread has begun a call.
StartInv ==
    /\ process = "starting" => /\ added < ServerCount
                               /\ \A t \in Threads : At(t, "idle")
                               /\ \A h \in Hosts : ~failure_flags[h]
    /\ process # "starting" => added = ServerCount

\* Only tracked calls look a host up, only preads and closes check the
\* detector, and the thread that removes a server holds timeout_mutex.
StageInv ==
    \A t \in Threads :
        /\ At(t, "found") => thread[t].call \in Calls \ {"none", "open"}
        /\ At(t, "looked") \/ At(t, "removing") => thread[t].call \in {"pread", "close"}
        /\ At(t, "removing") => thread[t].r \in 0 .. ReplicaCount
        /\ At(t, "removing") <=> timeout_mutex = t

LimitInv ==
    \A h \in Hosts : failure_flags[h] \/ Removing(h) => timeout_counters[h] >= TimeoutLimit

\* The servers that have a point among those added, and the last of them.
LastOf(n, p, last) ==
    n \in 1 .. last /\ p \in Points(n) /\ \A m \in n + 1 .. last : p \notin Points(m)

\* Every point is held by the last added server whose point it is; the server
\* that is being removed is not flagged and has lost its replicas below r.
PointInv ==
    /\ \A p \in DOMAIN ring_ : LastOf(ring_[p], p, added)
    /\ \A t \in Threads : At(t, "removing") =>
          /\ ~failure_flags[thread[t].host]
          /\ \A q \in 0 .. thread[t].r - 1 : Point(NodeOf(thread[t].host), q) \notin DOMAIN ring_

\* The two halves of FlagsMatchRing.
FlaggedLost ==
    \A n \in 1 .. added :
        failure_flags[ConvertHostToNumber(n)] => Points(n) \cap DOMAIN ring_ = {}
UndisputedKept == \A n \in 1 .. added : \A p \in Points(n) : Undisputed(p) => p \in DOMAIN ring_

IInv == /\ TypeOK /\ StartInv /\ StageInv /\ CountersCountExits
        /\ LimitInv /\ PointInv /\ FlaggedLost /\ UndisputedKept

-----------------------------------------------------------------------------
LEMMA HostsNodes ==
    /\ \A n \in Nodes : ConvertHostToNumber(n) \in Hosts /\ NodeOf(ConvertHostToNumber(n)) = n
    /\ \A h \in Hosts : NodeOf(h) \in Nodes /\ ConvertHostToNumber(NodeOf(h)) = h
BY RingAssumption DEF Nodes, Hosts, ConvertHostToNumber, NodeOf

LEMMA AddedNodes ==
    ASSUME TypeOK, NEW n \in 1 .. added
    PROVE  n \in Nodes /\ ConvertHostToNumber(n) \in Hosts
<1>1. n \in Nodes
  BY RingAssumption DEF TypeOK, Nodes
<1> QED
  BY <1>1, HostsNodes

LEMMA IdleType == IdleThread \in Thread
<1>1. (CHOOSE fd \in Fds : TRUE) \in Fds
  BY FailoverAssumption
<1> QED
  BY <1>1, RingAssumption DEF IdleThread, Thread, Stages, Calls, Hosts

LEMMA PathAtType == ASSUME TypeOK, NEW fd \in Fds PROVE PathAt(fd) \in Keys
BY FailoverAssumption DEF TypeOK, PathAt, Tracked

\* The host that a lookup yields is the host of a server on the ring.
LEMMA LookupHost ==
    ASSUME TypeOK, CanGet(ring_), NEW path \in Keys
    PROVE  /\ PointOf(ring_, KeyHash[path]) \in DOMAIN ring_
           /\ GetNode(ring_, path) \in Nodes
           /\ ConvertHostToNumber(GetNode(ring_, path)) \in Hosts
<1>1. KeyHash[path] \in Nat
  BY RingAssumption
<1>2. PointOf(ring_, KeyHash[path]) \in DOMAIN ring_
  BY <1>1, PointOfRing DEF TypeOK
<1> QED
  BY <1>2, HostsNodes DEF TypeOK, GetNode

-----------------------------------------------------------------------------
(* Type correctness.                                                       *)

LEMMA InitType == Init => TypeOK
BY IdleType, RingAssumption DEF Init, TypeOK, EmptyRing, Hosts

LEMMA InitializeRingType == TypeOK /\ StartInv /\ InitializeRing => TypeOK'
<1> SUFFICES ASSUME TypeOK, StartInv, InitializeRing PROVE TypeOK'
  OBVIOUS
<1>1. added + 1 \in Nodes /\ added' \in 0 .. ServerCount
  BY RingAssumption DEF TypeOK, StartInv, InitializeRing, Nodes
<1>2. Points(added + 1) \subseteq Nat
  BY <1>1, PointsNat
<1>3. DOMAIN ring_' \subseteq Nat /\ ring_' \in [DOMAIN ring_' -> Nodes]
  BY <1>1, <1>2 DEF TypeOK, InitializeRing, With
<1> QED
  BY <1>1, <1>3 DEF TypeOK, InitializeRing, detectorVars, mapVars

LEMMA CallType ==
    ASSUME TypeOK, NEW t \in Threads, Use(t)
    PROVE  TypeOK'
<1>1. ASSUME NEW fd \in Fds, NEW p \in DataDir \cup {OtherPath}, Open(t, fd, p) PROVE TypeOK'
  <2>1. local' \in [Fds -> DataDir \cup {OtherPath, NoPath}]
    BY <1>1 DEF TypeOK, Open
  <2>2. fd_map' \in [Fds -> Keys \cup {NoPath}]
    BY <1>1, FailoverAssumption DEF TypeOK, Open
  <2>3. thread' \in [Threads -> Thread]
    BY <1>1, FailoverAssumption DEF TypeOK, Open, Thread, Stages, Calls
  <2>4. stale' \subseteq Fds
    BY <1>1 DEF TypeOK, Open
  <2> QED
    BY <1>1, <2>1, <2>2, <2>3, <2>4 DEF TypeOK, Open, detectorVars
<1>2. ASSUME NEW fd \in Fds, NEW call \in Calls, Begin(t, call, fd) PROVE TypeOK'
  <2>0. thread[t] \in Thread
    BY DEF TypeOK
  <2>1. thread' \in [Threads -> Thread]
    <3>1. CASE Tracked(fd)
      <4> DEFINE new == [thread[t] EXCEPT !.at = "found", !.call = call, !.fd = fd]
      <4>1. new \in Thread
        BY <2>0 DEF Thread, Stages
      <4>2. thread' = [thread EXCEPT ![t] = new]
        BY <1>2, <3>1 DEF Begin
      <4> HIDE DEF new
      <4> QED
        BY <4>1, <4>2 DEF TypeOK
    <3>2. CASE ~Tracked(fd)
      BY <1>2, <3>2 DEF TypeOK, Begin
    <3> QED
      BY <3>1, <3>2
  <2>2. local' \in [Fds -> DataDir \cup {OtherPath, NoPath}] /\ stale' \subseteq Fds
    BY <1>2 DEF TypeOK, Begin, Release
  <2> QED
    BY <1>2, <2>1, <2>2 DEF TypeOK, Begin, detectorVars
<1>3. ASSUME NEW fd \in Streams, Fclose(t, fd) PROVE TypeOK'
  <2>1. fd \in Fds
    BY FailoverAssumption
  <2> QED
    BY <1>3, <2>1 DEF TypeOK, Fclose, detectorVars
<1> QED
  BY <1>1, <1>2, <1>3 DEF Use

LEMMA LookupType == ASSUME TypeOK, NEW t \in Threads, Lookup(t) PROVE TypeOK'
<1> DEFINE path == PathAt(thread[t].fd)
           host == IF thread[t].call = "read" THEN ModHost[path]
                   ELSE ConvertHostToNumber(GetNode(ring_, path))
<1>1. thread[t] \in Thread /\ thread[t].fd \in Fds
  BY DEF TypeOK, Thread
<1>2. path \in Keys
  BY <1>1, PathAtType
<1>3. host \in Hosts
  BY <1>2, LookupHost, FailoverAssumption DEF Lookup
<1>4. fd_map' \in [Fds -> Keys \cup {NoPath}]
  BY <1>1, <1>2 DEF TypeOK, Lookup
<1>5. thread' = [thread EXCEPT ![t] =
                   [@ EXCEPT !.at = IF thread[t].call \in {"read", "seek"} THEN "waiting" ELSE "looked",
                             !.host = host]]
  BY DEF Lookup
<1> HIDE DEF host
<1>6. thread' \in [Threads -> Thread]
  BY <1>1, <1>3, <1>5 DEF TypeOK, Thread, Stages
<1> QED
  BY <1>4, <1>6 DEF TypeOK, Lookup, detectorVars

LEMMA StepType == ASSUME TypeOK, NEW t \in Threads, Step(t) PROVE TypeOK'
<1> USE IdleType
<1>0. thread[t] \in Thread /\ thread[t].fd \in Fds /\ thread[t].host \in Hosts
  BY DEF TypeOK, Thread
<1>1. CASE OpenAnswered(t)
  BY <1>1 DEF TypeOK, OpenAnswered, Return, detectorVars, mapVars
<1>2. CASE OpenTimesOut(t)
  <2>1. timeout_counters' \in [Hosts -> Nat]
    BY <1>0, <1>2 DEF TypeOK, OpenTimesOut
  <2>2. thread' \in [Threads -> Thread]
    BY <1>0, <1>2 DEF TypeOK, OpenTimesOut, Goto, Thread, Stages
  <2> QED
    BY <1>2, <2>1, <2>2 DEF TypeOK, OpenTimesOut, mapVars
<1>3. CASE Shutdown(t)
  BY <1>3 DEF TypeOK, Shutdown, detectorVars, mapVars
<1>4. CASE Lookup(t)
  BY <1>4, LookupType
<1>5. CASE LookupFails(t)
  BY <1>5 DEF TypeOK, LookupFails, detectorVars, mapVars
<1>6. CASE Check(t)
  <2>1. thread' \in [Threads -> Thread]
    BY <1>0, <1>6 DEF TypeOK, Check, Goto, Return, FinishClose, Thread, Stages
  <2>2. /\ fd_map' \in [Fds -> Keys \cup {NoPath}]
        /\ local' \in [Fds -> DataDir \cup {OtherPath, NoPath}] /\ stale' \subseteq Fds
    BY <1>0, <1>6 DEF TypeOK, Check, FinishClose, Forget, Release, mapVars
  <2>3. timeout_mutex' \in Threads \cup {NoThread}
    BY <1>6 DEF TypeOK, Check
  <2> QED
    BY <1>6, <2>1, <2>2, <2>3 DEF TypeOK, Check, detectorVars
<1>7. CASE RemoveReplica(t)
  <2>1. thread' \in [Threads -> Thread]
    BY <1>0, <1>7 DEF TypeOK, RemoveReplica, Thread
  <2>2. DOMAIN ring_' \subseteq Nat /\ ring_' \in [DOMAIN ring_' -> Nodes]
    BY <1>7 DEF TypeOK, RemoveReplica, WithoutPoints
  <2> QED
    BY <1>7, <2>1, <2>2 DEF TypeOK, RemoveReplica, detectorVars, mapVars
<1>8. CASE FinishRemoval(t)
  <2>1. thread' \in [Threads -> Thread]
    BY <1>0, <1>8 DEF TypeOK, FinishRemoval, Return, FinishClose
  <2>2. /\ fd_map' \in [Fds -> Keys \cup {NoPath}]
        /\ local' \in [Fds -> DataDir \cup {OtherPath, NoPath}] /\ stale' \subseteq Fds
        /\ failure_flags' \in [Hosts -> BOOLEAN]
    BY <1>0, <1>8 DEF TypeOK, FinishRemoval, FinishClose, Forget, Release
  <2> QED
    BY <1>8, <2>1, <2>2 DEF TypeOK, FinishRemoval
<1>9. CASE Answered(t)
  BY <1>0, <1>9 DEF TypeOK, Answered, Return, Forget, detectorVars
<1>10. CASE Unanswered(t)
  BY <1>0, <1>10 DEF TypeOK, Unanswered, Return, detectorVars, mapVars
<1> QED
  BY <1>1, <1>2, <1>3, <1>4, <1>5, <1>6, <1>7, <1>8, <1>9, <1>10 DEF Step

LEMMA NextType == TypeOK /\ StartInv /\ [Next]_vars => TypeOK'
<1> SUFFICES ASSUME TypeOK, StartInv, [Next]_vars PROVE TypeOK'
  OBVIOUS
<1>1. ASSUME NEW h \in Faulty, ServerFails(h) PROVE TypeOK'
  BY <1>1, FailoverAssumption DEF TypeOK, ServerFails, detectorVars, mapVars
<1>2. CASE UNCHANGED vars
  BY <1>2 DEF TypeOK, vars, detectorVars, mapVars
<1> QED
  BY <1>1, <1>2, InitializeRingType, StepType, CallType DEF Next

-----------------------------------------------------------------------------
(* Most steps leave the ring, the flags and the lock alone.                *)

QuietStep(t) ==
    /\ UNCHANGED <<ring_, added, failure_flags, timeout_mutex>>
    /\ Running /\ process' \in {"running", "ended"}
    /\ \A u \in Threads : u # t => thread'[u] = thread[u]
    /\ ~At(t, "removing") /\ thread'[t].at # "removing"
    /\ thread'[t].at = "found" => thread'[t].call \in Calls \ {"none", "open"}
    /\ thread'[t].at = "looked" => thread'[t].call \in {"pread", "close"}

\* The step counts no timeout, and t neither enters nor leaves exit().
KeepsExits(t) ==
    /\ UNCHANGED timeout_counters
    /\ At(t, "exiting") \/ thread'[t].at = "exiting" => thread'[t] = thread[t]

LEMMA CallQuiet ==
    ASSUME IInv, NEW t \in Threads, Use(t)
    PROVE  QuietStep(t) /\ KeepsExits(t)
<1>0. thread \in [Threads -> Thread]
  BY DEF IInv, TypeOK
<1>1. ASSUME NEW fd \in Fds, NEW p \in DataDir \cup {OtherPath}, Open(t, fd, p)
      PROVE  QuietStep(t) /\ KeepsExits(t)
  BY <1>0, <1>1 DEF Open, QuietStep, KeepsExits, At, Running, detectorVars
<1>2. ASSUME NEW fd \in Fds, NEW call \in Calls \ {"none", "open"}, Begin(t, call, fd)
      PROVE  QuietStep(t) /\ KeepsExits(t)
  <2>1. CASE UNCHANGED thread
    BY <1>0, <1>2, <2>1 DEF Begin, QuietStep, KeepsExits, At, Running, detectorVars
  <2>2. CASE thread' = [thread EXCEPT ![t] =
                          [@ EXCEPT !.at = "found", !.call = call, !.fd = fd]]
    <3> DEFINE new == [thread[t] EXCEPT !.at = "found", !.call = call, !.fd = fd]
    <3>1. new.at = "found" /\ new.call = call
      BY <1>0 DEF Thread
    <3>2. thread' = [thread EXCEPT ![t] = new]
      BY <2>2
    <3> HIDE DEF new
    <3> QED
      BY <1>0, <1>2, <3>1, <3>2 DEF Begin, QuietStep, KeepsExits, At, Running, detectorVars
  <2> QED
    BY <1>2, <2>1, <2>2 DEF Begin
<1>3. ASSUME NEW fd \in Streams, Fclose(t, fd) PROVE QuietStep(t) /\ KeepsExits(t)
  BY <1>0, <1>3 DEF Fclose, QuietStep, KeepsExits, At, Running, detectorVars
<1> QED
  BY <1>1, <1>2, <1>3 DEF Use

LEMMA LookupQuiet ==
    ASSUME IInv, NEW t \in Threads, Lookup(t)
    PROVE  QuietStep(t) /\ KeepsExits(t)
<1> DEFINE call == thread[t].call
           new  == thread'[t]
<1>0. thread \in [Threads -> Thread] /\ call \in {"read", "pread", "seek", "close"}
  BY DEF IInv, TypeOK, StageInv, Calls, Lookup
<1>1. new.at = (IF call \in {"read", "seek"} THEN "waiting" ELSE "looked") /\ new.call = call
  BY <1>0 DEF Lookup, Thread
<1>2. \A u \in Threads : u # t => thread'[u] = thread[u]
  BY <1>0 DEF Lookup
<1>3. thread[t].at = "found"
  BY DEF Lookup, At
<1> HIDE DEF new
<1> QED
  BY <1>0, <1>1, <1>2, <1>3 DEF Lookup, QuietStep, KeepsExits, At, Running, detectorVars, new

\* The steps of a thread that do not begin or end a removal, and time out no open.
LEMMA StepQuiet ==
    ASSUME IInv, NEW t \in Threads,
           \/ OpenAnswered(t) \/ Shutdown(t) \/ Lookup(t) \/ LookupFails(t)
           \/ Check(t) /\ ~OverLimit(thread[t].host)
           \/ Answered(t) \/ Unanswered(t)
    PROVE  QuietStep(t) /\ KeepsExits(t)
<1>0. thread \in [Threads -> Thread]
  BY DEF IInv, TypeOK
<1>1. CASE OpenAnswered(t)
  BY <1>0, <1>1 DEF OpenAnswered, Return, IdleThread, QuietStep, KeepsExits, At, Running,
                    detectorVars
<1>2. CASE Shutdown(t)
  BY <1>0, <1>2 DEF Shutdown, QuietStep, KeepsExits, At, Running, detectorVars
<1>3. CASE Lookup(t)
  BY <1>3, LookupQuiet
<1>4. CASE LookupFails(t)
  BY <1>0, <1>4 DEF LookupFails, QuietStep, KeepsExits, At, Running, detectorVars, IInv, StageInv
<1>5. CASE Check(t) /\ ~OverLimit(thread[t].host)
  <2>1. thread[t] \in Thread
    BY <1>0
  <2>2. \/ thread' = [thread EXCEPT ![t].at = "waiting"]
        \/ thread' = [thread EXCEPT ![t] = IdleThread]
    BY <1>5 DEF Check, FinishClose, Goto, Return
  <2>3. thread'[t].at \in {"waiting", "idle"} /\ \A u \in Threads : u # t => thread'[u] = thread[u]
    BY <1>0, <2>1, <2>2 DEF Thread, IdleThread
  <2> QED
    BY <1>5, <2>3 DEF Check, QuietStep, KeepsExits, At, Running, detectorVars
<1>6. CASE Answered(t)
  BY <1>0, <1>6 DEF Answered, Return, IdleThread, QuietStep, KeepsExits, At, Running,
                    detectorVars
<1>7. CASE Unanswered(t)
  BY <1>0, <1>7 DEF Unanswered, Return, IdleThread, QuietStep, KeepsExits, At, Running,
                    detectorVars, IInv, StageInv
<1> QED
  BY <1>1, <1>2, <1>3, <1>4, <1>5, <1>6, <1>7

LEMMA QuietRemoving ==
    ASSUME NEW t \in Threads, QuietStep(t)
    PROVE  /\ \A u \in Threads : At(u, "removing")' <=> At(u, "removing")
           /\ \A u \in Threads : At(u, "removing") => thread'[u] = thread[u]
           /\ \A h : Removing(h)' <=> Removing(h)
BY DEF QuietStep, At, Removing

\* Such a step keeps everything but, perhaps, the counters.
LEMMA QuietInv ==
    ASSUME IInv, NEW t \in Threads, QuietStep(t)
    PROVE  StartInv' /\ StageInv' /\ PointInv' /\ FlaggedLost' /\ UndisputedKept'
<1>1. StartInv'
  BY DEF IInv, StartInv, QuietStep, Running
<1>2. StageInv'
  BY DEF IInv, StageInv, QuietStep, At
<1>3. PointInv'
  BY QuietRemoving DEF IInv, PointInv, QuietStep
<1>4. FlaggedLost' /\ UndisputedKept'
  BY QuietRemoving DEF IInv, FlaggedLost, UndisputedKept, Undisputed, Standing, QuietStep
<1> QED
  BY <1>1, <1>2, <1>3, <1>4

LEMMA KeepsExitsInv ==
    ASSUME IInv, NEW t \in Threads, KeepsExits(t), \A u \in Threads : u # t => thread'[u] = thread[u]
    PROVE  CountersCountExits'
<1>1. ASSUME NEW h \in Hosts PROVE Exiting(h)' = Exiting(h)
  BY DEF Exiting, At, KeepsExits
<1> QED
  BY <1>1 DEF IInv, CountersCountExits, KeepsExits

LEMMA QuietLimit ==
    ASSUME IInv, NEW t \in Threads, QuietStep(t), UNCHANGED timeout_counters
    PROVE  LimitInv'
BY QuietRemoving DEF IInv, LimitInv, QuietStep

LEMMA OpenTimesOutInv ==
    ASSUME IInv, TypeOK', NEW t \in Threads, OpenTimesOut(t)
    PROVE  IInv'
<1> DEFINE g == thread[t].host
<1>0. thread \in [Threads -> Thread] /\ thread[t] \in Thread /\ g \in Hosts
      /\ timeout_counters \in [Hosts -> Nat]
  BY DEF IInv, TypeOK, Thread
<1>1. /\ thread'[t].at = "exiting" /\ thread'[t].host = g
      /\ \A u \in Threads : u # t => thread'[u] = thread[u]
  BY <1>0 DEF OpenTimesOut, Goto, Thread
<1>2. QuietStep(t)
  BY <1>1 DEF OpenTimesOut, QuietStep, At, Running
<1>3. CountersCountExits'
  <2> SUFFICES ASSUME NEW h \in Hosts PROVE timeout_counters'[h] = Cardinality(Exiting(h)')
    BY DEF CountersCountExits
  <2>1. timeout_counters[h] = Cardinality(Exiting(h))
    BY DEF IInv, CountersCountExits
  <2>2. CASE h = g
    <3>1. Exiting(h)' = Exiting(h) \cup {t} /\ t \notin Exiting(h)
      BY <1>1, <2>2 DEF Exiting, At, OpenTimesOut
    <3>2. IsFiniteSet(Exiting(h))
      BY FS_Subset, FailoverAssumption DEF Exiting
    <3>3. Cardinality(Exiting(h)') = Cardinality(Exiting(h)) + 1
      BY <3>1, <3>2, FS_AddElement
    <3> QED
      BY <1>0, <2>1, <2>2, <3>3 DEF OpenTimesOut
  <2>3. CASE h # g
    <3>1. Exiting(h)' = Exiting(h)
      BY <1>1, <2>3 DEF Exiting, At, OpenTimesOut
    <3> QED
      BY <1>0, <2>1, <2>3, <3>1 DEF OpenTimesOut
  <2> QED
    BY <2>2, <2>3
<1>4. \A h \in Hosts : timeout_counters'[h] >= timeout_counters[h]
  BY <1>0 DEF OpenTimesOut
<1>5. LimitInv'
  BY <1>0, <1>2, <1>4, QuietRemoving, FailoverAssumption DEF IInv, TypeOK, LimitInv, QuietStep
<1> QED
  BY <1>2, <1>3, <1>5, QuietInv DEF IInv

-----------------------------------------------------------------------------
(* The steps that change the ring.                                         *)

LEMMA InitializeRingInv ==
    ASSUME IInv, TypeOK', InitializeRing
    PROVE  IInv'
<1> DEFINE new == added + 1
<1>0. added \in 0 .. ServerCount - 1 /\ new \in Nodes /\ added' = new /\ ServerCount \in Nat
  BY RingAssumption DEF IInv, TypeOK, StartInv, InitializeRing, Nodes
<1>1. /\ UNCHANGED <<thread, failure_flags, timeout_counters, timeout_mutex>>
      /\ \A t \in Threads : At(t, "idle")
      /\ \A h \in Hosts : ~failure_flags[h]
  BY DEF IInv, StartInv, InitializeRing, detectorVars
<1>2. StartInv'
  BY <1>0, <1>1 DEF StartInv, InitializeRing, At
<1>3. StageInv' /\ CountersCountExits'
  BY <1>1 DEF IInv, StageInv, CountersCountExits, Exiting, At
<1>4. \A h : ~Removing(h) /\ ~Removing(h)'
  BY <1>1 DEF Removing, At
<1>5. LimitInv'
  BY <1>1, <1>4 DEF LimitInv
<1>6. DOMAIN ring_' = DOMAIN ring_ \cup Points(new)
      /\ \A p \in DOMAIN ring_' : ring_'[p] = IF p \in Points(new) THEN new ELSE ring_[p]
  BY <1>0 DEF InitializeRing, With
<1>7. PointInv'
  <2>1. ASSUME NEW p \in DOMAIN ring_' PROVE LastOf(ring_'[p], p, added')
    <3>1. CASE p \in Points(new)
      BY <1>0, <1>6, <3>1 DEF LastOf
    <3>2. CASE p \notin Points(new)
      <4>1. p \in DOMAIN ring_ /\ ring_'[p] = ring_[p] /\ LastOf(ring_[p], p, added)
        BY <1>6, <2>1, <3>2 DEF IInv, PointInv
      <4> QED
        BY <1>0, <3>2, <4>1 DEF LastOf
    <3> QED
      BY <3>1, <3>2
  <2>2. \A t \in Threads : ~At(t, "removing")'
    BY <1>1 DEF At
  <2> QED
    BY <2>1, <2>2 DEF PointInv
<1>8. FlaggedLost'
  <2>1. \A n \in 1 .. added' : ConvertHostToNumber(n) \in Hosts
    BY <1>0, HostsNodes DEF Nodes
  <2> QED
    BY <1>1, <2>1 DEF FlaggedLost
<1>9. UndisputedKept'
  <2> SUFFICES ASSUME NEW n \in 1 .. added', NEW p \in Points(n) PROVE p \in DOMAIN ring_'
    BY DEF UndisputedKept
  <2>1. CASE n = new
    BY <1>6, <2>1
  <2>2. CASE n # new
    <3>1. n \in 1 .. added
      BY <1>0, <2>2
    <3>2. Undisputed(p)
      <4>1. \A m \in 1 .. added : ConvertHostToNumber(m) \in Hosts
        BY AddedNodes DEF IInv
      <4> QED
        BY <1>1, <1>4, <4>1 DEF Undisputed, Standing
    <3> QED
      BY <1>6, <3>1, <3>2 DEF IInv, UndisputedKept
  <2> QED
    BY <2>1, <2>2
<1> QED
  BY <1>2, <1>3, <1>5, <1>7, <1>8, <1>9 DEF IInv

\* The holder of timeout_mutex is the only thread that removes a server.
LEMMA OnlyHolderRemoves ==
    ASSUME StageInv, NEW t \in Threads, timeout_mutex \in {t, NoThread}
    PROVE  \A u \in Threads : u # t => ~At(u, "removing")
BY FailoverAssumption DEF StageInv

LEMMA StartRemovalInv ==
    ASSUME IInv, TypeOK', NEW t \in Threads, Check(t), OverLimit(thread[t].host)
    PROVE  /\ IInv'
           /\ \A h \in Hosts : ~Removing(h) /\ (Removing(h)' <=> h = thread[t].host)
<1> DEFINE g == thread[t].host
<1>0. thread[t] \in Thread /\ thread \in [Threads -> Thread] /\ g \in Hosts
  BY DEF IInv, TypeOK, Thread
<1>1. /\ thread'[t].at = "removing" /\ thread'[t].r = 0
      /\ thread'[t].host = g /\ thread'[t].call = thread[t].call
      /\ \A u \in Threads : u # t => thread'[u] = thread[u]
  BY <1>0 DEF Check, Thread
<1>2. /\ UNCHANGED <<process, added, ring_, failure_flags, timeout_counters>>
      /\ Running /\ At(t, "looked") /\ timeout_mutex = NoThread /\ timeout_mutex' = t
  BY DEF Check, detectorVars
<1>3. \A u \in Threads : ~At(u, "removing") /\ (At(u, "removing")' <=> u = t)
  BY <1>1, <1>2, OnlyHolderRemoves DEF IInv, At
<1>4. \A h \in Hosts : ~Removing(h) /\ (Removing(h)' <=> h = g)
  BY <1>1, <1>3 DEF Removing
<1>5. StartInv'
  BY <1>2 DEF IInv, StartInv, Running
<1>6. StageInv'
  BY <1>1, <1>2, <1>3, RingAssumption, FailoverAssumption DEF IInv, StageInv, At
<1>7. CountersCountExits'
  <2>1. ASSUME NEW h \in Hosts PROVE Exiting(h)' = Exiting(h)
    BY <1>1, <1>2 DEF Exiting, At
  <2> QED
    BY <1>2, <2>1 DEF IInv, CountersCountExits
<1>8. LimitInv'
  BY <1>2, <1>4 DEF IInv, LimitInv, OverLimit
<1>9. PointInv'
  BY <1>1, <1>2, <1>3 DEF IInv, PointInv, OverLimit
<1>10. FlaggedLost' /\ UndisputedKept'
  <2>1. \A n \in 1 .. added : ConvertHostToNumber(n) \in Hosts
    BY AddedNodes DEF IInv
  <2>2. FlaggedLost'
    BY <1>2 DEF IInv, FlaggedLost
  <2>3. ASSUME NEW p, Undisputed(p)' PROVE Undisputed(p)
    BY <1>2, <1>4, <2>1, <2>3 DEF Undisputed, Standing
  <2>4. UndisputedKept'
    BY <1>2, <2>3 DEF IInv, UndisputedKept
  <2> QED
    BY <2>2, <2>4
<1> QED
  BY <1>4, <1>5, <1>6, <1>7, <1>8, <1>9, <1>10 DEF IInv

LEMMA RemoveReplicaInv ==
    ASSUME IInv, TypeOK', NEW t \in Threads, RemoveReplica(t)
    PROVE  /\ IInv'
           /\ \A h \in Hosts : (Removing(h) <=> h = thread[t].host)
                              /\ (Removing(h)' <=> h = thread[t].host)
           /\ RemovedPoint(t) \in Points(NodeOf(thread[t].host))
<1> DEFINE g == thread[t].host
           n == NodeOf(g)
           r == thread[t].r
<1>0. thread[t] \in Thread /\ thread \in [Threads -> Thread] /\ g \in Hosts /\ n \in Nodes /\ r \in Nat
  BY HostsNodes DEF IInv, TypeOK, Thread
<1>1. /\ thread'[t].at = "removing" /\ thread'[t].r = r + 1
      /\ thread'[t].host = g /\ thread'[t].call = thread[t].call
      /\ \A u \in Threads : u # t => thread'[u] = thread[u]
  BY <1>0 DEF RemoveReplica, Thread, At
<1>2. /\ UNCHANGED <<process, added, failure_flags, timeout_counters, timeout_mutex>>
      /\ Running /\ At(t, "removing") /\ r < ReplicaCount
  BY DEF RemoveReplica, detectorVars
<1>3. timeout_mutex = t
  BY <1>2 DEF IInv, StageInv
<1>4. \A u \in Threads : (At(u, "removing") <=> u = t) /\ (At(u, "removing")' <=> u = t)
  BY <1>1, <1>2, <1>3, OnlyHolderRemoves DEF IInv, At
<1>5. \A h \in Hosts : (Removing(h) <=> h = g) /\ (Removing(h)' <=> h = g)
  BY <1>1, <1>4 DEF Removing
<1>6. /\ RemovedPoint(t) = Point(n, r)
      /\ RemovedPoint(t) \in Points(n)
      /\ DOMAIN ring_' = DOMAIN ring_ \ {Point(n, r)}
      /\ \A p \in DOMAIN ring_' : ring_'[p] = ring_[p]
  BY <1>0, <1>2, RingAssumption DEF RemoveReplica, WithoutPoints, RemovedPoint, Points, Replicas
<1>7. StartInv'
  BY <1>2 DEF IInv, StartInv, Running
<1>8. StageInv'
  BY <1>0, <1>1, <1>2, RingAssumption DEF IInv, StageInv, At
<1>9. CountersCountExits'
  <2>1. ASSUME NEW h \in Hosts PROVE Exiting(h)' = Exiting(h)
    BY <1>1, <1>2 DEF Exiting, At
  <2> QED
    BY <1>2, <2>1 DEF IInv, CountersCountExits
<1>10. LimitInv'
  BY <1>2, <1>5 DEF IInv, LimitInv
<1>11. PointInv'
  <2>1. \A p \in DOMAIN ring_' : LastOf(ring_'[p], p, added')
    BY <1>2, <1>6 DEF IInv, PointInv
  <2>2. ~failure_flags'[g]
    BY <1>2 DEF IInv, PointInv
  <2>3. ASSUME NEW q \in 0 .. r PROVE Point(n, q) \notin DOMAIN ring_'
    BY <1>0, <1>2, <1>6, <2>3 DEF IInv, PointInv
  <2>4. thread'[t].r - 1 = r
    BY <1>0, <1>1
  <2> QED
    BY <1>1, <1>4, <2>1, <2>2, <2>3, <2>4 DEF PointInv
<1>12. FlaggedLost'
  BY <1>2, <1>6 DEF IInv, FlaggedLost
<1>13. UndisputedKept'
  <2> SUFFICES ASSUME NEW m \in 1 .. added', NEW p \in Points(m), Undisputed(p)'
               PROVE  p \in DOMAIN ring_'
    BY DEF UndisputedKept
  <2>1. Undisputed(p)
    <3>1. \A k \in 1 .. added : ConvertHostToNumber(k) \in Hosts
      BY AddedNodes DEF IInv
    <3> QED
      BY <1>2, <1>5, <3>1 DEF Undisputed, Standing
  <2>2. p \in DOMAIN ring_
    BY <1>2, <2>1 DEF IInv, UndisputedKept
  <2>3. p \notin Points(n)
    <3>1. n \in 1 .. added /\ ConvertHostToNumber(n) = g
      BY <1>0, <1>2, HostsNodes DEF IInv, StartInv, Running, Nodes
    <3> QED
      BY <1>0, <1>5, <2>1, <3>1 DEF Undisputed, Standing
  <2> QED
    BY <1>6, <2>2, <2>3
<1> QED
  BY <1>5, <1>6, <1>7, <1>8, <1>9, <1>10, <1>11, <1>12, <1>13 DEF IInv

LEMMA FinishRemovalInv ==
    ASSUME IInv, TypeOK', NEW t \in Threads, FinishRemoval(t)
    PROVE  /\ IInv'
           /\ \A h \in Hosts : (Removing(h) <=> h = thread[t].host) /\ ~Removing(h)'
           /\ Points(NodeOf(thread[t].host)) \cap DOMAIN ring_ = {}
<1> DEFINE g == thread[t].host
           n == NodeOf(g)
<1>0. thread[t] \in Thread /\ thread \in [Threads -> Thread] /\ g \in Hosts /\ n \in Nodes
      /\ failure_flags \in [Hosts -> BOOLEAN]
  BY HostsNodes DEF IInv, TypeOK, Thread
<1>1. thread' = [thread EXCEPT ![t] = IdleThread]
  BY DEF FinishRemoval, FinishClose, Return
<1>2. thread'[t].at = "idle" /\ \A u \in Threads : u # t => thread'[u] = thread[u]
  BY <1>0, <1>1 DEF IdleThread
<1>3. /\ UNCHANGED <<process, added, ring_, timeout_counters>>
      /\ failure_flags' = [failure_flags EXCEPT ![g] = TRUE] /\ timeout_mutex' = NoThread
      /\ Running /\ At(t, "removing") /\ thread[t].r = ReplicaCount
  BY DEF FinishRemoval
<1>4. timeout_mutex = t
  BY <1>3 DEF IInv, StageInv
<1>5. \A u \in Threads : (At(u, "removing") <=> u = t) /\ ~At(u, "removing")'
  BY <1>2, <1>3, <1>4, OnlyHolderRemoves DEF IInv, At
<1>6. \A h \in Hosts : (Removing(h) <=> h = g) /\ ~Removing(h)'
  BY <1>5 DEF Removing
<1>7. Points(n) \cap DOMAIN ring_ = {}
  <2>1. \A q \in Replicas : Point(n, q) \notin DOMAIN ring_
    BY <1>3 DEF IInv, PointInv, Replicas
  <2> QED
    BY <2>1 DEF Points
<1>8. StartInv'
  BY <1>3 DEF IInv, StartInv, Running
<1>9. StageInv'
  BY <1>2, <1>3, <1>5, FailoverAssumption DEF IInv, StageInv, At
<1>10. CountersCountExits'
  <2>1. ASSUME NEW h \in Hosts PROVE Exiting(h)' = Exiting(h)
    BY <1>2, <1>3 DEF Exiting, At
  <2> QED
    BY <1>3, <2>1 DEF IInv, CountersCountExits
<1>11. LimitInv'
  BY <1>0, <1>3, <1>6 DEF IInv, LimitInv
<1>12. PointInv'
  BY <1>3, <1>5 DEF IInv, PointInv
<1>13. FlaggedLost'
  <2> SUFFICES ASSUME NEW m \in 1 .. added', failure_flags'[ConvertHostToNumber(m)]
               PROVE  Points(m) \cap DOMAIN ring_' = {}
    BY DEF FlaggedLost
  <2>1. m \in Nodes /\ ConvertHostToNumber(m) \in Hosts /\ m \in 1 .. added
    BY <1>3, AddedNodes DEF IInv
  <2>2. CASE ConvertHostToNumber(m) = g
    <3>1. m = n
      BY <2>1, <2>2, HostsNodes
    <3> QED
      BY <1>3, <1>7, <3>1
  <2>3. CASE ConvertHostToNumber(m) # g
    BY <1>0, <1>3, <2>1, <2>3 DEF IInv, FlaggedLost
  <2> QED
    BY <2>2, <2>3
<1>14. UndisputedKept'
  <2>1. \A m \in 1 .. added : ConvertHostToNumber(m) \in Hosts
    BY AddedNodes DEF IInv
  <2>2. \A h \in Hosts : Standing(h)' => Standing(h)
    BY <1>0, <1>3, <1>6 DEF Standing
  <2>3. ASSUME NEW p, Undisputed(p)' PROVE Undisputed(p)
    BY <1>3, <2>1, <2>2, <2>3 DEF Undisputed
  <2> QED
    BY <1>3, <2>3 DEF IInv, UndisputedKept
<1> QED
  BY <1>6, <1>7, <1>8, <1>9, <1>10, <1>11, <1>12, <1>13, <1>14 DEF IInv

-----------------------------------------------------------------------------
LEMMA InitInv == Init => IInv
<1> SUFFICES ASSUME Init PROVE IInv
  OBVIOUS
<1>1. TypeOK
  BY InitType
<1>2. \A t \in Threads : thread[t].at = "idle"
  BY DEF Init, IdleThread
<1>3. StartInv
  BY <1>2, RingAssumption DEF Init, StartInv, At
<1>4. StageInv
  BY <1>2, FailoverAssumption DEF Init, StageInv, At
<1>5. CountersCountExits
  <2>1. ASSUME NEW h \in Hosts PROVE Exiting(h) = {}
    BY <1>2 DEF Exiting, At
  <2> QED
    BY <2>1, FS_EmptySet DEF Init, CountersCountExits
<1>6. LimitInv
  BY <1>2 DEF Init, LimitInv, Removing, At
<1>7. PointInv
  BY <1>2 DEF Init, PointInv, EmptyRing, At
<1>8. FlaggedLost /\ UndisputedKept
  BY DEF Init, FlaggedLost, UndisputedKept
<1> QED
  BY <1>1, <1>3, <1>4, <1>5, <1>6, <1>7, <1>8 DEF IInv

LEMMA NextInv == IInv /\ [Next]_vars => IInv'
<1> SUFFICES ASSUME IInv, [Next]_vars PROVE IInv'
  OBVIOUS
<1>0. TypeOK'
  BY NextType DEF IInv
<1>1. ASSUME NEW t \in Threads, QuietStep(t), KeepsExits(t) PROVE IInv'
  <2>1. CountersCountExits'
    BY <1>1, KeepsExitsInv DEF QuietStep
  <2>2. LimitInv'
    BY <1>1, QuietLimit DEF KeepsExits
  <2> QED
    BY <1>0, <1>1, <2>1, <2>2, QuietInv DEF IInv
<1>2. ASSUME NEW t \in Threads, Step(t) PROVE IInv'
  BY <1>0, <1>1, <1>2, StepQuiet, OpenTimesOutInv, StartRemovalInv, RemoveReplicaInv,
     FinishRemovalInv DEF Step
<1>3. ASSUME NEW t \in Threads, Use(t) PROVE IInv'
  BY <1>1, <1>3, CallQuiet
<1>4. CASE UNCHANGED <<process, added, ring_, detectorVars, timeout_mutex, thread>>
  BY <1>0, <1>4 DEF IInv, StartInv, StageInv, CountersCountExits, LimitInv, PointInv, FlaggedLost,
     UndisputedKept, Undisputed, Exiting, Removing, Standing, At, detectorVars
<1>5. ASSUME NEW h \in Faulty, ServerFails(h) PROVE IInv'
  BY <1>4, <1>5 DEF ServerFails
<1>6. CASE UNCHANGED vars
  BY <1>4, <1>6 DEF vars
<1> QED
  BY <1>0, <1>2, <1>3, <1>5, <1>6, InitializeRingInv DEF Next

LEMMA IInvHolds == Spec => []IInv
BY InitInv, NextInv, PTL DEF Spec

-----------------------------------------------------------------------------
(* The theorems.                                                           *)

(***************************************************************************)
(* Every variable keeps its type.                                          *)
(***************************************************************************)
THEOREM TypeCorrect == Spec => []TypeOK
BY IInvHolds, PTL DEF IInv

(***************************************************************************)
(* A timeout counter counts threads inside exit(), and nothing else.       *)
(***************************************************************************)
THEOREM CountersCountExitsHolds == Spec => []CountersCountExits
BY IInvHolds, PTL DEF IInv

(***************************************************************************)
(* A server is taken off the ring only while TIMEOUT_LIMIT threads that it *)
(* let time out are inside exit().                                         *)
(***************************************************************************)
THEOREM RemovedAtLimitHolds == Spec => []RemovedAtLimit
<1>1. IInv => RemovedAtLimit
  BY DEF IInv, LimitInv, CountersCountExits, RemovedAtLimit
<1> QED
  BY <1>1, IInvHolds, PTL

\* The points and the holders of RingOf.
LEMMA RingOfPoints ==
    ASSUME NEW last \in Nat
    PROVE  /\ \A p : p \in DOMAIN RingOf(last) <=> \E n \in 1 .. last : p \in Points(n)
           /\ \A p, n : LastOf(n, p, last) => p \in DOMAIN RingOf(last) /\ RingOf(last)[p] = n
<1>1. \A p : p \in DOMAIN RingOf(last) <=> \E n \in 1 .. last : p \in Points(n)
  BY DEF RingOf
<1>2. ASSUME NEW p, NEW n, LastOf(n, p, last)
      PROVE  p \in DOMAIN RingOf(last) /\ RingOf(last)[p] = n
  <2> DEFINE k == CHOOSE k \in 1 .. last : p \in Points(k) /\ \A m \in k + 1 .. last : p \notin Points(m)
  <2>1. p \in DOMAIN RingOf(last)
    BY <1>1, <1>2 DEF LastOf
  <2>2. LastOf(k, p, last)
    BY <1>2 DEF LastOf
  <2>3. \A l : LastOf(l, p, last) => l = n
    BY <1>2 DEF LastOf
  <2>4. RingOf(last)[p] = k
    BY <2>1 DEF RingOf
  <2> QED
    BY <2>1, <2>2, <2>3, <2>4
<1> QED
  BY <1>1, <1>2

\* Points are erased, but never move to another server.
LEMMA RingIsPart ==
    ASSUME IInv, NEW p \in DOMAIN ring_
    PROVE  p \in DOMAIN RingOf(added) /\ ring_[p] = RingOf(added)[p]
BY RingOfPoints DEF IInv, PointInv, TypeOK

(***************************************************************************)
(* The failure flags and the ring agree.                                   *)
(***************************************************************************)
THEOREM FlagsMatchRingHolds == Spec => []FlagsMatchRing
<1>1. ASSUME IInv, NEW p \in DOMAIN RingOf(added), Undisputed(p)
      PROVE  p \in DOMAIN ring_ /\ ring_[p] = RingOf(added)[p]
  <2>1. p \in DOMAIN ring_
    BY <1>1, RingOfPoints DEF IInv, TypeOK, UndisputedKept
  <2> QED
    BY <1>1, <2>1, RingIsPart
<1>2. IInv => FlagsMatchRing
  BY <1>1 DEF IInv, FlaggedLost, FlagsMatchRing
<1> QED
  BY <1>2, IInvHolds, PTL

\* Erasing nothing leaves a ring as it is.
LEMMA NothingRemoved ==
    ASSUME NEW ring, ring = [p \in DOMAIN ring |-> ring[p]], NEW points, points \cap DOMAIN ring = {}
    PROVE  WithoutPoints(ring, points) = ring
<1>1. DOMAIN ring \ points = DOMAIN ring
  OBVIOUS
<1> QED
  BY <1>1 DEF WithoutPoints

\* The ring is the whole ring without the points that were erased.
LEMMA RingFromWhole ==
    ASSUME IInv, process # "starting"
    PROVE  ring_ = WithoutPoints(WholeRing, DOMAIN WholeRing \ DOMAIN ring_)
<1>1. WholeRing = RingOf(added)
  BY DEF IInv, StartInv, WholeRing
<1>2. \A p \in DOMAIN ring_ : p \in DOMAIN WholeRing /\ WholeRing[p] = ring_[p]
  BY <1>1, RingIsPart
<1>3. ring_ = [p \in DOMAIN ring_ |-> ring_[p]]
  BY DEF IInv, TypeOK
<1> QED
  BY <1>2, <1>3 DEF WithoutPoints

(***************************************************************************)
(* Consistent hashing for the threads that look up while another removes a *)
(* server: only paths whose point a removed server shares get new routes.  *)
(***************************************************************************)
THEOREM RoutesKeptHolds == Spec => []RoutesKept
<1>1. ASSUME IInv, process # "starting", NEW key \in Keys,
             Undisputed(PointOf(WholeRing, KeyHash[key]))
      PROVE  CanGet(ring_) /\ GetNode(ring_, key) = GetNode(WholeRing, key)
  <2> DEFINE h == KeyHash[key]
             p == PointOf(WholeRing, h)
             erased == DOMAIN WholeRing \ DOMAIN ring_
  <2>0. WholeRing = RingOf(added) /\ added = ServerCount /\ added \in Nat
    BY <1>1, RingAssumption DEF IInv, StartInv, WholeRing
  <2>1. h \in Nat /\ DOMAIN WholeRing \subseteq Nat
    <3>1. \A n \in 1 .. added : Points(n) \subseteq Nat
      BY <2>0, PointsNat DEF Nodes
    <3> QED
      BY <2>0, <3>1, RingAssumption, RingOfPoints
  <2>2. CanGet(WholeRing)
    <3>1. 1 \in 1 .. added /\ 0 \in Replicas
      BY <2>0, RingAssumption DEF Replicas
    <3>2. Point(1, 0) \in DOMAIN WholeRing
      BY <2>0, <3>1, RingOfPoints DEF Points
    <3> QED
      BY <3>2 DEF CanGet
  <2>3. p \in DOMAIN WholeRing
    BY <2>1, <2>2, PointOfRing
  <2>4. p \in DOMAIN ring_
    BY <1>1, <2>0, <2>3, RingOfPoints DEF IInv, UndisputedKept
  <2>5. ring_[p] = WholeRing[p]
    BY <1>1, <2>0, <2>4, RingIsPart
  <2>6. PointOf(WithoutPoints(WholeRing, erased), h) = p
    BY <2>1, <2>2, <2>4, PointKept
  <2>7. PointOf(ring_, h) = p
    BY <1>1, <2>6, RingFromWhole
  <2> QED
    BY <2>4, <2>5, <2>7 DEF CanGet, GetNode
<1>2. IInv => RoutesKept
  BY <1>1 DEF RoutesKept
<1> QED
  BY <1>2, IInvHolds, PTL

(***************************************************************************)
(* With up to ten servers, and if std::hash keeps the names of the virtual *)
(* nodes apart, a path keeps its route for as long as its server stands.   *)
(***************************************************************************)
THEOREM TenServersKeepRoutes ==
    ASSUME ServerCount <= 10, \A x, y \in Names : Hash[x] = Hash[y] => x = y
    PROVE  Spec => [](process # "starting" =>
              \A key \in Keys : Standing(ConvertHostToNumber(GetNode(WholeRing, key))) =>
                  CanGet(ring_) /\ GetNode(ring_, key) = GetNode(WholeRing, key))
<1> DEFINE Kept == process # "starting" =>
              \A key \in Keys : Standing(ConvertHostToNumber(GetNode(WholeRing, key))) =>
                  CanGet(ring_) /\ GetNode(ring_, key) = GetNode(WholeRing, key)
<1>1. DistinctPoints
  BY TenServersDistinct
<1>2. ASSUME IInv, RoutesKept, process # "starting", NEW key \in Keys,
             Standing(ConvertHostToNumber(GetNode(WholeRing, key)))
      PROVE  Undisputed(PointOf(WholeRing, KeyHash[key]))
  <2> DEFINE p == PointOf(WholeRing, KeyHash[key])
             n == WholeRing[p]
  <2>0. added = ServerCount /\ 1 .. added = Nodes
    BY <1>2 DEF IInv, StartInv, Nodes
  <2>1. ASSUME NEW m \in 1 .. added, p \in Points(m) PROVE m = n
    <3>1. LastOf(m, p, ServerCount)
      <4>1. ASSUME NEW k \in m + 1 .. ServerCount PROVE p \notin Points(k)
        <5>1. k \in Nodes /\ m \in Nodes /\ k # m
          BY <2>0, RingAssumption DEF Nodes
        <5> QED
          BY <1>1, <2>1, <5>1 DEF DistinctPoints
      <4> QED
        BY <2>0, <2>1, <4>1 DEF LastOf
    <3> QED
      BY <3>1, RingOfPoints, RingAssumption DEF WholeRing
  <2> QED
    BY <1>2, <2>1 DEF Undisputed, GetNode
<1>3. IInv /\ RoutesKept => Kept
  BY <1>2 DEF RoutesKept
<1> QED
  BY <1>3, IInvHolds, RoutesKeptHolds, PTL

(***************************************************************************)
(* In a process that is not about to end the detector has done nothing:    *)
(* the routes of RemoteFiles, a constant there, are indeed constant.       *)
(***************************************************************************)
THEOREM DetectorIdleHolds == Spec => []DetectorIdle
<1>1. IInv => DetectorIdle
  <2> SUFFICES ASSUME IInv, Running, \A t \in Threads : ~At(t, "exiting")
               PROVE  /\ \A h \in Hosts : timeout_counters[h] = 0 /\ ~failure_flags[h]
                      /\ ring_ = WholeRing
    BY DEF DetectorIdle
  <2>1. \A h \in Hosts : timeout_counters[h] = 0
    <3>1. \A h \in Hosts : Exiting(h) = {}
      BY DEF Exiting
    <3> QED
      BY <3>1, FS_EmptySet DEF IInv, CountersCountExits
  <2>2. \A h \in Hosts : ~failure_flags[h] /\ ~Removing(h)
    BY <2>1, FailoverAssumption DEF IInv, LimitInv
  <2>3. DOMAIN ring_ = DOMAIN WholeRing
    <3>1. WholeRing = RingOf(added) /\ added \in Nat
      BY DEF IInv, StartInv, Running, WholeRing, TypeOK
    <3>2. \A p : Undisputed(p)
      BY <2>2, AddedNodes DEF Undisputed, Standing, IInv
    <3>3. \A p \in DOMAIN WholeRing : p \in DOMAIN ring_
      BY <3>1, <3>2, RingOfPoints DEF IInv, UndisputedKept
    <3> QED
      BY <3>1, <3>3, RingIsPart
  <2>4. ring_ = WholeRing
    <3>1. DOMAIN WholeRing \ DOMAIN ring_ = {}
      BY <2>3
    <3>2. ring_ = WithoutPoints(WholeRing, {})
      BY <3>1, RingFromWhole DEF Running
    <3>3. WholeRing = [p \in DOMAIN WholeRing |-> WholeRing[p]]
      <4> DEFINE S == UNION {Points(n) : n \in 1 .. ServerCount}
                 holder(p) == CHOOSE n \in 1 .. ServerCount :
                                 p \in Points(n) /\ \A m \in n + 1 .. ServerCount : p \notin Points(m)
      <4>1. WholeRing = [p \in S |-> holder(p)]
        BY DEF WholeRing, RingOf
      <4> HIDE DEF S, holder
      <4> QED
        BY <4>1
    <3> QED
      BY <3>2, <3>3, NothingRemoved
  <2> QED
    BY <2>1, <2>2, <2>4
<1> QED
  BY <1>1, IInvHolds, PTL

\* Only a Lookup of its own takes a thread on from "found".
LEMMA OnlyLookup ==
    ASSUME IInv, Next, NEW t \in Threads, At(t, "found"), thread'[t].at \in {"looked", "waiting"}
    PROVE  Lookup(t)
<1>0. thread \in [Threads -> Thread]
  BY DEF IInv, TypeOK
<1>1. thread' # thread
  BY DEF At
<1>2. ASSUME NEW u \in Threads, Step(u) PROVE Lookup(t)
  <2>1. CASE UNCHANGED thread
    BY <1>1, <2>1
  <2>2. CASE u # t
    <3>1. thread'[t] = thread[t]
      BY <1>0, <1>2, <2>2 DEF Step, OpenAnswered, OpenTimesOut, Shutdown, Lookup, LookupFails, Check,
         RemoveReplica, FinishRemoval, Answered, Unanswered, Return, Goto, FinishClose
    <3> QED
      BY <3>1 DEF At
  <2>3. CASE u = t
    BY <1>1, <1>2, <2>3 DEF Step, OpenAnswered, OpenTimesOut, Shutdown, LookupFails, Check,
       RemoveReplica, FinishRemoval, Answered, Unanswered, At
  <2> QED
    BY <2>2, <2>3
<1>3. ASSUME NEW u \in Threads, Use(u) PROVE FALSE
  <2>1. At(u, "idle")
    BY <1>3 DEF Use, Open, Begin, Fclose
  <2>2. u # t
    BY <2>1 DEF At
  <2>3. thread'[t] = thread[t]
    BY <1>3, <2>2, CallQuiet DEF QuietStep
  <2> QED
    BY <2>3 DEF At
<1> QED
  BY <1>1, <1>2, <1>3 DEF Next, InitializeRing, ServerFails

(***************************************************************************)
(* A lookup never yields a server that was removed before it.              *)
(***************************************************************************)
THEOREM NoNewCallsToRemovedHolds == Spec => NoNewCallsToRemoved
<1> DEFINE Goal == \A t \in Threads :
                      /\ At(t, "found") /\ thread'[t].at \in {"looked", "waiting"}
                      /\ thread[t].call # "read" /\ Running
                      => ~failure_flags[thread'[t].host]
<1>1. ASSUME IInv, [Next]_vars PROVE [Goal]_vars
  <2> SUFFICES ASSUME Next, NEW t \in Threads, At(t, "found"),
                      thread'[t].at \in {"looked", "waiting"}, thread[t].call # "read"
               PROVE  ~failure_flags[thread'[t].host]
    BY <1>1
  <2> DEFINE path == PathAt(thread[t].fd)
             n    == GetNode(ring_, path)
             p    == PointOf(ring_, KeyHash[path])
  <2>0. thread \in [Threads -> Thread] /\ thread[t].fd \in Fds
    BY <1>1 DEF IInv, TypeOK, Thread
  <2>1. Lookup(t)
    BY <1>1, OnlyLookup
  <2>2. thread'[t].host = ConvertHostToNumber(n) /\ CanGet(ring_)
    BY <2>0, <2>1 DEF Lookup, Thread
  <2>3. path \in Keys
    BY <1>1, <2>0, PathAtType DEF IInv
  <2>4. p \in DOMAIN ring_ /\ n = ring_[p]
    BY <1>1, <2>2, <2>3, LookupHost DEF IInv, GetNode
  <2>5. n \in 1 .. added /\ p \in Points(n)
    BY <1>1, <2>4 DEF IInv, PointInv, LastOf
  <2> QED
    BY <1>1, <2>2, <2>4, <2>5 DEF IInv, FlaggedLost
<1> QED
  BY <1>1, IInvHolds, PTL DEF Spec, NoNewCallsToRemoved

-----------------------------------------------------------------------------
(* The shared ring is a HashRing.                                          *)

LEMMA RingFunction == ASSUME TypeOK PROVE ring_ = [p \in DOMAIN ring_ |-> ring_[p]]
BY DEF TypeOK

LEMMA InitRefines == Init => Shared!RingInit
<1> SUFFICES ASSUME Init PROVE Shared!RingInit
  OBVIOUS
<1>1. WithoutPoints(ring_, RemovedPoints) = EmptyRing
  BY DEF Init, EmptyRing, WithoutPoints
<1>2. Members = {}
  BY DEF Init, Members
<1> QED
  BY <1>1, <1>2 DEF Shared!RingInit, Shared!EmptyRing, EmptyRing

\* A step that keeps the ring, and whom it removes, is a stutter.
LEMMA QuietRefines ==
    ASSUME UNCHANGED <<ring_, added, failure_flags>>, \A h : Removing(h)' <=> Removing(h)
    PROVE  UNCHANGED Shared!ringVars
<1>1. RemovedPoints' = RemovedPoints /\ Members' = Members
  BY DEF RemovedPoints, Members, Standing
<1> QED
  BY <1>1 DEF Shared!ringVars, WithoutPoints

LEMMA SharedOperators ==
    /\ Shared!Nodes = Nodes
    /\ \A n : Shared!Points(n) = Points(n)
    /\ \A ring, n : Shared!With(ring, n) = With(ring, n) /\ Shared!Without(ring, n) = Without(ring, n)
<1>1. Shared!Nodes = Nodes
  BY DEF Shared!Nodes, Nodes
<1>2. ASSUME NEW n PROVE Shared!Points(n) = Points(n)
  BY DEF Shared!Points, Points, Shared!Point, Point, Shared!VirtualName, VirtualName,
     Shared!Replicas, Replicas
<1>3. ASSUME NEW ring, NEW n
      PROVE  Shared!With(ring, n) = With(ring, n) /\ Shared!Without(ring, n) = Without(ring, n)
  BY <1>2 DEF Shared!With, With, Shared!Without, Without, Shared!WithoutPoints, WithoutPoints
<1> QED
  BY <1>1, <1>2, <1>3

LEMMA InitializeRefines ==
    ASSUME IInv, IInv', InitializeRing
    PROVE  Shared!RingNext
<1> DEFINE new == added + 1
<1>0. added \in Nat /\ new \in Nodes /\ added' = new
  BY RingAssumption DEF IInv, TypeOK, StartInv, InitializeRing, Nodes
<1>1. /\ UNCHANGED <<thread, failure_flags>>
      /\ \A t \in Threads : ~At(t, "removing") /\ ~At(t, "removing")'
      /\ \A h \in Hosts : ~failure_flags[h] /\ ~failure_flags'[h]
  BY DEF IInv, StartInv, InitializeRing, detectorVars, At
<1>2. \A h : ~Removing(h) /\ ~Removing(h)'
  BY <1>1 DEF Removing
<1>3. RemovedPoints = {} /\ RemovedPoints' = {}
  BY <1>2 DEF RemovedPoints
<1>4. WithoutPoints(ring_, RemovedPoints) = ring_
  BY <1>3, RingFunction, NothingRemoved DEF IInv
<1>5. WithoutPoints(ring_, RemovedPoints)' = ring_'
  <2>1. ring_' = [p \in DOMAIN ring_' |-> ring_'[p]]
    BY DEF IInv, TypeOK
  <2> QED
    BY <1>3, <2>1, NothingRemoved
<1>6. Members = 1 .. added
  BY <1>1, <1>2, AddedNodes DEF Members, Standing, IInv
<1>7. Members' = 1 .. new
  <2>1. \A n \in 1 .. added' : ConvertHostToNumber(n) \in Hosts
    BY <1>0, HostsNodes, RingAssumption DEF Nodes
  <2> QED
    BY <1>0, <1>1, <1>2, <2>1 DEF Members, Standing
<1>8. Members' = Members \cup {new} /\ Members = 1 .. new - 1
  BY <1>0, <1>6, <1>7
<1>9. ring_' = With(ring_, new)
  BY DEF InitializeRing
<1>10. Shared!AddNext(new)
  BY <1>4, <1>5, <1>8, <1>9, SharedOperators DEF Shared!AddNext, Shared!AddNode
<1> QED
  BY <1>0, <1>10, SharedOperators DEF Shared!RingNext

LEMMA StartRemovalRefines ==
    ASSUME IInv, IInv', NEW t \in Threads, Check(t), OverLimit(thread[t].host),
           \A h \in Hosts : ~Removing(h) /\ (Removing(h)' <=> h = thread[t].host)
    PROVE  Shared!RingNext
<1> DEFINE g == thread[t].host
           n == NodeOf(g)
<1>0. g \in Hosts /\ n \in Nodes /\ ConvertHostToNumber(n) = g
  BY HostsNodes DEF IInv, TypeOK, Thread
<1>1. /\ UNCHANGED <<added, ring_, failure_flags>>
      /\ ~failure_flags[g] /\ Running
  BY DEF Check, detectorVars, OverLimit
<1>2. RemovedPoints = {} /\ RemovedPoints' = Points(n)
  BY <1>0 DEF RemovedPoints
<1>3. WithoutPoints(ring_, RemovedPoints) = ring_
  BY <1>2, RingFunction, NothingRemoved DEF IInv
<1>4. WithoutPoints(ring_, RemovedPoints)' = Without(ring_, n)
  BY <1>1, <1>2 DEF Without
<1>5. n \in Members
  BY <1>0, <1>1 DEF Members, Standing, IInv, StartInv, Running, Nodes
<1>6. Members' = Members \ {n}
  <2>1. \A m \in 1 .. added : ConvertHostToNumber(m) \in Hosts /\ (ConvertHostToNumber(m) = g <=> m = n)
    BY <1>0, AddedNodes, HostsNodes DEF IInv
  <2> QED
    BY <1>1, <2>1 DEF Members, Standing
<1>7. Shared!RemoveNode(n)
  BY <1>3, <1>4, <1>5, <1>6, SharedOperators DEF Shared!RemoveNode
<1> QED
  BY <1>0, <1>7, SharedOperators DEF Shared!RingNext

LEMMA RemoveReplicaRefines ==
    ASSUME IInv, IInv', NEW t \in Threads, RemoveReplica(t),
           \A h \in Hosts : (Removing(h) <=> h = thread[t].host) /\ (Removing(h)' <=> h = thread[t].host),
           RemovedPoint(t) \in Points(NodeOf(thread[t].host))
    PROVE  UNCHANGED Shared!ringVars
<1> DEFINE g == thread[t].host
<1>0. g \in Hosts
  BY DEF IInv, TypeOK, Thread
<1>1. UNCHANGED <<added, failure_flags>> /\ ring_' = WithoutPoints(ring_, {RemovedPoint(t)})
  BY DEF RemoveReplica, detectorVars
<1>2. RemovedPoints = Points(NodeOf(g)) /\ RemovedPoints' = Points(NodeOf(g))
  BY <1>0 DEF RemovedPoints
<1>3. WithoutPoints(ring_, RemovedPoints)' = WithoutPoints(ring_, RemovedPoints)
  <2>1. DOMAIN ring_' = DOMAIN ring_ \ {RemovedPoint(t)} /\ \A p \in DOMAIN ring_' : ring_'[p] = ring_[p]
    BY <1>1 DEF WithoutPoints
  <2>2. DOMAIN ring_' \ Points(NodeOf(g)) = DOMAIN ring_ \ Points(NodeOf(g))
    BY <2>1
  <2> QED
    BY <1>2, <2>1, <2>2 DEF WithoutPoints
<1>4. Members' = Members
  <2>1. \A m \in 1 .. added : ConvertHostToNumber(m) \in Hosts
    BY AddedNodes DEF IInv
  <2> QED
    BY <1>1, <2>1 DEF Members, Standing
<1> QED
  BY <1>3, <1>4 DEF Shared!ringVars

LEMMA FinishRemovalRefines ==
    ASSUME IInv, IInv', NEW t \in Threads, FinishRemoval(t),
           \A h \in Hosts : (Removing(h) <=> h = thread[t].host) /\ ~Removing(h)',
           Points(NodeOf(thread[t].host)) \cap DOMAIN ring_ = {}
    PROVE  UNCHANGED Shared!ringVars
<1> DEFINE g == thread[t].host
<1>0. g \in Hosts /\ failure_flags \in [Hosts -> BOOLEAN]
  BY DEF IInv, TypeOK, Thread
<1>1. UNCHANGED <<added, ring_>> /\ failure_flags' = [failure_flags EXCEPT ![g] = TRUE]
  BY DEF FinishRemoval
<1>2. RemovedPoints = Points(NodeOf(g)) /\ RemovedPoints' = {}
  BY <1>0 DEF RemovedPoints
<1>3. WithoutPoints(ring_, RemovedPoints) = ring_ /\ WithoutPoints(ring_, RemovedPoints)' = ring_'
  BY <1>1, <1>2, RingFunction, NothingRemoved DEF IInv
<1>4. Members' = Members
  <2>1. \A m \in 1 .. added : ConvertHostToNumber(m) \in Hosts
    BY AddedNodes DEF IInv
  <2> QED
    BY <1>0, <1>1, <2>1 DEF Members, Standing
<1> QED
  BY <1>1, <1>3, <1>4 DEF Shared!ringVars

(***************************************************************************)
(* Seen by its lookups, the ring that the threads share behaves as the     *)
(* HashRing of the specification of that name, although its points are     *)
(* erased one at a time: a server is removed when the removal begins.      *)
(***************************************************************************)
THEOREM SharedRingHolds == Spec => SharedRing
<1>1. ASSUME IInv, IInv', [Next]_vars PROVE [Shared!RingNext]_(Shared!ringVars)
  <2>1. ASSUME NEW t \in Threads, QuietStep(t) PROVE UNCHANGED Shared!ringVars
    BY <2>1, QuietRemoving, QuietRefines DEF QuietStep
  <2>2. ASSUME UNCHANGED <<added, ring_, failure_flags, thread>> PROVE UNCHANGED Shared!ringVars
    BY <2>2, QuietRefines DEF Removing, At
  <2>3. ASSUME NEW t \in Threads, OpenTimesOut(t) PROVE UNCHANGED Shared!ringVars
    <3>1. thread \in [Threads -> Thread]
      BY <1>1 DEF IInv, TypeOK
    <3>2. thread'[t].at = "exiting" /\ \A u \in Threads : u # t => thread'[u] = thread[u]
      BY <2>3, <3>1 DEF OpenTimesOut, Goto, Thread
    <3>3. QuietStep(t)
      BY <2>3, <3>2 DEF OpenTimesOut, QuietStep, At, Running
    <3> QED
      BY <2>1, <3>3
  <2>4. ASSUME NEW t \in Threads, Step(t) PROVE [Shared!RingNext]_(Shared!ringVars)
    BY <1>1, <2>1, <2>3, <2>4, StepQuiet, StartRemovalInv, StartRemovalRefines, RemoveReplicaInv,
       RemoveReplicaRefines, FinishRemovalInv, FinishRemovalRefines DEF Step, IInv
  <2>5. ASSUME NEW t \in Threads, Use(t) PROVE UNCHANGED Shared!ringVars
    BY <1>1, <2>1, <2>5, CallQuiet
  <2>6. ASSUME NEW h \in Faulty, ServerFails(h) PROVE UNCHANGED Shared!ringVars
    BY <2>2, <2>6 DEF ServerFails, detectorVars
  <2>7. CASE UNCHANGED vars
    BY <2>2, <2>7 DEF vars, detectorVars
  <2> QED
    BY <1>1, <2>4, <2>5, <2>6, <2>7, InitializeRefines DEF Next
<1> QED
  BY <1>1, InitRefines, IInvHolds, PTL DEF Spec, SharedRing, Shared!RingSpec

-----------------------------------------------------------------------------
(* What a process tracks.                                                  *)

\* PathsKept, for one descriptor.
Kept(fd) ==
    \/ fd \in stale
    \/ fd_map[fd] = IF local[fd] \in DataDir THEN local[fd] ELSE NoPath
    \/ Disturbed /\ local[fd] \in DataDir /\ fd_map[fd] \in {NoPath, EmptyPath}

\* Whoever is in a call uses an open file below DataDir, or a descriptor whose
\* entry is that of an earlier one; and who closes one is alone with it.
UseInv ==
    /\ \A t \in Threads : ~At(t, "idle") =>
          /\ local[thread[t].fd] # NoPath
          /\ thread[t].fd \in stale \/ local[thread[t].fd] \in DataDir
    /\ \A t, u \in Threads :
          t # u /\ ~At(t, "idle") /\ ~At(u, "idle") /\ thread[t].fd = thread[u].fd =>
             thread[t].call # "close"

KeptInv == (\A fd \in Fds : Kept(fd)) /\ UseInv

LEMMA UndisturbedLimits ==
    ASSUME IInv, ~Disturbed
    PROVE  \A t \in Threads : ~At(t, "removing")
<1>1. \A h \in Hosts : timeout_counters[h] = 0
  <2>1. \A h \in Hosts : Exiting(h) = {}
    BY DEF Exiting, Disturbed
  <2> QED
    BY <2>1, FS_EmptySet DEF IInv, CountersCountExits
<1>2. \A h \in Hosts : ~Removing(h)
  BY <1>1, FailoverAssumption DEF IInv, LimitInv
<1>3. \A t \in Threads : thread[t].host \in Hosts
  BY DEF IInv, TypeOK, Thread
<1> QED
  BY <1>2, <1>3 DEF Removing

\* A failed server stays failed, and a thread in exit() stays there.
LEMMA DisturbedStays == ASSUME IInv, Disturbed, Next PROVE Disturbed'
<1>0. thread \in [Threads -> Thread] /\ health \in [Hosts -> {"serving", "failing", "dead"}]
  BY DEF IInv, TypeOK
<1>1. ASSUME NEW h \in Hosts, health[h] # "serving" PROVE health'[h] # "serving"
  <2>1. ASSUME NEW g \in Faulty, ServerFails(g) PROVE health'[h] # "serving"
    BY <1>0, <1>1, <2>1 DEF ServerFails
  <2>2. ASSUME UNCHANGED health PROVE health'[h] # "serving"
    BY <1>1, <2>2
  <2>3. ASSUME NEW u \in Threads, Step(u) \/ Use(u) PROVE UNCHANGED health
    BY <2>3 DEF Step, OpenAnswered, OpenTimesOut, Shutdown, Lookup, LookupFails, Check, RemoveReplica,
       FinishRemoval, Answered, Unanswered, Use, Open, Begin, Fclose
  <2> QED
    BY <2>1, <2>2, <2>3 DEF Next, InitializeRing
<1>2. ASSUME NEW t \in Threads, At(t, "exiting") PROVE At(t, "exiting")'
  <2>1. ASSUME NEW u \in Threads, Use(u) PROVE thread'[t] = thread[t]
    BY <1>2, <2>1, CallQuiet DEF QuietStep, KeepsExits
  <2>2. ASSUME NEW u \in Threads, Step(u), u # t PROVE thread'[t] = thread[t]
    BY <1>0, <2>2 DEF Step, OpenAnswered, OpenTimesOut, Shutdown, Lookup, LookupFails, Check,
       RemoveReplica, FinishRemoval, Answered, Unanswered, Return, Goto, FinishClose
  <2>3. ASSUME Step(t) PROVE thread'[t] = thread[t]
    BY <1>2, <2>3 DEF At, Step, OpenAnswered, OpenTimesOut, Shutdown, Lookup, LookupFails, Check,
       RemoveReplica, FinishRemoval, Answered, Unanswered
  <2> QED
    BY <1>2, <2>1, <2>2, <2>3 DEF Next, InitializeRing, ServerFails, At
<1> QED
  BY <1>1, <1>2 DEF Disturbed

LEMMA KeptSame ==
    ASSUME NEW fd \in Fds, Kept(fd), Disturbed => Disturbed',
           fd_map'[fd] = fd_map[fd], local'[fd] = local[fd], fd \in stale => fd \in stale'
    PROVE  Kept(fd)'
BY DEF Kept

\* A thread goes on in its call, or returns, and leaves the files alone.
LEMMA UseMove ==
    ASSUME UseInv, NEW u \in Threads, ~At(u, "idle"), UNCHANGED <<local, stale>>,
           \A v \in Threads \ {u} : thread'[v] = thread[v],
           \/ thread'[u].at = "idle"
           \/ thread'[u].fd = thread[u].fd /\ thread'[u].call = thread[u].call
    PROVE  UseInv'
BY DEF UseInv, At

\* A descriptor that no other thread uses is closed.
LEMMA KeptClose ==
    ASSUME IInv, KeptInv, Disturbed => Disturbed', NEW u \in Threads, ~At(u, "idle"),
           thread[u].call = "close", FinishClose(u)
    PROVE  KeptInv'
<1> PICK fd \in Fds : fd = thread[u].fd
  BY DEF IInv, TypeOK, Thread
<1>0. thread \in [Threads -> Thread]
  BY DEF IInv, TypeOK, Thread
<1>1. thread' = [thread EXCEPT ![u] = IdleThread]
  BY DEF FinishClose, Return
<1>2. thread'[u].at = "idle" /\ \A v \in Threads \ {u} : thread'[v] = thread[v]
  BY <1>0, <1>1 DEF IdleThread
<1>3. fd_map'[fd] = NoPath /\ local'[fd] = NoPath
  BY <1>0 DEF IInv, TypeOK, FinishClose, Forget, Release
<1>4. \A f \in Fds \ {fd} :
         fd_map'[f] = fd_map[f] /\ local'[f] = local[f] /\ (f \in stale => f \in stale')
  BY <1>0 DEF IInv, TypeOK, FinishClose, Forget, Release
<1>5. Kept(fd)'
  BY <1>3, FailoverAssumption DEF Kept
<1>6. \A f \in Fds \ {fd} : Kept(f)'
  BY <1>4, KeptSame DEF KeptInv
<1>7. \A v \in Threads : ~At(v, "idle") /\ v # u => thread[v].fd \in Fds \ {fd}
  BY DEF KeptInv, UseInv, IInv, TypeOK, Thread
<1>8. UseInv'
  BY <1>2, <1>4, <1>7 DEF KeptInv, UseInv, At
<1> QED
  BY <1>5, <1>6, <1>8 DEF KeptInv

\* A call loses the path of its descriptor, or puts the empty one in its place.
LEMMA KeptLost ==
    ASSUME IInv, KeptInv, Disturbed => Disturbed', NEW u \in Threads, ~At(u, "idle"),
           UNCHANGED <<local, stale>>,
           NEW path \in {NoPath, EmptyPath}, fd_map' = [fd_map EXCEPT ![thread[u].fd] = path],
           Disturbed \/ thread[u].fd \in stale \/ path = fd_map[thread[u].fd]
    PROVE  \A f \in Fds : Kept(f)'
<1> PICK fd \in Fds : fd = thread[u].fd
  BY DEF IInv, TypeOK, Thread
<1>0. fd_map \in [Fds -> Keys \cup {NoPath}]
  BY DEF IInv, TypeOK, Thread
<1>1. fd_map'[fd] = path /\ \A f \in Fds \ {fd} : fd_map'[f] = fd_map[f]
  BY <1>0
<1>2. Kept(fd)'
  <2>1. fd \in stale \/ local[fd] \in DataDir
    BY DEF KeptInv, UseInv
  <2>2. CASE fd \in stale
    BY <2>2 DEF Kept
  <2>3. CASE Disturbed /\ local[fd] \in DataDir
    BY <1>1, <2>3 DEF Kept
  <2>4. CASE path = fd_map[fd]
    BY <1>0, <1>1, <2>4, KeptSame DEF KeptInv
  <2> QED
    BY <2>1, <2>2, <2>3, <2>4
<1> QED
  BY <1>1, <1>2, KeptSame DEF KeptInv

LEMMA KeptStep == ASSUME IInv, KeptInv, NEW u \in Threads, Step(u) PROVE KeptInv'
<1>0. /\ thread \in [Threads -> Thread] /\ fd_map \in [Fds -> Keys \cup {NoPath}]
      /\ thread[u].fd \in Fds /\ thread[u].host \in Hosts
  BY DEF IInv, TypeOK, Thread
<1>1. Disturbed => Disturbed'
  BY DisturbedStays DEF Next
<1>2. ASSUME UNCHANGED mapVars PROVE \A f \in Fds : Kept(f)'
  BY <1>1, <1>2, KeptSame DEF KeptInv, mapVars
<1>3. CASE UNCHANGED <<mapVars, thread>>
  BY <1>2, <1>3 DEF KeptInv, UseInv, At, mapVars
<1>4. CASE OpenAnswered(u) \/ OpenTimesOut(u)
  <2>1. ~At(u, "idle") /\ UNCHANGED mapVars
    BY <1>4 DEF OpenAnswered, OpenTimesOut, At
  <2>2. \A v \in Threads \ {u} : thread'[v] = thread[v]
    BY <1>0, <1>4 DEF OpenAnswered, OpenTimesOut, Return, Goto
  <2>3. \/ thread'[u].at = "idle"
        \/ thread'[u].fd = thread[u].fd /\ thread'[u].call = thread[u].call
    BY <1>0, <1>4 DEF OpenAnswered, OpenTimesOut, Return, Goto, IdleThread, Thread
  <2> QED
    BY <1>2, <2>1, <2>2, <2>3, UseMove DEF KeptInv, mapVars
<1>5. CASE Lookup(u)
  <2>1. ~At(u, "idle") /\ UNCHANGED <<local, stale>>
    BY <1>5 DEF Lookup, At
  <2>2. \A v \in Threads \ {u} : thread'[v] = thread[v]
    BY <1>0, <1>5 DEF Lookup
  <2>3. thread'[u].fd = thread[u].fd /\ thread'[u].call = thread[u].call
    BY <1>0, <1>5 DEF Lookup, Thread
  <2>4. UseInv'
    BY <2>1, <2>2, <2>3, UseMove DEF KeptInv
  <2>5. CASE Tracked(thread[u].fd)
    <3>1. fd_map' = fd_map
      BY <1>0, <1>5, <2>5 DEF Lookup, PathAt
    <3> QED
      BY <1>2, <2>1, <2>4, <3>1 DEF KeptInv, mapVars
  <2>6. CASE ~Tracked(thread[u].fd)
    <3>1. fd_map' = [fd_map EXCEPT ![thread[u].fd] = EmptyPath]
      BY <1>5, <2>6 DEF Lookup, PathAt
    <3>2. Disturbed \/ thread[u].fd \in stale
      BY <1>0, <2>1, <2>6, FailoverAssumption DEF KeptInv, UseInv, Kept, Tracked
    <3> QED
      BY <1>1, <2>1, <2>4, <3>1, <3>2, KeptLost DEF KeptInv
  <2> QED
    BY <2>5, <2>6
<1>6. CASE Check(u)
  <2>1. ~At(u, "idle")
    BY <1>6 DEF Check, At
  <2>2. CASE thread[u].call = "close" /\ FinishClose(u)
    BY <1>1, <2>1, <2>2, KeptClose
  <2>3. CASE ~(thread[u].call = "close" /\ FinishClose(u))
    <3>1. UNCHANGED mapVars /\ \A v \in Threads \ {u} : thread'[v] = thread[v]
      BY <1>0, <1>6, <2>3 DEF Check, Goto
    <3>2. thread'[u].fd = thread[u].fd /\ thread'[u].call = thread[u].call
      BY <1>0, <1>6, <2>3 DEF Check, Goto, Thread
    <3> QED
      BY <1>2, <2>1, <3>1, <3>2, UseMove DEF KeptInv, mapVars
  <2> QED
    BY <2>2, <2>3
<1>7. CASE RemoveReplica(u)
  <2>1. ~At(u, "idle") /\ UNCHANGED mapVars /\ \A v \in Threads \ {u} : thread'[v] = thread[v]
    BY <1>0, <1>7 DEF RemoveReplica, At
  <2>2. thread'[u].fd = thread[u].fd /\ thread'[u].call = thread[u].call
    BY <1>0, <1>7 DEF RemoveReplica, Thread
  <2> QED
    BY <1>2, <2>1, <2>2, UseMove DEF KeptInv, mapVars
<1>8. CASE FinishRemoval(u)
  <2>1. At(u, "removing") /\ ~At(u, "idle")
    BY <1>8 DEF FinishRemoval, At
  <2>2. Disturbed
    BY <2>1, UndisturbedLimits
  <2>3. CASE thread[u].call = "close" /\ FinishClose(u)
    BY <1>1, <2>1, <2>3, KeptClose
  <2>4. CASE /\ Forget(thread[u].fd) /\ Return(u) /\ UNCHANGED <<local, stale>>
    <3>1. thread'[u].at = "idle" /\ \A v \in Threads \ {u} : thread'[v] = thread[v]
      BY <1>0, <2>4 DEF Return, IdleThread
    <3>2. UseInv'
      BY <2>1, <2>4, <3>1, UseMove DEF KeptInv
    <3> QED
      BY <1>1, <2>1, <2>2, <2>4, <3>2, KeptLost DEF KeptInv, Forget
  <2> QED
    BY <1>8, <2>3, <2>4 DEF FinishRemoval
<1>9. CASE Answered(u)
  <2>1. ~At(u, "idle") /\ UNCHANGED <<local, stale>>
    BY <1>9 DEF Answered, At
  <2>2. thread'[u].at = "idle" /\ \A v \in Threads \ {u} : thread'[v] = thread[v]
    BY <1>0, <1>9 DEF Answered, Return, IdleThread
  <2>3. UseInv'
    BY <2>1, <2>2, UseMove DEF KeptInv
  <2>4. CASE UNCHANGED fd_map
    BY <1>2, <2>1, <2>3, <2>4 DEF KeptInv, mapVars
  <2>5. CASE Forget(thread[u].fd) /\ health[thread[u].host] = "failing"
    <3>1. Disturbed
      BY <1>0, <2>5 DEF Disturbed
    <3> QED
      BY <1>1, <2>1, <2>3, <2>5, <3>1, KeptLost DEF KeptInv, Forget
  <2> QED
    BY <1>9, <2>4, <2>5 DEF Answered
<1>10. CASE Unanswered(u) /\ thread' # thread
  <2>1. ~At(u, "idle") /\ UNCHANGED mapVars
    BY <1>10 DEF Unanswered, At
  <2>2. thread'[u].at = "idle" /\ \A v \in Threads \ {u} : thread'[v] = thread[v]
    BY <1>0, <1>10 DEF Unanswered, Return, IdleThread
  <2> QED
    BY <1>2, <2>1, <2>2, UseMove DEF KeptInv, mapVars
<1>11. Shutdown(u) \/ LookupFails(u) \/ (Unanswered(u) /\ thread' = thread) =>
         UNCHANGED <<mapVars, thread>>
  BY DEF Shutdown, LookupFails, Unanswered
<1> QED
  BY <1>3, <1>4, <1>5, <1>6, <1>7, <1>8, <1>9, <1>10, <1>11 DEF Step

LEMMA KeptOpen ==
    ASSUME IInv, KeptInv, Disturbed => Disturbed', NEW u \in Threads, NEW fd \in Fds,
           NEW p \in DataDir \cup {OtherPath}, Open(u, fd, p)
    PROVE  KeptInv'
<1>0. thread \in [Threads -> Thread]
  BY DEF IInv, TypeOK
<1>1. At(u, "idle") /\ local[fd] = NoPath
  BY DEF Open
<1>2. /\ \A v \in Threads \ {u} : thread'[v] = thread[v]
      /\ thread'[u].at = "idle" \/ (thread'[u].fd = fd /\ thread'[u].call = "open" /\ p \in DataDir)
  BY <1>0, <1>1 DEF Open, At
<1>3. /\ p # NoPath /\ (p \notin DataDir => p = OtherPath)
      /\ OtherPath \notin DataDir /\ NoPath \notin DataDir
  BY FailoverAssumption
<1>4. /\ \A f \in Fds \ {fd} : /\ fd_map'[f] = fd_map[f] /\ local'[f] = local[f]
                               /\ f \in stale => f \in stale'
      /\ local'[fd] = p
      /\ IF p \in DataDir THEN fd_map'[fd] = p ELSE UNCHANGED <<fd_map, stale>>
  BY <1>3 DEF Open, IInv, TypeOK
<1>5. Kept(fd)'
  <2>1. CASE p \in DataDir
    BY <1>4, <2>1 DEF Kept
  <2>2. CASE p \notin DataDir
    <3>1. fd \in stale \/ fd_map[fd] = NoPath
      BY <1>1, <1>3 DEF KeptInv, Kept
    <3> QED
      BY <1>4, <2>2, <3>1 DEF Kept
  <2> QED
    BY <2>1, <2>2
<1>6. \A f \in Fds \ {fd} : Kept(f)'
  BY <1>4, KeptSame DEF KeptInv
<1>7. \A v \in Threads : ~At(v, "idle") => thread[v].fd \in Fds \ {fd}
  BY <1>1 DEF KeptInv, UseInv, IInv, TypeOK, Thread
<1>8. UseInv'
  BY <1>1, <1>2, <1>3, <1>4, <1>7 DEF KeptInv, UseInv, At
<1> QED
  BY <1>5, <1>6, <1>8 DEF KeptInv

\* The kernel closes a descriptor that no thread uses; if it is tracked, its
\* entry is stale from then on.
LEMMA KeptRelease ==
    ASSUME IInv, KeptInv, Disturbed => Disturbed', NEW fd \in Fds, UNCHANGED <<fd_map, thread>>,
           local' = [local EXCEPT ![fd] = NoPath],
           \/ fd_map[fd] # NoPath /\ stale' = stale \cup {fd}
           \/ fd_map[fd] = NoPath /\ stale' = stale \ {fd},
           \A v \in Threads : ~At(v, "idle") => thread[v].fd # fd
    PROVE  KeptInv'
<1>1. local'[fd] = NoPath /\ \A f \in Fds \ {fd} : /\ local'[f] = local[f]
                                                   /\ f \in stale => f \in stale'
  BY DEF IInv, TypeOK
<1>2. Kept(fd)'
  BY <1>1, FailoverAssumption DEF Kept
<1>3. \A f \in Fds \ {fd} : Kept(f)'
  BY <1>1, KeptSame DEF KeptInv
<1>4. \A v \in Threads : ~At(v, "idle") => thread[v].fd \in Fds \ {fd}
  BY DEF IInv, TypeOK, Thread
<1>5. UseInv'
  BY <1>1, <1>4 DEF KeptInv, UseInv, At
<1> QED
  BY <1>2, <1>3, <1>5 DEF KeptInv

LEMMA KeptBegin ==
    ASSUME IInv, KeptInv, Disturbed => Disturbed', NEW u \in Threads, NEW fd \in Fds,
           NEW call \in Calls \ {"none", "open"}, Begin(u, call, fd)
    PROVE  KeptInv'
<1>0. thread \in [Threads -> Thread]
  BY DEF IInv, TypeOK
<1>1. At(u, "idle") /\ UNCHANGED fd_map /\ local[fd] # NoPath
  BY DEF Begin
<1>2. \A v \in Threads \ {u} : thread'[v] = thread[v]
  BY <1>0 DEF Begin
<1>3. CASE Tracked(fd)
  <2>1. thread'[u].fd = fd /\ thread'[u].call = call /\ UNCHANGED <<local, stale>>
    BY <1>0, <1>3 DEF Begin, Thread
  <2>2. \A f \in Fds : Kept(f)'
    BY <1>1, <2>1, KeptSame DEF KeptInv
  <2>3. fd \in stale \/ local[fd] \in DataDir
    BY <1>3 DEF KeptInv, Kept, Tracked
  <2>4. ASSUME NEW v \in Threads, v # u, ~At(v, "idle"), thread[v].fd = fd
        PROVE  call # "close" /\ thread[v].call # "close"
    BY <2>4 DEF Begin, MayUse, InUse, Closing
  <2>5. UseInv'
    BY <1>1, <1>2, <2>1, <2>3, <2>4 DEF KeptInv, UseInv, At
  <2> QED
    BY <2>2, <2>5 DEF KeptInv
<1>4. CASE ~Tracked(fd)
  <2>1. UNCHANGED thread /\ Release(fd) /\ call = "close"
    BY <1>4 DEF Begin
  <2>2. \A v \in Threads : ~At(v, "idle") => thread[v].fd # fd
    BY <2>1 DEF Begin, MayUse, InUse
  <2> QED
    BY <1>1, <1>4, <2>1, <2>2, KeptRelease DEF Release, Tracked
<1> QED
  BY <1>3, <1>4

LEMMA KeptFclose ==
    ASSUME IInv, KeptInv, Disturbed => Disturbed', NEW u \in Threads, NEW fd \in Streams,
           Fclose(u, fd)
    PROVE  KeptInv'
<1>1. fd \in Fds
  BY FailoverAssumption
<1>2. \A v \in Threads : ~At(v, "idle") => thread[v].fd # fd
  BY DEF Fclose, MayUse, InUse
<1> QED
  BY <1>1, <1>2, KeptRelease DEF Fclose, Tracked

(***************************************************************************)
(* Whatever servers and threads do, fd_map never has the path of another   *)
(* file for a descriptor, but for those that were closed inside libc; and  *)
(* while no server has failed and no open has timed out it loses none and  *)
(* brings none back.  Programs close no descriptor that a thread is using. *)
(***************************************************************************)
THEOREM PathsKeptHolds == Spec => []PathsKept
<1>1. Init => KeptInv
  <2> SUFFICES ASSUME Init PROVE KeptInv
    OBVIOUS
  <2>1. \A t \in Threads : At(t, "idle")
    BY DEF Init, At, IdleThread
  <2>2. NoPath \notin DataDir
    BY FailoverAssumption
  <2> QED
    BY <2>1, <2>2 DEF Init, KeptInv, Kept, UseInv
<1>2. IInv /\ KeptInv /\ [Next]_vars => KeptInv'
  <2> SUFFICES ASSUME IInv, KeptInv, [Next]_vars PROVE KeptInv'
    OBVIOUS
  <2>1. Next => (Disturbed => Disturbed')
    BY DisturbedStays
  <2>2. ASSUME Next, UNCHANGED <<mapVars, thread>> PROVE KeptInv'
    BY <2>1, <2>2, KeptSame DEF KeptInv, UseInv, At, mapVars
  <2>3. CASE InitializeRing \/ \E h \in Faulty : ServerFails(h)
    BY <2>2, <2>3 DEF Next, InitializeRing, ServerFails
  <2>4. ASSUME NEW u \in Threads, Step(u) PROVE KeptInv'
    BY <2>4, KeptStep
  <2>5. ASSUME NEW u \in Threads, Use(u) PROVE KeptInv'
    BY <2>1, <2>5, KeptOpen, KeptBegin, KeptFclose DEF Use, Next
  <2>6. CASE UNCHANGED vars
    BY <2>6 DEF vars, mapVars, KeptInv, Kept, UseInv, Disturbed, At
  <2> QED
    BY <2>3, <2>4, <2>5, <2>6 DEF Next
<1>3. KeptInv => PathsKept
  BY DEF KeptInv, Kept, PathsKept
<1> QED
  BY <1>1, <1>2, <1>3, IInvHolds, PTL DEF Spec

=============================================================================
