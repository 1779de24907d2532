---------------------------- MODULE StartupProofs ----------------------------
(***************************************************************************)
(* Proofs about Startup, for any number of servers, threads and starts.    *)
(***************************************************************************)
EXTENDS Startup, TLAPS

\* The actions of servers, and what threads do.
ServerStep(h) == StartServer(h) \/ ListAddress(h) \/ RegisterServer(h) \/ CrashServer(h)
ThreadStep(t) == \/ \E h \in Targets : Begin(t, h)
                 \/ Step(t)
                 \/ CallbackAsserts(t) \/ LookupHostFails(t)
                 \/ \E u \in Threads : FillingRace(t, u)

LEMMA NextSteps == Next <=> \/ \E h \in Hosts : ServerStep(h)
                            \/ \E t \in Threads : ThreadStep(t)
BY DEF Next, ServerStep, ThreadStep

-----------------------------------------------------------------------------
(* The inductive invariant.                                                *)

Initializing == {"context", "register", "ring", "filling"}
PastCheck    == {"ring", "filling", "lookup", "create", "waiting"}

\* What holds however many threads initialize: who initializes has called
\* HG_Init, and who is past the check finds a class and a context.
StageInv ==
    /\ g_mercury_init => inits # {} /\ hg_context \in Context
    /\ inits # {} => hg_class \in inits
    /\ \A t \in Threads :
          /\ thread[t].at \in Initializing => t \in inits
          /\ t \in inits => thread[t].at \in {"context", "register"} \/ g_mercury_init
          /\ thread[t].at = "init" => t \notin inits
          /\ thread[t].at = "register" => hg_context \in Context
          /\ thread[t].at \in PastCheck => g_mercury_init

\* If only one thread initializes, Mercury is ready once the flag is set, and
\* nothing changes any more.
ReadyInv ==
    InitializedOnce =>
        /\ g_mercury_init => hg_context.class = hg_class /\ hg_class \in registered
        /\ \A t \in Threads :
              /\ thread[t].at = "register" => hg_context.class = hg_class
              /\ thread[t].at \in {"context", "register"} => ~g_mercury_init
              /\ thread[t].at = "create" => thread[t].class = hg_class
              /\ thread[t].at = "waiting" => Polled(t)

\* In an orderly start every line is a serving server's, and all serve before
\* the first open begins.
ListInv ==
    ordered =>
        /\ \A h \in Hosts : phase[h] \in {"listed", "serving"} => Listed(h)
        /\ \A i \in DOMAIN ports :
              /\ phase[ports[i].host] \in {"listed", "serving"}
              /\ ports[i].start = starts[ports[i].host]
ServingInv ==
    ordered => \A t \in Threads : thread[t].at # "idle" =>
        /\ \A h \in Hosts : phase[h] = "serving"
        /\ thread[t].at \in {"create", "waiting"} => thread[t].address # NoAddress
OutcomeInv == ordered /\ InitializedOnce => process \notin {"aborted", "crashed"}

IInv == /\ TypeOK /\ StageInv /\ ReadyInv /\ FirstListed
        /\ ListInv /\ ServingInv /\ OutcomeInv /\ RingComplete

-----------------------------------------------------------------------------
(* Type correctness.                                                       *)

\* A thread with a record of the right type in its place.
LEMMA ThreadType ==
    ASSUME TypeOK, NEW t \in Threads, NEW new \in Thread, thread' = [thread EXCEPT ![t] = new]
    PROVE  thread' \in [Threads -> Thread]
BY DEF TypeOK

LEMMA IdleType == ASSUME NEW opened \in BOOLEAN PROVE IdleThread(opened) \in Thread
BY StartupAssumption DEF IdleThread, Thread, Stages, Hosts, Nodes

LEMMA InitType == Init => TypeOK
<1> SUFFICES ASSUME Init PROVE TypeOK
  OBVIOUS
<1>1. thread \in [Threads -> Thread]
  BY IdleType DEF Init
<1>2. ports \in Seq(Address)
  BY DEF Init
<1>3. address_cache \in [Hosts -> Address \cup {NoAddress}]
  BY DEF Init
<1> QED
  BY <1>1, <1>2, <1>3 DEF Init, TypeOK

LEMMA ServerType == ASSUME TypeOK, NEW h \in Hosts, ServerStep(h) PROVE TypeOK'
<1>1. CASE StartServer(h)
  BY <1>1 DEF TypeOK, StartServer, mercuryVars
<1>2. CASE ListAddress(h)
  <2>1. [host |-> h, start |-> starts[h]] \in Address
    BY DEF TypeOK, Address
  <2>2. ports' \in Seq(Address)
    BY <1>2, <2>1 DEF TypeOK, ListAddress
  <2> QED
    BY <1>2, <2>2 DEF TypeOK, ListAddress, mercuryVars
<1>3. CASE RegisterServer(h)
  BY <1>3 DEF TypeOK, RegisterServer, mercuryVars
<1>4. CASE CrashServer(h)
  BY <1>4 DEF TypeOK, CrashServer, mercuryVars
<1> QED
  BY <1>1, <1>2, <1>3, <1>4 DEF ServerStep

\* Each change of a thread's record yields a record of the right type.
LEMMA RecordTypes ==
    ASSUME TypeOK, NEW t \in Threads
    PROVE  /\ \A stage \in Stages : [thread[t] EXCEPT !.at = stage] \in Thread
           /\ \A n \in Nodes, stage \in Stages :
                 [thread[t] EXCEPT !.at = stage, !.next = n] \in Thread
           /\ \A n \in Nodes : [thread[t] EXCEPT !.next = n] \in Thread
           /\ \A h \in Hosts, stage \in Stages :
                 [thread[t] EXCEPT !.host = h, !.at = stage] \in Thread
           /\ \A a \in Address \cup {NoAddress}, c \in Threads \cup {NoThread} :
                 [thread[t] EXCEPT !.address = a, !.class = c, !.at = "create"] \in Thread
           /\ \A x \in Context \cup {NoContext} :
                 [thread[t] EXCEPT !.at = "waiting", !.context = x, !.class = NoThread] \in Thread
<1>1. thread[t] \in Thread
  BY DEF TypeOK
<1> QED
  BY <1>1 DEF Thread, Stages

LEMMA ThreadStepType ==
    ASSUME TypeOK, StageInv, NEW t \in Threads, ThreadStep(t)
    PROVE  TypeOK'
<1>0. /\ thread[t].next \in Nodes /\ thread[t].host \in Hosts
      /\ 1 \in Nodes
  BY StartupAssumption DEF TypeOK, Thread, Nodes
<1>1. ASSUME NEW h \in Targets, Begin(t, h) PROVE TypeOK'
  <2>1. h \in Hosts
    BY StartupAssumption
  <2> DEFINE stage == IF g_mercury_init THEN "lookup" ELSE "init"
  <2>2. thread' = [thread EXCEPT ![t] = [thread[t] EXCEPT !.host = h, !.at = stage]]
    BY <1>1 DEF Begin, TypeOK
  <2>3. stage \in Stages
    BY DEF Stages
  <2> HIDE DEF stage
  <2>4. thread' \in [Threads -> Thread]
    BY <2>1, <2>2, <2>3, RecordTypes, ThreadType
  <2> QED
    BY <1>1, <2>4 DEF TypeOK, Begin, serverVars, mercuryVars
<1>2. CASE InitClass(t)
  <2>1. thread' \in [Threads -> Thread]
    BY <1>2, RecordTypes, ThreadType DEF InitClass, Goto, TypeOK, Stages
  <2> QED
    BY <1>2, <2>1 DEF TypeOK, InitClass, serverVars
<1>3. CASE CreateContext(t)
  <2>1. thread' \in [Threads -> Thread]
    BY <1>3, RecordTypes, ThreadType DEF CreateContext, Goto, TypeOK, Stages
  <2>2. hg_context' \in Context
    BY <1>3 DEF TypeOK, CreateContext, StageInv, Initializing, At, Context
  <2> QED
    BY <1>3, <2>1, <2>2 DEF TypeOK, CreateContext, serverVars
<1>4. CASE RegisterClient(t)
  <2>1. thread' \in [Threads -> Thread]
    BY <1>4, RecordTypes, ThreadType DEF RegisterClient, Goto, TypeOK, Stages
  <2> QED
    BY <1>4, <2>1 DEF TypeOK, RegisterClient, StageInv, Initializing, At, serverVars
<1>5. CASE NewRing(t)
  <2>1. thread' \in [Threads -> Thread]
    BY <1>0, <1>5, RecordTypes, ThreadType DEF NewRing, TypeOK, Stages
  <2> QED
    BY <1>5, <2>1 DEF TypeOK, NewRing, serverVars, mercuryVars
<1>6. CASE AddServer(t)
  <2>1. thread' \in [Threads -> Thread]
    <3>1. CASE thread[t].next < ServerCount
      <4>1. thread[t].next + 1 \in Nodes
        BY <1>0, <3>1, StartupAssumption DEF Nodes
      <4> QED
        BY <1>6, <3>1, <4>1, RecordTypes, ThreadType DEF AddServer, TypeOK
    <3>2. CASE ~(thread[t].next < ServerCount)
      BY <1>6, <3>2, RecordTypes, ThreadType DEF AddServer, Goto, TypeOK, Stages
    <3> QED
      BY <3>1, <3>2
  <2> QED
    BY <1>0, <1>6, <2>1 DEF TypeOK, AddServer, serverVars, mercuryVars
<1>7. CASE Lookup(t)
  <2>1. ASSUME NEW a \in Address \cup {NoAddress}, Target(t, a) PROVE thread' \in [Threads -> Thread]
    BY <2>1, RecordTypes, ThreadType DEF Target, TypeOK
  <2>2. address_cache[thread[t].host] \in Address \cup {NoAddress}
    BY <1>0 DEF TypeOK
  <2>3. \A i \in DOMAIN ports : ports[i] \in Address
    BY DEF TypeOK
  <2>4. thread' \in [Threads -> Thread] /\ process' \in {process, "crashed"}
    BY <1>7, <2>1, <2>2, <2>3 DEF Lookup, End, TypeOK
  <2>5. address_cache' \in [Hosts -> Address \cup {NoAddress}]
    BY <1>7, <2>3 DEF Lookup, TypeOK
  <2> QED
    BY <1>7, <2>4, <2>5 DEF TypeOK, Lookup, serverVars, mercuryVars
<1>8. CASE CreateHandle(t)
  <2> DEFINE new == [thread[t] EXCEPT !.at = "waiting", !.context = hg_context,
                                      !.class = NoThread]
  <2>0. new \in Thread
    BY RecordTypes DEF TypeOK
  <2> HIDE DEF new
  <2>1. CASE thread' = [thread EXCEPT ![t] = new] /\ UNCHANGED process
    BY <1>8, <2>0, <2>1, ThreadType DEF TypeOK, CreateHandle, serverVars, mercuryVars
  <2>2. CASE End("aborted")
    BY <1>8, <2>2 DEF TypeOK, End, CreateHandle, serverVars, mercuryVars
  <2>3. \/ thread' = [thread EXCEPT ![t] = new] /\ UNCHANGED process
        \/ End("aborted")
    BY <1>8 DEF CreateHandle, new, TypeOK
  <2> QED
    BY <2>1, <2>2, <2>3
<1>9. CASE OpenAnswered(t)
  <2>1. thread' \in [Threads -> Thread]
    BY <1>9, IdleType, ThreadType DEF OpenAnswered
  <2> QED
    BY <1>9, <2>1 DEF TypeOK, OpenAnswered, serverVars, mercuryVars
<1>10. CASE OpenTimesOut(t)
  BY <1>10 DEF TypeOK, OpenTimesOut, End, serverVars, mercuryVars
<1>11. CASE CallbackAsserts(t)
  BY <1>11 DEF TypeOK, CallbackAsserts, End, serverVars, mercuryVars
<1>12. CASE LookupHostFails(t)
  BY <1>12 DEF TypeOK, LookupHostFails, End, serverVars, mercuryVars
<1>13. ASSUME NEW u \in Threads, FillingRace(t, u) PROVE TypeOK'
  BY <1>13 DEF TypeOK, FillingRace, End, serverVars, mercuryVars
<1> QED
  BY <1>1, <1>2, <1>3, <1>4, <1>5, <1>6, <1>7, <1>8, <1>9, <1>10, <1>11, <1>12, <1>13
     DEF ThreadStep, Step

-----------------------------------------------------------------------------
(* Stages and the set-up of Mercury.                                       *)

\* The record of the thread that acts, and those of the others.
LEMMA ThreadFacts ==
    ASSUME TypeOK
    PROVE  /\ thread \in [Threads -> Thread]
           /\ \A t \in Threads : thread[t] \in Thread
BY DEF TypeOK

\* Servers leave the client alone.
LEMMA ServerKeeps ==
    ASSUME NEW h \in Hosts, ServerStep(h)
    PROVE  UNCHANGED <<ordered, process, mercuryVars, onRing, address_cache, thread>>
BY DEF ServerStep, StartServer, ListAddress, RegisterServer, CrashServer

\* A thread leaves the servers alone.
LEMMA ThreadKeeps ==
    ASSUME NEW t \in Threads, ThreadStep(t)
    PROVE  UNCHANGED <<ordered, serverVars>>
BY DEF ThreadStep, Step, Begin, InitClass, CreateContext, RegisterClient, NewRing, AddServer,
       Lookup, CreateHandle, OpenAnswered, OpenTimesOut, CallbackAsserts, LookupHostFails,
       FillingRace

\* What the actions with several outcomes do to the record of their thread;
\* others keep theirs.
Others(t) == \A u \in Threads \ {t} : thread'[u] = thread[u]

LEMMA BeginFacts ==
    ASSUME TypeOK, NEW t \in Threads, NEW h \in Targets, Begin(t, h)
    PROVE  /\ Others(t) /\ thread[t].at = "idle"
           /\ \/ g_mercury_init /\ thread'[t].at = "lookup"
              \/ ~g_mercury_init /\ thread'[t].at = "init"
<1> DEFINE stage == IF g_mercury_init THEN "lookup" ELSE "init"
           new   == [thread[t] EXCEPT !.host = h, !.at = stage]
<1>1. thread' = [thread EXCEPT ![t] = new]
  BY DEF Begin, TypeOK
<1>2. new.at = stage
  BY ThreadFacts DEF Thread
<1>3. \/ g_mercury_init /\ stage = "lookup"
      \/ ~g_mercury_init /\ stage = "init"
  OBVIOUS
<1> HIDE DEF stage
<1> QED
  BY <1>1, <1>2, <1>3 DEF Others, TypeOK, Begin, At

LEMMA AddServerFacts ==
    ASSUME TypeOK, NEW t \in Threads, AddServer(t)
    PROVE  /\ Others(t) /\ thread[t].at = "filling"
           /\ \/ /\ thread[t].next < ServerCount
                 /\ thread'[t].at = "filling" /\ thread'[t].next = thread[t].next + 1
              \/ /\ ~(thread[t].next < ServerCount)
                 /\ thread'[t].at = "lookup"
<1>0. thread \in [Threads -> Thread] /\ thread[t] \in Thread
  BY DEF TypeOK
<1>1. CASE thread[t].next < ServerCount
  BY <1>0, <1>1 DEF AddServer, Others, At, Thread
<1>2. CASE ~(thread[t].next < ServerCount)
  BY <1>0, <1>2 DEF AddServer, Others, At, Thread, Goto
<1> QED
  BY <1>1, <1>2

LEMMA LookupFacts ==
    ASSUME TypeOK, NEW t \in Threads, Lookup(t)
    PROVE  /\ Others(t) /\ thread[t].at = "lookup"
           /\ \/ /\ UNCHANGED <<thread, address_cache>>
                 /\ ~Listed(thread[t].host) /\ address_cache[thread[t].host] = NoAddress
              \/ /\ UNCHANGED process
                 /\ thread'[t].at = "create" /\ thread'[t].class = hg_class
                 /\ \/ /\ address_cache[thread[t].host] # NoAddress
                       /\ UNCHANGED address_cache
                       /\ thread'[t].address = address_cache[thread[t].host]
                    \/ /\ address_cache[thread[t].host] = NoAddress
                       /\ \E i \in DOMAIN ports :
                             /\ IsFirstLine(i, thread[t].host)
                             /\ address_cache' = [address_cache EXCEPT ![thread[t].host] = ports[i]]
                             /\ thread'[t].address = ports[i]
                    \/ /\ address_cache[thread[t].host] = NoAddress /\ ~Listed(thread[t].host)
                       /\ UNCHANGED address_cache
                       /\ thread'[t].address = NoAddress
<1>1. ASSUME NEW a, Target(t, a)
      PROVE  /\ Others(t) /\ thread'[t].at = "create" /\ thread'[t].class = hg_class
             /\ thread'[t].address = a
  <2> DEFINE new == [thread[t] EXCEPT !.address = a, !.class = hg_class, !.at = "create"]
  <2>1. thread' = [thread EXCEPT ![t] = new]
    BY <1>1 DEF Target, TypeOK
  <2>2. new.at = "create" /\ new.class = hg_class /\ new.address = a
    BY ThreadFacts DEF Thread
  <2> QED
    BY <2>1, <2>2 DEF Others, TypeOK
<1>2. CASE address_cache[thread[t].host] # NoAddress
  BY <1>1, <1>2 DEF Lookup, At
<1>3. ASSUME address_cache[thread[t].host] = NoAddress, NEW i \in DOMAIN ports,
             IsFirstLine(i, thread[t].host), UNCHANGED process, Target(t, ports[i]),
             address_cache' = [address_cache EXCEPT ![thread[t].host] = ports[i]]
      PROVE  /\ Others(t) /\ thread'[t].at = "create" /\ thread'[t].class = hg_class
             /\ thread'[t].address = ports[i]
  BY <1>1, <1>3
<1>4. CASE /\ address_cache[thread[t].host] = NoAddress /\ ~Listed(thread[t].host)
           /\ UNCHANGED address_cache
           /\ \/ Target(t, NoAddress) /\ UNCHANGED process
              \/ End("crashed")
  <2>1. CASE Target(t, NoAddress) /\ UNCHANGED process
    BY <1>1, <1>4, <2>1 DEF Lookup, At
  <2>2. CASE End("crashed")
    BY <1>4, <2>2 DEF Lookup, At, End, Others
  <2> QED
    BY <1>4, <2>1, <2>2
<1>5. At(t, "lookup")
  BY DEF Lookup
<1>6. CASE /\ address_cache[thread[t].host] = NoAddress /\ UNCHANGED process
           /\ \E i \in DOMAIN ports :
                 /\ IsFirstLine(i, thread[t].host)
                 /\ address_cache' = [address_cache EXCEPT ![thread[t].host] = ports[i]]
                 /\ Target(t, ports[i])
  BY <1>3, <1>5, <1>6 DEF At
<1> QED
  BY <1>2, <1>4, <1>6 DEF Lookup

LEMMA CreateHandleFacts ==
    ASSUME TypeOK, NEW t \in Threads, CreateHandle(t)
    PROVE  /\ Others(t) /\ thread[t].at = "create"
           /\ \/ /\ UNCHANGED process
                 /\ thread'[t].at = "waiting" /\ thread'[t].context = hg_context
                 /\ thread'[t].address = thread[t].address
              \/ /\ UNCHANGED thread
                 /\ \/ hg_context.class \notin registered
                    \/ thread[t].class # hg_context.class
                    \/ thread[t].address = NoAddress
<1> DEFINE new == [thread[t] EXCEPT !.at = "waiting", !.context = hg_context, !.class = NoThread]
<1>1. /\ new.at = "waiting" /\ new.context = hg_context /\ new.address = thread[t].address
  BY ThreadFacts DEF Thread
<1>2. \/ thread' = [thread EXCEPT ![t] = new] /\ UNCHANGED process
      \/ /\ UNCHANGED thread
         /\ \/ hg_context.class \notin registered
            \/ thread[t].class # hg_context.class
            \/ thread[t].address = NoAddress
  BY DEF CreateHandle, End, TypeOK
<1> HIDE DEF new
<1>3. thread[t].at = "create"
  BY DEF CreateHandle, At
<1>4. CASE thread' = [thread EXCEPT ![t] = new] /\ UNCHANGED process
  BY <1>1, <1>3, <1>4 DEF Others, TypeOK
<1> QED
  BY <1>2, <1>3, <1>4 DEF Others

\* After check of the flag, and from one stage of a set-up to the next.
LEMMA StageStep ==
    ASSUME TypeOK, StageInv, NEW t \in Threads, ThreadStep(t)
    PROVE  StageInv'
<1>0. \A u \in Threads : thread[u] \in Thread
  BY ThreadFacts
<1>1. ASSUME NEW h \in Targets, Begin(t, h) PROVE StageInv'
  <2>1. /\ Others(t) /\ thread[t].at = "idle"
        /\ \/ thread'[t].at = "lookup" /\ g_mercury_init
           \/ thread'[t].at = "init" /\ ~g_mercury_init
    BY <1>1, BeginFacts
  <2>2. UNCHANGED mercuryVars
    BY <1>1 DEF Begin
  <2> QED
    BY <2>1, <2>2 DEF StageInv, Others, mercuryVars, Initializing, PastCheck
<1>2. CASE InitClass(t)
  BY <1>0, <1>2 DEF StageInv, InitClass, Goto, TypeOK, Initializing, PastCheck, At
<1>3. CASE CreateContext(t)
  <2>1. hg_context' \in Context
    BY <1>3 DEF TypeOK, CreateContext, StageInv, Initializing, At, Context
  <2> QED
    BY <1>0, <1>3, <2>1 DEF StageInv, CreateContext, Goto, TypeOK, Initializing, PastCheck, At
<1>4. CASE RegisterClient(t)
  BY <1>0, <1>4 DEF StageInv, RegisterClient, Goto, TypeOK, Initializing, PastCheck, At
<1>5. CASE NewRing(t)
  BY <1>0, <1>5 DEF StageInv, NewRing, mercuryVars, TypeOK, Initializing, PastCheck, At
<1>6. CASE AddServer(t)
  BY <1>6, AddServerFacts DEF StageInv, Others, AddServer, mercuryVars, Initializing, PastCheck
<1>7. CASE Lookup(t)
  BY <1>7, LookupFacts DEF StageInv, Others, Lookup, mercuryVars, Initializing, PastCheck
<1>8. CASE CreateHandle(t)
  BY <1>8, CreateHandleFacts DEF StageInv, Others, CreateHandle, mercuryVars, Initializing, PastCheck
<1>9. CASE OpenAnswered(t)
  BY <1>0, <1>9 DEF StageInv, OpenAnswered, IdleThread, mercuryVars, TypeOK, Initializing, PastCheck, At
<1>10. CASE UNCHANGED <<mercuryVars, thread>>
  BY <1>10 DEF StageInv, mercuryVars
<1> QED
  BY <1>1, <1>2, <1>3, <1>4, <1>5, <1>6, <1>7, <1>8, <1>9, <1>10
     DEF ThreadStep, Step, OpenTimesOut, CallbackAsserts, LookupHostFails, FillingRace, End

\* As long as only one thread initializes, its class and context stay.
LEMMA ReadyStep ==
    ASSUME TypeOK, StageInv, ReadyInv, NEW t \in Threads, ThreadStep(t)
    PROVE  ReadyInv'
<1> SUFFICES ASSUME InitializedOnce' PROVE ReadyInv'
  BY DEF ReadyInv
<1>0. \A u \in Threads : thread[u] \in Thread
  BY ThreadFacts
<1>a. InitializedOnce /\ inits \subseteq inits'
  BY DEF InitializedOnce, ThreadStep, Step, Begin, InitClass, CreateContext, RegisterClient,
     NewRing, AddServer, Lookup, CreateHandle, OpenAnswered, OpenTimesOut, CallbackAsserts,
     LookupHostFails, FillingRace, mercuryVars
<1>1. ASSUME NEW h \in Targets, Begin(t, h) PROVE ReadyInv'
  <2>1. Others(t) /\ thread'[t].at \in {"init", "lookup"}
    BY <1>1, BeginFacts
  <2>2. UNCHANGED mercuryVars
    BY <1>1 DEF Begin
  <2> QED
    BY <1>a, <2>1, <2>2 DEF ReadyInv, Others, mercuryVars, Polled
<1>2. CASE InitClass(t)
  <2>1. inits = {}
    BY <1>2 DEF InitClass, InitializedOnce, StageInv, At
  <2>2. ~g_mercury_init
    BY <2>1 DEF StageInv
  <2>3. \A u \in Threads : thread[u].at \notin PastCheck /\ thread[u].at \notin Initializing
    BY <2>1, <2>2 DEF StageInv
  <2> QED
    BY <1>0, <1>2, <2>2, <2>3 DEF ReadyInv, InitClass, Goto, TypeOK, At, Polled, PastCheck, Initializing
<1>3. CASE CreateContext(t)
  <2>1. ~g_mercury_init
    BY <1>3, <1>a DEF CreateContext, ReadyInv, At
  <2>2. \A u \in Threads : thread[u].at \notin PastCheck
    BY <2>1 DEF StageInv
  <2>3. \A u \in Threads : thread[u].at = "register" => FALSE
    BY <1>3, <1>a DEF StageInv, CreateContext, At, Initializing, InitializedOnce
  <2> QED
    BY <1>0, <1>3, <1>a, <2>1, <2>2, <2>3 DEF ReadyInv, CreateContext, Goto, TypeOK, At, Polled, PastCheck
<1>4. CASE RegisterClient(t)
  <2>1. \A u \in Threads : thread[u].at \in Initializing => u = t
    BY <1>4, <1>a DEF StageInv, RegisterClient, At, Initializing, InitializedOnce
  <2> QED
    BY <1>0, <1>4, <1>a, <2>1 DEF ReadyInv, RegisterClient, Goto, TypeOK, At, Polled, Initializing
<1>5. CASE NewRing(t)
  BY <1>0, <1>5, <1>a DEF ReadyInv, NewRing, mercuryVars, TypeOK, At, Polled
<1>6. CASE AddServer(t)
  BY <1>6, <1>a, AddServerFacts DEF ReadyInv, Others, AddServer, mercuryVars, Polled
<1>7. CASE Lookup(t)
  BY <1>7, <1>a, LookupFacts DEF ReadyInv, Others, Lookup, mercuryVars, Polled
<1>8. CASE CreateHandle(t)
  BY <1>8, <1>a, CreateHandleFacts DEF ReadyInv, Others, CreateHandle, mercuryVars, Polled
<1>9. CASE OpenAnswered(t)
  BY <1>0, <1>9, <1>a DEF ReadyInv, OpenAnswered, IdleThread, mercuryVars, TypeOK, Polled
<1>10. CASE UNCHANGED <<mercuryVars, thread>>
  BY <1>10, <1>a DEF ReadyInv, mercuryVars, Polled
<1> QED
  BY <1>1, <1>2, <1>3, <1>4, <1>5, <1>6, <1>7, <1>8, <1>9, <1>10
     DEF ThreadStep, Step, OpenTimesOut, CallbackAsserts, LookupHostFails, FillingRace, End

-----------------------------------------------------------------------------
(* Addresses.                                                              *)

LEMMA AppendKeepsFirst ==
    ASSUME NEW S, NEW q \in Seq(S), NEW e \in S, NEW i \in DOMAIN q
    PROVE  /\ i \in DOMAIN Append(q, e)
           /\ Append(q, e)[i] = q[i]
           /\ \A j \in 1 .. i - 1 : Append(q, e)[j] = q[j]
<1>1. DOMAIN q = 1 .. Len(q) /\ Len(q) \in Nat
  OBVIOUS
<1>2. DOMAIN Append(q, e) = 1 .. Len(q) + 1 /\ \A j \in 1 .. Len(q) : Append(q, e)[j] = q[j]
  OBVIOUS
<1> QED
  BY <1>1, <1>2

LEMMA ListAddressKeepsFirst ==
    ASSUME TypeOK, NEW h \in Hosts, ListAddress(h), NEW i \in DOMAIN ports, NEW g \in Hosts,
           IsFirstLine(i, g)
    PROVE  i \in DOMAIN ports' /\ ports'[i] = ports[i] /\ IsFirstLine(i, g)'
<1> DEFINE e == [host |-> h, start |-> starts[h]]
<1>1. e \in Address /\ ports \in Seq(Address) /\ ports' = Append(ports, e)
  BY DEF TypeOK, Address, ListAddress
<1> HIDE DEF e
<1>2. /\ i \in DOMAIN ports' /\ ports'[i] = ports[i]
      /\ \A j \in 1 .. i - 1 : ports'[j] = ports[j]
  BY <1>1, AppendKeepsFirst
<1> QED
  BY <1>2 DEF IsFirstLine

LEMMA FirstListedStep ==
    ASSUME TypeOK, FirstListed, NEW t \in Threads, ThreadStep(t)
    PROVE  FirstListed'
<1>0. UNCHANGED ports
  BY ThreadKeeps DEF serverVars
<1>1. CASE Lookup(t)
  <2> DEFINE h == thread[t].host
  <2>0. h \in Hosts /\ address_cache \in [Hosts -> Address \cup {NoAddress}]
    BY DEF TypeOK, Thread
  <2>1. CASE UNCHANGED <<thread, address_cache>>
    BY <1>0, <2>1 DEF FirstListed, IsFirstLine
  <2>2. CASE /\ UNCHANGED address_cache
             /\ thread'[t].address \in {NoAddress, address_cache[h]}
    <3>1. address_cache[h] # NoAddress => address_cache[h].host = h
      BY <2>0 DEF FirstListed, IsFirstLine
    <3> QED
      BY <1>0, <1>1, <2>2, <3>1, LookupFacts DEF FirstListed, IsFirstLine, Others
  <2>3. ASSUME address_cache[h] = NoAddress, NEW i \in DOMAIN ports, IsFirstLine(i, h),
               address_cache' = [address_cache EXCEPT ![h] = ports[i]],
               thread'[t].address = ports[i]
        PROVE  FirstListed'
    <3>1. ports[i].host = h /\ address_cache'[h] = ports[i]
      BY <2>0, <2>3 DEF IsFirstLine
    <3>2. \A u \in Threads : thread[u].address # NoAddress => thread[u].address.host # h
      BY <2>3 DEF FirstListed
    <3>3. \A u \in Threads : thread'[u].address # NoAddress =>
             thread'[u].address = address_cache'[thread'[u].address.host]
      <4>1. ASSUME NEW u \in Threads \ {t}, thread[u].address # NoAddress
            PROVE  address_cache'[thread[u].address.host] = thread[u].address
        <5>1. thread[u].address.host \in Hosts
          BY <4>1 DEF TypeOK, Thread, Address
        <5> QED
          BY <2>0, <2>3, <3>2, <4>1, <5>1 DEF FirstListed
      <4> QED
        BY <1>1, <2>3, <3>1, <4>1, LookupFacts DEF Others
    <3>4. \A g \in Hosts : address_cache'[g] # NoAddress =>
             \E k \in DOMAIN ports : IsFirstLine(k, g) /\ ports[k] = address_cache'[g]
      BY <2>0, <2>3, <3>1 DEF FirstListed
    <3> QED
      BY <1>0, <3>3, <3>4 DEF FirstListed, IsFirstLine
  <2>4. CASE UNCHANGED thread
    <3>1. UNCHANGED address_cache
      BY <1>1, <2>4, LookupFacts
    <3> QED
      BY <2>1, <2>4, <3>1
  <2> QED
    BY <1>1, <2>2, <2>3, <2>4, LookupFacts
<1>2. CASE UNCHANGED address_cache /\ \A u \in Threads : thread'[u].address \in {NoAddress, thread[u].address}
  BY <1>0, <1>2 DEF FirstListed, IsFirstLine
<1>3. ~Lookup(t) =>
         /\ UNCHANGED address_cache
         /\ \A u \in Threads : thread'[u].address \in {NoAddress, thread[u].address}
  <2>0. thread \in [Threads -> Thread]
    BY DEF TypeOK
  <2>1. ASSUME NEW h \in Targets, Begin(t, h)
        PROVE  \A u \in Threads : thread'[u].address \in {NoAddress, thread[u].address}
    <3> DEFINE stage == IF g_mercury_init THEN "lookup" ELSE "init"
               new   == [thread[t] EXCEPT !.host = h, !.at = stage]
    <3>1. thread' = [thread EXCEPT ![t] = new]
      BY <2>0, <2>1 DEF Begin
    <3>2. new.address = thread[t].address
      BY <2>0 DEF Thread
    <3> HIDE DEF new
    <3> QED
      BY <2>0, <3>1, <3>2
  <2>2. CASE AddServer(t)
    <3>1. CASE thread[t].next < ServerCount
      BY <2>0, <2>2, <3>1 DEF AddServer, Thread
    <3>2. CASE ~(thread[t].next < ServerCount)
      BY <2>0, <2>2, <3>2 DEF AddServer, Goto, Thread
    <3> QED
      BY <2>2, <3>1, <3>2 DEF AddServer
  <2>3. CASE CreateHandle(t)
    BY <2>0, <2>3, CreateHandleFacts DEF Others, CreateHandle
  <2>4. CASE \/ InitClass(t) \/ CreateContext(t) \/ RegisterClient(t)
             \/ NewRing(t) \/ OpenAnswered(t)
    <3>1. CASE InitClass(t) \/ CreateContext(t) \/ RegisterClient(t)
      BY <2>0, <3>1 DEF InitClass, CreateContext, RegisterClient, Goto, Thread
    <3>2. CASE NewRing(t)
      BY <2>0, <3>2 DEF NewRing, Thread
    <3>3. CASE OpenAnswered(t)
      BY <2>0, <3>3 DEF OpenAnswered, IdleThread
    <3> QED
      BY <2>4, <3>1, <3>2, <3>3
  <2>5. ~Lookup(t) => UNCHANGED address_cache
    BY DEF ThreadStep, Step, Begin, InitClass, CreateContext, RegisterClient, NewRing, AddServer,
       CreateHandle, OpenAnswered, OpenTimesOut, CallbackAsserts, LookupHostFails, FillingRace
  <2>6. CASE UNCHANGED thread
    BY <2>5, <2>6
  <2> QED
    BY <2>1, <2>2, <2>3, <2>4, <2>5, <2>6
       DEF ThreadStep, Step, OpenTimesOut, CallbackAsserts, LookupHostFails, FillingRace, End
<1> QED
  BY <1>1, <1>2, <1>3

\* Lines are only added behind the others.
LEMMA FirstListedServer ==
    ASSUME TypeOK, FirstListed, NEW h \in Hosts, ServerStep(h)
    PROVE  FirstListed'
<1>1. UNCHANGED <<address_cache, thread>>
  BY ServerKeeps
<1>2. CASE ListAddress(h)
  BY <1>1, <1>2, ListAddressKeepsFirst DEF FirstListed
<1>3. CASE UNCHANGED ports
  BY <1>1, <1>3 DEF FirstListed, IsFirstLine
<1> QED
  BY <1>2, <1>3 DEF ServerStep, StartServer, RegisterServer, CrashServer

-----------------------------------------------------------------------------
(* The orderly start.                                                      *)

LEMMA ListServer ==
    ASSUME TypeOK, ListInv, NEW h \in Hosts, ServerStep(h)
    PROVE  ListInv'
<1> SUFFICES ASSUME ordered PROVE ListInv'
  BY ServerKeeps DEF ListInv
<1>0. /\ phase \in [Hosts -> {"off", "polling", "listed", "serving"}]
      /\ starts \in [Hosts -> Nat]
      /\ \A i \in DOMAIN ports : ports[i] \in Address /\ ports[i].host \in Hosts
  <2>1. \A i \in DOMAIN ports : ports[i] \in Address
    BY DEF TypeOK
  <2>2. \A a \in Address : a.host \in Hosts
    BY DEF Address
  <2> QED
    BY <2>1, <2>2 DEF TypeOK
<1>1. CASE StartServer(h)
  <2>1. \A i \in DOMAIN ports : ports[i].host # h
    BY <1>1 DEF ListInv, StartServer
  <2> QED
    BY <1>0, <1>1, <2>1 DEF ListInv, StartServer, Listed
<1>2. CASE ListAddress(h)
  <2> DEFINE e == [host |-> h, start |-> starts[h]]
  <2>1. /\ DOMAIN ports' = 1 .. Len(ports) + 1 /\ ports'[Len(ports) + 1] = e
        /\ DOMAIN ports = 1 .. Len(ports) /\ Len(ports) \in Nat
        /\ \A i \in DOMAIN ports : i \in DOMAIN ports' /\ ports'[i] = ports[i]
    <3>1. e \in Address /\ ports \in Seq(Address) /\ ports' = Append(ports, e)
      BY <1>2 DEF TypeOK, Address, ListAddress
    <3> HIDE DEF e
    <3> QED
      BY <3>1
  <2>2. phase'[h] = "listed" /\ UNCHANGED starts /\ \A g \in Hosts \ {h} : phase'[g] = phase[g]
    BY <1>0, <1>2 DEF ListAddress
  <2>3. \A i \in DOMAIN ports' : i = Len(ports) + 1 \/ i \in DOMAIN ports
    BY <2>1
  <2>4. \A i \in DOMAIN ports' : /\ phase'[ports'[i].host] \in {"listed", "serving"}
                                 /\ ports'[i].start = starts'[ports'[i].host]
    BY <1>0, <2>1, <2>2, <2>3 DEF ListInv
  <2>5. \A g \in Hosts : phase'[g] \in {"listed", "serving"} =>
           \E i \in DOMAIN ports' : ports'[i].host = g
    <3>1. Len(ports) + 1 \in DOMAIN ports' /\ ports'[Len(ports) + 1].host = h
      BY <2>1
    <3> QED
      BY <2>1, <2>2, <3>1 DEF ListInv, Listed
  <2> QED
    BY <2>4, <2>5 DEF ListInv, Listed
<1>3. CASE RegisterServer(h)
  BY <1>0, <1>3 DEF ListInv, RegisterServer, Listed
<1>4. ~CrashServer(h)
  BY DEF CrashServer
<1> QED
  BY <1>1, <1>2, <1>3, <1>4 DEF ServerStep

LEMMA ServingServer ==
    ASSUME TypeOK, ServingInv, NEW h \in Hosts, ServerStep(h)
    PROVE  ServingInv'
<1>1. UNCHANGED <<ordered, thread>>
  BY ServerKeeps
<1>2. ASSUME ordered, \A g \in Hosts : phase[g] = "serving" PROVE FALSE
  BY <1>2 DEF ServerStep, StartServer, ListAddress, RegisterServer, CrashServer
<1> QED
  BY <1>1, <1>2 DEF ServingInv

LEMMA ServingStep ==
    ASSUME TypeOK, ListInv, ServingInv, NEW t \in Threads, ThreadStep(t)
    PROVE  ServingInv'
<1> SUFFICES ASSUME ordered PROVE ServingInv'
  BY ThreadKeeps DEF ServingInv
<1>0. UNCHANGED <<ordered, phase>> /\ thread \in [Threads -> Thread]
  BY ThreadKeeps DEF serverVars, TypeOK
<1>1. ASSUME NEW h \in Targets, Begin(t, h) PROVE ServingInv'
  <2>1. Others(t) /\ thread'[t].at \in {"init", "lookup"}
    BY <1>1, BeginFacts
  <2>2. \A g \in Hosts : phase[g] = "serving"
    BY <1>1 DEF Begin
  <2> QED
    BY <1>0, <2>1, <2>2 DEF ServingInv, Others
<1>2. CASE InitClass(t)
  BY <1>0, <1>2 DEF InitClass, Goto, At, ServingInv, Thread
<1>3. CASE CreateContext(t)
  BY <1>0, <1>3 DEF CreateContext, Goto, At, ServingInv, Thread
<1>4. CASE RegisterClient(t)
  BY <1>0, <1>4 DEF RegisterClient, Goto, At, ServingInv, Thread
<1>5. CASE NewRing(t)
  BY <1>0, <1>5 DEF NewRing, At, ServingInv, Thread
<1>6. CASE AddServer(t)
  BY <1>0, <1>6, AddServerFacts DEF ServingInv, Others
<1>7. CASE Lookup(t)
  <2>1. Listed(thread[t].host)
    BY <1>7, LookupFacts DEF ServingInv, ListInv, TypeOK, Thread
  <2>2. \A i \in DOMAIN ports : ports[i] # NoAddress
    BY StartupAssumption DEF TypeOK
  <2> QED
    BY <1>0, <1>7, <2>1, <2>2, LookupFacts DEF ServingInv, Others
<1>8. CASE CreateHandle(t)
  BY <1>0, <1>8, CreateHandleFacts DEF ServingInv, Others
<1>9. CASE OpenAnswered(t)
  BY <1>0, <1>9 DEF OpenAnswered, IdleThread, ServingInv
<1>10. CASE UNCHANGED thread
  BY <1>0, <1>10 DEF ServingInv
<1> QED
  BY <1>1, <1>2, <1>3, <1>4, <1>5, <1>6, <1>7, <1>8, <1>9, <1>10
     DEF ThreadStep, Step, OpenTimesOut, CallbackAsserts, LookupHostFails, FillingRace, End

\* With one thread that initializes, no open of an orderly start fails.
LEMMA Answerable ==
    ASSUME IInv, ordered, InitializedOnce, NEW t \in Threads, thread[t].at = "waiting"
    PROVE  Polled(t) /\ Serviced(t)
<1>1. Polled(t)
  BY DEF IInv, ReadyInv
<1>2. thread[t].address # NoAddress /\ \A h \in Hosts : phase[h] = "serving"
  BY DEF IInv, ServingInv
<1>3. thread[t].address \in Address /\ thread[t].address.host \in Hosts
  <2>1. thread[t].address \in Address
    BY <1>2 DEF IInv, TypeOK, Thread
  <2> QED
    BY <2>1 DEF Address
<1>4. PICK i \in DOMAIN ports : ports[i] = thread[t].address
  BY <1>2, <1>3 DEF IInv, FirstListed
<1>5. starts[thread[t].address.host] = thread[t].address.start
  BY <1>4 DEF IInv, ListInv
<1> QED
  BY <1>1, <1>2, <1>3, <1>5 DEF Serviced, Reaches

LEMMA OutcomeStep ==
    ASSUME IInv, NEW t \in Threads, ThreadStep(t), TypeOK', ReadyInv'
    PROVE  OutcomeInv'
<1> SUFFICES ASSUME ordered, InitializedOnce', process \notin {"aborted", "crashed"}
             PROVE  process' \notin {"aborted", "crashed"}
  <2>1. InitializedOnce' => InitializedOnce
    BY DEF InitializedOnce, ThreadStep, Step, Begin, InitClass, CreateContext, RegisterClient,
       NewRing, AddServer, Lookup, CreateHandle, OpenAnswered, OpenTimesOut, CallbackAsserts,
       LookupHostFails, FillingRace, mercuryVars
  <2> QED
    BY <2>1, ThreadKeeps DEF IInv, OutcomeInv
<1>0. InitializedOnce /\ TypeOK
  BY DEF InitializedOnce, ThreadStep, Step, Begin, InitClass, CreateContext, RegisterClient,
     NewRing, AddServer, Lookup, CreateHandle, OpenAnswered, OpenTimesOut, CallbackAsserts,
     LookupHostFails, FillingRace, mercuryVars, IInv
<1>1. CASE Lookup(t)
  <2>1. thread[t].host \in Hosts /\ thread[t].at = "lookup"
    BY <1>0, <1>1, LookupFacts DEF TypeOK, Thread
  <2>2. Listed(thread[t].host)
    BY <2>1 DEF IInv, ServingInv, ListInv
  <2> QED
    BY <1>0, <1>1, <2>1, <2>2, LookupFacts
<1>2. CASE CreateHandle(t)
  <2>1. thread[t].at = "create"
    BY <1>0, <1>2, CreateHandleFacts
  <2>2. g_mercury_init
    BY <2>1 DEF IInv, StageInv, PastCheck
  <2>3. /\ hg_context.class \in registered
        /\ thread[t].class = hg_context.class
        /\ thread[t].address # NoAddress
    BY <1>0, <2>1, <2>2 DEF IInv, ReadyInv, ServingInv
  <2> QED
    BY <1>2, <2>3 DEF CreateHandle
<1>3. ~CallbackAsserts(t)
  BY <1>0, Answerable DEF CallbackAsserts, At
<1>4. ASSUME NEW u \in Threads PROVE ~FillingRace(t, u)
  <2>1. CASE FillingRace(t, u)
    <3>1. t \in inits /\ u \in inits /\ t # u
      BY <2>1 DEF FillingRace, At, IInv, StageInv, Initializing
    <3> QED
      BY <1>0, <3>1 DEF InitializedOnce
  <2> QED
    BY <2>1
<1>5. CASE process' \in {process, "exited", "terminated"}
  BY <1>5
<1> QED
  BY <1>1, <1>2, <1>3, <1>4, <1>5
     DEF ThreadStep, Step, Begin, InitClass, CreateContext, RegisterClient, NewRing, AddServer,
         OpenAnswered, OpenTimesOut, LookupHostFails, End

-----------------------------------------------------------------------------
(* The ring.                                                               *)

LEMMA RingStep ==
    ASSUME TypeOK, RingComplete, NEW t \in Threads, ThreadStep(t)
    PROVE  RingComplete'
<1>0. /\ thread \in [Threads -> Thread] /\ \A u \in Threads : thread[u].next \in Nodes
      /\ ServerCount \in Nat
  BY StartupAssumption DEF TypeOK, Thread
<1>1. CASE NewRing(t)
  <2>1. Filling(t)' /\ thread'[t].next = 1
    BY <1>0, <1>1 DEF NewRing, Filling, Thread
  <2>2. \A n \in Nodes : 1 <= n
    BY DEF Nodes
  <2> QED
    BY <2>1, <2>2 DEF RingComplete
<1>2. CASE AddServer(t)
  <2>1. onRing' = onRing \cup {thread[t].next}
    BY <1>2 DEF AddServer
  <2> SUFFICES ASSUME NEW n \in Nodes, n \notin onRing'
               PROVE  \E u \in Threads : Filling(u)' /\ thread'[u].next <= n
    BY DEF RingComplete
  <2>2. PICK u \in Threads : Filling(u) /\ thread[u].next <= n
    BY <2>1 DEF RingComplete
  <2>3. CASE u # t
    BY <1>2, <2>2, <2>3, AddServerFacts DEF Others, Filling
  <2>4. CASE u = t
    <3>1. n \in Nat /\ n <= ServerCount /\ n # thread[t].next
      BY <1>0, <2>1 DEF Nodes
    <3>2. thread[t].next \in Nat /\ thread[t].next < n
      BY <1>0, <2>2, <2>4, <3>1 DEF Nodes
    <3>3. thread[t].next < ServerCount /\ thread[t].next + 1 <= n
      BY <1>0, <3>1, <3>2
    <3> QED
      BY <1>2, <3>3, AddServerFacts DEF Filling
  <2> QED
    BY <2>3, <2>4
<1>3. CASE UNCHANGED onRing /\ \A u \in Threads : Filling(u) => thread'[u] = thread[u]
  BY <1>3 DEF RingComplete, Filling
<1>4. UNCHANGED onRing \/ NewRing(t) \/ AddServer(t)
  BY DEF ThreadStep, Step, Begin, InitClass, CreateContext, RegisterClient, Lookup, CreateHandle,
     OpenAnswered, OpenTimesOut, CallbackAsserts, LookupHostFails, FillingRace
<1>5. NewRing(t) \/ AddServer(t) \/ \A u \in Threads : Filling(u) => thread'[u] = thread[u]
  <2>1. ASSUME NEW h \in Targets, Begin(t, h)
        PROVE  \A u \in Threads : Filling(u) => thread'[u] = thread[u]
    BY <2>1, BeginFacts DEF Others, Filling
  <2>2. CASE Lookup(t)
    BY <2>2, LookupFacts DEF Others, Filling
  <2>3. CASE CreateHandle(t)
    BY <2>3, CreateHandleFacts DEF Others, Filling
  <2>4. CASE InitClass(t) \/ CreateContext(t) \/ RegisterClient(t)
    BY <1>0, <2>4 DEF InitClass, CreateContext, RegisterClient, Goto, At, Filling
  <2>5. CASE OpenAnswered(t)
    BY <1>0, <2>5 DEF OpenAnswered, At, Filling
  <2>6. CASE UNCHANGED thread
    BY <2>6
  <2> QED
    BY <2>1, <2>2, <2>3, <2>4, <2>5, <2>6
       DEF ThreadStep, Step, OpenTimesOut, CallbackAsserts, LookupHostFails, FillingRace, End
<1> QED
  BY <1>1, <1>2, <1>3, <1>4, <1>5

-----------------------------------------------------------------------------
(* The invariant holds.                                                    *)

LEMMA InitInv == Init => IInv
<1> SUFFICES ASSUME Init PROVE IInv
  OBVIOUS
<1>1. \A t \in Threads : thread[t].at = "idle" /\ thread[t].address = NoAddress
  BY DEF Init, IdleThread
<1>2. TypeOK
  BY InitType
<1>3. StageInv /\ ReadyInv
  BY <1>1 DEF Init, StageInv, ReadyInv, Initializing, PastCheck
<1>4. FirstListed
  BY <1>1 DEF Init, FirstListed
<1>5. ListInv
  <2>1. DOMAIN ports = {} /\ \A h \in Hosts : phase[h] = "off"
    BY DEF Init
  <2> QED
    BY <2>1 DEF ListInv
<1>6. ServingInv /\ OutcomeInv
  BY <1>1 DEF Init, ServingInv, OutcomeInv
<1>7. RingComplete
  BY DEF Init, RingComplete
<1> QED
  BY <1>2, <1>3, <1>4, <1>5, <1>6, <1>7 DEF IInv

LEMMA NextInv == IInv /\ [Next]_vars => IInv'
<1> SUFFICES ASSUME IInv, [Next]_vars PROVE IInv'
  OBVIOUS
<1>0. TypeOK /\ StageInv /\ ReadyInv /\ FirstListed /\ ListInv /\ ServingInv /\ RingComplete
  BY DEF IInv
<1>1. ASSUME NEW h \in Hosts, ServerStep(h) PROVE IInv'
  <2>1. TypeOK' /\ FirstListed' /\ ListInv' /\ ServingInv'
    BY <1>0, <1>1, ServerType, FirstListedServer, ListServer, ServingServer
  <2>2. UNCHANGED <<ordered, process, mercuryVars, onRing, thread>>
    BY <1>1, ServerKeeps
  <2>3. StageInv' /\ ReadyInv' /\ OutcomeInv' /\ RingComplete'
    BY <2>2 DEF IInv, StageInv, ReadyInv, OutcomeInv, RingComplete, InitializedOnce, Polled,
       Filling, mercuryVars
  <2> QED
    BY <2>1, <2>3 DEF IInv
<1>2. ASSUME NEW t \in Threads, ThreadStep(t) PROVE IInv'
  <2>1. TypeOK' /\ StageInv' /\ ReadyInv' /\ FirstListed' /\ ServingInv' /\ RingComplete'
    BY <1>0, <1>2, ThreadStepType, StageStep, ReadyStep, FirstListedStep, ServingStep, RingStep
  <2>2. OutcomeInv'
    BY <1>2, <2>1, OutcomeStep
  <2>3. ListInv'
    BY <1>2, ThreadKeeps DEF IInv, ListInv, Listed, serverVars
  <2> QED
    BY <2>1, <2>2, <2>3 DEF IInv
<1>3. CASE UNCHANGED vars
  BY <1>3 DEF IInv, TypeOK, StageInv, ReadyInv, FirstListed, ListInv, ServingInv, OutcomeInv,
     RingComplete, InitializedOnce, IsFirstLine, Listed, Polled, Filling, vars, serverVars, mercuryVars
<1> QED
  BY <1>1, <1>2, <1>3, NextSteps

LEMMA IInvHolds == Spec => []IInv
BY InitInv, NextInv, PTL DEF Spec

-----------------------------------------------------------------------------
(***************************************************************************)
(* Every variable of the start-up keeps its type.                          *)
(***************************************************************************)
THEOREM TypeCorrect == Spec => []TypeOK
BY IInvHolds, PTL DEF IInv

(***************************************************************************)
(* A client only ever addresses the first start of a server that was       *)
(* listed, however often servers crash and are started again.              *)
(***************************************************************************)
THEOREM FirstListedHolds == Spec => []FirstListed
BY IInvHolds, PTL DEF IInv

(***************************************************************************)
(* g_mercury_init is a sufficient guard as long as no two threads find it  *)
(* unset.                                                                  *)
(***************************************************************************)
THEOREM SetUpBeforeUseHolds == Spec => []SetUpBeforeUse
<1>1. IInv => SetUpBeforeUse
  <2> SUFFICES ASSUME IInv, InitializedOnce, NEW t \in Threads
               PROVE  /\ thread[t].at \in {"lookup", "create", "waiting"} =>
                            /\ hg_class \in Threads /\ hg_context # NoContext
                            /\ hg_context.class \in registered
                      /\ thread[t].at = "create" => thread[t].class = hg_context.class
                      /\ thread[t].at = "waiting" => Polled(t)
    BY DEF SetUpBeforeUse
  <2>1. thread[t].at \in {"lookup", "create", "waiting"} => g_mercury_init
    BY DEF IInv, StageInv, PastCheck
  <2>2. g_mercury_init => /\ hg_class \in Threads /\ hg_context \in Context
                          /\ hg_context.class \in registered
                          /\ hg_context.class = hg_class
    BY DEF IInv, TypeOK, StageInv, ReadyInv
  <2> QED
    BY <2>1, <2>2, StartupAssumption DEF IInv, ReadyInv
<1> QED
  BY <1>1, IInvHolds, PTL

(***************************************************************************)
(* The expectation of the servers, to be started in advance of clients, is *)
(* enough for every open to be answerable, if only one thread initializes. *)
(***************************************************************************)
THEOREM OrderlyStartHolds == Spec => []OrderlyStart
<1>1. IInv => OrderlyStart
  BY Answerable DEF OrderlyStart, IInv, OutcomeInv
<1> QED
  BY <1>1, IInvHolds, PTL

(***************************************************************************)
(* However many threads make a new ring, each server is on it or about to  *)
(* be added.                                                               *)
(***************************************************************************)
THEOREM RingCompleteHolds == Spec => []RingComplete
BY IInvHolds, PTL DEF IInv

=============================================================================
