------------------------------- MODULE Startup -------------------------------
(***************************************************************************)
(* How servers and a client find each other.  A server starts Mercury,     *)
(* appends its address to the file of addresses, and only then registers   *)
(* its RPCs; it may crash and be started again.  A client sets Mercury up  *)
(* in its first tracked open, without a lock: g_mercury_init is checked,   *)
(* Mercury's class and context are made and stored in globals, RPCs are    *)
(* registered, g_mercury_init is set, and the hash ring is made anew.      *)
(*                                                                         *)
(* Only opens are followed to their answer; a descriptor they yield serves *)
(* to look hosts up in the ring.  A class or a context is known by the     *)
(* thread that made it: no thread makes two, for the flag is never reset.  *)
(***************************************************************************)
EXTENDS Naturals, Sequences, FiniteSets

CONSTANTS
    ServerCount,    \* HVAC_SERVER_COUNT
    Threads, NoThread,
    NoAddress,      \* a target_server that was never assigned
    NoContext,
    Targets,        \* bound: hosts that the opened files belong to
    MaxStarts       \* bound: how often each server is started

Hosts == 0 .. ServerCount - 1
Nodes == 1 .. ServerCount

\* What a server lists: the host and which start of it wrote the line.
Address == [host : Hosts, start : Nat]
\* HG_Context_create: who made the context, and in whose class.
Context == [by : Threads, class : Threads]

ASSUME StartupAssumption ==
    /\ ServerCount \in Nat \ {0} /\ MaxStarts \in [Hosts -> Nat]
    /\ NoThread \notin Threads /\ NoAddress \notin Address /\ NoContext \notin Context
    /\ Targets \subseteq Hosts

VARIABLES
    ordered,        \* do all servers serve before the first open, and never
                    \* stop once started? (a restart, even before the first
                    \* open, leaves the address of the dead server first)
    phase, starts,  \* of each server, and how often it was started
    ports,          \* the lines of .ports.cfg
    process,        \* the client: "running", or how it ended
    inits,          \* threads that have called HG_Init
    hg_class, hg_context,
    registered,     \* classes in which the RPCs are registered
    g_mercury_init,
    onRing,         \* servers on the ring that hashRing points to
    address_cache,
    thread

serverVars  == <<phase, starts, ports>>
mercuryVars == <<inits, hg_class, hg_context, registered, g_mercury_init>>
vars == <<ordered, serverVars, process, mercuryVars, onRing, address_cache, thread>>

\* A thread: stage of its open, the host that is to open the file, the next
\* server to add to the ring, the class it looked the address up in, the
\* address, the context of its request, and whether it has opened a file.
Stages == {"idle", "init", "context", "register", "ring", "filling",
           "lookup", "create", "waiting"}
Thread == [at : Stages, host : Hosts, next : Nodes, class : Threads \cup {NoThread},
           address : Address \cup {NoAddress}, context : Context \cup {NoContext},
           opened : BOOLEAN]

IdleThread(opened) ==
    [at |-> "idle", host |-> 0, next |-> 1, class |-> NoThread,
     address |-> NoAddress, context |-> NoContext, opened |-> opened]

TypeOK ==
    /\ ordered \in BOOLEAN
    /\ phase \in [Hosts -> {"off", "polling", "listed", "serving"}]
    /\ starts \in [Hosts -> Nat]
    /\ ports \in Seq(Address)
    /\ process \in {"running", "aborted", "exited", "terminated", "crashed"}
    /\ inits \subseteq Threads /\ registered \subseteq Threads
    /\ hg_class \in Threads \cup {NoThread}
    /\ hg_context \in Context \cup {NoContext}
    /\ g_mercury_init \in BOOLEAN
    /\ onRing \subseteq Nodes
    /\ address_cache \in [Hosts -> Address \cup {NoAddress}]
    /\ thread \in [Threads -> Thread]

\* The library's constructor has filled the ring once before main().
Init ==
    /\ ordered \in BOOLEAN
    /\ phase = [h \in Hosts |-> "off"] /\ starts = [h \in Hosts |-> 0]
    /\ ports = <<>>
    /\ process = "running"
    /\ inits = {} /\ registered = {} /\ hg_class = NoThread /\ hg_context = NoContext
    /\ g_mercury_init = FALSE
    /\ onRing = Nodes
    /\ address_cache = [h \in Hosts |-> NoAddress]
    /\ thread = [t \in Threads |-> IdleThread(FALSE)]

-----------------------------------------------------------------------------
(* Servers.  They are followed only as long as the client runs.            *)

Running == process = "running"

\* hvac_init_comm: from now on the progress thread handles what arrives.
StartServer(h) ==
    /\ Running /\ phase[h] = "off" /\ starts[h] < MaxStarts[h]
    /\ phase' = [phase EXCEPT ![h] = "polling"]
    /\ starts' = [starts EXCEPT ![h] = @ + 1]
    /\ UNCHANGED <<ordered, ports, process, mercuryVars, onRing, address_cache, thread>>

\* hvac_comm_list_addr appends; lines of earlier starts stay.
ListAddress(h) ==
    /\ Running /\ phase[h] = "polling"
    /\ ports' = Append(ports, [host |-> h, start |-> starts[h]])
    /\ phase' = [phase EXCEPT ![h] = "listed"]
    /\ UNCHANGED <<ordered, starts, process, mercuryVars, onRing, address_cache, thread>>

RegisterServer(h) ==
    /\ Running /\ phase[h] = "listed"
    /\ phase' = [phase EXCEPT ![h] = "serving"]
    /\ UNCHANGED <<ordered, starts, ports, process, mercuryVars, onRing, address_cache, thread>>

CrashServer(h) ==
    /\ Running /\ ~ordered /\ phase[h] # "off"
    /\ phase' = [phase EXCEPT ![h] = "off"]
    /\ UNCHANGED <<ordered, starts, ports, process, mercuryVars, onRing, address_cache, thread>>

-----------------------------------------------------------------------------
(* The client: a tracked open, which may initialize Mercury.               *)

At(t, stage)   == Running /\ thread[t].at = stage
Goto(t, stage) == thread' = [thread EXCEPT ![t].at = stage]
End(outcome)   == process' = outcome /\ UNCHANGED thread

Begin(t, h) ==
    /\ At(t, "idle")
    /\ ordered => \A s \in Hosts : phase[s] = "serving"
    /\ thread' = [thread EXCEPT ![t].host = h,
                                ![t].at = IF g_mercury_init THEN "lookup" ELSE "init"]
    /\ UNCHANGED <<ordered, serverVars, process, mercuryVars, onRing, address_cache>>

InitClass(t) ==
    /\ At(t, "init")
    /\ inits' = inits \cup {t}
    /\ hg_class' = t
    /\ Goto(t, "context")
    /\ UNCHANGED <<ordered, serverVars, process, hg_context, registered, g_mercury_init,
                   onRing, address_cache>>

\* Slip: the flag is set as soon as there is a context.
CreateContextAndSetFlag(t) ==
    /\ At(t, "context")
    /\ hg_context' = [by |-> t, class |-> hg_class]
    /\ g_mercury_init' = TRUE
    /\ Goto(t, "register")
    /\ UNCHANGED <<ordered, serverVars, process, inits, hg_class, registered,
                   onRing, address_cache>>

\* The context is made in whatever class the global names by now, and the
\* progress thread started, which polls the context the global names.
CreateContext(t) ==
    /\ At(t, "context")
    /\ hg_context' = [by |-> t, class |-> hg_class]
    /\ Goto(t, "register")
    /\ UNCHANGED <<ordered, serverVars, process, inits, hg_class, registered, g_mercury_init,
                   onRing, address_cache>>

\* The RPCs are registered in whatever class the global names by now.
RegisterClient(t) ==
    /\ At(t, "register")
    /\ registered' = registered \cup {hg_class}
    /\ g_mercury_init' = TRUE
    /\ Goto(t, "ring")
    /\ UNCHANGED <<ordered, serverVars, process, inits, hg_class, hg_context,
                   onRing, address_cache>>

\* initialize_hash_ring: a new ring takes the place of the full one ...
NewRing(t) ==
    /\ At(t, "ring")
    /\ onRing' = {}
    /\ thread' = [thread EXCEPT ![t].at = "filling", ![t].next = 1]
    /\ UNCHANGED <<ordered, serverVars, process, mercuryVars, address_cache>>

\* Slips: the loop ends one server too early, or one too late.
LastIsLeftOut(t) ==
    /\ At(t, "filling")
    /\ IF thread[t].next < ServerCount
       THEN /\ onRing' = onRing \cup {thread[t].next}
            /\ thread' = [thread EXCEPT ![t].next = @ + 1]
       ELSE /\ UNCHANGED onRing
            /\ Goto(t, "lookup")
    /\ UNCHANGED <<ordered, serverVars, process, mercuryVars, address_cache>>
OneTooMany(t) ==
    /\ At(t, "filling")
    /\ onRing' = onRing \cup {thread[t].next}
    /\ IF thread[t].next <= ServerCount
       THEN thread' = [thread EXCEPT ![t].next = @ + 1]
       ELSE Goto(t, "lookup")
    /\ UNCHANGED <<ordered, serverVars, process, mercuryVars, address_cache>>

\* ... and servers are added to the ring that the global points to by now.
AddServer(t) ==
    /\ At(t, "filling")
    /\ onRing' = onRing \cup {thread[t].next}
    /\ IF thread[t].next < ServerCount
       THEN thread' = [thread EXCEPT ![t].next = @ + 1]
       ELSE Goto(t, "lookup")
    /\ UNCHANGED <<ordered, serverVars, process, mercuryVars, address_cache>>

IsFirstLine(i, h) == ports[i].host = h /\ \A j \in 1 .. i - 1 : ports[j].host # h
Listed(h)         == \E i \in DOMAIN ports : ports[i].host = h

\* A target_server looked up, or left alone, in the current class.
Target(t, address) ==
    thread' = [thread EXCEPT ![t].address = address, ![t].class = hg_class, ![t].at = "create"]

\* Slip: the search goes on, and ends with the host's last line.
LookupLast(t) ==
    LET h == thread[t].host IN
    /\ At(t, "lookup")
    /\ \E i \in DOMAIN ports :
          /\ ports[i].host = h /\ \A j \in i + 1 .. Len(ports) : ports[j].host # h
          /\ address_cache' = [address_cache EXCEPT ![h] = ports[i]]
          /\ Target(t, ports[i])
    /\ UNCHANGED <<ordered, serverVars, process, mercuryVars, onRing>>

\* hvac_client_comm_lookup_addr: the cached address, or the first line of the
\* host.  Without such a line target_server stays uninitialized; without a
\* file fscanf reads from NULL.
Lookup(t) ==
    LET h == thread[t].host IN
    /\ At(t, "lookup")
    /\ \/ /\ address_cache[h] # NoAddress
          /\ Target(t, address_cache[h])
          /\ UNCHANGED <<process, address_cache>>
       \/ /\ address_cache[h] = NoAddress
          /\ \E i \in DOMAIN ports :
                /\ IsFirstLine(i, h)
                /\ address_cache' = [address_cache EXCEPT ![h] = ports[i]]
                /\ Target(t, ports[i])
          /\ UNCHANGED process
       \/ /\ address_cache[h] = NoAddress /\ ~Listed(h)
          /\ \/ ports # <<>> /\ Target(t, NoAddress) /\ UNCHANGED process
             \/ End("crashed")
          /\ UNCHANGED address_cache
    /\ UNCHANGED <<ordered, serverVars, mercuryVars, onRing>>

\* HG_Create fails, and the client asserts that it does not, if the RPC is not
\* registered in the class of the context, or possibly if the address was
\* looked up in another class.  Otherwise the request is forwarded.
CreateHandle(t) ==
    /\ At(t, "create")
    /\ \/ /\ hg_context.class \in registered
          /\ thread' = [thread EXCEPT ![t].at = "waiting", ![t].context = hg_context,
                                      ![t].class = NoThread]
          /\ UNCHANGED process
       \/ /\ \/ hg_context.class \notin registered
             \/ thread[t].class # hg_context.class
             \/ thread[t].address = NoAddress
          /\ End("aborted")
    /\ UNCHANGED <<ordered, serverVars, mercuryVars, onRing, address_cache>>

\* The server that the request of t is addressed to is still that server.
Reaches(t) ==
    LET address == thread[t].address IN
    address # NoAddress /\ phase[address.host] # "off" /\ starts[address.host] = address.start

\* Callbacks are triggered for the context that the global names.
Polled(t)   == thread[t].context = hg_context
Serviced(t) == Reaches(t) /\ phase[thread[t].address.host] = "serving"

OpenAnswered(t) ==
    /\ At(t, "waiting") /\ Polled(t) /\ Serviced(t)
    /\ thread' = [thread EXCEPT ![t] = IdleThread(TRUE)]
    /\ UNCHANGED <<ordered, serverVars, process, mercuryVars, onRing, address_cache>>

\* A server that has not registered the RPC refuses the request, and Mercury
\* may report that a server is gone: hvac_open_cb asserts that neither happens.
CallbackAsserts(t) ==
    /\ At(t, "waiting") /\ Polled(t) /\ ~Serviced(t)
    /\ End("aborted")
    /\ UNCHANGED <<ordered, serverVars, mercuryVars, onRing, address_cache>>

\* Slip: the wait is not timed.
OpenNeverTimesOut(t) == At(t, "waiting") /\ FALSE /\ UNCHANGED vars

OpenTimesOut(t) ==
    /\ At(t, "waiting")
    /\ End("exited")
    /\ UNCHANGED <<ordered, serverVars, mercuryVars, onRing, address_cache>>

Filling(t) == thread[t].at = "filling"

\* A pread, seek or close of an open file looks its host up: in an empty ring
\* GetNode throws, and beside an insertion its search may fail, too.
LookupHostFails(t) ==
    /\ At(t, "idle") /\ thread[t].opened
    /\ onRing = {} \/ \E u \in Threads : Filling(u)
    /\ End("terminated")
    /\ UNCHANGED <<ordered, serverVars, mercuryVars, onRing, address_cache>>

\* Two threads insert in the same std::map.
FillingRace(t, u) ==
    /\ t # u /\ At(t, "filling") /\ At(u, "filling")
    /\ End("crashed")
    /\ UNCHANGED <<ordered, serverVars, mercuryVars, onRing, address_cache>>

-----------------------------------------------------------------------------
\* What a thread does by itself once it has begun to open a file.
Step(t) ==
    \/ InitClass(t) \/ CreateContext(t) \/ RegisterClient(t)
    \/ NewRing(t) \/ AddServer(t)
    \/ Lookup(t) \/ CreateHandle(t)
    \/ OpenAnswered(t) \/ OpenTimesOut(t)

Next ==
    \/ \E h \in Hosts : \/ StartServer(h) \/ ListAddress(h)
                        \/ RegisterServer(h) \/ CrashServer(h)
    \/ \E t \in Threads : \/ \E h \in Targets : Begin(t, h)
                          \/ Step(t)
                          \/ CallbackAsserts(t) \/ LookupHostFails(t)
                          \/ \E u \in Threads : FillingRace(t, u)

Spec == Init /\ [][Next]_vars

\* Threads are scheduled and five seconds pass.
FairSpec == Spec /\ \A t \in Threads : WF_vars(Step(t))

-----------------------------------------------------------------------------
(* Safety.                                                                 *)

\* A client only ever addresses the first start of a server that was listed:
\* the file is append-only and searched from the top (hvac_comm.cpp:213,
\* hvac_comm_client.cpp:573), and the address is cached.  A server that was
\* started again is not found, but neither is a descriptor ever used at a
\* later start of the server than the one that gave it out.
FirstListed ==
    /\ \A h \in Hosts : address_cache[h] # NoAddress =>
          \E i \in DOMAIN ports : IsFirstLine(i, h) /\ ports[i] = address_cache[h]
    /\ \A t \in Threads : thread[t].address # NoAddress =>
          thread[t].address = address_cache[thread[t].address.host]

InitializedOnce == \A t, u \in inits : t = u

\* If no two threads initialize, nobody who goes past the check of
\* g_mercury_init (hvac_client.cpp:139) finds Mercury half set up, and every
\* request waits in the context that is polled.
SetUpBeforeUse ==
    InitializedOnce => \A t \in Threads :
        /\ thread[t].at \in {"lookup", "create", "waiting"} =>
              hg_class \in Threads /\ hg_context # NoContext /\ hg_context.class \in registered
        /\ thread[t].at = "create" => thread[t].class = hg_context.class
        /\ thread[t].at = "waiting" => Polled(t)

\* hvac_comm.cpp:187: "There is an expectation that the server will be started
\* in advance of the clients".  If it is met, no server stops once it is
\* started (which the comment does not say: FirstListed shows why a restart
\* would not do), and no two threads initialize, no open meets an assertion or
\* an uninitialized address, and each request is one that a server answers.
OrderlyStart ==
    ordered /\ InitializedOnce =>
        /\ process \notin {"aborted", "crashed"}
        /\ \A t \in Threads : thread[t].at = "waiting" => Polled(t) /\ Serviced(t)

\* However many threads initialize, once none of them is filling the ring all
\* servers are on it; until then each missing one will be added.
RingComplete ==
    \A n \in Nodes : n \in onRing \/ \E t \in Threads : Filling(t) /\ thread[t].next <= n

-----------------------------------------------------------------------------
(* Liveness.                                                               *)

\* An open returns, or its process ends, even if the server is gone or another
\* thread has replaced the context that the request waits in.
OpensEnd == \A t \in Threads : thread[t].at # "idle" ~> thread[t].at = "idle" \/ ~Running

=============================================================================
