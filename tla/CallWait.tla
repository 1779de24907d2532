------------------------------- MODULE CallWait -------------------------------
(***************************************************************************)
(* How the threads of one client wait for the answers to their RPCs.       *)
(*                                                                         *)
(* An open or a read waits on a flag, a condition and a mutex in the stack *)
(* frame of the call, which the callback reaches through pointers; a seek  *)
(* waits on flag, result, condition and mutex that are global.  Either is  *)
(* a "slot" here: a thread's frame, or Global.  Callbacks run one after    *)
(* the other on the progress thread, in whatever order answers arrive.     *)
(*                                                                         *)
(* A "slip" is a variant of the definition after it with a plausible bug.  *)
(* As in ServerCache an action is a stretch of code between two points     *)
(* where another thread can see or stop it.                                *)
(***************************************************************************)
EXTENDS Naturals, Sequences, SequencesExt

CONSTANTS
    Threads,
    SeekThreads,    \* threads that call lseek; the others open and read
    Requests,       \* bound: names of requests in progress
    NoRequest, Failed,
    Global,         \* the slot all seeks share
    Progress, Free, \* owners of a mutex: the progress thread, nobody
    ServersMayDie

ASSUME CallWaitAssumption ==
    /\ SeekThreads \subseteq Threads
    /\ Global \notin Threads /\ Progress \notin Threads /\ Free \notin Threads
    /\ Progress # Free
    /\ NoRequest \notin Requests /\ Failed \notin Requests
    /\ ServersMayDie \in BOOLEAN

VARIABLES
    alive,          \* the process has not exited
    pc, op, request, result,    \* of each thread
    slot,           \* flag, result, mutex and condition of each slot
    sent,           \* requests at a server
    arrived,        \* Mercury's completion queue: answers not yet called back
    callback,       \* the callback the progress thread is in, and where
    serverUp

threadVars == <<pc, op, request, result>>
netVars    == <<sent, arrived, serverUp>>
vars == <<alive, threadVars, slot, netVars, callback>>

Slots  == Threads \cup {Global}
Answer == Requests \cup {Failed}

SlotOf(t)   == IF op[t] = "seek" THEN Global ELSE t
\* Slip: the result is left uninitialized.
UninitializedSlot == [done |-> 0, ret |-> NoRequest, owner |-> Free, sleeping |-> {}, woken |-> {}]
NewSlot     == [done |-> 0, ret |-> Failed, owner |-> Free, sleeping |-> {}, woken |-> {}]
NoCallback  == [at |-> "none", n |-> NoRequest, thread |-> Free, op |-> "none", ret |-> Failed]
Message(t)  == [n |-> request[t], thread |-> t, op |-> op[t]]

\* A callback reaches the slot by the pointers of its request, a seek's by name.
CallbackSlot == IF callback.op = "seek" THEN Global ELSE callback.thread

TypeOK ==
    /\ alive \in BOOLEAN /\ serverUp \in BOOLEAN
    /\ pc \in [Threads -> {"idle", "forward", "lock", "check", "sleeping"}]
    /\ op \in [Threads -> {"none", "open", "read", "seek"}]
    /\ request \in [Threads -> Requests \cup {NoRequest}]
    /\ result \in [Threads -> Answer]
    /\ slot \in [Slots -> [done : Nat, ret : Answer,
                           owner : Threads \cup {Progress, Free},
                           sleeping : SUBSET Threads, woken : SUBSET Threads]]
    /\ sent \subseteq [n : Requests, thread : Threads, op : {"open", "read", "seek"}]
    /\ arrived \in Seq([n : Requests, thread : Threads, op : {"open", "read", "seek"},
                        ret : Answer])

Init ==
    /\ alive = TRUE /\ serverUp = TRUE
    /\ pc = [t \in Threads |-> "idle"] /\ op = [t \in Threads |-> "none"]
    /\ request = [t \in Threads |-> NoRequest] /\ result = [t \in Threads |-> Failed]
    /\ slot = [l \in Slots |-> NewSlot]
    /\ sent = {} /\ arrived = << >> /\ callback = NoCallback

-----------------------------------------------------------------------------
(* The calling thread.                                                     *)

Goto(t, label) == pc' = [pc EXCEPT ![t] = label]

InUse(n) == \/ \E t \in Threads : request[t] = n
            \/ \E m \in sent \cup ToSet(arrived) : m.n = n
            \/ callback.n = n

\* An open or a read initializes its new frame; a seek resets the globals,
\* under their mutex.
NewFrame(t) ==
    /\ op' \in {[op EXCEPT ![t] = o] : o \in {"open", "read"}}
    /\ slot' = [slot EXCEPT ![t] = NewSlot]

\* Slip: the flag of the previous seek stays set.
ResetGlobalsNot(t) ==
    /\ op' = [op EXCEPT ![t] = "seek"]
    /\ UNCHANGED slot

ResetGlobals(t) ==
    /\ op' = [op EXCEPT ![t] = "seek"]
    /\ slot[Global].owner = Free
    /\ slot' = [slot EXCEPT ![Global].done = 0, ![Global].ret = Failed]

Begin(t) ==
    /\ alive /\ pc[t] = "idle" /\ Goto(t, "forward")
    /\ \E n \in Requests : ~InUse(n) /\ request' = [request EXCEPT ![t] = n]
    /\ IF t \in SeekThreads THEN ResetGlobals(t) ELSE NewFrame(t)
    /\ UNCHANGED <<alive, result, netVars, callback>>

Forward(t) ==
    /\ alive /\ pc[t] = "forward" /\ Goto(t, "lock")
    /\ sent' = sent \cup {Message(t)}
    /\ UNCHANGED <<alive, op, request, result, slot, arrived, serverUp, callback>>

\* HG_Forward may report that the server has died; every caller asserts that
\* it does not.
ForwardAsserts(t) ==
    /\ alive /\ pc[t] = "forward" /\ ~serverUp
    /\ alive' = FALSE
    /\ UNCHANGED <<threadVars, slot, netVars, callback>>

WaitLock(t) ==
    /\ alive /\ pc[t] = "lock" /\ Goto(t, "check")
    /\ slot[SlotOf(t)].owner = Free
    /\ slot' = [slot EXCEPT ![SlotOf(t)].owner = t]
    /\ UNCHANGED <<alive, op, request, result, netVars, callback>>

\* The flag must equal HG_TRUE, that is 1.
IsDone(t) == slot[SlotOf(t)].done = 1

\* Slip: the caller waits without looking at the flag, as README.md:142 has it.
WaitSleepUnchecked(t) ==
    /\ alive /\ pc[t] = "check" /\ Goto(t, "sleeping")
    /\ slot' = [slot EXCEPT ![SlotOf(t)].owner = Free,
                            ![SlotOf(t)].sleeping = @ \cup {t}]
    /\ UNCHANGED <<alive, op, request, result, netVars, callback>>

WaitSleep(t) ==
    /\ alive /\ pc[t] = "check" /\ ~IsDone(t) /\ Goto(t, "sleeping")
    /\ slot' = [slot EXCEPT ![SlotOf(t)].owner = Free,
                            ![SlotOf(t)].sleeping = @ \cup {t}]
    /\ UNCHANGED <<alive, op, request, result, netVars, callback>>

\* pthread_cond_wait returns with the mutex, after a signal or spuriously.
WaitWake(t) ==
    /\ alive /\ pc[t] = "sleeping" /\ Goto(t, "check")
    /\ slot[SlotOf(t)].owner = Free
    /\ slot' = [slot EXCEPT ![SlotOf(t)].owner = t,
                            ![SlotOf(t)].sleeping = @ \ {t},
                            ![SlotOf(t)].woken = @ \ {t}]
    /\ UNCHANGED <<alive, op, request, result, netVars, callback>>

WaitReturn(t) ==
    /\ alive /\ pc[t] = "check" /\ IsDone(t) /\ Goto(t, "idle")
    /\ result' = [result EXCEPT ![t] = slot[SlotOf(t)].ret]
    /\ request' = [request EXCEPT ![t] = NoRequest]
    /\ slot' = [slot EXCEPT ![SlotOf(t)].owner = Free]
    /\ UNCHANGED <<alive, op, netVars, callback>>

\* Slip: reads time out as well and fall back to the file system.
ReadTimesOut(t) ==
    /\ alive /\ pc[t] = "sleeping" /\ op[t] = "read" /\ Goto(t, "idle")
    /\ slot[t].owner = Free
    /\ result' = [result EXCEPT ![t] = Failed]
    /\ request' = [request EXCEPT ![t] = NoRequest]
    /\ UNCHANGED <<alive, op, slot, netVars, callback>>

\* Only an open waits with a timeout, and it ends the process, even when the
\* answer has arrived in the meantime.
WaitTimeout(t) ==
    /\ alive /\ pc[t] = "sleeping" /\ op[t] = "open"
    /\ slot[SlotOf(t)].owner = Free
    /\ alive' = FALSE
    /\ UNCHANGED <<threadVars, slot, netVars, callback>>

-----------------------------------------------------------------------------
(* The server, and the progress thread's callbacks.                        *)

ServerAnswers(m) ==
    /\ serverUp
    /\ sent' = sent \ {m}
    /\ \E ret \in {m.n, Failed} :
          arrived' = Append(arrived, [n |-> m.n, thread |-> m.thread, op |-> m.op, ret |-> ret])
    /\ UNCHANGED <<alive, threadVars, slot, serverUp, callback>>

ServerDies ==
    /\ ServersMayDie /\ serverUp /\ serverUp' = FALSE
    /\ UNCHANGED <<alive, threadVars, slot, sent, arrived, callback>>

\* Mercury reports that a request to a dead server failed.  The callbacks of an
\* open and a read assert that this never happens; that of a seek returns what
\* is in an uninitialized variable, which may be an older answer.
CallbackAsserts(m) ==
    /\ alive /\ callback.at = "none" /\ ~serverUp /\ m.op # "seek"
    /\ alive' = FALSE
    /\ UNCHANGED <<threadVars, slot, netVars, callback>>

SeekUnanswered(m) ==
    /\ ~serverUp /\ m.op = "seek"
    /\ sent' = sent \ {m}
    /\ \E ret \in Answer :
          arrived' = Append(arrived, [n |-> m.n, thread |-> m.thread, op |-> m.op, ret |-> ret])
    /\ UNCHANGED <<alive, threadVars, slot, serverUp, callback>>

\* The answer of a read is stored through a pointer to the caller's frame, that
\* of an open in fd_redir_map under the caller's new descriptor, which no other
\* call uses (`ret' of the frame stands for either), before any lock is taken.
\* A seek stores its answer later, in CallbackDone.
CallbackStart ==
    LET m == Head(arrived) IN
    /\ alive /\ callback.at = "none" /\ arrived # << >>
    /\ arrived' = Tail(arrived)
    /\ callback' = [at |-> "done", n |-> m.n, thread |-> m.thread, op |-> m.op, ret |-> m.ret]
    /\ slot' = IF m.op = "seek" THEN slot ELSE [slot EXCEPT ![m.thread].ret = m.ret]
    /\ UNCHANGED <<alive, threadVars, sent, serverUp>>

CallbackGoto(at) == callback' = [callback EXCEPT !.at = at]

\* The callback locks the mutex and sets the flag: to HG_TRUE for an open and
\* a read, by increment for a seek.
CallbackDone ==
    /\ alive /\ callback.at = "done" /\ CallbackGoto("signal")
    /\ slot[CallbackSlot].owner = Free
    /\ slot' = IF callback.op = "seek"
               THEN [slot EXCEPT ![Global].owner = Progress, ![Global].done = @ + 1,
                                 ![Global].ret = callback.ret]
               ELSE [slot EXCEPT ![callback.thread].owner = Progress,
                                 ![callback.thread].done = 1]
    /\ UNCHANGED <<alive, threadVars, netVars>>

\* pthread_cond_signal wakes one sleeping thread, if there is one.
CallbackSignal ==
    LET asleep == slot[CallbackSlot].sleeping \ slot[CallbackSlot].woken IN
    /\ alive /\ callback.at = "signal" /\ CallbackGoto("unlock")
    /\ \/ \E t \in asleep : slot' = [slot EXCEPT ![CallbackSlot].woken = @ \cup {t}]
       \/ asleep = {} /\ UNCHANGED slot
    /\ UNCHANGED <<alive, threadVars, netVars>>

CallbackUnlock ==
    /\ alive /\ callback.at = "unlock" /\ callback' = NoCallback
    /\ slot' = [slot EXCEPT ![CallbackSlot].owner = Free]
    /\ UNCHANGED <<alive, threadVars, netVars>>

-----------------------------------------------------------------------------
Wait(t)  == WaitLock(t) \/ WaitSleep(t) \/ WaitWake(t) \/ WaitReturn(t)
Callback == CallbackStart \/ CallbackDone \/ CallbackSignal \/ CallbackUnlock

Next ==
    \/ \E t \in Threads : \/ Begin(t) \/ Forward(t) \/ ForwardAsserts(t)
                         \/ Wait(t) \/ WaitTimeout(t)
    \/ \E m \in sent : ServerAnswers(m) \/ CallbackAsserts(m) \/ SeekUnanswered(m)
    \/ ServerDies \/ Callback

Spec == Init /\ [][Next]_vars

\* Threads run, a thread whose mutex is free time and again gets it, a server
\* that lives answers, and a sleeper wakes up when it was signalled.
FairSpec ==
    /\ Spec
    /\ \A t \in Threads :
          /\ WF_vars(Forward(t))
          /\ SF_vars(Wait(t) /\ (pc[t] = "sleeping" => t \in slot[SlotOf(t)].woken))
    /\ \A m \in [n : Requests, thread : Threads, op : {"open", "read", "seek"}] :
          WF_vars(m \in sent /\ ServerAnswers(m))
    /\ SF_vars(Callback)

-----------------------------------------------------------------------------
\* The frame a callback writes to, now or when its answer arrives, belongs to
\* the very call that sent the request: that call has not returned.
FramesOutliveCallbacks ==
    alive =>
    /\ \A m \in sent \cup ToSet(arrived) : m.op # "seek" => request[m.thread] = m.n
    /\ callback.at # "none" /\ callback.op # "seek"
          => request[callback.thread] = callback.n

\* The waiting threads implement BlockingCall: every call returns, with the
\* answer to its own request, unless several threads seek.
Calls == INSTANCE BlockingCall
ImplementsCalls == Calls!CallSpec

\* README.md:105: every RPC request has a mutex, a condition and state variables
\* of its own, without races: a call returns only the answer to its own request.
\* (A seek whose server died answers with anything, see SeekUnanswered.)
OwnAnswers ==
    \A t \in Threads :
        pc[t] = "check" /\ IsDone(t) /\ (serverUp \/ op[t] # "seek")
            => slot[SlotOf(t)].ret \in {request[t], Failed}

\* README.md:3: training goes on without interruption when a server fails: a
\* call comes back to its thread even then.
ServiceContinues == \A t \in Threads : pc[t] # "idle" ~> pc[t] = "idle"
===============================================================================
