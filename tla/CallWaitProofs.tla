--------------------------- MODULE CallWaitProofs ---------------------------
(***************************************************************************)
(* The waiting threads of a client, for any number of threads and requests.*)
(*                                                                         *)
(* Opens and reads need no assumption: each waits in a frame of its own.   *)
(* Seeks share one slot, so what is said of them holds as long as a single *)
(* thread seeks.                                                           *)
(***************************************************************************)
EXTENDS CallWait, TLAPS, SequenceTheorems

SeekAlone == \A t, u \in SeekThreads : t = u

\* The slot that t waits on is its own.
Own(t) == t \notin SeekThreads \/ SeekAlone

Waiting == {"lock", "check", "sleeping"}
Owners  == Threads \cup {Progress, Free}
Ops     == {"open", "read", "seek"}
SlotRecord == [done : Nat, ret : Answer, owner : Owners,
               sleeping : SUBSET Threads, woken : SUBSET Threads]
Arrived == [n : Requests, thread : Threads, op : Ops, ret : Answer]

-----------------------------------------------------------------------------
(* The inductive invariant.                                                *)

\* A mutex is held by the thread that looks at its flag, or by the callback
\* that has set it.
LockInv ==
    \A l \in Slots :
        /\ \A t \in Threads : slot[l].owner = t <=> pc[t] = "check" /\ SlotOf(t) = l
        /\ slot[l].owner = Progress <=>
              callback.at \in {"signal", "unlock"} /\ CallbackSlot = l

\* The result t will find is that of its own request, or not there yet.
RightResult(t) == serverUp \/ op[t] # "seek" => slot[SlotOf(t)].ret \in {request[t], Failed}

ThreadOK(t) ==
    /\ op[t] = "seek" => t \in SeekThreads
    /\ op[t] \in {"open", "read"} => t \notin SeekThreads
    /\ IF pc[t] = "idle" THEN request[t] = NoRequest
                         ELSE op[t] # "none" /\ request[t] \in Requests
    /\ Own(t) /\ pc[t] = "forward" => slot[SlotOf(t)].done = 0
    /\ Own(t) /\ pc[t] # "idle" => RightResult(t)

ThreadInv == \A t \in Threads : ThreadOK(t)

\* The call that message m belongs to is still waiting for it.
StillWaits(m) ==
    /\ request[m.thread] = m.n /\ op[m.thread] = m.op /\ pc[m.thread] \in Waiting

RightAnswer(m) == serverUp \/ m.op # "seek" => m.ret \in {m.n, Failed}

CallbackInv ==
    /\ callback.at \in {"none", "done", "signal", "unlock"}
    /\ callback.at # "none" =>
          /\ callback \in [at : {"done", "signal", "unlock"}, n : Requests,
                           thread : Threads, op : Ops, ret : Answer]
          /\ callback.op = "seek" <=> callback.thread \in SeekThreads
          /\ RightAnswer(callback)
          /\ Own(callback.thread) =>
                /\ StillWaits(callback)
                /\ callback.at = "done" => slot[CallbackSlot].done = 0

\* A message in flight is the only one of its call, which has no answer yet.
Pending(m) ==
    /\ m.op = "seek" <=> m.thread \in SeekThreads
    /\ Own(m.thread) =>
          /\ StillWaits(m)
          /\ slot[SlotOf(m.thread)].done = 0
          /\ callback.at # "none" => callback.thread # m.thread

FlightInv ==
    /\ \A m \in sent : Pending(m)
    /\ \A i \in 1 .. Len(arrived) : Pending(arrived[i]) /\ RightAnswer(arrived[i])
    /\ \A m \in sent, i \in 1 .. Len(arrived) :
          Own(m.thread) => m.thread # arrived[i].thread
    /\ \A i, j \in 1 .. Len(arrived) :
          i # j /\ Own(arrived[i].thread) => arrived[i].thread # arrived[j].thread

IInv == TypeOK /\ LockInv /\ ThreadInv /\ CallbackInv /\ FlightInv

-----------------------------------------------------------------------------
(* What the changes of a slot leave alone.                                 *)

LEMMA SlotTypes ==
    /\ Global \in Slots /\ Threads \subseteq Slots
    /\ \A t \in Threads : SlotOf(t) \in Slots
    /\ Failed \in Answer /\ Free \in Owners /\ Progress \in Owners
    /\ NewSlot \in SlotRecord /\ NewSlot.done = 0 /\ NewSlot.ret = Failed
    /\ NewSlot.owner = Free
BY DEF Slots, SlotOf, Answer, Owners, NewSlot, SlotRecord

LEMMA TypeSlot == TypeOK => slot \in [Slots -> SlotRecord]
BY DEF TypeOK, SlotRecord, Owners

\* A slot record with other contents.
LEMMA OneSlot ==
    ASSUME TypeOK, NEW l \in Slots, NEW rec \in SlotRecord, slot' = [slot EXCEPT ![l] = rec]
    PROVE  /\ slot' \in [Slots -> SlotRecord] /\ slot'[l] = rec
           /\ \A k \in Slots : k # l => slot'[k] = slot[k]
BY TypeSlot

\* What an action does to one slot, and that it does nothing to the others.
Changes(l, o, n, r) ==
    /\ slot' \in [Slots -> SlotRecord]
    /\ slot'[l].owner = o /\ slot'[l].done = n /\ slot'[l].ret = r
    /\ \A k \in Slots : k # l => slot'[k] = slot[k]

ChangesOwner(l, o) == Changes(l, o, slot[l].done, slot[l].ret)

LEMMA SlotChange ==
    ASSUME TypeOK, NEW l \in Slots, NEW rec \in SlotRecord, slot' = [slot EXCEPT ![l] = rec]
    PROVE  Changes(l, rec.owner, rec.done, rec.ret)
BY OneSlot DEF Changes

LEMMA OwnerChange ==
    ASSUME TypeOK, NEW l \in Slots, NEW o \in Owners, slot' = [slot EXCEPT ![l].owner = o]
    PROVE  ChangesOwner(l, o)
<1> DEFINE new == [slot[l] EXCEPT !.owner = o]
<1>1. slot' = [slot EXCEPT ![l] = new]
  OBVIOUS
<1>2. new \in SlotRecord /\ new.owner = o /\ new.done = slot[l].done /\ new.ret = slot[l].ret
  BY TypeSlot DEF SlotRecord
<1> HIDE DEF new
<1> QED
  BY <1>1, <1>2, SlotChange DEF ChangesOwner

LEMMA ThreadChanges ==
    ASSUME TypeOK, NEW t \in Threads
    PROVE  /\ WaitLock(t) => ChangesOwner(SlotOf(t), t)
           /\ WaitSleep(t) => ChangesOwner(SlotOf(t), Free)
           /\ WaitWake(t) => ChangesOwner(SlotOf(t), t)
           /\ WaitReturn(t) => ChangesOwner(SlotOf(t), Free)
           /\ NewFrame(t) => Changes(t, Free, 0, Failed)
           /\ ResetGlobals(t) => Changes(Global, Free, 0, Failed)
<1> DEFINE l == SlotOf(t)
           rec == slot[l]
<1>1. /\ l \in Slots /\ rec \in SlotRecord /\ t \in Owners /\ Free \in Owners
      /\ rec.done \in Nat /\ rec.ret \in Answer
      /\ rec.sleeping \cup {t} \in SUBSET Threads /\ rec.sleeping \ {t} \in SUBSET Threads
      /\ rec.woken \ {t} \in SUBSET Threads
  BY SlotTypes, TypeSlot DEF Owners, SlotRecord
<1>2. ASSUME WaitLock(t) PROVE ChangesOwner(l, t)
  BY <1>1, <1>2, OwnerChange DEF WaitLock
<1>3. ASSUME WaitSleep(t) PROVE ChangesOwner(l, Free)
  <2> DEFINE new == [rec EXCEPT !.owner = Free, !.sleeping = rec.sleeping \cup {t}]
  <2>1. slot' = [slot EXCEPT ![l] = new]
    BY <1>1, <1>3, TypeSlot DEF WaitSleep
  <2>2. new \in SlotRecord /\ new.owner = Free /\ new.done = rec.done /\ new.ret = rec.ret
    BY <1>1 DEF SlotRecord
  <2> HIDE DEF new
  <2> QED
    BY <1>1, <2>1, <2>2, SlotChange DEF ChangesOwner
<1>4. ASSUME WaitWake(t) PROVE ChangesOwner(l, t)
  <2> DEFINE new == [rec EXCEPT !.owner = t, !.sleeping = rec.sleeping \ {t},
                                !.woken = rec.woken \ {t}]
  <2>1. slot' = [slot EXCEPT ![l] = new]
    BY <1>1, <1>4, TypeSlot DEF WaitWake
  <2>2. new \in SlotRecord /\ new.owner = t /\ new.done = rec.done /\ new.ret = rec.ret
    BY <1>1 DEF SlotRecord
  <2> HIDE DEF new
  <2> QED
    BY <1>1, <2>1, <2>2, SlotChange DEF ChangesOwner
<1>5. ASSUME WaitReturn(t) PROVE ChangesOwner(l, Free)
  BY <1>1, <1>5, OwnerChange DEF WaitReturn
<1>6. ASSUME NewFrame(t) PROVE Changes(t, Free, 0, Failed)
  <2>1. slot' = [slot EXCEPT ![t] = NewSlot] /\ t \in Slots
    BY <1>6, SlotTypes DEF NewFrame
  <2> QED
    BY <2>1, SlotTypes, SlotChange
<1>7. ASSUME ResetGlobals(t) PROVE Changes(Global, Free, 0, Failed)
  <2> DEFINE new == [slot[Global] EXCEPT !.done = 0, !.ret = Failed]
  <2>1. slot' = [slot EXCEPT ![Global] = new] /\ slot[Global].owner = Free
    BY <1>7, SlotTypes, TypeSlot DEF ResetGlobals
  <2>2. slot[Global] \in SlotRecord
    BY SlotTypes, TypeSlot
  <2>3. new \in SlotRecord /\ new.owner = Free /\ new.done = 0 /\ new.ret = Failed
    BY <2>1, <2>2, SlotTypes DEF SlotRecord
  <2> HIDE DEF new
  <2> QED
    BY <2>1, <2>3, SlotTypes, SlotChange
<1> QED
  BY <1>2, <1>3, <1>4, <1>5, <1>6, <1>7

LEMMA CallbackChanges ==
    ASSUME TypeOK, CallbackInv, callback.at # "none", CallbackSlot \in Slots
    PROVE  /\ CallbackDone =>
                 Changes(CallbackSlot, Progress,
                         IF callback.op = "seek" THEN slot[CallbackSlot].done + 1 ELSE 1,
                         IF callback.op = "seek" THEN callback.ret ELSE slot[CallbackSlot].ret)
           /\ CallbackSignal => ChangesOwner(CallbackSlot, slot[CallbackSlot].owner)
           /\ CallbackUnlock => ChangesOwner(CallbackSlot, Free)
<1> DEFINE l == CallbackSlot
           rec == slot[l]
<1>1. /\ rec \in SlotRecord /\ Progress \in Owners /\ Free \in Owners
      /\ rec.done \in Nat /\ rec.ret \in Answer /\ rec.owner \in Owners
      /\ callback.ret \in Answer
  BY SlotTypes, TypeSlot DEF SlotRecord, CallbackInv
<1>2. ASSUME CallbackDone, callback.op = "seek"
      PROVE  Changes(l, Progress, rec.done + 1, callback.ret)
  <2> DEFINE n == rec.done + 1
             new == [rec EXCEPT !.owner = Progress, !.done = n, !.ret = callback.ret]
  <2>0. n \in Nat
    BY <1>1
  <2>1. slot' = [slot EXCEPT ![l] = new]
    BY <1>1, <1>2, TypeSlot DEF CallbackDone, CallbackSlot
  <2> HIDE DEF n
  <2>2. /\ new \in SlotRecord /\ new.owner = Progress /\ new.done = n
        /\ new.ret = callback.ret
    BY <1>1, <2>0 DEF SlotRecord
  <2> HIDE DEF new
  <2> QED
    BY <1>1, <2>1, <2>2, SlotChange DEF n
<1>3. ASSUME CallbackDone, callback.op # "seek" PROVE Changes(l, Progress, 1, rec.ret)
  <2> DEFINE new == [rec EXCEPT !.owner = Progress, !.done = 1]
  <2>1. slot' = [slot EXCEPT ![l] = new]
    BY <1>1, <1>3, TypeSlot DEF CallbackDone, CallbackSlot
  <2>2. new \in SlotRecord /\ new.owner = Progress /\ new.done = 1 /\ new.ret = rec.ret
    BY <1>1 DEF SlotRecord
  <2> HIDE DEF new
  <2> QED
    BY <1>1, <2>1, <2>2, SlotChange
<1>4. ASSUME CallbackSignal PROVE ChangesOwner(l, rec.owner)
  <2>1. CASE UNCHANGED slot
    BY <1>1, <2>1, TypeSlot DEF ChangesOwner, Changes
  <2>2. ASSUME NEW t \in rec.sleeping, slot' = [slot EXCEPT ![l].woken = rec.woken \cup {t}]
        PROVE  ChangesOwner(l, rec.owner)
    <3>1. rec.woken \cup {t} \in SUBSET Threads
      BY <1>1, <2>2 DEF SlotRecord
    <3> DEFINE new == [rec EXCEPT !.woken = rec.woken \cup {t}]
    <3>2. slot' = [slot EXCEPT ![l] = new]
      BY <2>2
    <3>3. /\ new \in SlotRecord /\ new.owner = rec.owner /\ new.done = rec.done
          /\ new.ret = rec.ret
      BY <1>1, <3>1 DEF SlotRecord
    <3> HIDE DEF new
    <3> QED
      BY <1>1, <3>2, <3>3, SlotChange DEF ChangesOwner
  <2> QED
    BY <1>4, <2>1, <2>2 DEF CallbackSignal
<1>5. ASSUME CallbackUnlock PROVE ChangesOwner(l, Free)
  BY <1>1, <1>5, OwnerChange DEF CallbackUnlock
<1> QED
  BY <1>2, <1>3, <1>4, <1>5

-----------------------------------------------------------------------------
(* Steps of a thread.                                                      *)

\* Slots of different threads differ, unless both seek.
LEMMA SlotsApart ==
    ASSUME ThreadInv, NEW t \in Threads, NEW u \in Threads, t # u,
           op[u] # "none", Own(u), op[t] = "seek" => t \in SeekThreads
    PROVE  SlotOf(t) # SlotOf(u)
BY CallWaitAssumption DEF ThreadInv, ThreadOK, SlotOf, Own, SeekAlone

\* What the invariant says of the calls of other threads is kept.
LEMMA Others ==
    ASSUME IInv, NEW t \in Threads, NEW l \in Slots, UNCHANGED <<serverUp, callback>>,
           \A u \in Threads \ {t} : pc'[u] = pc[u] /\ op'[u] = op[u] /\ request'[u] = request[u],
           \A u \in Threads \ {t} : op[u] # "none" /\ Own(u) => SlotOf(u) # l,
           \A k \in Slots : k # l => slot'[k] = slot[k]
    PROVE  /\ \A u \in Threads \ {t} : ThreadOK(u)'
           /\ \A m : Pending(m) /\ m.thread \in Threads \ {t} /\ m.op # "none" => Pending(m)'
           /\ callback.at # "none" /\ callback.thread # t => CallbackInv'
<1>1. \A u \in Threads \ {t} : SlotOf(u)' = SlotOf(u)
  BY DEF SlotOf
<1>2. \A u \in Threads \ {t} : op[u] # "none" /\ Own(u) => slot'[SlotOf(u)] = slot[SlotOf(u)]
  BY SlotTypes
<1>3. ASSUME NEW u \in Threads \ {t} PROVE ThreadOK(u)'
  <2>1. ThreadOK(u) /\ (Own(u)' <=> Own(u))
    BY DEF IInv, ThreadInv, Own, SeekAlone
  <2> QED
    BY <1>1, <1>2, <2>1 DEF ThreadOK, RightResult
<1>4. ASSUME NEW m, Pending(m), m.thread \in Threads \ {t}, m.op # "none" PROVE Pending(m)'
  <2>1. Own(m.thread)' <=> Own(m.thread)
    BY DEF Own, SeekAlone
  <2> QED
    BY <1>1, <1>2, <1>4, <2>1 DEF Pending, StillWaits
<1>5. ASSUME callback.at # "none", callback.thread # t PROVE CallbackInv'
  <2>1. /\ callback.thread \in Threads \ {t} /\ callback.op # "none"
        /\ (Own(callback.thread)' <=> Own(callback.thread))
    BY <1>5 DEF IInv, CallbackInv, Own, SeekAlone, Ops
  <2>2. Own(callback.thread) => CallbackSlot = SlotOf(callback.thread)
    BY <1>5 DEF IInv, CallbackInv, StillWaits, CallbackSlot, SlotOf
  <2>3. CallbackSlot' = CallbackSlot
    BY DEF CallbackSlot
  <2>4. Own(callback.thread) => slot'[CallbackSlot] = slot[CallbackSlot]
    BY <1>2, <1>5, <2>1, <2>2 DEF IInv, CallbackInv, StillWaits
  <2> QED
    BY <1>5, <2>1, <2>3, <2>4 DEF IInv, CallbackInv, StillWaits, RightAnswer
<1> QED
  BY <1>3, <1>4, <1>5

LEMMA MessageTypes ==
    ASSUME IInv
    PROVE  /\ \A m \in sent : m.thread \in Threads /\ m.op \in Ops /\ m.n \in Requests
           /\ \A i \in 1 .. Len(arrived) : /\ arrived[i] \in Arrived
                                           /\ arrived[i].thread \in Threads
                                           /\ arrived[i].op \in Ops
           /\ arrived \in Seq(Arrived) /\ Len(arrived) \in Nat
<1>1. arrived \in Seq(Arrived) /\ Len(arrived) \in Nat
  BY LenProperties DEF IInv, TypeOK, Arrived, Ops
<1>2. \A i \in 1 .. Len(arrived) : arrived[i] \in Arrived
  BY <1>1, ElementOfSeq
<1> QED
  BY <1>1, <1>2 DEF IInv, TypeOK, Arrived, Ops

\* A call that is not waiting, or has found its answer, has no message under
\* way and no callback.
LEMMA NoMessage ==
    ASSUME IInv, NEW t \in Threads, Own(t),
           pc[t] \notin Waiting \/ (pc[t] = "check" /\ slot[SlotOf(t)].done # 0)
    PROVE  /\ \A m \in sent : m.thread # t
           /\ \A i \in 1 .. Len(arrived) : arrived[i].thread # t
           /\ callback.at # "none" => callback.thread # t
<1>1. \A m : Pending(m) => m.thread # t
  BY DEF Pending, StillWaits
<1>2. ASSUME callback.at # "none", callback.thread = t PROVE FALSE
  <2>1. /\ StillWaits(callback) /\ callback.at \in {"done", "signal", "unlock"}
        /\ callback.at = "done" => slot[CallbackSlot].done = 0
    BY <1>2 DEF IInv, CallbackInv
  <2>2. pc[t] = "check" /\ slot[SlotOf(t)].done # 0 /\ CallbackSlot = SlotOf(t)
    BY <1>2, <2>1 DEF StillWaits, CallbackSlot, SlotOf
  <2>3. slot[SlotOf(t)].owner = t /\ slot[SlotOf(t)].owner = Progress
    BY <2>1, <2>2, SlotTypes DEF IInv, LockInv
  <2> QED
    BY <2>3, CallWaitAssumption
<1> QED
  BY <1>1, <1>2 DEF IInv, FlightInv

\* A thread goes on waiting.
LEMMA WaitsOn ==
    ASSUME IInv, NEW t \in Threads, pc[t] \in Waiting, pc'[t] \in Waiting,
           \A u \in Threads \ {t} : pc'[u] = pc[u],
           UNCHANGED <<op, request, sent, arrived, serverUp, callback>>,
           \A k \in Slots : slot'[k].done = slot[k].done /\ slot'[k].ret = slot[k].ret
    PROVE  ThreadInv' /\ CallbackInv' /\ FlightInv'
<1>1. \A u \in Threads : SlotOf(u)' = SlotOf(u) /\ (Own(u)' <=> Own(u))
  BY DEF SlotOf, Own, SeekAlone
<1>2. \A u \in Threads : pc'[u] \in Waiting <=> pc[u] \in Waiting
  OBVIOUS
<1>3. \A u \in Threads : /\ pc'[u] = "idle" <=> pc[u] = "idle"
                         /\ pc'[u] = "forward" <=> pc[u] = "forward"
  BY DEF Waiting
<1>4. ThreadInv'
  <2> SUFFICES ASSUME NEW u \in Threads PROVE ThreadOK(u)'
    BY DEF ThreadInv
  <2>1. ThreadOK(u) /\ SlotOf(u) \in Slots
    BY SlotTypes DEF IInv, ThreadInv
  <2> QED
    BY <1>1, <1>3, <2>1 DEF ThreadOK, RightResult
<1>5. \A m : m.thread \in Threads /\ Pending(m) => Pending(m)'
  BY <1>1, <1>2, SlotTypes DEF Pending, StillWaits
<1>6. FlightInv'
  <2>1. \A m : RightAnswer(m)' <=> RightAnswer(m)
    BY DEF RightAnswer
  <2> QED
    BY <1>1, <1>5, <2>1, MessageTypes DEF IInv, FlightInv
<1>7. CallbackInv'
  <2>1. CASE callback.at = "none"
    BY <2>1 DEF IInv, CallbackInv
  <2>2. CASE callback.at # "none"
    <3>1. callback.thread \in Threads /\ CallbackSlot' = CallbackSlot /\ CallbackSlot \in Slots
      BY <2>2, SlotTypes DEF IInv, CallbackInv, CallbackSlot
    <3> QED
      BY <1>1, <1>2, <2>2, <3>1 DEF IInv, CallbackInv, StillWaits, RightAnswer
  <2> QED
    BY <2>1, <2>2
<1> QED
  BY <1>4, <1>6, <1>7

\* The slot t waits on is in the hands of t, or in nobody's.
LEMMA ThreadLocks ==
    ASSUME IInv, NEW t \in Threads, UNCHANGED callback,
           \A u \in Threads \ {t} : pc'[u] = pc[u] /\ op'[u] = op[u],
           NEW l \in Slots, l = SlotOf(t)', slot[l].owner \in {t, Free},
           pc[t] = "check" => l = SlotOf(t),
           slot'[l].owner = IF pc'[t] = "check" THEN t ELSE Free,
           \A k \in Slots : k # l => slot'[k] = slot[k]
    PROVE  LockInv'
<1>1. CallbackSlot' = CallbackSlot
  BY DEF CallbackSlot
<1>2. \A u \in Threads \ {t} : SlotOf(u)' = SlotOf(u)
  BY DEF SlotOf
<1>3. /\ Progress # Free /\ \A u \in Threads : u # Free /\ u # Progress
  BY CallWaitAssumption
<1> SUFFICES ASSUME NEW k \in Slots
             PROVE  /\ \A u \in Threads : slot'[k].owner = u <=> pc'[u] = "check" /\ SlotOf(u)' = k
                    /\ slot'[k].owner = Progress <=>
                          callback'.at \in {"signal", "unlock"} /\ CallbackSlot' = k
  BY DEF LockInv
<1>4. /\ \A u \in Threads : slot[k].owner = u <=> pc[u] = "check" /\ SlotOf(u) = k
      /\ slot[k].owner = Progress <=> callback.at \in {"signal", "unlock"} /\ CallbackSlot = k
  BY DEF IInv, LockInv
<1>5. CASE k = l
  BY <1>1, <1>2, <1>3, <1>4, <1>5
<1>6. CASE k # l
  BY <1>1, <1>2, <1>3, <1>4, <1>6
<1> QED
  BY <1>5, <1>6

LEMMA StepWait ==
    ASSUME IInv, NEW t \in Threads, WaitLock(t) \/ WaitSleep(t) \/ WaitWake(t)
    PROVE  IInv'
<1>1. /\ pc[t] \in Waiting /\ pc'[t] \in Waiting /\ \A u \in Threads \ {t} : pc'[u] = pc[u]
      /\ UNCHANGED <<alive, op, request, result, sent, arrived, serverUp, callback>>
      /\ pc' \in [Threads -> {"idle", "forward", "lock", "check", "sleeping"}]
  BY DEF WaitLock, WaitSleep, WaitWake, Goto, netVars, IInv, TypeOK, Waiting
<1> DEFINE l == SlotOf(t)
<1>2. l \in Slots /\ l' = l
  BY <1>1, SlotTypes DEF SlotOf
<1>3. PICK o : ChangesOwner(l, o) /\ o = IF pc'[t] = "check" THEN t ELSE Free
  BY ThreadChanges DEF WaitLock, WaitSleep, WaitWake, Goto, IInv, TypeOK
<1>4. /\ \A k \in Slots : slot'[k].done = slot[k].done /\ slot'[k].ret = slot[k].ret
      /\ \A k \in Slots : k # l => slot'[k] = slot[k]
      /\ slot'[l].owner = o /\ slot' \in [Slots -> SlotRecord]
  BY <1>2, <1>3 DEF ChangesOwner, Changes
<1>5. TypeOK'
  BY <1>1, <1>4 DEF IInv, TypeOK, SlotRecord, Owners
<1>6. ThreadInv' /\ CallbackInv' /\ FlightInv'
  BY <1>1, <1>4, WaitsOn
<1>7. slot[l].owner \in {t, Free}
  BY <1>2 DEF WaitLock, WaitSleep, WaitWake, IInv, LockInv
<1>8. LockInv'
  <2> HIDE DEF l
  <2>1. l = SlotOf(t)' /\ l = SlotOf(t)
    BY <1>2 DEF l
  <2> QED
    BY <1>1, <1>2, <1>3, <1>4, <1>7, <2>1, ThreadLocks
<1> QED
  BY <1>5, <1>6, <1>8 DEF IInv

\* A message that is not of t is kept, and so are all of them if t has none.
LEMMA KeepsFlight ==
    ASSUME IInv, NEW t \in Threads, UNCHANGED <<sent, arrived, serverUp>>,
           Own(t) => /\ \A m \in sent : m.thread # t
                     /\ \A i \in 1 .. Len(arrived) : arrived[i].thread # t,
           \A m : Pending(m) /\ m.thread \in Threads \ {t} /\ m.op # "none" => Pending(m)'
    PROVE  FlightInv'
<1>1. \A u \in Threads : Own(u)' <=> Own(u)
  BY DEF Own, SeekAlone
<1>2. ASSUME NEW m, m.thread \in Threads, m.op \in Ops, Pending(m),
             Own(t) => m.thread # t
      PROVE  Pending(m)'
  <2>1. CASE m.thread = t
    <3>1. ~Own(m.thread) /\ ~Own(m.thread)'
      BY <1>1, <1>2, <2>1
    <3> QED
      BY <1>2, <3>1 DEF Pending
  <2>2. CASE m.thread # t
    BY <1>2, <2>2 DEF Ops
  <2> QED
    BY <2>1, <2>2
<1>3. \A m : RightAnswer(m)' <=> RightAnswer(m)
  BY DEF RightAnswer
<1> QED
  BY <1>1, <1>2, <1>3, MessageTypes DEF IInv, FlightInv

\* The callback in progress is not of t, or not about a slot of its own.
LEMMA KeepsCallback ==
    ASSUME IInv, NEW t \in Threads, UNCHANGED <<serverUp, callback>>,
           Own(t) /\ callback.at # "none" => callback.thread # t,
           callback.at # "none" /\ callback.thread # t => CallbackInv'
    PROVE  CallbackInv'
<1>1. CASE callback.at = "none"
  BY <1>1 DEF IInv, CallbackInv
<1>2. CASE callback.at # "none" /\ callback.thread = t
  <2>1. ~Own(callback.thread) /\ ~Own(callback.thread)'
    BY <1>2 DEF Own, SeekAlone
  <2> QED
    BY <1>2, <2>1 DEF IInv, CallbackInv, RightAnswer
<1> QED
  BY <1>1, <1>2

LEMMA StepReturn ==
    ASSUME IInv, NEW t \in Threads, WaitReturn(t)
    PROVE  IInv'
<1> DEFINE l == SlotOf(t)
<1>1. /\ pc[t] = "check" /\ pc'[t] = "idle" /\ request'[t] = NoRequest
      /\ \A u \in Threads \ {t} : pc'[u] = pc[u] /\ op'[u] = op[u] /\ request'[u] = request[u]
      /\ UNCHANGED <<alive, op, sent, arrived, serverUp, callback>>
      /\ pc' \in [Threads -> {"idle", "forward", "lock", "check", "sleeping"}]
      /\ request' \in [Threads -> Requests \cup {NoRequest}]
  BY DEF WaitReturn, Goto, netVars, IInv, TypeOK
<1>2. l \in Slots /\ l' = l /\ slot[l].done = 1 /\ slot[l].owner = t
  BY <1>1, SlotTypes DEF SlotOf, WaitReturn, IsDone, IInv, LockInv
<1>3. /\ \A k \in Slots : k # l => slot'[k] = slot[k]
      /\ slot'[l].owner = Free /\ slot' \in [Slots -> SlotRecord]
  BY ThreadChanges DEF ChangesOwner, Changes, IInv
<1>4. TypeOK'
  <2>1. slot[l].ret \in Answer
    BY <1>2, TypeSlot DEF SlotRecord, IInv
  <2>2. result' \in [Threads -> Answer]
    BY <2>1 DEF WaitReturn, IInv, TypeOK
  <2> QED
    BY <1>1, <1>3, <2>2 DEF IInv, TypeOK, SlotRecord, Owners
<1>5. Own(t) => /\ \A m \in sent : m.thread # t
                /\ \A i \in 1 .. Len(arrived) : arrived[i].thread # t
                /\ callback.at # "none" => callback.thread # t
  BY <1>1, <1>2, NoMessage
<1>6. \A u \in Threads \ {t} : op[u] # "none" /\ Own(u) => SlotOf(u) # l
  BY SlotsApart DEF IInv, ThreadInv, ThreadOK
<1>7. /\ \A u \in Threads \ {t} : ThreadOK(u)'
      /\ \A m : Pending(m) /\ m.thread \in Threads \ {t} /\ m.op # "none" => Pending(m)'
      /\ callback.at # "none" /\ callback.thread # t => CallbackInv'
  <2> HIDE DEF l
  <2> QED
    BY <1>1, <1>2, <1>3, <1>6, Others
<1>8. ThreadOK(t)'
  BY <1>1 DEF IInv, ThreadInv, ThreadOK
<1>9. LockInv'
  <2> HIDE DEF l
  <2>1. l = SlotOf(t)' /\ l = SlotOf(t)
    BY <1>2 DEF l
  <2>2. /\ slot[l].owner \in {t, Free}
        /\ slot'[l].owner = IF pc'[t] = "check" THEN t ELSE Free
        /\ \A u \in Threads \ {t} : pc'[u] = pc[u] /\ op'[u] = op[u]
    BY <1>1, <1>2, <1>3
  <2> QED
    BY <1>1, <1>2, <1>3, <2>1, <2>2, ThreadLocks
<1>10. FlightInv' /\ CallbackInv'
  BY <1>1, <1>5, <1>7, KeepsFlight, KeepsCallback
<1> QED
  BY <1>4, <1>7, <1>8, <1>9, <1>10 DEF IInv, ThreadInv

LEMMA StepBegin ==
    ASSUME IInv, NEW t \in Threads, Begin(t)
    PROVE  IInv'
<1> DEFINE l == IF t \in SeekThreads THEN Global ELSE t
<1>1. PICK n \in Requests : request' = [request EXCEPT ![t] = n]
  BY DEF Begin
<1>2. /\ pc[t] = "idle" /\ pc'[t] = "forward" /\ request'[t] = n
      /\ \A u \in Threads \ {t} : pc'[u] = pc[u] /\ request'[u] = request[u]
      /\ UNCHANGED <<alive, result, sent, arrived, serverUp, callback>>
      /\ pc' \in [Threads -> {"idle", "forward", "lock", "check", "sleeping"}]
      /\ request' \in [Threads -> Requests \cup {NoRequest}]
  BY <1>1 DEF Begin, Goto, netVars, IInv, TypeOK
<1>3. /\ \A u \in Threads \ {t} : op'[u] = op[u]
      /\ op'[t] \in IF t \in SeekThreads THEN {"seek"} ELSE {"open", "read"}
      /\ op' \in [Threads -> {"none", "open", "read", "seek"}]
  <2>1. PICK o \in (IF t \in SeekThreads THEN {"seek"} ELSE {"open", "read"}) :
           op' = [op EXCEPT ![t] = o]
    BY DEF Begin, NewFrame, ResetGlobals
  <2> QED
    BY <2>1 DEF IInv, TypeOK
<1>4. l \in Slots /\ l = SlotOf(t)' /\ Changes(l, Free, 0, Failed)
  BY <1>3, SlotTypes, ThreadChanges DEF SlotOf, Begin, IInv
<1>5. /\ \A k \in Slots : k # l => slot'[k] = slot[k]
      /\ slot'[l].owner = Free /\ slot'[l].done = 0 /\ slot'[l].ret = Failed
      /\ slot' \in [Slots -> SlotRecord]
  BY <1>4 DEF Changes
<1>6. Own(t) => /\ \A m \in sent : m.thread # t
                /\ \A i \in 1 .. Len(arrived) : arrived[i].thread # t
                /\ callback.at # "none" => callback.thread # t
  BY <1>2, NoMessage DEF Waiting
<1>7. slot[l].owner = Free
  <2>1. CASE t \in SeekThreads
    BY <2>1 DEF Begin, ResetGlobals
  <2>2. CASE t \notin SeekThreads
    <3>1. \A u \in Threads : slot[t].owner = u => u = t
      BY CallWaitAssumption, SlotTypes DEF IInv, LockInv, SlotOf
    <3>2. slot[t].owner # t
      BY <1>2, SlotTypes DEF IInv, LockInv
    <3>3. slot[t].owner # Progress
      <4>1. callback.at # "none" => callback.thread # t
        BY <1>6, <2>2 DEF Own
      <4>2. callback.at # "none" => CallbackSlot # t
        BY <4>1, CallWaitAssumption DEF CallbackSlot
      <4> QED
        BY <4>2, SlotTypes DEF IInv, LockInv
    <3>4. slot[t].owner \in Owners
      BY SlotTypes, TypeSlot DEF SlotRecord, IInv
    <3> QED
      BY <2>2, <3>1, <3>2, <3>3, <3>4 DEF Owners
  <2> QED
    BY <2>1, <2>2
<1>8. TypeOK'
  BY <1>2, <1>3, <1>5 DEF IInv, TypeOK, SlotRecord, Owners
<1>9. \A u \in Threads \ {t} : op[u] # "none" /\ Own(u) => SlotOf(u) # l
  BY CallWaitAssumption DEF SlotOf, IInv, ThreadInv, ThreadOK, Own, SeekAlone
<1> HIDE DEF l
<1>10. /\ \A u \in Threads \ {t} : ThreadOK(u)'
       /\ \A m : Pending(m) /\ m.thread \in Threads \ {t} /\ m.op # "none" => Pending(m)'
       /\ callback.at # "none" /\ callback.thread # t => CallbackInv'
  BY <1>2, <1>3, <1>4, <1>5, <1>9, Others
<1>11. ThreadOK(t)'
  BY <1>2, <1>3, <1>4, <1>5, CallWaitAssumption DEF ThreadOK, RightResult
<1>12. LockInv'
  BY <1>2, <1>3, <1>4, <1>5, <1>7, ThreadLocks
<1>13. FlightInv' /\ CallbackInv'
  BY <1>2, <1>6, <1>10, KeepsFlight, KeepsCallback
<1> QED
  BY <1>8, <1>10, <1>11, <1>12, <1>13 DEF IInv, ThreadInv

LEMMA StepForward ==
    ASSUME IInv, NEW t \in Threads, Forward(t)
    PROVE  IInv'
<1>1. /\ pc[t] = "forward" /\ pc'[t] = "lock" /\ sent' = sent \cup {Message(t)}
      /\ \A u \in Threads \ {t} : pc'[u] = pc[u]
      /\ UNCHANGED <<alive, op, request, result, slot, arrived, serverUp, callback>>
      /\ pc' \in [Threads -> {"idle", "forward", "lock", "check", "sleeping"}]
  BY DEF Forward, Goto, IInv, TypeOK
<1>2. /\ op[t] \in Ops /\ request[t] \in Requests /\ (op[t] = "seek" <=> t \in SeekThreads)
      /\ Own(t) => slot[SlotOf(t)].done = 0
  BY <1>1 DEF IInv, ThreadInv, ThreadOK, TypeOK, Ops
<1>3. \A u \in Threads : SlotOf(u)' = SlotOf(u) /\ (Own(u)' <=> Own(u))
  BY <1>1 DEF SlotOf, Own, SeekAlone
<1>4. TypeOK'
  <2>1. Message(t) \in [n : Requests, thread : Threads, op : {"open", "read", "seek"}]
    BY <1>2 DEF Message, Ops
  <2> QED
    BY <1>1, <2>1 DEF IInv, TypeOK
<1>5. ThreadInv'
  BY <1>1, <1>3 DEF IInv, ThreadInv, ThreadOK, RightResult
<1>6. Own(t) => /\ \A m \in sent : m.thread # t
                /\ \A i \in 1 .. Len(arrived) : arrived[i].thread # t
                /\ callback.at # "none" => callback.thread # t
  BY <1>1, NoMessage DEF Waiting
<1>7. LockInv'
  BY <1>1, <1>3 DEF IInv, LockInv, CallbackSlot
<1>8. \A m : m.thread \in Threads /\ Pending(m) => Pending(m)'
  BY <1>1, <1>3 DEF Pending, StillWaits, Waiting
<1>9. Pending(Message(t))'
  <2>1. Message(t).thread = t /\ Message(t).n = request[t] /\ Message(t).op = op[t]
        /\ Message(t)' = Message(t)
    BY <1>1 DEF Message
  <2> QED
    BY <1>1, <1>2, <1>3, <1>6, <2>1 DEF Pending, StillWaits, Waiting
<1>10. FlightInv'
  <2>1. \A m : RightAnswer(m)' <=> RightAnswer(m)
    BY <1>1 DEF RightAnswer
  <2>2. \A m \in sent' : Pending(m)'
    BY <1>1, <1>8, <1>9, MessageTypes DEF IInv, FlightInv, Message
  <2>3. \A m \in sent', i \in 1 .. Len(arrived) : Own(m.thread) => m.thread # arrived[i].thread
    BY <1>1, <1>6 DEF IInv, FlightInv, Message
  <2> QED
    BY <1>1, <1>3, <1>8, <2>1, <2>2, <2>3, MessageTypes DEF IInv, FlightInv, Own, SeekAlone
<1>11. CallbackInv'
  BY <1>1, <1>3 DEF IInv, CallbackInv, StillWaits, RightAnswer, CallbackSlot, Waiting
<1> QED
  BY <1>4, <1>5, <1>7, <1>10, <1>11 DEF IInv

-----------------------------------------------------------------------------
(* Steps of the server and of the environment.                             *)

LEMMA AppendFacts ==
    ASSUME NEW S, NEW s \in Seq(S), NEW x \in S
    PROVE  /\ Append(s, x) \in Seq(S) /\ Len(Append(s, x)) = Len(s) + 1 /\ Len(s) \in Nat
           /\ \A i \in 1 .. Len(s) : Append(s, x)[i] = s[i]
           /\ Append(s, x)[Len(s) + 1] = x
BY AppendProperties, LenProperties

\* The request m is answered with ret.
LEMMA StepAnswer ==
    ASSUME IInv, NEW m \in sent, NEW ret \in Answer,
           serverUp \/ m.op # "seek" => ret \in {m.n, Failed},
           sent' = sent \ {m},
           arrived' = Append(arrived, [n |-> m.n, thread |-> m.thread, op |-> m.op, ret |-> ret]),
           UNCHANGED <<alive, threadVars, slot, serverUp, callback>>
    PROVE  IInv'
<1> USE DEF threadVars
<1> DEFINE a == [n |-> m.n, thread |-> m.thread, op |-> m.op, ret |-> ret]
           last == Len(arrived) + 1
<1>1. a \in Arrived /\ a.thread = m.thread /\ a.op = m.op /\ a.n = m.n /\ a.ret = ret
  BY MessageTypes DEF Arrived
<1>2. arrived' = Append(arrived, a)
  OBVIOUS
<1> HIDE DEF a
<1>3. /\ arrived' \in Seq(Arrived) /\ Len(arrived') = last /\ Len(arrived) \in Nat
      /\ \A i \in 1 .. Len(arrived) : arrived'[i] = arrived[i]
      /\ arrived'[last] = a
  BY <1>1, <1>2, MessageTypes, AppendFacts
<1>4. \A i \in 1 .. last : i \in 1 .. Len(arrived) \/ i = last
  BY <1>3
<1>5. TypeOK'
  BY <1>3 DEF IInv, TypeOK, Arrived, Ops
<1>6. LockInv' /\ ThreadInv' /\ CallbackInv'
  BY DEF IInv, LockInv, ThreadInv, ThreadOK, CallbackInv, RightResult, RightAnswer, StillWaits,
         SlotOf, Own, SeekAlone, CallbackSlot
<1>7. \A k : (Pending(k)' <=> Pending(k)) /\ (RightAnswer(k)' <=> RightAnswer(k))
  BY DEF Pending, StillWaits, SlotOf, Own, SeekAlone, RightAnswer
<1>8. \A u \in Threads : Own(u)' <=> Own(u)
  BY DEF Own, SeekAlone
<1>9. Pending(m) /\ Pending(a) /\ RightAnswer(a)
  BY <1>1 DEF IInv, FlightInv, Pending, StillWaits, RightAnswer
<1>10. \A k \in sent \ {m} : Own(k.thread) => k.thread # m.thread
  <2> SUFFICES ASSUME NEW k \in sent \ {m}, Own(k.thread), k.thread = m.thread PROVE FALSE
    OBVIOUS
  <2>1. k.n = m.n /\ k.op = m.op
    BY <1>9 DEF IInv, FlightInv, Pending, StillWaits
  <2>2. /\ k \in [n : Requests, thread : Threads, op : {"open", "read", "seek"}]
        /\ m \in [n : Requests, thread : Threads, op : {"open", "read", "seek"}]
    BY DEF IInv, TypeOK
  <2> QED
    BY <2>1, <2>2
<1>11. FlightInv'
  <2>1. \A k \in sent' : Pending(k)'
    BY <1>7 DEF IInv, FlightInv
  <2>2. \A i \in 1 .. Len(arrived') : Pending(arrived'[i]) /\ RightAnswer(arrived'[i])
    BY <1>3, <1>4, <1>9 DEF IInv, FlightInv
  <2>3. \A k \in sent', i \in 1 .. Len(arrived') :
           Own(k.thread) => k.thread # arrived'[i].thread
    BY <1>1, <1>3, <1>4, <1>10 DEF IInv, FlightInv
  <2>4. \A i, j \in 1 .. Len(arrived') :
           i # j /\ Own(arrived'[i].thread) => arrived'[i].thread # arrived'[j].thread
    <3> SUFFICES ASSUME NEW i \in 1 .. last, NEW j \in 1 .. last, i # j,
                        Own(arrived'[i].thread), arrived'[i].thread = arrived'[j].thread
                 PROVE  FALSE
      BY <1>3
    <3>1. \A k \in 1 .. Len(arrived) : Own(m.thread) => arrived[k].thread # m.thread
      BY DEF IInv, FlightInv
    <3>2. CASE i = last
      BY <1>1, <1>3, <1>4, <3>1, <3>2
    <3>3. CASE j = last
      BY <1>1, <1>3, <1>4, <3>1, <3>3
    <3>4. CASE i # last /\ j # last
      BY <1>3, <1>4, <3>4 DEF IInv, FlightInv
    <3> QED
      BY <3>2, <3>3, <3>4
  <2> QED
    BY <1>7, <2>1, <2>2, <2>3, <2>4 DEF FlightInv, Own, SeekAlone
<1> QED
  BY <1>5, <1>6, <1>11 DEF IInv

LEMMA StepServer ==
    ASSUME IInv, NEW m \in sent, ServerAnswers(m) \/ SeekUnanswered(m)
    PROVE  IInv'
<1>1. m.n \in Answer /\ Failed \in Answer
  BY MessageTypes DEF Answer
<1>2. CASE ServerAnswers(m)
  BY <1>1, <1>2, StepAnswer DEF ServerAnswers
<1>3. CASE SeekUnanswered(m)
  BY <1>3, StepAnswer DEF SeekUnanswered
<1> QED
  BY <1>2, <1>3

\* The process exits, or the server dies.
LEMMA StepEnds ==
    ASSUME IInv, UNCHANGED <<threadVars, slot, sent, arrived, callback>>,
           alive' \in BOOLEAN, serverUp' \in BOOLEAN, serverUp' => serverUp
    PROVE  IInv'
<1> USE DEF threadVars
<1>1. TypeOK' /\ LockInv'
  BY DEF IInv, TypeOK, LockInv, SlotOf, CallbackSlot
<1>2. \A u : Own(u)' <=> Own(u)
  BY DEF Own, SeekAlone
<1>3. \A k : (Pending(k)' <=> Pending(k)) /\ (RightAnswer(k) => RightAnswer(k)')
  BY <1>2 DEF Pending, StillWaits, SlotOf, RightAnswer
<1>4. FlightInv'
  BY <1>2, <1>3 DEF IInv, FlightInv
<1>5. ThreadInv'
  BY <1>2 DEF IInv, ThreadInv, ThreadOK, RightResult, SlotOf
<1>6. CallbackInv'
  <2>1. RightAnswer(callback) => RightAnswer(callback)'
    BY DEF RightAnswer
  <2> QED
    BY <1>2, <2>1 DEF IInv, CallbackInv, StillWaits, CallbackSlot
<1> QED
  BY <1>1, <1>4, <1>5, <1>6 DEF IInv

-----------------------------------------------------------------------------
(* Steps of the progress thread.                                           *)

\* The slot of the callback is that of its thread, and no other thread's.
LEMMA CallbackSlotFacts ==
    ASSUME IInv, callback.at # "none"
    PROVE  /\ callback.thread \in Threads /\ CallbackSlot \in Slots
           /\ callback \in [at : {"done", "signal", "unlock"}, n : Requests,
                            thread : Threads, op : Ops, ret : Answer]
           /\ Own(callback.thread) => SlotOf(callback.thread) = CallbackSlot
           /\ \A u \in Threads \ {callback.thread} :
                 op[u] # "none" /\ Own(u) => SlotOf(u) # CallbackSlot
<1>1. /\ callback.thread \in Threads /\ CallbackSlot \in Slots
      /\ callback \in [at : {"done", "signal", "unlock"}, n : Requests,
                       thread : Threads, op : Ops, ret : Answer]
  BY SlotTypes DEF IInv, CallbackInv, CallbackSlot
<1>2. Own(callback.thread) => SlotOf(callback.thread) = CallbackSlot
  BY DEF IInv, CallbackInv, StillWaits, CallbackSlot, SlotOf
<1>3. \A u \in Threads \ {callback.thread} :
         op[u] # "none" /\ Own(u) => SlotOf(u) # CallbackSlot
  BY CallWaitAssumption
     DEF IInv, CallbackInv, CallbackSlot, SlotOf, ThreadInv, ThreadOK, Own, SeekAlone
<1> QED
  BY <1>1, <1>2, <1>3

\* Goto of the progress thread.
LEMMA CallbackGotoFacts ==
    ASSUME IInv, callback.at # "none", NEW at \in {"done", "signal", "unlock"}, CallbackGoto(at)
    PROVE  /\ callback'.at = at /\ callback'.n = callback.n /\ callback'.thread = callback.thread
           /\ callback'.op = callback.op /\ callback'.ret = callback.ret
           /\ callback' \in [at : {"done", "signal", "unlock"}, n : Requests,
                             thread : Threads, op : Ops, ret : Answer]
           /\ CallbackSlot' = CallbackSlot
BY CallbackSlotFacts DEF CallbackGoto, CallbackSlot

LEMMA CallbackLocks ==
    ASSUME IInv, UNCHANGED <<pc, op>>, NEW l \in Slots, NEW o,
           \A k \in Slots : k # l => slot'[k].owner = slot[k].owner,
           slot'[l].owner = o, o \in {Free, Progress}, slot[l].owner \in {Free, Progress},
           o = Progress <=> callback'.at \in {"signal", "unlock"} /\ CallbackSlot' = l,
           callback.at \in {"signal", "unlock"} => CallbackSlot = l,
           callback'.at \in {"signal", "unlock"} => CallbackSlot' = l
    PROVE  LockInv'
<1>1. \A u \in Threads : SlotOf(u)' = SlotOf(u)
  BY DEF SlotOf
<1>2. \A u \in Threads : u # Free /\ u # Progress
  BY CallWaitAssumption
<1> SUFFICES ASSUME NEW k \in Slots
             PROVE  /\ \A u \in Threads : slot'[k].owner = u <=> pc'[u] = "check" /\ SlotOf(u)' = k
                    /\ slot'[k].owner = Progress <=>
                          callback'.at \in {"signal", "unlock"} /\ CallbackSlot' = k
  BY DEF LockInv
<1>3. /\ \A u \in Threads : slot[k].owner = u <=> pc[u] = "check" /\ SlotOf(u) = k
      /\ slot[k].owner = Progress <=> callback.at \in {"signal", "unlock"} /\ CallbackSlot = k
  BY DEF IInv, LockInv
<1>4. CASE k = l
  BY <1>1, <1>2, <1>3, <1>4
<1>5. CASE k # l
  BY <1>1, <1>3, <1>5
<1> QED
  BY <1>4, <1>5

LEMMA StepCallbackStart ==
    ASSUME IInv, CallbackStart
    PROVE  IInv'
<1> USE DEF threadVars
<1> DEFINE m == arrived[1]
           w == m.thread
<1>1. /\ arrived \in Seq(Arrived) /\ arrived # << >> /\ Len(arrived) \in Nat \ {0}
      /\ Head(arrived) = m /\ m \in Arrived /\ Pending(m) /\ RightAnswer(m) /\ 1 \in 1 .. Len(arrived)
  <2>1. arrived \in Seq(Arrived) /\ arrived # << >>
    BY MessageTypes DEF CallbackStart
  <2>2. Len(arrived) \in Nat \ {0}
    BY <2>1, EmptySeq
  <2>3. 1 \in 1 .. Len(arrived)
    BY <2>2
  <2>4. Head(arrived) = m
    BY <2>1
  <2> QED
    BY <2>1, <2>2, <2>3, <2>4, MessageTypes DEF IInv, FlightInv
<1> HIDE DEF m
<1>2. /\ arrived' = Tail(arrived) /\ callback.at = "none"
      /\ callback' = [at |-> "done", n |-> m.n, thread |-> w, op |-> m.op, ret |-> m.ret]
      /\ slot' = IF m.op = "seek" THEN slot ELSE [slot EXCEPT ![w].ret = m.ret]
      /\ UNCHANGED <<alive, threadVars, sent, serverUp>>
  BY <1>1 DEF CallbackStart
<1>3. /\ arrived' \in Seq(Arrived) /\ Len(arrived') = Len(arrived) - 1
      /\ \A i \in 1 .. Len(arrived') : arrived'[i] = arrived[i + 1]
  BY <1>1, <1>2, HeadTailProperties
<1>4. w \in Threads /\ w \in Slots /\ m.ret \in Answer /\ m.n \in Requests /\ m.op \in Ops
  BY <1>1, SlotTypes DEF Arrived
<1>5. /\ slot' \in [Slots -> SlotRecord]
      /\ \A k \in Slots : slot'[k].owner = slot[k].owner /\ slot'[k].done = slot[k].done
      /\ \A k \in Slots : k # w => slot'[k] = slot[k]
      /\ m.op = "seek" => slot' = slot
      /\ m.op # "seek" => slot'[w].ret = m.ret
  <2>1. CASE m.op = "seek"
    BY <1>2, <2>1, TypeSlot DEF IInv
  <2>2. CASE m.op # "seek"
    <3> DEFINE new == [slot[w] EXCEPT !.ret = m.ret]
    <3>1. slot' = [slot EXCEPT ![w] = new]
      BY <1>2, <2>2
    <3>2. /\ new \in SlotRecord /\ new.owner = slot[w].owner /\ new.done = slot[w].done
          /\ new.ret = m.ret
      BY <1>4, TypeSlot DEF SlotRecord, IInv
    <3> HIDE DEF new
    <3> QED
      BY <1>4, <2>2, <3>1, <3>2, SlotChange DEF Changes, IInv
  <2> QED
    BY <2>1, <2>2
<1>6. TypeOK'
  BY <1>2, <1>3, <1>5 DEF IInv, TypeOK, SlotRecord, Owners, Arrived, Ops
<1>7. \A u \in Threads : SlotOf(u)' = SlotOf(u) /\ (Own(u)' <=> Own(u)) /\ SlotOf(u) \in Slots
  BY <1>2, SlotTypes DEF SlotOf, Own, SeekAlone
<1>8. /\ m.op = "seek" <=> w \in SeekThreads
      /\ Own(w) => StillWaits(m) /\ slot[SlotOf(w)].done = 0
  BY <1>1 DEF Pending
<1>9. LockInv'
  <2>1. \A k \in Slots : slot[k].owner # Progress
    BY <1>2 DEF IInv, LockInv
  <2>2. callback'.at = "done"
    BY <1>2
  <2> QED
    BY <1>2, <1>5, <1>7, <2>1, <2>2 DEF IInv, LockInv
<1>10. ThreadInv'
  <2> SUFFICES ASSUME NEW u \in Threads PROVE ThreadOK(u)'
    BY DEF ThreadInv
  <2>1. ThreadOK(u)
    BY DEF IInv, ThreadInv
  <2>2. ASSUME Own(u), pc[u] # "idle" PROVE RightResult(u)'
    <3>1. CASE SlotOf(u) = w /\ m.op # "seek"
      <4>1. u = w
        BY <1>4, <3>1, CallWaitAssumption DEF SlotOf
      <4>2. request[u] = m.n /\ op[u] = m.op /\ m.ret \in {m.n, Failed}
        BY <1>1, <1>8, <2>2, <3>1, <4>1 DEF StillWaits, RightAnswer
      <4> QED
        BY <1>2, <1>5, <1>7, <3>1, <4>2 DEF RightResult
    <3>2. CASE ~(SlotOf(u) = w /\ m.op # "seek")
      <4>1. slot'[SlotOf(u)] = slot[SlotOf(u)]
        BY <1>5, <1>7, <3>2
      <4> QED
        BY <1>2, <1>7, <2>1, <2>2, <4>1 DEF RightResult, ThreadOK
    <3> QED
      BY <3>1, <3>2
  <2> QED
    BY <1>2, <1>5, <1>7, <2>1, <2>2 DEF ThreadOK
<1>11. CallbackInv'
  <2>1. /\ callback'.at = "done" /\ callback'.n = m.n /\ callback'.thread = w
        /\ callback'.op = m.op /\ callback'.ret = m.ret
        /\ callback' \in [at : {"done", "signal", "unlock"}, n : Requests,
                          thread : Threads, op : Ops, ret : Answer]
    BY <1>2, <1>4
  <2>2. RightAnswer(callback)'
    BY <1>1, <1>2, <2>1 DEF RightAnswer
  <2>3. ASSUME Own(w) PROVE StillWaits(callback)' /\ slot'[CallbackSlot'].done = 0
    <3>1. StillWaits(m) /\ slot[SlotOf(w)].done = 0
      BY <1>8, <2>3
    <3>2. CallbackSlot' = SlotOf(w)
      BY <2>1, <3>1 DEF CallbackSlot, SlotOf, StillWaits
    <3> QED
      BY <1>2, <1>4, <1>5, <1>7, <2>1, <3>1, <3>2 DEF StillWaits
  <2> QED
    BY <1>4, <1>7, <1>8, <2>1, <2>2, <2>3 DEF CallbackInv
<1>12. FlightInv'
  <2>1. ASSUME NEW k, k.thread \in Threads, Pending(k), Own(k.thread) => k.thread # w
        PROVE  Pending(k)'
    <3>1. callback'.thread = w
      BY <1>2
    <3> QED
      BY <1>2, <1>5, <1>7, <2>1, <3>1 DEF Pending, StillWaits
  <2>2. \A k : RightAnswer(k)' <=> RightAnswer(k)
    BY <1>2 DEF RightAnswer
  <2>3. \A k \in sent : Own(k.thread) => k.thread # w
    BY <1>1 DEF m, IInv, FlightInv
  <2>4. \A i \in 1 .. Len(arrived') :
           i + 1 \in 1 .. Len(arrived) /\ i + 1 # 1 /\ arrived'[i] = arrived[i + 1]
    BY <1>1, <1>3
  <2>5. \A i \in 1 .. Len(arrived') : Own(arrived[i + 1].thread) => arrived[i + 1].thread # w
    BY <1>1, <2>4 DEF m, IInv, FlightInv
  <2>6. \A k \in sent' : Pending(k)'
    BY <1>2, <2>1, <2>3, MessageTypes DEF IInv, FlightInv
  <2>7. (\A i \in 1 .. Len(arrived) : Pending(arrived[i]) /\ RightAnswer(arrived[i]))'
    <3> SUFFICES ASSUME NEW i \in 1 .. Len(arrived'), NEW k, k = arrived'[i]
                 PROVE  Pending(k)' /\ RightAnswer(k)'
      OBVIOUS
    <3>1. k = arrived[i + 1] /\ i + 1 \in 1 .. Len(arrived)
      BY <2>4
    <3>2. k.thread \in Threads /\ Pending(k) /\ RightAnswer(k)
      BY <3>1, MessageTypes DEF IInv, FlightInv
    <3>3. Own(k.thread) => k.thread # w
      BY <2>5, <3>1
    <3> QED
      BY <2>1, <2>2, <3>2, <3>3
  <2>8. \A k \in sent', i \in 1 .. Len(arrived') :
           Own(k.thread) => k.thread # arrived'[i].thread
    BY <1>2, <2>4 DEF IInv, FlightInv
  <2>9. \A i, j \in 1 .. Len(arrived') :
           i # j /\ Own(arrived'[i].thread) => arrived'[i].thread # arrived'[j].thread
    <3> SUFFICES ASSUME NEW i \in 1 .. Len(arrived'), NEW j \in 1 .. Len(arrived'), i # j,
                        Own(arrived'[i].thread)
                 PROVE  arrived'[i].thread # arrived'[j].thread
      OBVIOUS
    <3>1. i + 1 # j + 1
      BY <1>1, <1>3
    <3> QED
      BY <2>4, <3>1 DEF IInv, FlightInv
  <2> QED
    BY <2>6, <2>7, <2>8, <2>9 DEF FlightInv, Own, SeekAlone
<1> QED
  BY <1>6, <1>9, <1>10, <1>11, <1>12 DEF IInv

\* The callback sets the flag, which ends the part of the call it is about.
LEMMA StepCallbackDone ==
    ASSUME IInv, CallbackDone
    PROVE  IInv'
<1> USE DEF threadVars, netVars
<1> DEFINE l == CallbackSlot
           w == callback.thread
<1>1. /\ callback.at = "done" /\ CallbackGoto("signal") /\ slot[l].owner = Free
      /\ UNCHANGED <<alive, threadVars, sent, arrived, serverUp>>
  BY DEF CallbackDone
<1>2. /\ w \in Threads /\ l \in Slots
      /\ Own(w) => SlotOf(w) = l
      /\ \A u \in Threads \ {w} : op[u] # "none" /\ Own(u) => SlotOf(u) # l
  BY <1>1, CallbackSlotFacts
<1>3. /\ callback'.at = "signal" /\ callback'.n = callback.n /\ callback'.thread = w
      /\ callback'.op = callback.op /\ callback'.ret = callback.ret
      /\ callback' \in [at : {"done", "signal", "unlock"}, n : Requests,
                        thread : Threads, op : Ops, ret : Answer]
      /\ CallbackSlot' = l
  BY <1>1, CallbackGotoFacts
<1>4. /\ slot' \in [Slots -> SlotRecord] /\ slot'[l].owner = Progress
      /\ slot'[l].ret = IF callback.op = "seek" THEN callback.ret ELSE slot[l].ret
      /\ \A k \in Slots : k # l => slot'[k] = slot[k]
  BY <1>1, <1>2, CallbackChanges DEF Changes, IInv
<1> HIDE DEF l
<1>5. \A u \in Threads : SlotOf(u)' = SlotOf(u) /\ (Own(u)' <=> Own(u)) /\ SlotOf(u) \in Slots
  BY <1>1, SlotTypes DEF SlotOf, Own, SeekAlone
<1>6. TypeOK'
  BY <1>1, <1>4 DEF IInv, TypeOK, SlotRecord, Owners
<1>7. LockInv'
  BY <1>1, <1>2, <1>3, <1>4, CallbackLocks DEF l
<1>8. RightAnswer(callback) /\ (Own(w) => StillWaits(callback))
  BY <1>1 DEF IInv, CallbackInv
<1>9. ThreadInv'
  <2> SUFFICES ASSUME NEW u \in Threads PROVE ThreadOK(u)'
    BY DEF ThreadInv
  <2>1. ThreadOK(u)
    BY DEF IInv, ThreadInv
  <2>2. CASE Own(u) /\ u = w
    <3>1. pc[u] \in Waiting /\ request[u] = callback.n /\ op[u] = callback.op /\ SlotOf(u) = l
      BY <1>2, <1>8, <2>2 DEF StillWaits
    <3>2. RightResult(u) => RightResult(u)'
      BY <1>1, <1>4, <1>5, <1>8, <3>1 DEF RightResult, RightAnswer
    <3> QED
      BY <1>1, <1>5, <2>1, <2>2, <3>1, <3>2 DEF ThreadOK, Waiting
  <2>3. CASE Own(u) /\ u # w
    <3>1. op[u] # "none" => slot'[SlotOf(u)] = slot[SlotOf(u)]
      BY <1>2, <1>4, <1>5, <2>3
    <3>2. pc[u] # "idle" => op[u] # "none"
      BY <2>1 DEF ThreadOK
    <3> QED
      BY <1>1, <1>5, <2>1, <2>3, <3>1, <3>2 DEF ThreadOK, RightResult
  <2>4. CASE ~Own(u)
    BY <1>1, <1>5, <2>1, <2>4 DEF ThreadOK
  <2> QED
    BY <2>2, <2>3, <2>4
<1>10. CallbackInv'
  <2>1. StillWaits(callback)' <=> StillWaits(callback)
    BY <1>1, <1>3 DEF StillWaits
  <2>2. RightAnswer(callback)'
    BY <1>1, <1>3, <1>8 DEF RightAnswer
  <2>3. callback.op = "seek" <=> callback.thread \in SeekThreads
    BY <1>1 DEF IInv, CallbackInv
  <2> QED
    BY <1>2, <1>3, <1>5, <1>8, <2>1, <2>2, <2>3 DEF CallbackInv
<1>11. FlightInv'
  <2>1. ASSUME NEW k, k.thread \in Threads, k.op # "none", Pending(k) PROVE Pending(k)'
    <3>1. CASE Own(k.thread)
      <4>1. k.thread # w /\ op[k.thread] = k.op /\ slot[SlotOf(k.thread)].done = 0
        BY <1>1, <2>1, <3>1 DEF Pending, StillWaits
      <4>2. slot'[SlotOf(k.thread)] = slot[SlotOf(k.thread)]
        BY <1>2, <1>4, <1>5, <2>1, <3>1, <4>1
      <4> QED
        BY <1>1, <1>3, <1>5, <2>1, <4>1, <4>2 DEF Pending, StillWaits
    <3>2. CASE ~Own(k.thread)
      BY <1>5, <2>1, <3>2 DEF Pending
    <3> QED
      BY <3>1, <3>2
  <2>2. \A k : RightAnswer(k)' <=> RightAnswer(k)
    BY <1>1 DEF RightAnswer
  <2> QED
    BY <1>1, <1>5, <2>1, <2>2, MessageTypes DEF IInv, FlightInv, Ops
<1> QED
  BY <1>6, <1>7, <1>9, <1>10, <1>11 DEF IInv

\* The end of the callback changes no flag and no result.
LEMMA StepCallbackEnd ==
    ASSUME IInv, CallbackSignal \/ CallbackUnlock
    PROVE  IInv'
<1> USE DEF threadVars, netVars
<1> DEFINE l == CallbackSlot
<1>1. /\ callback.at \in {"signal", "unlock"}
      /\ UNCHANGED <<alive, threadVars, sent, arrived, serverUp>>
  BY DEF CallbackSignal, CallbackUnlock
<1>2. l \in Slots /\ slot[l].owner = Progress
  BY <1>1, CallbackSlotFacts DEF IInv, LockInv
<1>3. /\ slot' \in [Slots -> SlotRecord]
      /\ slot'[l].owner \in {Free, Progress}
      /\ slot'[l].owner = Progress <=> CallbackSignal
      /\ \A k \in Slots : k # l => slot'[k] = slot[k]
      /\ \A k \in Slots : slot'[k].done = slot[k].done /\ slot'[k].ret = slot[k].ret
  <2>1. CASE CallbackSignal
    BY <1>1, <1>2, <2>1, CallbackChanges DEF Changes, ChangesOwner, IInv
  <2>2. CASE CallbackUnlock
    <3>1. ~CallbackSignal
      BY <2>2 DEF CallbackSignal, CallbackUnlock
    <3> QED
      BY <1>1, <1>2, <2>2, <3>1, CallbackChanges, CallWaitAssumption
         DEF Changes, ChangesOwner, IInv
  <2> QED
    BY <2>1, <2>2
<1>4. \/ /\ CallbackSignal /\ callback'.at = "unlock" /\ CallbackSlot' = l
         /\ CallbackInv'
      \/ /\ CallbackUnlock /\ callback'.at = "none" /\ CallbackInv'
  <2>1. CASE CallbackSignal
    <3>1. /\ callback'.at = "unlock" /\ callback'.n = callback.n
          /\ callback'.thread = callback.thread
          /\ callback'.op = callback.op /\ callback'.ret = callback.ret
          /\ callback' \in [at : {"done", "signal", "unlock"}, n : Requests,
                            thread : Threads, op : Ops, ret : Answer]
          /\ CallbackSlot' = l
      BY <1>1, <2>1, CallbackGotoFacts DEF CallbackSignal
    <3>2. CallbackInv'
      BY <1>1, <3>1 DEF IInv, CallbackInv, StillWaits, RightAnswer, Own, SeekAlone
    <3> QED
      BY <2>1, <3>1, <3>2
  <2>2. CASE CallbackUnlock
    BY <2>2 DEF CallbackUnlock, NoCallback, CallbackInv
  <2> QED
    BY <2>1, <2>2
<1> HIDE DEF l
<1>5. \A u \in Threads : SlotOf(u)' = SlotOf(u) /\ (Own(u)' <=> Own(u)) /\ SlotOf(u) \in Slots
  BY <1>1, SlotTypes DEF SlotOf, Own, SeekAlone
<1>6. TypeOK'
  BY <1>1, <1>3 DEF IInv, TypeOK, SlotRecord, Owners
<1>7. LockInv'
  <2>1. ~(CallbackSignal /\ CallbackUnlock)
    BY DEF CallbackSignal, CallbackUnlock
  <2>2. slot'[l].owner = Progress <=> callback'.at \in {"signal", "unlock"} /\ CallbackSlot' = l
    BY <1>3, <1>4, <2>1
  <2> QED
    BY <1>1, <1>2, <1>3, <1>4, <2>1, <2>2, CallbackLocks DEF l
<1>8. ThreadInv'
  BY <1>1, <1>3, <1>5 DEF IInv, ThreadInv, ThreadOK, RightResult
<1>9. callback'.at # "none" => callback'.thread = callback.thread /\ callback.at # "none"
  <2>1. CASE CallbackSignal
    BY <1>1, <2>1, CallbackGotoFacts DEF CallbackSignal
  <2>2. CASE CallbackUnlock
    BY <2>2 DEF CallbackUnlock, NoCallback
  <2> QED
    BY <2>1, <2>2
<1>10. FlightInv'
  <2>1. ASSUME NEW k, k.thread \in Threads, Pending(k) PROVE Pending(k)'
    BY <1>1, <1>3, <1>5, <1>9, <2>1 DEF Pending, StillWaits
  <2>2. \A k : RightAnswer(k)' <=> RightAnswer(k)
    BY <1>1 DEF RightAnswer
  <2> QED
    BY <1>1, <1>5, <2>1, <2>2, MessageTypes DEF IInv, FlightInv
<1> QED
  BY <1>4, <1>6, <1>7, <1>8, <1>10 DEF IInv

-----------------------------------------------------------------------------
(* The theorems.                                                           *)

LEMMA IInvInit == Init => IInv
<1> SUFFICES ASSUME Init PROVE IInv
  OBVIOUS
<1>1. slot \in [Slots -> SlotRecord] /\ \A l \in Slots : slot[l].owner = Free
  BY SlotTypes DEF Init
<1>2. TypeOK
  BY <1>1, EmptySeq DEF Init, TypeOK, SlotRecord, Owners, Answer
<1>3. callback.at = "none"
  BY DEF Init, NoCallback
<1>4. LockInv
  BY <1>1, <1>3, CallWaitAssumption DEF Init, LockInv
<1>5. ThreadInv
  BY DEF Init, ThreadInv, ThreadOK
<1>6. sent = {} /\ Len(arrived) = 0
  BY EmptySeq DEF Init
<1> QED
  BY <1>2, <1>3, <1>4, <1>5, <1>6 DEF IInv, CallbackInv, FlightInv

LEMMA IInvStep == ASSUME IInv, [Next]_vars PROVE IInv'
<1>1. ASSUME NEW t \in Threads, Begin(t) \/ Forward(t) \/ Wait(t) PROVE IInv'
  BY <1>1, StepBegin, StepForward, StepWait, StepReturn DEF Wait
<1>2. ASSUME NEW t \in Threads, WaitTimeout(t) \/ ForwardAsserts(t) PROVE IInv'
  <2>1. UNCHANGED <<threadVars, slot, sent, arrived, callback, serverUp>> /\ alive' = FALSE
    BY <1>2 DEF WaitTimeout, ForwardAsserts, netVars
  <2>2. serverUp \in BOOLEAN
    BY DEF IInv, TypeOK
  <2> QED
    BY <2>1, <2>2, StepEnds
<1>3. ASSUME NEW m \in sent, ServerAnswers(m) \/ SeekUnanswered(m) PROVE IInv'
  BY <1>3, StepServer
<1>4. ASSUME NEW m \in sent, CallbackAsserts(m) PROVE IInv'
  BY <1>4, StepEnds DEF CallbackAsserts, netVars, IInv, TypeOK
<1>5. CASE ServerDies
  BY <1>5, StepEnds DEF ServerDies, IInv, TypeOK
<1>6. CASE Callback
  BY <1>6, StepCallbackStart, StepCallbackDone, StepCallbackEnd DEF Callback
<1>7. CASE UNCHANGED vars
  BY <1>7, StepEnds DEF vars, netVars, IInv, TypeOK
<1> QED
  BY <1>1, <1>2, <1>3, <1>4, <1>5, <1>6, <1>7 DEF Next

LEMMA IInvHolds == Spec => []IInv
<1>1. IInv /\ [Next]_vars => IInv'
  BY IInvStep
<1> QED
  BY <1>1, IInvInit, PTL DEF Spec

\* Every variable keeps its type.
THEOREM TypeCorrect == Spec => []TypeOK
<1>1. IInv => TypeOK
  BY DEF IInv
<1> QED
  BY <1>1, IInvHolds, PTL

\* A callback of an open or a read only ever reaches the frame of the call that
\* sent its request, however many threads call.
THEOREM FramesOutliveCallbacksHolds == Spec => []FramesOutliveCallbacks
<1>1. IInv => FramesOutliveCallbacks
  <2> SUFFICES ASSUME IInv PROVE FramesOutliveCallbacks
    OBVIOUS
  <2>1. \A m : Pending(m) /\ m.op # "seek" => request[m.thread] = m.n
    BY DEF Pending, Own, StillWaits
  <2>2. \A m \in sent \cup ToSet(arrived) : Pending(m)
    BY MessageTypes, LenProperties DEF IInv, FlightInv, ToSet
  <2>3. callback.at # "none" /\ callback.op # "seek" => request[callback.thread] = callback.n
    BY DEF IInv, CallbackInv, Own, StillWaits
  <2> QED
    BY <2>1, <2>2, <2>3 DEF FramesOutliveCallbacks
<1> QED
  BY <1>1, IInvHolds, PTL

\* What OwnAnswers says of the threads that open and read.
FramesAnswered ==
    \A t \in Threads \ SeekThreads :
        pc[t] = "check" /\ IsDone(t) => slot[SlotOf(t)].ret \in {request[t], Failed}

\* However many threads seek meanwhile, and even if the server dies, an open or
\* a read finds no other answer in its frame than that to its own request.
THEOREM FramesAnsweredHolds == Spec => []FramesAnswered
<1>1. IInv => FramesAnswered
  BY DEF IInv, ThreadInv, ThreadOK, RightResult, FramesAnswered, Own
<1> QED
  BY <1>1, IInvHolds, PTL

\* As long as one thread at most seeks, no call returns the answer to another.
THEOREM OwnAnswersHolds == ASSUME SeekAlone PROVE Spec => []OwnAnswers
<1>1. IInv => OwnAnswers
  BY SeekAlone DEF IInv, ThreadInv, ThreadOK, RightResult, OwnAnswers, Own
<1> QED
  BY <1>1, IInvHolds, PTL

\* Whoever seeks, the waiting threads implement BlockingCall: every step is a
\* call, a return with an admissible answer, an end, or invisible.
THEOREM ImplementsCallSteps == Spec => Calls!CallInit /\ [][Calls!CallNext]_(Calls!callVars)
<1>1. Init => Calls!CallInit
  BY DEF Init, Calls!CallInit
<1>2. IInv /\ [Next]_vars => [Calls!CallNext]_(Calls!callVars)
  <2> SUFFICES ASSUME IInv, [Next]_vars PROVE [Calls!CallNext]_(Calls!callVars)
    OBVIOUS
  <2>1. ASSUME NEW t \in Threads, Begin(t) PROVE Calls!Invoke(t)
    <3>1. request[t] = NoRequest
      BY <2>1 DEF Begin, IInv, ThreadInv, ThreadOK
    <3> QED
      BY <2>1, <3>1 DEF Begin, InUse, Calls!Invoke, netVars
  <2>2. ASSUME NEW t \in Threads, WaitReturn(t) PROVE Calls!Return(t)
    <3>1. /\ pc[t] = "check" /\ request[t] \in Requests /\ (Own(t) => RightResult(t))
          /\ op[t] = "seek" => t \in SeekThreads
          /\ slot[SlotOf(t)].ret \in Answer
      BY <2>2, SlotTypes, TypeSlot DEF WaitReturn, IInv, ThreadInv, ThreadOK, SlotRecord
    <3>2. Calls!Reliable(t) => Own(t)
      BY DEF Calls!Reliable, Own, SeekAlone
    <3>3. slot[SlotOf(t)].ret \in Calls!Answers(t)
      BY <3>1, <3>2 DEF RightResult, Calls!Answers, Answer
    <3>4. request[t] # NoRequest
      BY <3>1, CallWaitAssumption
    <3> QED
      BY <2>2, <3>3, <3>4 DEF WaitReturn, Calls!Return, netVars
  <2>3. ASSUME NEW t \in Threads, WaitTimeout(t) \/ ForwardAsserts(t) PROVE Calls!Exit
    BY <2>3 DEF WaitTimeout, ForwardAsserts, Calls!Exit, threadVars, netVars
  <2>4. ASSUME NEW m \in sent, CallbackAsserts(m) PROVE Calls!Exit
    BY <2>4 DEF CallbackAsserts, Calls!Exit, threadVars, netVars
  <2>5. CASE ServerDies
    BY <2>5 DEF ServerDies, Calls!ServerDies, threadVars, Calls!CallNext
  <2>6. ASSUME NEW t \in Threads, Forward(t) \/ WaitLock(t) \/ WaitSleep(t) \/ WaitWake(t)
        PROVE  UNCHANGED Calls!callVars
    BY <2>6 DEF Forward, WaitLock, WaitSleep, WaitWake, Calls!callVars, netVars
  <2>7. ASSUME NEW m \in sent, ServerAnswers(m) \/ SeekUnanswered(m)
        PROVE  UNCHANGED Calls!callVars
    BY <2>7 DEF ServerAnswers, SeekUnanswered, Calls!callVars, threadVars
  <2>8. CASE Callback
    BY <2>8 DEF Callback, CallbackStart, CallbackDone, CallbackSignal, CallbackUnlock,
       Calls!callVars, threadVars, netVars
  <2>9. CASE UNCHANGED vars
    BY <2>9 DEF vars, Calls!callVars, threadVars, netVars
  <2> QED
    BY <2>1, <2>2, <2>3, <2>4, <2>5, <2>6, <2>7, <2>8, <2>9 DEF Next, Wait, Calls!CallNext
<1> QED
  BY <1>1, <1>2, IInvHolds, PTL DEF Spec

=============================================================================
