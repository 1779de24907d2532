------------------------- MODULE ServerCacheProofs -------------------------
(***************************************************************************)
(* The threads of a server for any number of files, descriptors and copies,*)
(* and any length of the queue.                                            *)
(***************************************************************************)
EXTENDS ServerCache, TLAPS, SequenceTheorems, FunctionTheorems,
        FiniteSetTheorems

OpenLabels  == {"open", "open_unlock", "open_file"}
CloseLabels == {"close", "close_check", "close_push", "close_signal",
                "close_unlock_data", "close_unlock"}
Rpc == [at : {"idle"} \cup OpenLabels \cup CloseLabels,
        path : Files, fd : Fds \cup {NoFd}, redir : Copies \cup {NoCopy}]

-----------------------------------------------------------------------------
(* The inductive invariant.                                                *)

\* Who holds which mutex is a matter of where the threads are.
LockInv ==
    /\ path_map_mutex = "progress" <=>
          rpc.at \in {"open_unlock", "close_push", "close_signal", "close_unlock_data",
                      "close_unlock"}
    /\ path_map_mutex = "mover" <=> mover = "publish_unlock"
    /\ data_mutex = "progress" <=> rpc.at \in {"close_signal", "close_unlock_data"}
    /\ data_mutex = "mover" <=> mover \in {"check", "unlock"}

\* An open is about a path, a close about a descriptor that is closed first;
\* a path is queued only while it is not cached.
RpcInv ==
    /\ rpc.at \in OpenLabels => rpc.path \in Paths
    /\ rpc.at \in CloseLabels => rpc.fd \in Fds
    /\ rpc.at \in CloseLabels \ {"close"} => opened[rpc.fd] = NoCopy
    /\ rpc.at = "close_push" => Uncached(fd_to_path[rpc.fd])
    /\ rpc.at \in {"open_unlock", "open_file"} => IsCopyOf(rpc.redir, rpc.path)

\* The entry the mover works on, and the directory it copies to, which nobody
\* knows before it is published.
MoverInv ==
    /\ mover \in {"lock", "check", "waiting"} <=> local_list = << >>
    /\ mover \notin {"copying", "publish", "publish_unlock", "pop"} => newdir = NoCopy
    /\ mover \in {"copying", "publish", "publish_unlock"} =>
          /\ newdir \in Copies /\ Head(local_list) \in Paths
          /\ copies[newdir].path = Head(local_list)
          /\ Len(copies[newdir].halves) = IF mover = "copying" THEN 1 ELSE 2
    /\ mover = "publish" => \A p \in Paths : path_cache_map[p] # newdir
    /\ mover = "publish_unlock" => path_cache_map[Head(local_list)] = newdir
    /\ mover = "pop" /\ Head(local_list) \in Paths =>
          CopyFails \/ (newdir # NoCopy /\ path_cache_map[Head(local_list)] = newdir)

IInv == /\ TypeOK /\ LockInv /\ RpcInv /\ MoverInv /\ CopiesWhole /\ NoLostWakeup

-----------------------------------------------------------------------------
(* Sequences: the library's facts, where the set of elements is known.     *)

LEMMA TailFacts ==
    ASSUME NEW S, NEW s \in Seq(S), s # << >>
    PROVE  /\ Tail(s) \in Seq(S) /\ Len(Tail(s)) = Len(s) - 1 /\ Len(s) \in Nat \ {0}
           /\ Tail(s) = << >> <=> Len(s) = 1
<1>1. Tail(s) \in Seq(S) /\ Len(Tail(s)) = Len(s) - 1
  BY HeadTailProperties
<1>2. Len(s) \in Nat \ {0}
  BY EmptySeq
<1>3. CASE Tail(s) = << >>
  <2>1. \A n \in Nat \ {0} : n - 1 = 0 => n = 1
    OBVIOUS
  <2>2. Len(Tail(s)) = 0
    BY <1>3, EmptySeq
  <2>3. Len(s) - 1 = 0
    BY <1>1, <2>2, Zenon
  <2>4. Len(s) = 1
    BY <1>2, <2>1, <2>3, Zenon
  <2> QED
    BY <1>1, <1>2, <1>3, <2>4, Zenon
<1>4. CASE Tail(s) # << >>
  <2>1. Len(Tail(s)) \in Nat \ {0}
    BY <1>1, <1>4, EmptySeq
  <2> QED
    BY <1>1, <1>2, <1>4, <2>1
<1> QED
  BY <1>3, <1>4

LEMMA AppendFacts ==
    ASSUME NEW S, NEW s \in Seq(S), NEW x \in S
    PROVE  Append(s, x) \in Seq(S) /\ Len(Append(s, x)) = Len(s) + 1
BY AppendProperties

-----------------------------------------------------------------------------
(* Types.                                                                  *)

LEMMA RpcType == TypeOK => rpc \in Rpc
BY DEF TypeOK, Rpc, OpenLabels, CloseLabels

LEMMA GotoFacts ==
    ASSUME TypeOK, NEW at \in {"idle"} \cup OpenLabels \cup CloseLabels, Goto(at)
    PROVE  /\ rpc' \in Rpc /\ rpc'.at = at /\ rpc'.path = rpc.path
           /\ rpc'.fd = rpc.fd /\ rpc'.redir = rpc.redir
BY RpcType DEF Goto, Rpc

LEMMA IdleFacts ==
    /\ Idle \in Rpc /\ Idle.at = "idle"
    /\ \A p \in Paths :
          LET new == [Idle EXCEPT !.at = "open", !.path = p] IN
          new \in Rpc /\ new.at = "open" /\ new.path = p
    /\ \A fd \in Fds :
          LET new == [Idle EXCEPT !.at = "close", !.fd = fd] IN
          new \in Rpc /\ new.at = "close" /\ new.fd = fd
BY DEF Idle, Rpc, Files, OpenLabels, CloseLabels

LEMMA TypeArrivals ==
    ASSUME TypeOK, \/ \E p \in Paths : OpenArrives(p) \/ Overwrite(p)
                   \/ \E fd \in Fds : CloseArrives(fd)
    PROVE  TypeOK'
<1>1. ASSUME NEW p \in Paths, OpenArrives(p) PROVE TypeOK'
  BY <1>1, IdleFacts DEF OpenArrives, TypeOK, moverVars, lockVars, Rpc, OpenLabels, CloseLabels
<1>2. ASSUME NEW fd \in Fds, CloseArrives(fd) PROVE TypeOK'
  BY <1>2, IdleFacts DEF CloseArrives, TypeOK, moverVars, lockVars, Rpc, OpenLabels, CloseLabels
<1>3. ASSUME NEW p \in Paths, Overwrite(p) PROVE TypeOK'
  <2>1. version' \in [Paths -> Version]
    BY <1>3, ServerCacheAssumption DEF Overwrite, TypeOK, Version
  <2> QED
    BY <1>3, <2>1 DEF Overwrite, TypeOK, progressVars, moverVars, lockVars
<1> QED
  BY <1>1, <1>2, <1>3

LEMMA TypeOpen ==
    ASSUME TypeOK, RpcInv, OpenHandler
    PROVE  TypeOK'
<1> USE DEF TypeOK, moverVars, lockVars, Rpc, OpenLabels, CloseLabels, Threads
<1>1. CASE OpenLookup
  <2>1. rpc.path \in Files
    BY RpcType
  <2>2. rpc' \in Rpc
    BY <1>1, <2>1, RpcType DEF OpenLookup
  <2> QED
    BY <1>1, <2>2 DEF OpenLookup
<1>2. CASE OpenUnlock
  BY <1>2, GotoFacts DEF OpenUnlock
<1>3. CASE OpenFile
  <2>1. rpc.path \in Files /\ rpc.redir \in Copies \cup {NoCopy} /\ rpc' \in Rpc
    BY <1>3, RpcType, IdleFacts DEF OpenFile
  <2>2. PICK fd \in Fds : /\ fd_to_path' = [fd_to_path EXCEPT ![fd] = rpc.path]
                         /\ opened' = [opened EXCEPT ![fd] = rpc.redir]
    BY <1>3 DEF OpenFile
  <2> QED
    BY <1>3, <2>1, <2>2 DEF OpenFile
<1> QED
  BY <1>1, <1>2, <1>3 DEF OpenHandler

LEMMA TypeClose ==
    ASSUME TypeOK, RpcInv, CloseHandler
    PROVE  TypeOK'
<1> USE DEF TypeOK, moverVars, lockVars, Rpc, OpenLabels, CloseLabels, Threads
<1>1. CASE CloseFile
  BY <1>1, GotoFacts DEF CloseFile
<1>2. CASE CloseCheck
  BY <1>2, GotoFacts DEF CloseCheck
<1>3. CASE ClosePush
  <2>1. fd_to_path[rpc.fd] \in Files
    BY <1>3 DEF ClosePush, RpcInv
  <2>2. data_queue' \in Seq(Files)
    BY <1>3, <2>1 DEF ClosePush
  <2> QED
    BY <1>3, <2>2, GotoFacts DEF ClosePush
<1>4. CASE CloseSignal
  BY <1>4, GotoFacts DEF CloseSignal
<1>5. CASE CloseUnlockData
  BY <1>5, GotoFacts DEF CloseUnlockData
<1>6. CASE CloseUnlock
  BY <1>6, IdleFacts DEF CloseUnlock, Files
<1> QED
  BY <1>1, <1>2, <1>3, <1>4, <1>5, <1>6 DEF CloseHandler

LEMMA NoFileFacts == NoFile.path = NoPath /\ Len(NoFile.halves) = 0
BY DEF NoFile

LEMMA HeadFile ==
    ASSUME TypeOK, local_list # << >>
    PROVE  Head(local_list) \in Files /\ Len(local_list) > 0
BY DEF TypeOK

LEMMA CopyStartFacts ==
    ASSUME TypeOK, MoverInv, CopyStart, Head(local_list) \in Paths, mover' = "copying"
    PROVE  \E d \in NewDirectories :
              /\ newdir' = d
              /\ copies' \in [Copies -> [path : Files, halves : Seq(Version)]]
              /\ copies'[d].path = Head(local_list) /\ Len(copies'[d].halves) = 1
              /\ \A e \in Copies \ {d} : copies'[e] = copies[e]
<1>1. PICK d \in NewDirectories :
         /\ newdir' = d
         /\ copies' = [copies EXCEPT ![d] =
                [path |-> Head(local_list), halves |-> <<version[Head(local_list)]>>]]
  BY DEF CopyStart
<1>2. d \in Copies
  BY DEF NewDirectories
<1>3. [path |-> Head(local_list), halves |-> <<version[Head(local_list)]>>]
         \in [path : Files, halves : Seq(Version)]
  BY DEF TypeOK, Files
<1> QED
  BY <1>1, <1>2, <1>3 DEF TypeOK

LEMMA CopyRestFacts ==
    ASSUME TypeOK, MoverInv, CopyRest, mover' = "publish"
    PROVE  /\ copies' \in [Copies -> [path : Files, halves : Seq(Version)]]
           /\ copies'[newdir].path = copies[newdir].path /\ Len(copies'[newdir].halves) = 2
           /\ \A e \in Copies \ {newdir} : copies'[e] = copies[e]
<1>1. /\ newdir \in Copies /\ Head(local_list) \in Paths
      /\ Len(copies[newdir].halves) = 1
      /\ copies' = [copies EXCEPT ![newdir].halves =
                        Append(copies[newdir].halves, version[Head(local_list)])]
  BY DEF CopyRest, MoverInv
<1> DEFINE halves == Append(copies[newdir].halves, version[Head(local_list)])
<1>2. halves \in Seq(Version) /\ Len(halves) = 2
  <2>1. copies[newdir].halves \in Seq(Version) /\ version[Head(local_list)] \in Version
    BY <1>1 DEF TypeOK
  <2> DEFINE s == copies[newdir].halves
             x == version[Head(local_list)]
  <2> HIDE DEF s, x
  <2>2. s \in Seq(Version) /\ x \in Version
    BY <2>1 DEF s, x
  <2>3. Append(s, x) \in Seq(Version) /\ Len(Append(s, x)) = Len(s) + 1
    BY <2>2, AppendFacts
  <2> QED
    BY <1>1, <2>3 DEF s, x
<1> HIDE DEF halves
<1>3. copies' = [copies EXCEPT ![newdir].halves = halves]
  BY <1>1 DEF halves
<1>4. copies \in [Copies -> [path : Files, halves : Seq(Version)]]
  BY DEF TypeOK
<1>5. copies' = [copies EXCEPT ![newdir] = [copies[newdir] EXCEPT !.halves = halves]]
  BY <1>3
<1>6. /\ [copies[newdir] EXCEPT !.halves = halves] \in [path : Files, halves : Seq(Version)]
      /\ [copies[newdir] EXCEPT !.halves = halves].path = copies[newdir].path
      /\ [copies[newdir] EXCEPT !.halves = halves].halves = halves
  BY <1>1, <1>2, <1>4
<1> QED
  BY <1>1, <1>2, <1>4, <1>5, <1>6

LEMMA TypeMover ==
    ASSUME TypeOK, MoverInv, Mover
    PROVE  TypeOK'
<1> USE DEF TypeOK, progressVars, lockVars, Threads
<1>1. CASE MoverLock \/ MoverWait \/ MoverWake \/ MoverUnlock \/ PublishUnlock
  BY <1>1 DEF MoverLock, MoverWait, MoverWake, MoverUnlock, PublishUnlock
<1>2. CASE MoverDrain
  BY <1>2 DEF MoverDrain
<1>3. CASE CopyStart
  <2>1. CASE mover' = "copying"
    <3>1. Head(local_list) \in Paths
      BY <1>3, <2>1, HeadFile DEF CopyStart, MoverInv, Files
    <3> QED
      BY <1>3, <2>1, <3>1, CopyStartFacts DEF CopyStart, NewDirectories
  <2>2. CASE mover' # "copying"
    BY <1>3, <2>2 DEF CopyStart
  <2> QED
    BY <2>1, <2>2
<1>4. CASE CopyRest
  <2>1. CASE mover' = "publish"
    BY <1>4, <2>1, CopyRestFacts DEF CopyRest
  <2>2. CASE mover' # "publish"
    BY <1>4, <2>2 DEF CopyRest
  <2> QED
    BY <2>1, <2>2
<1>5. CASE Publish
  BY <1>5 DEF Publish
<1>6. CASE MoverPop
  <2>1. Tail(local_list) \in Seq(Files)
    BY <1>6 DEF MoverPop, MoverInv
  <2> QED
    BY <1>6, <2>1 DEF MoverPop
<1> QED
  BY <1>1, <1>2, <1>3, <1>4, <1>5, <1>6 DEF Mover

LEMMA TypeStep ==
    ASSUME TypeOK, RpcInv, MoverInv, [Next]_vars
    PROVE  TypeOK'
<1>1. CASE UNCHANGED vars
  BY <1>1 DEF TypeOK, vars, progressVars, moverVars, lockVars
<1> QED
  BY <1>1, TypeArrivals, TypeOpen, TypeClose, TypeMover DEF Next

-----------------------------------------------------------------------------
(* The mutexes and the waiting mover.                                      *)

LEMMA LockStep ==
    ASSUME TypeOK, LockInv, MoverInv, NoLostWakeup, [Next]_vars
    PROVE  LockInv' /\ NoLostWakeup'
<1> USE DEF LockInv, NoLostWakeup, moverVars, lockVars, progressVars,
            OpenLabels, CloseLabels, Threads
<1>1. ASSUME NEW p \in Paths, OpenArrives(p) PROVE LockInv' /\ NoLostWakeup'
  BY <1>1, IdleFacts DEF OpenArrives
<1>2. ASSUME NEW fd \in Fds, CloseArrives(fd) PROVE LockInv' /\ NoLostWakeup'
  BY <1>2, IdleFacts DEF CloseArrives
<1>3. ASSUME NEW p \in Paths, Overwrite(p) PROVE LockInv' /\ NoLostWakeup'
  BY <1>3 DEF Overwrite
<1>4. CASE OpenLookup
  <2>1. rpc'.at = "open_unlock"
    BY <1>4, RpcType DEF OpenLookup, Rpc
  <2> QED
    BY <1>4, <2>1, ServerCacheAssumption DEF OpenLookup
<1>5. CASE OpenUnlock
  BY <1>5, GotoFacts, ServerCacheAssumption DEF OpenUnlock
<1>6. CASE OpenFile
  BY <1>6, IdleFacts DEF OpenFile
<1>7. CASE CloseFile
  BY <1>7, GotoFacts DEF CloseFile
<1>8. CASE CloseCheck
  BY <1>8, GotoFacts, ServerCacheAssumption DEF CloseCheck
<1>9. CASE ClosePush
  BY <1>9, GotoFacts, ServerCacheAssumption DEF ClosePush
<1>10. CASE CloseSignal
  BY <1>10, GotoFacts DEF CloseSignal
<1>11. CASE CloseUnlockData
  BY <1>11, GotoFacts, ServerCacheAssumption DEF CloseUnlockData
<1>12. CASE CloseUnlock
  BY <1>12, IdleFacts, ServerCacheAssumption DEF CloseUnlock
<1>13. CASE MoverLock \/ MoverWait \/ MoverWake \/ MoverDrain \/ MoverUnlock
  BY <1>13, ServerCacheAssumption DEF MoverLock, MoverWait, MoverWake, MoverDrain, MoverUnlock
<1>14. CASE CopyStart \/ CopyRest \/ Publish \/ PublishUnlock \/ MoverPop
  BY <1>14, ServerCacheAssumption DEF CopyStart, CopyRest, Publish, PublishUnlock, MoverPop
<1>15. CASE UNCHANGED vars
  BY <1>15 DEF vars
<1> QED
  BY <1>1, <1>2, <1>3, <1>4, <1>5, <1>6, <1>7, <1>8, <1>9, <1>10, <1>11, <1>12,
     <1>13, <1>14, <1>15 DEF Next, OpenHandler, CloseHandler, Mover

-----------------------------------------------------------------------------
(* The copies.                                                             *)

\* A step changes no complete copy.
LEMMA CompleteKept ==
    ASSUME TypeOK, MoverInv, [Next]_vars, NEW d \in Copies, Len(copies[d].halves) = 2
    PROVE  copies'[d] = copies[d]
<1> USE DEF moverVars
<1>1. CASE CopyStart
  <2>1. CASE mover' = "copying"
    <3>1. Head(local_list) \in Paths
      BY <1>1, <2>1, HeadFile DEF CopyStart, MoverInv, Files
    <3>2. \A e \in NewDirectories : e # d
      BY NoFileFacts DEF NewDirectories
    <3> QED
      BY <1>1, <2>1, <3>1, <3>2, CopyStartFacts
  <2>2. CASE mover' # "copying"
    BY <1>1, <2>2 DEF CopyStart
  <2> QED
    BY <2>1, <2>2
<1>2. CASE CopyRest
  <2>1. CASE mover' = "publish"
    BY <1>2, <2>1, CopyRestFacts DEF CopyRest, MoverInv
  <2>2. CASE mover' # "publish"
    BY <1>2, <2>2 DEF CopyRest
  <2> QED
    BY <2>1, <2>2
<1>3. CASE ~CopyStart /\ ~CopyRest
  BY <1>3 DEF Next, vars, OpenArrives, CloseArrives, Overwrite, OpenHandler, OpenLookup,
     OpenUnlock, OpenFile, CloseHandler, CloseFile, CloseCheck, ClosePush, CloseSignal,
     CloseUnlockData, CloseUnlock, Mover, MoverLock, MoverWait, MoverWake, MoverDrain,
     MoverUnlock, Publish, PublishUnlock, MoverPop
<1> QED
  BY <1>1, <1>2, <1>3

LEMMA CopyKept ==
    ASSUME TypeOK, MoverInv, [Next]_vars, NEW d \in Copies \cup {NoCopy}, NEW p,
           IsCopyOf(d, p)
    PROVE  IsCopyOf(d, p)'
BY CompleteKept DEF IsCopyOf

LEMMA RpcStep ==
    ASSUME TypeOK, LockInv, RpcInv, MoverInv, CopiesWhole, [Next]_vars
    PROVE  RpcInv'
<1> USE DEF moverVars, lockVars, progressVars, OpenLabels, CloseLabels
<1>1. rpc.redir \in Copies \cup {NoCopy}
  BY RpcType DEF Rpc
<1>2. \A p \in Files : path_cache_map[p] \in Copies \cup {NoCopy}
  BY DEF TypeOK
<1>3. ASSUME NEW p \in Paths, OpenArrives(p) PROVE RpcInv'
  BY <1>3, IdleFacts DEF OpenArrives, RpcInv
<1>4. ASSUME NEW fd \in Fds, CloseArrives(fd) PROVE RpcInv'
  BY <1>4, IdleFacts DEF CloseArrives, RpcInv
<1>5. CASE OpenLookup
  <2>1. /\ rpc'.at = "open_unlock" /\ rpc'.path = rpc.path /\ rpc.path \in Paths
        /\ rpc'.redir = path_cache_map[rpc.path]
    BY <1>5, RpcType DEF OpenLookup, Rpc, RpcInv
  <2>2. IsCopyOf(rpc'.redir, rpc'.path)
    BY <2>1 DEF CopiesWhole
  <2>3. IsCopyOf(rpc.redir, rpc.path)'
    BY <1>5, <2>2 DEF IsCopyOf, OpenLookup
  <2> QED
    BY <2>1, <2>3 DEF RpcInv
<1>6. CASE OpenUnlock
  BY <1>6, GotoFacts DEF OpenUnlock, RpcInv, IsCopyOf
<1>7. CASE OpenFile
  BY <1>7, IdleFacts DEF OpenFile, RpcInv
<1>8. CASE CloseFile
  <2>1. rpc.fd \in Fds /\ opened'[rpc.fd] = NoCopy
    BY <1>8 DEF CloseFile, RpcInv, TypeOK
  <2> QED
    BY <1>8, <2>1, GotoFacts DEF CloseFile, RpcInv
<1>9. CASE CloseCheck
  <2>1. Goto("close_push") \/ Goto("close_unlock")
    BY <1>9 DEF CloseCheck
  <2>2. rpc'.at \in {"close_push", "close_unlock"} /\ rpc'.fd = rpc.fd
    BY <2>1, GotoFacts
  <2>3. rpc'.at = "close_push" => Uncached(fd_to_path[rpc.fd])
    BY <1>9, GotoFacts DEF CloseCheck
  <2> QED
    BY <1>9, <2>2, <2>3 DEF CloseCheck, RpcInv, Uncached
<1>10. CASE ClosePush
  BY <1>10, GotoFacts DEF ClosePush, RpcInv
<1>11. CASE CloseSignal
  BY <1>11, GotoFacts DEF CloseSignal, RpcInv
<1>12. CASE CloseUnlockData
  BY <1>12, GotoFacts DEF CloseUnlockData, RpcInv
<1>13. CASE CloseUnlock
  BY <1>13, IdleFacts DEF CloseUnlock, RpcInv
<1>14. CASE Mover \/ (\E p \in Paths : Overwrite(p)) \/ UNCHANGED vars
  <2>1. UNCHANGED <<rpc, fd_to_path, opened>>
    BY <1>14 DEF vars, Overwrite, Mover, MoverLock, MoverWait, MoverWake, MoverDrain,
       MoverUnlock, CopyStart, CopyRest, Publish, PublishUnlock, MoverPop
  <2>2. rpc.at = "close_push" => UNCHANGED path_cache_map
    BY <1>14, ServerCacheAssumption DEF LockInv, Threads, vars, Overwrite, Mover, MoverLock,
       MoverWait, MoverWake, MoverDrain, MoverUnlock, CopyStart, CopyRest, Publish,
       PublishUnlock, MoverPop
  <2>3. IsCopyOf(rpc.redir, rpc.path) => IsCopyOf(rpc.redir, rpc.path)'
    BY <1>1, <2>1, CopyKept DEF IsCopyOf
  <2> QED
    BY <2>1, <2>2, <2>3 DEF RpcInv, Uncached
<1> QED
  BY <1>3, <1>4, <1>5, <1>6, <1>7, <1>8, <1>9, <1>10, <1>11, <1>12, <1>13, <1>14
     DEF Next, OpenHandler, CloseHandler

LEMMA MoverStep ==
    ASSUME TypeOK, MoverInv, CopiesWhole, [Next]_vars
    PROVE  MoverInv'
<1> USE DEF moverVars, lockVars, progressVars
<1>1. CASE UNCHANGED <<moverVars, path_cache_map>>
  BY <1>1 DEF MoverInv
<1>2. CASE MoverLock \/ MoverWait \/ MoverWake \/ MoverUnlock
  BY <1>2 DEF MoverLock, MoverWait, MoverWake, MoverUnlock, MoverInv
<1>3. CASE MoverDrain
  <2>1. local_list' # << >>
    BY <1>3 DEF MoverDrain, TypeOK
  <2> QED
    BY <1>3, <2>1 DEF MoverDrain, MoverInv
<1>4. CASE CopyStart
  <2>0. local_list # << >> /\ newdir = NoCopy
    BY <1>4 DEF CopyStart, MoverInv
  <2>1. CASE mover' = "copying"
    <3>1. Head(local_list) \in Paths
      BY <1>4, <2>0, <2>1, HeadFile DEF CopyStart, Files
    <3>2. PICK d \in NewDirectories :
             newdir' = d /\ copies'[d].path = Head(local_list) /\ Len(copies'[d].halves) = 1
      BY <1>4, <2>1, <3>1, CopyStartFacts
    <3> QED
      BY <1>4, <2>0, <2>1, <3>1, <3>2 DEF CopyStart, MoverInv, NewDirectories
  <2>2. CASE mover' # "copying"
    BY <1>4, <2>0, <2>2, ServerCacheAssumption DEF CopyStart, MoverInv
  <2> QED
    BY <2>1, <2>2
<1>5. CASE CopyRest
  <2>0. /\ local_list # << >> /\ newdir \in Copies /\ Head(local_list) \in Paths
        /\ copies[newdir].path = Head(local_list) /\ Len(copies[newdir].halves) = 1
        /\ UNCHANGED <<local_list, newdir, path_cache_map>>
    BY <1>5 DEF CopyRest, MoverInv
  <2>1. CASE mover' = "publish"
    <3>1. \A p \in Paths : path_cache_map[p] # newdir
      BY <2>0, ServerCacheAssumption DEF CopiesWhole, IsCopyOf
    <3> QED
      BY <1>5, <2>0, <2>1, <3>1, CopyRestFacts DEF MoverInv
  <2>2. CASE mover' # "publish"
    BY <1>5, <2>0, <2>2 DEF CopyRest, MoverInv
  <2> QED
    BY <2>1, <2>2
<1>6. CASE Publish
  <2>1. path_cache_map'[Head(local_list)] = newdir
    BY <1>6 DEF Publish, MoverInv, TypeOK, Files
  <2> QED
    BY <1>6, <2>1 DEF Publish, MoverInv
<1>7. CASE PublishUnlock
  BY <1>7, ServerCacheAssumption DEF PublishUnlock, MoverInv
<1>8. CASE MoverPop
  <2>1. local_list # << >> /\ (Tail(local_list) = << >> <=> Len(local_list) = 1)
    <3>1. local_list \in Seq(Files) /\ local_list # << >>
      BY <1>8 DEF MoverPop, MoverInv, TypeOK
    <3> QED
      BY <3>1, TailFacts
  <2> QED
    BY <1>8, <2>1 DEF MoverPop, MoverInv
<1>9. CASE ~Mover
  BY <1>1, <1>9 DEF Next, vars, OpenArrives, CloseArrives, Overwrite, OpenHandler, OpenLookup,
     OpenUnlock, OpenFile, CloseHandler, CloseFile, CloseCheck, ClosePush, CloseSignal,
     CloseUnlockData, CloseUnlock
<1> QED
  BY <1>2, <1>3, <1>4, <1>5, <1>6, <1>7, <1>8, <1>9 DEF Mover

LEMMA CopiesStep ==
    ASSUME TypeOK, RpcInv, MoverInv, CopiesWhole, [Next]_vars
    PROVE  CopiesWhole'
<1> USE DEF moverVars, lockVars, progressVars
<1>1. \A p \in Paths : path_cache_map[p] \in Copies \cup {NoCopy}
  BY DEF TypeOK, Files
<1>2. \A fd \in Fds : opened[fd] \in Copies \cup {NoCopy}
  BY DEF TypeOK
<1>3. \A p \in Paths : IsCopyOf(path_cache_map[p], p)'
  <2>1. CASE Publish
    <3>1. path_cache_map' = [path_cache_map EXCEPT ![Head(local_list)] = newdir]
          /\ UNCHANGED copies
      BY <2>1 DEF Publish
    <3>2. \A p \in Paths : path_cache_map'[p] = IF p = Head(local_list) THEN newdir
                                                ELSE path_cache_map[p]
      BY <3>1 DEF TypeOK, Files
    <3> QED
      BY <2>1, <3>1, <3>2 DEF Publish, MoverInv, CopiesWhole, IsCopyOf
  <2>2. CASE UNCHANGED path_cache_map
    BY <1>1, <2>2, CompleteKept DEF CopiesWhole, IsCopyOf
  <2> QED
    BY <2>1, <2>2 DEF Next, vars, OpenArrives, CloseArrives, Overwrite, OpenHandler, OpenLookup,
       OpenUnlock, OpenFile, CloseHandler, CloseFile, CloseCheck, ClosePush, CloseSignal,
       CloseUnlockData, CloseUnlock, Mover, MoverLock, MoverWait, MoverWake, MoverDrain,
       MoverUnlock, CopyStart, CopyRest, PublishUnlock, MoverPop
<1>4. \A fd \in Fds : IsCopyOf(opened[fd], fd_to_path[fd])'
  <2>1. CASE OpenFile
    <3>1. PICK fd \in Fds : /\ fd_to_path' = [fd_to_path EXCEPT ![fd] = rpc.path]
                            /\ opened' = [opened EXCEPT ![fd] = rpc.redir]
      BY <2>1 DEF OpenFile
    <3>2. /\ fd_to_path'[fd] = rpc.path /\ opened'[fd] = rpc.redir
          /\ \A g \in Fds \ {fd} : fd_to_path'[g] = fd_to_path[g] /\ opened'[g] = opened[g]
      BY <3>1 DEF TypeOK
    <3>3. IsCopyOf(rpc.redir, rpc.path) /\ UNCHANGED copies
      BY <2>1 DEF OpenFile, RpcInv
    <3> QED
      BY <3>2, <3>3 DEF CopiesWhole, IsCopyOf
  <2>2. CASE CloseFile
    <3>1. \A g \in Fds : opened'[g] = IF g = rpc.fd THEN NoCopy ELSE opened[g]
      BY <2>2 DEF CloseFile, TypeOK
    <3> QED
      BY <2>2, <3>1 DEF CloseFile, CopiesWhole, IsCopyOf
  <2>3. CASE CloseUnlock
    <3>1. /\ opened[rpc.fd] = NoCopy /\ UNCHANGED <<opened, copies>>
          /\ \A g \in Fds : g # rpc.fd => fd_to_path'[g] = fd_to_path[g]
      BY <2>3 DEF CloseUnlock, TypeOK, RpcInv, CloseLabels
    <3> QED
      BY <3>1 DEF CopiesWhole, IsCopyOf
  <2>4. CASE UNCHANGED <<opened, fd_to_path>>
    BY <1>2, <2>4, CompleteKept DEF CopiesWhole, IsCopyOf
  <2> QED
    BY <2>1, <2>2, <2>3, <2>4 DEF Next, vars, OpenArrives, CloseArrives, Overwrite, OpenHandler,
       OpenLookup, OpenUnlock, CloseHandler, CloseCheck, ClosePush, CloseSignal,
       CloseUnlockData, Mover, MoverLock, MoverWait, MoverWake, MoverDrain,
       MoverUnlock, CopyStart, CopyRest, Publish, PublishUnlock, MoverPop
<1> QED
  BY <1>3, <1>4 DEF CopiesWhole

-----------------------------------------------------------------------------
(* The theorems.                                                           *)

LEMMA IInvInit == Init => IInv
<1> SUFFICES ASSUME Init PROVE IInv
  OBVIOUS
<1>1. TypeOK
  <2>1. NoFile \in [path : Files, halves : Seq(Version)]
    BY DEF NoFile, Files
  <2>2. data_queue \in Seq(Files) /\ local_list \in Seq(Files)
    BY EmptySeq DEF Init
  <2>3. rpc \in Rpc
    BY IdleFacts DEF Init
  <2>4. version \in [Paths -> Version] /\ copies \in [Copies -> [path : Files, halves : Seq(Version)]]
    BY <2>1, ServerCacheAssumption DEF Init, Version
  <2> QED
    BY <2>2, <2>3, <2>4 DEF Init, TypeOK, Rpc, OpenLabels, CloseLabels, Files
<1>2. LockInv /\ RpcInv /\ NoLostWakeup
  BY IdleFacts, ServerCacheAssumption
     DEF Init, LockInv, RpcInv, NoLostWakeup, Threads, OpenLabels, CloseLabels
<1>3. MoverInv /\ CopiesWhole
  BY DEF Init, MoverInv, CopiesWhole, IsCopyOf, Files
<1> QED
  BY <1>1, <1>2, <1>3 DEF IInv

LEMMA IInvStep == IInv /\ [Next]_vars => IInv'
BY TypeStep, LockStep, RpcStep, MoverStep, CopiesStep DEF IInv

LEMMA IInvHolds == Spec => []IInv
BY IInvInit, IInvStep, PTL DEF Spec

\* Every variable keeps its type.
THEOREM TypeCorrect == Spec => []TypeOK
<1>1. IInv => TypeOK
  BY DEF IInv
<1> QED
  BY <1>1, IInvHolds, PTL

\* The data mover never sleeps beside a filled queue without a signal that has
\* come or is about to come.
THEOREM NoLostWakeupHolds == Spec => []NoLostWakeup
<1>1. IInv => NoLostWakeup
  BY DEF IInv
<1> QED
  BY <1>1, IInvHolds, PTL

\* The progress thread and the data mover never wait for each other's mutex.
THEOREM NoCircularWaitHolds == Spec => []NoCircularWait
<1>1. IInv => NoCircularWait
  BY DEF IInv, LockInv, NoCircularWait
<1> QED
  BY <1>1, IInvHolds, PTL

\* Only a complete copy of the right file is published or read.
THEOREM CopiesWholeHolds == Spec => []CopiesWhole
<1>1. IInv => CopiesWhole
  BY DEF IInv
<1> QED
  BY <1>1, IInvHolds, PTL

\* What has been published never changes.
THEOREM CopiesFrozenHolds == Spec => CopiesFrozen
<1>1. IInv /\ [Next]_vars =>
        [\A p \in Paths : path_cache_map[p] # NoCopy =>
            copies'[path_cache_map[p]] = copies[path_cache_map[p]]]_vars
  <2> SUFFICES ASSUME IInv, [Next]_vars, NEW p \in Paths, path_cache_map[p] # NoCopy
               PROVE  copies'[path_cache_map[p]] = copies[path_cache_map[p]]
    OBVIOUS
  <2>1. path_cache_map[p] \in Copies /\ Len(copies[path_cache_map[p]].halves) = 2
    BY DEF IInv, TypeOK, Files, CopiesWhole, IsCopyOf
  <2> QED
    BY <2>1, CompleteKept DEF IInv
<1> QED
  BY <1>1, IInvHolds, PTL DEF Spec, CopiesFrozen

-----------------------------------------------------------------------------
(* Counting the entries of a path.                                         *)

At(s, p)    == {i \in DOMAIN s : s[i] = p}
Count(s, p) == Cardinality(At(s, p))

LEMMA CountFacts ==
    ASSUME NEW s \in Seq(Files), NEW p
    PROVE  /\ IsFiniteSet(At(s, p)) /\ Count(s, p) \in Nat
           /\ Count(s, p) = 0 <=> At(s, p) = {}
           /\ DOMAIN s = 1 .. Len(s) /\ Len(s) \in Nat
<1>1. DOMAIN s = 1 .. Len(s) /\ Len(s) \in Nat
  BY LenProperties
<1>2. IsFiniteSet(At(s, p))
  <2>1. IsFiniteSet(1 .. Len(s)) /\ At(s, p) \subseteq 1 .. Len(s)
    BY <1>1, FS_Interval DEF At
  <2> QED
    BY <2>1, FS_Subset
<1> QED
  BY <1>1, <1>2, FS_CardinalityType, FS_EmptySet DEF Count

LEMMA CountAppend ==
    ASSUME NEW s \in Seq(Files), NEW x \in Files, NEW p
    PROVE  Count(Append(s, x), p) = IF x = p THEN Count(s, p) + 1 ELSE Count(s, p)
<1> DEFINE n == Len(s)
<1>1. /\ DOMAIN Append(s, x) = 1 .. n + 1 /\ DOMAIN s = 1 .. n /\ n \in Nat
      /\ \A i \in 1 .. n : Append(s, x)[i] = s[i]
      /\ Append(s, x)[n + 1] = x
  <2>1. Append(s, x) \in Seq(Files) /\ Len(Append(s, x)) = n + 1
    BY AppendFacts
  <2>2. /\ \A i \in 1 .. n : Append(s, x)[i] = s[i]
        /\ Append(s, x)[n + 1] = x
    BY AppendProperties
  <2> QED
    BY <2>1, <2>2, LenProperties
<1>2. At(Append(s, x), p) = IF x = p THEN At(s, p) \cup {n + 1} ELSE At(s, p)
  BY <1>1 DEF At
<1>3. n + 1 \notin At(s, p)
  BY <1>1 DEF At
<1> QED
  BY <1>2, <1>3, CountFacts, FS_AddElement DEF Count

LEMMA CountTail ==
    ASSUME NEW s \in Seq(Files), s # << >>, NEW p
    PROVE  Count(Tail(s), p) = IF Head(s) = p THEN Count(s, p) - 1 ELSE Count(s, p)
<1> DEFINE rest == At(s, p) \ {1}
           shift == [i \in At(Tail(s), p) |-> i + 1]
<1>1. /\ Tail(s) \in Seq(Files) /\ Len(s) \in Nat \ {0} /\ Len(Tail(s)) = Len(s) - 1
      /\ DOMAIN s = 1 .. Len(s) /\ DOMAIN Tail(s) = 1 .. Len(s) - 1
      /\ \A i \in 1 .. Len(s) - 1 : Tail(s)[i] = s[i + 1]
      /\ Head(s) = s[1]
  <2>1. Tail(s) \in Seq(Files) /\ Len(s) \in Nat \ {0} /\ Len(Tail(s)) = Len(s) - 1
    BY TailFacts
  <2>2. \A i \in 1 .. Len(Tail(s)) : Tail(s)[i] = s[i + 1]
    BY HeadTailProperties
  <2>3. DOMAIN s = 1 .. Len(s) /\ DOMAIN Tail(s) = 1 .. Len(Tail(s))
    BY <2>1, LenProperties
  <2> QED
    BY <2>1, <2>2, <2>3
<1>2. shift \in Bijection(At(Tail(s), p), rest)
  <2>1. shift \in [At(Tail(s), p) -> rest]
    BY <1>1 DEF At
  <2>2. \A i, j \in At(Tail(s), p) : shift[i] = shift[j] => i = j
    BY <1>1 DEF At
  <2>3. \A k \in rest : \E i \in At(Tail(s), p) : shift[i] = k
    <3> SUFFICES ASSUME NEW k \in rest PROVE k - 1 \in At(Tail(s), p) /\ shift[k - 1] = k
      OBVIOUS
    <3> QED
      BY <1>1 DEF At
  <2> QED
    BY <2>1, <2>2, <2>3, Fun_IsBij
<1>3. Cardinality(At(Tail(s), p)) = Cardinality(rest)
  <2> HIDE DEF shift, rest
  <2>1. IsFiniteSet(At(Tail(s), p))
    BY <1>1, CountFacts
  <2>2. ExistsBijection(At(Tail(s), p), rest)
    BY <1>2 DEF ExistsBijection
  <2> QED
    BY <2>1, <2>2, FS_Bijection
<1>4. 1 \in At(s, p) <=> Head(s) = p
  BY <1>1 DEF At
<1>5. Cardinality(rest) = IF 1 \in At(s, p) THEN Cardinality(At(s, p)) - 1
                                            ELSE Cardinality(At(s, p))
  BY CountFacts, FS_RemoveElement
<1> QED
  BY <1>3, <1>4, <1>5 DEF Count

-----------------------------------------------------------------------------
(* How the entries of a path come and go.                                  *)

LEMMA EntriesCount ==
    ASSUME TypeOK, NEW p
    PROVE  /\ Entries(p) = Count(data_queue, p) + Count(local_list, p)
           /\ Count(data_queue, p) \in Nat /\ Count(local_list, p) \in Nat
<1>1. Entries(p) = Count(data_queue, p) + Count(local_list, p)
  BY DEF Entries, Count, At
<1>2. data_queue \in Seq(Files) /\ local_list \in Seq(Files)
  BY DEF TypeOK
<1> QED
  BY <1>1, <1>2, CountFacts

LEMMA EntriesPush ==
    ASSUME IInv, ClosePush, NEW p
    PROVE  Entries(p)' = IF fd_to_path[rpc.fd] = p THEN Entries(p) + 1 ELSE Entries(p)
<1>1. /\ fd_to_path[rpc.fd] \in Files /\ data_queue \in Seq(Files)
      /\ data_queue' = Append(data_queue, fd_to_path[rpc.fd]) /\ UNCHANGED local_list
  BY DEF ClosePush, moverVars, IInv, TypeOK, RpcInv, CloseLabels
<1>2. Count(data_queue', p) = IF fd_to_path[rpc.fd] = p THEN Count(data_queue, p) + 1
                                                        ELSE Count(data_queue, p)
  BY <1>1, CountAppend
<1>3. Entries(p)' = Count(data_queue', p) + Count(local_list, p)
  BY <1>1 DEF Entries, Count, At
<1> QED
  BY <1>2, <1>3, EntriesCount DEF IInv

LEMMA EntriesDrain ==
    ASSUME IInv, MoverDrain, NEW p
    PROVE  Entries(p)' = Entries(p)
<1>1. /\ local_list' = data_queue /\ data_queue' = << >> /\ local_list = << >>
      /\ data_queue \in Seq(Files)
  BY ConcatEmptySeq DEF MoverDrain, IInv, TypeOK, MoverInv
<1>2. Entries(p)' = Count(<< >>, p) + Count(data_queue, p)
  BY <1>1 DEF Entries, Count, At
<1>3. Entries(p) = Count(data_queue, p) + Count(<< >>, p)
  BY <1>1 DEF Entries, Count, At
<1>4. Count(data_queue, p) \in Nat /\ Count(<< >>, p) \in Nat
  BY <1>1, EntriesCount DEF IInv
<1> QED
  BY <1>2, <1>3, <1>4

LEMMA EntriesPop ==
    ASSUME IInv, MoverPop, NEW p
    PROVE  Entries(p)' = IF Head(local_list) = p THEN Entries(p) - 1 ELSE Entries(p)
<1>1. /\ local_list' = Tail(local_list) /\ UNCHANGED data_queue
      /\ local_list \in Seq(Files) /\ local_list # << >>
  BY DEF MoverPop, IInv, TypeOK, MoverInv
<1>2. Count(local_list', p) = IF Head(local_list) = p THEN Count(local_list, p) - 1
                                                      ELSE Count(local_list, p)
  BY <1>1, CountTail
<1>3. Entries(p)' = Count(data_queue, p) + Count(local_list', p)
  BY <1>1 DEF Entries, Count, At
<1> QED
  BY <1>2, <1>3, EntriesCount DEF IInv

LEMMA ListsKept ==
    ASSUME [Next]_vars, ~ClosePush, ~MoverDrain, ~MoverPop
    PROVE  UNCHANGED <<data_queue, local_list>>
BY DEF Next, vars, moverVars, OpenArrives, CloseArrives, Overwrite, OpenHandler, OpenLookup,
   OpenUnlock, OpenFile, CloseHandler, CloseFile, CloseCheck, CloseSignal, CloseUnlockData,
   CloseUnlock, Mover, MoverLock, MoverWait, MoverWake, MoverUnlock, CopyStart, CopyRest,
   Publish, PublishUnlock

LEMMA CacheKept ==
    ASSUME [Next]_vars, ~Publish
    PROVE  UNCHANGED path_cache_map
BY DEF Next, vars, moverVars, OpenArrives, CloseArrives, Overwrite, OpenHandler, OpenLookup,
   OpenUnlock, OpenFile, CloseHandler, CloseFile, CloseCheck, ClosePush, CloseSignal,
   CloseUnlockData, CloseUnlock, Mover, MoverLock, MoverWait, MoverWake, MoverDrain,
   MoverUnlock, CopyStart, CopyRest, PublishUnlock, MoverPop

\* The entry the mover works on counts.
LEMMA HeadCounts ==
    ASSUME IInv, local_list # << >>
    PROVE  Entries(Head(local_list)) \in Nat \ {0}
<1> DEFINE h == Head(local_list)
<1>1. local_list \in Seq(Files)
  BY DEF IInv, TypeOK
<1>2. DOMAIN local_list = 1 .. Len(local_list) /\ Len(local_list) \in Nat \ {0}
  BY <1>1, EmptySeq, LenProperties
<1>3. 1 \in At(local_list, h)
  BY <1>1, <1>2 DEF At
<1>4. Count(local_list, h) \in Nat \ {0}
  BY <1>1, <1>3, CountFacts
<1> QED
  BY <1>4, EntriesCount DEF IInv

LEMMA PublishFacts ==
    ASSUME IInv, Publish
    PROVE  /\ Head(local_list) \in Paths /\ local_list # << >> /\ newdir \in Copies
           /\ path_cache_map[Head(local_list)] # newdir
           /\ \A p \in Files : path_cache_map'[p] = IF p = Head(local_list) THEN newdir
                                                    ELSE path_cache_map[p]
           /\ UNCHANGED <<data_queue, local_list, newdir>>
BY DEF IInv, Publish, MoverInv, TypeOK, Files

\* Once a file is cached and no entry of it is left, its copy is final.
THEOREM CachedSettledHolds == Spec => CachedSettled
<1>1. IInv /\ [Next]_vars =>
        [\A p \in Paths : path_cache_map[p] # NoCopy /\ Entries(p) = 0 =>
            path_cache_map'[p] = path_cache_map[p] /\ Entries(p)' = 0]_vars
  <2> SUFFICES ASSUME IInv, [Next]_vars, NEW p \in Paths,
                      path_cache_map[p] # NoCopy, Entries(p) = 0
               PROVE  path_cache_map'[p] = path_cache_map[p] /\ Entries(p)' = 0
    OBVIOUS
  <2>1. CASE Publish
    <3>1. Head(local_list) # p
      BY <2>1, PublishFacts, HeadCounts
    <3>2. UNCHANGED <<data_queue, local_list>> /\ path_cache_map'[p] = path_cache_map[p]
      BY <2>1, <3>1, PublishFacts DEF Files
    <3> QED
      BY <3>2 DEF Entries
  <2>2. CASE ClosePush
    <3>1. fd_to_path[rpc.fd] # p
      BY <2>2 DEF ClosePush, IInv, RpcInv, Uncached
    <3> QED
      BY <2>2, <3>1, EntriesPush DEF ClosePush
  <2>3. CASE MoverPop
    <3>1. Head(local_list) # p
      BY <2>3, HeadCounts DEF MoverPop, IInv, MoverInv
    <3> QED
      BY <2>3, <3>1, EntriesPop DEF MoverPop
  <2>4. CASE MoverDrain
    BY <2>4, EntriesDrain DEF MoverDrain
  <2>5. CASE ~Publish /\ ~ClosePush /\ ~MoverPop /\ ~MoverDrain
    BY <2>5, ListsKept, CacheKept DEF Entries
  <2> QED
    BY <2>1, <2>2, <2>3, <2>4, <2>5
<1> QED
  BY <1>1, IInvHolds, PTL DEF Spec, CachedSettled

-----------------------------------------------------------------------------
(* The server implements CacheSpec, its liveness apart.                    *)

\* The file of the entry in hand has been published.
Published(p) == /\ mover \in {"publish_unlock", "pop"} /\ Head(local_list) = p
                /\ newdir # NoCopy /\ path_cache_map[p] = newdir

LEMMA PendingFacts ==
    ASSUME IInv, NEW p \in Paths
    PROVE  /\ Pending(p) = IF Published(p) THEN Entries(p) - 1 ELSE Entries(p)
           /\ Pending(p)' = IF Published(p)' THEN Entries(p)' - 1 ELSE Entries(p)'
           /\ Entries(p) \in Nat
BY EntriesCount DEF Pending, Published, IInv

\* What a step does to the two variables of CacheSpec.
Cached == {p \in Paths : path_cache_map[p] # NoCopy}

LEMMA PublishFinishes ==
    ASSUME IInv, Publish
    PROVE  /\ Head(local_list) \in Paths /\ Pending(Head(local_list)) > 0
           /\ \A p \in Paths : Pending(p)' = IF p = Head(local_list) THEN Pending(p) - 1
                                             ELSE Pending(p)
           /\ Cached' = Cached \cup {Head(local_list)}
<1> DEFINE h == Head(local_list)
<1>1. h \in Paths /\ Entries(h) \in Nat \ {0}
  BY PublishFacts, HeadCounts
<1>2. \A p \in Paths : ~Published(p) /\ Entries(p)' = Entries(p)
  BY PublishFacts DEF Publish, Published, Entries
<1>3. \A p \in Paths : Published(p)' <=> p = h
  <2>1. mover' = "publish_unlock" /\ UNCHANGED <<local_list, newdir>> /\ newdir # NoCopy
        /\ path_cache_map'[h] = newdir
    BY PublishFacts, ServerCacheAssumption DEF Publish, Files
  <2> QED
    BY <2>1 DEF Published
<1>4. Cached' = Cached \cup {h}
  BY <1>1, PublishFacts, ServerCacheAssumption DEF Cached, Files
<1> QED
  BY <1>1, <1>2, <1>3, <1>4, PendingFacts

LEMMA PushEnqueues ==
    ASSUME IInv, ClosePush
    PROVE  /\ \A p \in Paths : Pending(p)' = IF p = fd_to_path[rpc.fd] THEN Pending(p) + 1
                                             ELSE Pending(p)
           /\ fd_to_path[rpc.fd] \notin Cached /\ Cached' = Cached
<1>1. UNCHANGED <<mover, local_list, newdir, path_cache_map>>
  BY DEF ClosePush, moverVars
<1>2. fd_to_path[rpc.fd] \notin Cached
  BY DEF ClosePush, IInv, RpcInv, Uncached, Cached
<1>3. \A p \in Paths : Published(p)' = Published(p)
  BY <1>1 DEF Published
<1> QED
  BY <1>1, <1>2, <1>3, EntriesPush, PendingFacts DEF Cached

LEMMA PopFinishes ==
    ASSUME IInv, MoverPop
    PROVE  /\ \A p \in Paths : Pending(p)' = IF p = Head(local_list) /\ ~Published(p)
                                             THEN Pending(p) - 1 ELSE Pending(p)
           /\ Head(local_list) \in Paths /\ ~Published(Head(local_list)) =>
                 CopyFails /\ Pending(Head(local_list)) > 0
           /\ Cached' = Cached
<1>1. mover = "pop" /\ local_list # << >> /\ newdir' = NoCopy /\ UNCHANGED path_cache_map
  BY DEF MoverPop, IInv, MoverInv
<1>2. \A p \in Paths : ~Published(p)' /\ (Published(p) => p = Head(local_list))
  BY <1>1 DEF Published
<1>3. Head(local_list) \in Paths /\ ~Published(Head(local_list)) => CopyFails
  BY <1>1 DEF IInv, MoverInv, Published
<1>4. Entries(Head(local_list)) \in Nat \ {0}
  BY <1>1, HeadCounts
<1> QED
  BY <1>1, <1>2, <1>3, <1>4, EntriesPop, PendingFacts DEF Cached

\* All other steps leave both as they are.
LEMMA CacheStutters ==
    ASSUME IInv, [Next]_vars, ~Publish, ~ClosePush, ~MoverPop
    PROVE  /\ \A p \in Paths : Pending(p)' = Pending(p)
           /\ Cached' = Cached
<1>1. Cached' = Cached /\ UNCHANGED path_cache_map
  BY CacheKept DEF Cached
<1>2. \A p \in Paths : Entries(p)' = Entries(p)
  BY ListsKept, EntriesDrain DEF Entries
<1>3. ASSUME NEW p \in Paths PROVE Published(p)' = Published(p)
  <2>1. CASE MoverDrain
    BY <2>1 DEF MoverDrain, Published
  <2>2. CASE CopyStart
    BY <2>2 DEF CopyStart, Published, IInv, MoverInv
  <2>3. CASE CopyRest
    <3>1. path_cache_map[p] # newdir /\ UNCHANGED <<path_cache_map, newdir>>
      <4>1. newdir \in Copies /\ Len(copies[newdir].halves) = 1 /\ UNCHANGED newdir
        BY <2>3 DEF CopyRest, IInv, MoverInv
      <4> QED
        BY <1>1, <4>1, ServerCacheAssumption DEF IInv, CopiesWhole, IsCopyOf
    <3> QED
      BY <2>3, <3>1 DEF CopyRest, Published
  <2>4. CASE ~MoverDrain /\ ~CopyStart /\ ~CopyRest
    <3>1. UNCHANGED <<local_list, newdir>> /\
          (mover' \in {"publish_unlock", "pop"} <=> mover \in {"publish_unlock", "pop"})
      BY <2>4 DEF Next, vars, moverVars, OpenArrives, CloseArrives, Overwrite, OpenHandler,
         OpenLookup, OpenUnlock, OpenFile, CloseHandler, CloseFile, CloseCheck, CloseSignal,
         CloseUnlockData, CloseUnlock, Mover, MoverLock, MoverWait, MoverWake, MoverUnlock,
         PublishUnlock
    <3> QED
      BY <1>1, <3>1 DEF Published
  <2> QED
    BY <2>1, <2>2, <2>3, <2>4
<1> QED
  BY <1>1, <1>2, <1>3, PendingFacts

\* Every step of the server is a step of CacheSpec, or none.
THEOREM ImplementsCacheSteps == Spec => Cache!CacheInit /\ [][Cache!CacheNext]_(Cache!cacheVars)
<1> DEFINE pending == [p \in Paths |-> Pending(p)]
<1>1. Init => Cache!CacheInit
  <2> SUFFICES ASSUME Init PROVE Cache!CacheInit
    OBVIOUS
  <2>1. \A p \in Paths : Entries(p) = 0 /\ ~Published(p)
    BY FS_EmptySet DEF Init, Entries, Published
  <2>2. \A p \in Paths : Pending(p) = 0
    BY <2>1 DEF Pending, Published
  <2> QED
    BY <2>2 DEF Init, Cache!CacheInit, Files
<1>2. IInv /\ [Next]_vars => [Cache!CacheNext]_(Cache!cacheVars)
  <2> SUFFICES ASSUME IInv, [Next]_vars PROVE [Cache!CacheNext]_(Cache!cacheVars)
    OBVIOUS
  <2> USE DEF Cached
  <2>1. CASE Publish
    <3>1. PICK h \in Paths :
             /\ Pending(h) > 0 /\ Cached' = Cached \cup {h}
             /\ \A p \in Paths : Pending(p)' = IF p = h THEN Pending(p) - 1 ELSE Pending(p)
      BY <2>1, PublishFinishes
    <3>2. pending' = [pending EXCEPT ![h] = pending[h] - 1] /\ pending[h] > 0
      BY <3>1
    <3>3. Cache!Finish(h)
      BY <3>1, <3>2 DEF Cache!Finish
    <3> QED
      BY <3>3 DEF Cache!CacheNext
  <2>2. CASE ClosePush
    <3>1. CASE fd_to_path[rpc.fd] \in Paths
      <4>1. PICK h \in Paths :
               /\ h \notin Cached /\ Cached' = Cached
               /\ \A p \in Paths : Pending(p)' = IF p = h THEN Pending(p) + 1 ELSE Pending(p)
        BY <2>2, <3>1, PushEnqueues
      <4>2. pending' = [pending EXCEPT ![h] = pending[h] + 1]
        BY <4>1
      <4>3. Cache!Enqueue(h)
        BY <4>1, <4>2 DEF Cache!Enqueue
      <4> QED
        BY <4>3 DEF Cache!CacheNext
    <3>2. CASE fd_to_path[rpc.fd] \notin Paths
      BY <2>2, <3>2, PushEnqueues DEF Cache!cacheVars
    <3> QED
      BY <3>1, <3>2
  <2>3. CASE MoverPop
    <3>1. CASE Head(local_list) \in Paths /\ ~Published(Head(local_list))
      <4>1. PICK h \in Paths :
               /\ CopyFails /\ Pending(h) > 0 /\ Cached' = Cached
               /\ \A p \in Paths : Pending(p)' = IF p = h THEN Pending(p) - 1 ELSE Pending(p)
        BY <2>3, <3>1, PopFinishes
      <4>2. pending' = [pending EXCEPT ![h] = pending[h] - 1] /\ pending[h] > 0
        BY <4>1
      <4>3. Cache!Finish(h)
        BY <4>1, <4>2 DEF Cache!Finish
      <4> QED
        BY <4>3 DEF Cache!CacheNext
    <3>2. CASE ~(Head(local_list) \in Paths /\ ~Published(Head(local_list)))
      BY <2>3, <3>2, PopFinishes DEF Cache!cacheVars
    <3> QED
      BY <3>1, <3>2
  <2>4. CASE ~Publish /\ ~ClosePush /\ ~MoverPop
    BY <2>4, CacheStutters DEF Cache!cacheVars
  <2> QED
    BY <2>1, <2>2, <2>3, <2>4
<1> QED
  BY <1>1, <1>2, IInvHolds, PTL DEF Spec

=============================================================================
