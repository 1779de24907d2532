------------------------- MODULE RemoteFilesProofs -------------------------
(***************************************************************************)
(* Theorems about the descriptor protocol, for every value of its          *)
(* constants: type correctness, and, when the modulo host and the ring     *)
(* agree, the ownership of server descriptors.                             *)
(***************************************************************************)
EXTENDS RemoteFiles, TLAPS

\* Narrowing gives a number of an int32 field, and a seek leads to a number
\* (Narrow, Target).
LEMMA SeekNumbers ==
    /\ \A off \in Int : Narrow(off) \in Number
    /\ \A pos \in Position, off \in Int, whence \in Whence : Target(pos, off, whence) \in Int
    /\ \A seek \in Seeks : seek[1] \in Int /\ seek[2] \in Whence
    /\ \A n \in Number : n \in Int
    /\ \A pos \in Position : pos \in Int
  BY RemoteFilesAssumption DEF Narrow, Number, Target, Position, Whence

\* Advance stays in the file.
LEMMA AdvanceType ==
    /\ 0 \in Position
    /\ \A pos \in Position : Advance(pos) \in Position
  BY RemoteFilesAssumption DEF Advance, Position

\* A call that is forwarded is well-formed.
LEMMA ForwardType ==
    ASSUME CallType, NEW c \in Clients, NEW o \in {"open", "read", "pread", "seek"},
           NEW fd \in Fds, NEW s \in Servers, NEW rfd \in RemoteFd, NEW off \in Int,
           NEW whence \in Whence, Forward(c, o, fd, s, rfd, off, whence)
    PROVE  CallType'
<1> DEFINE new == [op |-> o, fd |-> fd, server |-> s, rfd |-> rfd,
                   off |-> off, whence |-> whence, stage |-> "sent", ret |-> Pending]
<1>1. new \in Call
  BY DEF Call
<1>2. call' = [call EXCEPT ![c] = new]
  BY DEF Forward
<1>3. new.stage # "answered"
  OBVIOUS
<1> HIDE DEF new
<1> QED BY <1>1, <1>2, <1>3 DEF CallType, Opened

\* So is one that a server has gone on with, if an open is told a descriptor.
LEMMA AnswerType ==
    ASSUME CallType, NEW c \in Clients, call[c] # NoCall,
           NEW stage \in {"sent", "moving", "lost", "answered"},
           NEW ret \in RemoteFds \cup {Failed, Pending} \cup Place,
           call[c].op = "open" => ret \in RemoteFds \cup {Failed},
           Answer(c, stage, ret)
    PROVE  CallType'
<1> DEFINE new == [call[c] EXCEPT !.stage = stage, !.ret = ret]
<1>1. call[c] \in Call
  BY DEF CallType
<1>2. new \in Call /\ new.op = call[c].op /\ new.ret = ret
  BY <1>1 DEF Call
<1>3. call' = [call EXCEPT ![c] = new]
  BY <1>1 DEF Answer, CallType
<1> HIDE DEF new
<1> QED BY <1>2, <1>3 DEF CallType, Opened

\* A call that returns leaves none.
LEMMA ReturnType ==
    ASSUME CallType, NEW c \in Clients, call' = [call EXCEPT ![c] = NoCall]
    PROVE  CallType'
<1>1. NoCall.op # "open"
  BY DEF NoCall
<1> QED BY <1>1 DEF CallType, Opened

\* What the bookkeeping of a client does to local keeps its type.
LEMMA LocalUpdate ==
    ASSUME LocalType, NEW c \in Clients, NEW fd \in Fds,
           \/ \E p \in Paths \cup {NoPath}, pos, want \in Position :
                local' = [local EXCEPT ![c][fd] = LocalFile(p, pos, want)]
           \/ local' = [local EXCEPT ![c][fd].want = Advance(@)]
           \/ \E off, whence : local' = [local EXCEPT ![c][fd].want = Sought(@, off, whence)]
           \/ UNCHANGED local
    PROVE  LocalType'
<1> DEFINE R == [path : Paths \cup {NoPath}, pos : Position, want : Position]
           rec == local[c][fd]
<1>0. local \in [Clients -> [Fds -> R]] /\ rec \in R
  BY DEF LocalType
<1>a. ASSUME NEW new \in R, local' = [local EXCEPT ![c][fd] = new]
      PROVE  LocalType'
  <2>1. local' \in [Clients -> [Fds -> R]]
    <3> HIDE DEF R
    <3> QED BY <1>0, <1>a
  <2> QED BY <2>1 DEF LocalType
<1>1. ASSUME NEW p \in Paths \cup {NoPath}, NEW pos \in Position, NEW want \in Position,
             local' = [local EXCEPT ![c][fd] = LocalFile(p, pos, want)]
      PROVE  LocalType'
  BY <1>1, <1>a DEF LocalFile
<1>2. CASE local' = [local EXCEPT ![c][fd].want = Advance(@)]
  <2>1. [rec EXCEPT !.want = Advance(@)] \in R
    BY <1>0, AdvanceType
  <2> QED BY <1>a, <1>2, <2>1
<1>3. ASSUME NEW off, NEW whence,
             local' = [local EXCEPT ![c][fd].want = Sought(@, off, whence)]
      PROVE  LocalType'
  <2>1. [rec EXCEPT !.want = Sought(@, off, whence)] \in R
    BY <1>0 DEF Sought
  <2> QED BY <1>a, <1>3, <2>1
<1>4. CASE UNCHANGED local
  BY <1>4 DEF LocalType
<1> QED BY <1>1, <1>2, <1>3, <1>4

\* A read on the local descriptor keeps the type of local.
LEMMA RealReadType ==
    ASSUME LocalType, NEW c \in Clients, NEW fd \in Fds, RealRead(c, fd)
    PROVE  LocalType'
<1>1. /\ local[c][fd].path \in Paths \cup {NoPath}
      /\ local[c][fd].pos \in Position /\ local[c][fd].want \in Position
  BY DEF LocalType
<1> QED BY <1>1, AdvanceType, LocalUpdate DEF RealRead

\* So does a seek of it.
LEMMA RealSeekType ==
    ASSUME LocalType, NEW c \in Clients, NEW fd \in Fds, NEW off, NEW whence,
           RealSeek(c, fd, off, whence)
    PROVE  LocalType'
<1>1. /\ local[c][fd].path \in Paths \cup {NoPath}
      /\ local[c][fd].pos \in Position /\ local[c][fd].want \in Position
  BY DEF LocalType
<1>2. \A pos \in Position : Sought(pos, off, whence) \in Position
  BY DEF Sought
<1> QED BY <1>1, <1>2, LocalUpdate DEF RealSeek

\* The steps of the application keep every variable in its type.
LEMMA ApplicationType ==
    ASSUME TypeOK, NEW c \in Clients, Application(c)
    PROVE  TypeOK'
<1> SUFFICES ASSUME NEW fd \in Fds,
                    \/ \E p \in Paths, mode \in {"read", "append"} : Open(c, fd, p, mode)
                    \/ Read(c, fd) \/ Readv(c, fd)
                    \/ \E off \in Position : Pread(c, fd, off)
                    \/ \E seek \in Seeks : Seek(c, fd, seek[1], seek[2])
                    \/ Close(c, fd)
                    \/ Fclose(c, fd)
             PROVE  TypeOK'
  BY DEF Application
<1> USE DEF serverVars, clientVars
<1>h. /\ \A p \in Paths : ModHost[p] \in Servers /\ RingHost[p] \in Servers
      /\ Tracked(c, fd) => fd_map[c][fd] \in Paths
      /\ fd_redir_map[c][fd] \in RemoteFd /\ Absent \in RemoteFd
  BY RemoteFilesAssumption DEF TypeOK, MapType, Tracked, RemoteFd
<1>1. ASSUME NEW p \in Paths, NEW mode \in {"read", "append"}, Open(c, fd, p, mode)
      PROVE  TypeOK'
  <2>1. LocalType'
    BY <1>1, LocalUpdate, AdvanceType DEF Open, TypeOK
  <2>2. MapType'
    <3>1. /\ fd_map \in [Clients -> [Fds -> Paths \cup {NoPath}]]
          /\ fd_redir_map \in [Clients -> [Fds -> RemoteFd]]
      BY DEF TypeOK, MapType
    <3>2. fd_map' = [fd_map EXCEPT ![c][fd] = p] \/ fd_map' = fd_map
      BY <1>1 DEF Open, TrackFile
    <3>3. fd_redir_map' = fd_redir_map
      BY <1>1 DEF Open
    <3>4. CASE fd_map' = [fd_map EXCEPT ![c][fd] = p]
      <4>1. fd_map' \in [Clients -> [Fds -> Paths \cup {NoPath}]]
        BY <3>1, <3>4
      <4> QED BY <4>1, <3>1, <3>3 DEF MapType
    <3> QED BY <3>1, <3>2, <3>3, <3>4 DEF MapType
  <2>3. CallType'
    <3>1. CASE ForwardOpen(c, fd, ModHost[p])
      BY <3>1, <1>h, AdvanceType, SeekNumbers, ForwardType DEF ForwardOpen, Whence, TypeOK
    <3>2. CASE UNCHANGED call
      BY <3>2 DEF TypeOK, CallType, Opened
    <3> QED BY <1>1, <3>1, <3>2 DEF Open, TrackFile
  <2> QED BY <1>1, <2>1, <2>2, <2>3
          DEF Open, TypeOK, ClosingType, FileType, PathType, CacheType
<1>2. CASE Read(c, fd)
  <2>1. LocalType'
    BY <1>2, LocalUpdate, RealReadType DEF Read, RemoteRead, TypeOK
  <2>2. CallType'
    <3>1. CASE RemoteRead(c, fd)
      BY <3>1, <1>h, AdvanceType, SeekNumbers, ForwardType
         DEF RemoteRead, ForwardRead, Whence, TypeOK
    <3>2. CASE UNCHANGED call
      BY <3>2 DEF TypeOK, CallType, Opened
    <3> QED BY <1>2, <3>1, <3>2 DEF Read
  <2> QED BY <1>2, <2>1, <2>2
          DEF Read, TypeOK, MapType, ClosingType, FileType, PathType, CacheType
<1>3. ASSUME NEW off \in Position, Pread(c, fd, off)
      PROVE  TypeOK'
  <2>1. CallType'
    BY <1>3, <1>h, SeekNumbers, ForwardType DEF Pread, ForwardRead, Whence, TypeOK
  <2> QED BY <1>3, <2>1
          DEF Pread, TypeOK, LocalType, MapType, ClosingType, FileType, PathType, CacheType
<1>4. ASSUME NEW off \in Int, NEW whence \in Whence, Seek(c, fd, off, whence)
      PROVE  TypeOK'
  <2>1. LocalType'
    BY <1>4, LocalUpdate, RealSeekType DEF Seek, TypeOK
  <2>2. CallType'
    <3>1. CASE Tracked(c, fd) /\ ForwardSeek(c, fd, RingHost[fd_map[c][fd]], off, whence)
      BY <3>1, <1>h, ForwardType DEF ForwardSeek, TypeOK
    <3>2. CASE UNCHANGED call
      BY <3>2 DEF TypeOK, CallType, Opened
    <3> QED BY <1>4, <3>1, <3>2 DEF Seek
  <2> QED BY <1>4, <2>1, <2>2
          DEF Seek, TypeOK, MapType, ClosingType, FileType, PathType, CacheType
<1>5. CASE Close(c, fd)
  <2>1. LocalType'
    BY <1>5, LocalUpdate, AdvanceType DEF Close, ClosedLocal, TypeOK
  <2>2. MapType' /\ ClosingType'
    <3>1. CASE /\ ForwardClose(c, fd, RingHost[fd_map[c][fd]])
               /\ Tracked(c, fd)
               /\ fd_map' = [fd_map EXCEPT ![c][fd] = NoPath]
      <4>1. MapType'
        BY <3>1, <1>h DEF ForwardClose, TypeOK, MapType
      <4>2. ClosingType'
        BY <3>1, <1>h DEF ForwardClose, TypeOK, ClosingType
      <4> QED BY <4>1, <4>2
    <3>2. CASE UNCHANGED <<fd_map, fd_redir_map, closing>>
      BY <3>2 DEF TypeOK, MapType, ClosingType
    <3> QED BY <1>5, <3>1, <3>2 DEF Close, RemoveFd
  <2> QED BY <1>5, <2>1, <2>2
          DEF Close, TypeOK, CallType, Opened, FileType, PathType, CacheType
<1>6. CASE Fclose(c, fd)
  <2>1. LocalType'
    BY <1>6, LocalUpdate, AdvanceType DEF Fclose, ClosedLocal, TypeOK
  <2> QED BY <1>6, <2>1
          DEF Fclose, TypeOK, MapType, CallType, Opened, ClosingType, FileType, PathType,
              CacheType
<1>7. CASE Readv(c, fd)
  <2>1. LocalType'
    BY <1>7, RealReadType DEF Readv, TypeOK
  <2> QED BY <1>7, <2>1
          DEF Readv, TypeOK, MapType, CallType, Opened, ClosingType, FileType, PathType,
              CacheType
<1> QED BY <1>1, <1>2, <1>3, <1>4, <1>5, <1>6, <1>7, SeekNumbers

\* So do the callbacks and the ways a client ends.
LEMMA ClientType ==
    ASSUME TypeOK, NEW c \in Clients,
           Callback(c) \/ OpenTimeout(c) \/ CallbackAsserts(c) \/ ForwardAsserts(c) \/ SeekUnanswered(c)
    PROVE  TypeOK'
<1> USE DEF serverVars
<1>1. ASSUME call[c] # NoCall PROVE call[c] \in Call /\ call[c].fd \in Fds
  BY <1>1 DEF TypeOK, CallType, Call
<1>2. ASSUME NEW o \in {"open", "read", "pread", "seek"}, Answered(c, o)
      PROVE  call[c] # NoCall
  BY <1>2 DEF Answered, NoCall
<1>3. CASE FinishOpen(c)
  <2>1. call[c].fd \in Fds
    BY <1>1, <1>2, <1>3 DEF FinishOpen
  <2>2. call[c].ret \in RemoteFd
    BY <1>3 DEF FinishOpen, Answered, Opened, TypeOK, CallType, RemoteFd
  <2>3. MapType'
    BY <1>3, <2>1, <2>2 DEF FinishOpen, TypeOK, MapType
  <2>4. CallType'
    BY <1>3, ReturnType DEF FinishOpen, TypeOK
  <2> QED BY <1>3, <2>3, <2>4
          DEF FinishOpen, TypeOK, LocalType, ClosingType, FileType, PathType, CacheType
<1>4. CASE FinishRead(c)
  <2>1. call[c].fd \in Fds
    BY <1>1, <1>2, <1>4 DEF FinishRead
  <2>2. LocalType'
    BY <1>4, <2>1, LocalUpdate, RealReadType DEF FinishRead, TypeOK
  <2>3. MapType'
    <3>1. fd_map' = [fd_map EXCEPT ![c][call[c].fd] = NoPath] \/ UNCHANGED fd_map
      BY <1>4 DEF FinishRead
    <3>2. UNCHANGED fd_redir_map
      BY <1>4 DEF FinishRead
    <3>3. MapType
      BY DEF TypeOK
    <3> DEFINE fd == call[c].fd
    <3>4. CASE fd_map' = [fd_map EXCEPT ![c][fd] = NoPath]
      <4> HIDE DEF fd
      <4> QED BY <2>1, <3>2, <3>3, <3>4 DEF MapType
    <3>5. CASE UNCHANGED fd_map
      BY <3>2, <3>3, <3>5 DEF MapType
    <3> QED BY <3>1, <3>4, <3>5
  <2>4. CallType'
    BY <1>4, ReturnType DEF FinishRead, TypeOK
  <2> QED BY <1>4, <2>2, <2>3, <2>4
          DEF FinishRead, TypeOK, ClosingType, FileType, PathType, CacheType
<1>5. CASE FinishSeek(c)
  <2>1. call[c].fd \in Fds
    BY <1>1, <1>2, <1>5 DEF FinishSeek
  <2>2. LocalType'
    BY <1>5, <2>1, LocalUpdate DEF FinishSeek, TypeOK
  <2>3. CallType'
    BY <1>5, ReturnType DEF FinishSeek, TypeOK
  <2> QED BY <1>5, <2>2, <2>3
          DEF FinishSeek, TypeOK, MapType, ClosingType, FileType, PathType, CacheType
<1>6. CASE Exit(c)
  BY <1>6 DEF Exit, TypeOK, LocalType, MapType, CallType, Opened, ClosingType, FileType,
     PathType, CacheType
<1>7. CASE SeekUnanswered(c)
  <2>1. call[c] # NoCall /\ call[c].op = "seek" /\ CallType
    BY <1>7 DEF SeekUnanswered, Dead, TypeOK
  <2>2. PICK ret \in {Failed} \cup Place : Answer(c, "answered", ret)
    BY <1>7, SeekNumbers DEF SeekUnanswered, Reported, Place
  <2>3. CallType'
    BY <2>1, <2>2, AnswerType
  <2> QED BY <1>7, <2>3 DEF SeekUnanswered, clientVars, TypeOK, LocalType, MapType, ClosingType,
             FileType, PathType, CacheType
<1> QED BY <1>3, <1>4, <1>5, <1>6, <1>7 DEF Callback, OpenTimeout, CallbackAsserts, ForwardAsserts

\* So do the handlers of a server.
LEMMA HandlerType ==
    ASSUME TypeOK, NEW c \in Clients, Handler(c)
    PROVE  TypeOK'
<1> USE DEF clientVars, serverVars, cacheVars
<1>1. ASSUME call[c] # NoCall
      PROVE  /\ call[c] \in Call /\ call[c].fd \in Fds /\ call[c].server \in Servers
             /\ call[c].off \in Int /\ call[c].whence \in Whence
  BY <1>1 DEF TypeOK, CallType, Call
<1>2. ASSUME NEW o \in {"open", "read", "pread", "seek"}, Request(c, o)
      PROVE  call[c] # NoCall
  BY <1>2 DEF Request, NoCall
<1>3. CASE OpenHandler(c)
  <2> DEFINE s == call[c].server
             p == fd_map[c][call[c].fd]
  <2>1. call[c] # NoCall /\ s \in Servers /\ p \in Paths \cup {NoPath}
    BY <1>1, <1>2, <1>3 DEF OpenHandler, TypeOK, MapType
  <2>2. CASE \E r \in FreeFds(s) :
               /\ files' = [files EXCEPT ![s][r] = [path |-> p, pos |-> 0]]
               /\ fd_to_path' = [fd_to_path EXCEPT ![s][r] = p]
               /\ Answer(c, "answered", r)
    <3> PICK r \in FreeFds(s) :
               /\ files' = [files EXCEPT ![s][r] = [path |-> p, pos |-> 0]]
               /\ fd_to_path' = [fd_to_path EXCEPT ![s][r] = p]
               /\ Answer(c, "answered", r)
      BY <2>2
    <3>1. r \in RemoteFds
      BY DEF FreeFds
    <3> HIDE DEF s, p
    <3>2. FileType'
      BY <2>1, <3>1, AdvanceType DEF TypeOK, FileType
    <3>3. PathType'
      BY <2>1, <3>1 DEF TypeOK, PathType, RemoteFd
    <3>4. CallType'
      BY <2>1, <3>1, AnswerType DEF TypeOK
    <3> QED BY <1>3, <3>2, <3>3, <3>4
            DEF OpenHandler, TypeOK, LocalType, MapType, ClosingType, CacheType
  <2>3. CASE /\ fd_to_path' = [fd_to_path EXCEPT ![s][Failed] = p]
             /\ Answer(c, "answered", Failed)
             /\ UNCHANGED files
    <3> HIDE DEF s, p
    <3>1. PathType'
      BY <2>1, <2>3 DEF TypeOK, PathType, RemoteFd
    <3>2. CallType'
      BY <2>1, <2>3, AnswerType DEF TypeOK
    <3> QED BY <1>3, <2>3, <3>1, <3>2
            DEF OpenHandler, TypeOK, LocalType, MapType, ClosingType, FileType, CacheType
  <2> QED BY <1>3, <2>2, <2>3 DEF OpenHandler
<1>4. CASE ReadHandler(c)
  <2> DEFINE s == call[c].server
             r == call[c].rfd
  <2>1. call[c] # NoCall /\ s \in Servers
    BY <1>1, <1>2, <1>4 DEF ReadHandler
  <2>2. CASE /\ HasFile(s, r)
             /\ Answer(c, "moving", [path |-> files[s][r].path, pos |-> files[s][r].pos])
             /\ files' = [files EXCEPT ![s][r].pos = Advance(@)]
             /\ UNCHANGED up
    <3> HIDE DEF s, r
    <3>1. r \in RemoteFds /\ files[s][r] \in [path : Paths, pos : Position]
      BY <2>1, <2>2 DEF HasFile, TypeOK, FileType
    <3>2. FileType'
      BY <2>1, <2>2, <3>1, AdvanceType DEF TypeOK, FileType
    <3>3. CallType'
      <4>1. call[c].op = "read"
        BY <1>4 DEF ReadHandler, Request
      <4>2. [path |-> files[s][r].path, pos |-> files[s][r].pos] \in Place
        BY <3>1, SeekNumbers DEF Place
      <4> QED BY <2>1, <2>2, <4>1, <4>2, AnswerType DEF TypeOK
    <3> QED BY <1>4, <2>2, <3>2, <3>3
            DEF ReadHandler, TypeOK, LocalType, MapType, ClosingType, PathType, CacheType
  <2>3. CASE Abort(s) /\ UNCHANGED <<call, files>>
    BY <1>4, <2>1, <2>3
       DEF ReadHandler, Abort, TypeOK, LocalType, MapType, CallType, Opened, ClosingType,
           FileType, PathType, CacheType
  <2> QED BY <1>4, <2>2, <2>3 DEF ReadHandler
<1>5. CASE PreadHandler(c)
  <2> DEFINE s == call[c].server
             r == call[c].rfd
  <2>1. /\ call[c] # NoCall /\ call[c].op = "pread"
        /\ s \in Servers /\ call[c].off \in Int
    BY <1>1, <1>2, <1>5 DEF PreadHandler, Request
  <2>2. CASE /\ HasFile(s, r)
             /\ Answer(c, "moving", [path |-> files[s][r].path, pos |-> call[c].off])
    <3>1. [path |-> files[s][r].path, pos |-> call[c].off] \in Place
      BY <2>1, <2>2 DEF HasFile, TypeOK, FileType, Place
    <3> QED BY <1>5, <2>1, <2>2, <3>1, AnswerType
            DEF PreadHandler, TypeOK, LocalType, MapType, ClosingType, FileType, PathType,
                CacheType
  <2>3. CASE Answer(c, "answered", Failed)
    BY <1>5, <2>1, <2>3, AnswerType
       DEF PreadHandler, TypeOK, LocalType, MapType, ClosingType, FileType, PathType, CacheType
  <2> QED BY <1>5, <2>2, <2>3 DEF PreadHandler
<1>6. CASE BulkCallback(c)
  <2>1. call[c] \in Call /\ call[c] # NoCall /\ call[c].op # "open"
    BY <1>6 DEF BulkCallback, NoCall, TypeOK, CallType
  <2>2. call[c].ret \in RemoteFds \cup {Failed, Pending} \cup Place
    BY <2>1 DEF Call
  <2>3. CallType'
    BY <1>6, <2>1, <2>2, AnswerType DEF BulkCallback, TypeOK
  <2> QED BY <1>6, <2>3
          DEF BulkCallback, TypeOK, LocalType, MapType, ClosingType, FileType, PathType, CacheType
<1>7. CASE SeekHandler(c)
  <2> DEFINE s  == call[c].server
             r  == call[c].rfd
             to == Target(files[s][r].pos, Narrow(call[c].off), call[c].whence)
             answer == Reported(files[s][r].path, Narrow(to))
  <2>1. /\ call[c] # NoCall /\ call[c].op = "seek" /\ s \in Servers
    BY <1>1, <1>2, <1>7 DEF SeekHandler, Request
  <2>2. CASE /\ HasFile(s, r) /\ to \in Position
             /\ files' = [files EXCEPT ![s][r].pos = to]
             /\ Answer(c, "answered", answer)
    <3>1. r \in RemoteFds /\ files[s][r] \in [path : Paths, pos : Position]
      BY <2>1, <2>2 DEF HasFile, TypeOK, FileType
    <3>2. answer \in {Failed} \cup Place
      BY <2>2, <3>1, SeekNumbers DEF Reported, Place
    <3> HIDE DEF s, r, to, answer
    <3>3. FileType'
      BY <2>1, <2>2, <3>1 DEF TypeOK, FileType
    <3>4. CallType'
      BY <2>1, <2>2, <3>2, AnswerType DEF TypeOK
    <3> QED BY <1>7, <3>3, <3>4
            DEF SeekHandler, TypeOK, LocalType, MapType, ClosingType, PathType, CacheType
  <2>3. CASE Answer(c, "answered", Failed) /\ UNCHANGED files
    BY <1>7, <2>1, <2>3, AnswerType
       DEF SeekHandler, TypeOK, LocalType, MapType, ClosingType, FileType, PathType, CacheType
  <2> QED BY <1>7, <2>2, <2>3 DEF SeekHandler
<1> QED BY <1>3, <1>4, <1>5, <1>6, <1>7 DEF Handler

\* So do close RPCs and the data mover.
LEMMA ServerType ==
    ASSUME TypeOK, NEW s \in Servers,
           \/ \E rfd \in RemoteFd : CloseHandler(s, rfd)
           \/ \E p \in Paths \cup {NoPath} : MoveFile(s, p)
    PROVE  TypeOK'
<1> USE DEF clientVars
<1>1. ASSUME NEW rfd \in RemoteFd, CloseHandler(s, rfd)
      PROVE  TypeOK'
  <2> DEFINE p == fd_to_path[s][rfd]
  <2>1. p \in Paths \cup {NoPath}
    BY DEF TypeOK, PathType
  <2>2. ClosingType'
    <3>1. closing' = [closing EXCEPT ![s][rfd] = @ - 1] /\ closing[s][rfd] > 0
      BY <1>1 DEF CloseHandler, ForgetPath
    <3> QED BY <3>1 DEF TypeOK, ClosingType
  <2>3. FileType'
    <3>1. \/ HasFile(s, rfd) /\ files' = [files EXCEPT ![s][rfd] = ClosedFile]
          \/ UNCHANGED files
      BY <1>1 DEF CloseHandler, ForgetPath
    <3>2. FileType
      BY DEF TypeOK
    <3>3. ClosedFile \in [path : Paths \cup {NoPath}, pos : Position]
      BY AdvanceType DEF ClosedFile
    <3>4. CASE HasFile(s, rfd) /\ files' = [files EXCEPT ![s][rfd] = ClosedFile]
      BY <3>2, <3>3, <3>4 DEF FileType, HasFile
    <3>5. CASE UNCHANGED files
      BY <3>2, <3>5 DEF FileType
    <3> QED BY <3>1, <3>4, <3>5
  <2>4. PathType'
    <3>1. fd_to_path' = [fd_to_path EXCEPT ![s][rfd] = NoPath] \/ UNCHANGED fd_to_path
      BY <1>1 DEF CloseHandler, ForgetPath
    <3>2. PathType
      BY DEF TypeOK
    <3> QED BY <3>1, <3>2 DEF PathType
  <2>5. CacheType'
    <3>1. \/ data_queue' = [data_queue EXCEPT ![s][p] = @ + 1]
          \/ UNCHANGED data_queue
      BY <1>1 DEF CloseHandler, ForgetPath
    <3>2. UNCHANGED path_cache_map
      BY <1>1 DEF CloseHandler, ForgetPath
    <3> HIDE DEF p
    <3>3. CacheType
      BY DEF TypeOK
    <3>4. CASE data_queue' = [data_queue EXCEPT ![s][p] = @ + 1]
      <4>1. data_queue[s][p] + 1 \in Nat
        BY <2>1, <3>3 DEF CacheType
      <4> QED BY <2>1, <3>2, <3>3, <3>4, <4>1 DEF CacheType
    <3>5. CASE UNCHANGED data_queue
      BY <3>2, <3>3, <3>5 DEF CacheType
    <3> QED BY <3>1, <3>4, <3>5
  <2>6. up' \in [Servers -> BOOLEAN]
    BY <1>1 DEF CloseHandler, ForgetPath, Abort, TypeOK
  <2> QED BY <1>1, <2>2, <2>3, <2>4, <2>5, <2>6
          DEF CloseHandler, ForgetPath, TypeOK, LocalType, MapType, CallType, Opened
<1>2. ASSUME NEW p \in Paths \cup {NoPath}, MoveFile(s, p)
      PROVE  TypeOK'
  <2>1. data_queue' \in [Servers -> [Paths \cup {NoPath} -> Nat]]
    <3>1. data_queue' = [data_queue EXCEPT ![s][p] = @ - 1] /\ data_queue[s][p] > 0
      BY <1>2 DEF MoveFile
    <3>2. data_queue \in [Servers -> [Paths \cup {NoPath} -> Nat]]
      BY DEF TypeOK, CacheType
    <3>3. data_queue[s][p] - 1 \in Nat
      BY <3>1, <3>2
    <3> QED BY <3>1, <3>2, <3>3
  <2>2. path_cache_map' \in [Servers -> [Paths -> BOOLEAN]]
    <3>1. CASE p # NoPath /\ path_cache_map' = [path_cache_map EXCEPT ![s][p] = TRUE]
      BY <3>1 DEF TypeOK, CacheType
    <3>2. CASE UNCHANGED path_cache_map
      BY <3>2 DEF TypeOK, CacheType
    <3> QED BY <1>2, <3>1, <3>2 DEF MoveFile
  <2> QED BY <1>2, <2>1, <2>2
          DEF MoveFile, TypeOK, LocalType, MapType, CallType, Opened, ClosingType, FileType,
              PathType, CacheType
<1> QED BY <1>1, <1>2

\* Every variable keeps its type.
THEOREM TypeCorrect == Spec => []TypeOK
<1> USE DEF LocalType, MapType, CallType, Opened, ClosingType, FileType, PathType, CacheType
<1>1. Init => TypeOK
  BY RemoteFilesAssumption, AdvanceType
     DEF Init, TypeOK, RemoteFd, ClosedLocal, LocalFile, ClosedFile, NoCall
<1>2. TypeOK /\ [Next]_vars => TypeOK'
  <2> SUFFICES ASSUME TypeOK, [Next]_vars PROVE TypeOK'
    OBVIOUS
  <2>1. CASE UNCHANGED vars
    BY <2>1 DEF TypeOK, vars, clientVars, serverVars
  <2>2. CASE Next
    BY <2>2, ApplicationType, ClientType, HandlerType, ServerType DEF Next
  <2> QED BY <2>1, <2>2
<1> QED BY <1>1, <1>2, PTL DEF Spec

-----------------------------------------------------------------------------
\* What the three ways of changing `call' do to the fields of a call.
LEMMA ForwardFacts ==
    ASSUME CallType, NEW c \in Clients, NEW o, NEW fd, NEW s, NEW rfd, NEW off, NEW whence,
           Forward(c, o, fd, s, rfd, off, whence)
    PROVE  /\ \A d \in Clients \ {c} : call'[d] = call[d]
           /\ call'[c].op = o /\ call'[c].fd = fd /\ call'[c].server = s
           /\ call'[c].rfd = rfd /\ call'[c].stage = "sent"
  BY DEF Forward, CallType

\* Answering changes the stage and the answer of that one call (Answer).
LEMMA AnswerFacts ==
    ASSUME CallType, NEW c \in Clients, call[c] # NoCall, NEW stage, NEW ret,
           Answer(c, stage, ret)
    PROVE  /\ \A d \in Clients \ {c} : call'[d] = call[d]
           /\ call'[c].op = call[c].op /\ call'[c].fd = call[c].fd
           /\ call'[c].server = call[c].server /\ call'[c].rfd = call[c].rfd
           /\ call'[c].stage = stage /\ call'[c].ret = ret
<1>1. call[c] \in Call
  BY DEF CallType
<1> QED BY <1>1 DEF Answer, CallType, Call

\* A call that returns leaves the other calls alone.
LEMMA ReturnFacts ==
    ASSUME CallType, NEW c \in Clients, call' = [call EXCEPT ![c] = NoCall]
    PROVE  /\ \A d \in Clients \ {c} : call'[d] = call[d]
           /\ call'[c].op = "none"
  BY DEF CallType, NoCall

-----------------------------------------------------------------------------
(* What servers record and what messages carry.  Unlike ownership below,   *)
(* this needs no agreement between the two ways of choosing a host.        *)

\* OpensSent makes the two properties inductive: a descriptor that a request
\* or a close translates has been translated by the answer of its open.
Recorded == RecordedPaths /\ TranslationKnown /\ OpensSent

\* Steps that leave the descriptor tables of both sides as they are.
LEMMA RecordedStutter ==
    ASSUME Recorded,
           UNCHANGED <<fd_map, fd_redir_map, call, closing, up, files, fd_to_path>>
    PROVE  Recorded'
  BY DEF Recorded, RecordedPaths, TranslationKnown, OpensSent, Opening, Tracked

\* Forwarding a read, pread or seek of a tracked descriptor.
LEMMA RecordedForward ==
    ASSUME TypeOK, Recorded, NEW c \in Clients, NEW fd \in Fds, Ready(c), Tracked(c, fd),
           NEW o \in {"read", "pread", "seek"}, NEW s, NEW off, NEW whence,
           Forward(c, o, fd, s, fd_redir_map[c][fd], off, whence),
           UNCHANGED <<fd_map, fd_redir_map, closing, up, files, fd_to_path>>
    PROVE  Recorded'
<1>1. /\ \A d \in Clients \ {c} : call'[d] = call[d]
      /\ call'[c].op = o /\ call'[c].rfd = fd_redir_map[c][fd]
  BY ForwardFacts DEF TypeOK
<1>2. \A ld \in Fds : ~Opening(c, ld) /\ ~Opening(c, ld)'
  BY <1>1 DEF Opening, Ready, NoCall
<1>3. fd_redir_map[c][fd] # Absent
  BY <1>2 DEF Recorded, OpensSent
<1> QED BY <1>1, <1>2, <1>3
        DEF Recorded, RecordedPaths, TranslationKnown, OpensSent, Opening, Tracked

\* Going on with, or answering, a call, and nothing is opened or closed.
LEMMA RecordedAnswer ==
    ASSUME TypeOK, Recorded, NEW c \in Clients, call[c] # NoCall,
           \/ \E stage, ret : Answer(c, stage, ret)
           \/ UNCHANGED call,
           UNCHANGED <<fd_map, fd_redir_map, closing>>,
           \A s \in Servers, r \in RemoteFds : up'[s] =>
              /\ up[s]
              /\ \/ /\ files'[s][r].path = files[s][r].path
                    /\ fd_to_path'[s][r] = fd_to_path[s][r]
                 \/ files'[s][r].path = fd_to_path'[s][r]
    PROVE  Recorded'
<1>1. \A d \in Clients : /\ call'[d].op = call[d].op /\ call'[d].fd = call[d].fd
                         /\ call'[d].server = call[d].server /\ call'[d].rfd = call[d].rfd
  <2>1. CASE \E stage, ret : Answer(c, stage, ret)
    BY <2>1, AnswerFacts DEF TypeOK
  <2>2. CASE UNCHANGED call
    BY <2>2
  <2> QED BY <2>1, <2>2
<1>2. RecordedPaths'
  BY DEF Recorded, RecordedPaths
<1>3. TranslationKnown' /\ OpensSent'
  BY <1>1 DEF Recorded, TranslationKnown, OpensSent, Opening, Tracked
<1> QED BY <1>2, <1>3 DEF Recorded

\* The steps of the application: only open and close touch the maps.
LEMMA RecordedApplication ==
    ASSUME TypeOK, Recorded, NEW c \in Clients, Application(c)
    PROVE  Recorded'
<1> USE DEF clientVars, serverVars
<1> SUFFICES ASSUME NEW fd \in Fds,
                    \/ \E p \in Paths, mode \in {"read", "append"} : Open(c, fd, p, mode)
                    \/ Read(c, fd) \/ Readv(c, fd)
                    \/ \E off \in Position : Pread(c, fd, off)
                    \/ \E seek \in Seeks : Seek(c, fd, seek[1], seek[2])
                    \/ Close(c, fd)
                    \/ Fclose(c, fd)
             PROVE  Recorded'
  BY DEF Application
<1>1. ASSUME NEW p \in Paths, NEW mode, Open(c, fd, p, mode)
      PROVE  Recorded'
  <2>1. CASE UNCHANGED <<fd_map, call>>
    BY <1>1, <2>1, RecordedStutter DEF Open
  <2>2. CASE fd_map' = [fd_map EXCEPT ![c][fd] = p] /\ ForwardOpen(c, fd, ModHost[p])
    <3>1. /\ \A d \in Clients \ {c} : call'[d] = call[d]
          /\ call'[c].op = "open" /\ call'[c].fd = fd /\ call'[c].server = ModHost[p]
      BY <2>2, ForwardFacts DEF TypeOK, ForwardOpen
    <3>2. \A ld \in Fds : ~Opening(c, ld)
      BY <1>1 DEF Opening, Open, Ready, NoCall
    <3>3. /\ \A d \in Clients, ld \in Fds : d # c \/ ld # fd => fd_map'[d][ld] = fd_map[d][ld]
          /\ fd_map'[c][fd] = p /\ p # NoPath
      BY <2>2, RemoteFilesAssumption DEF TypeOK, MapType
    <3>4. UNCHANGED <<fd_redir_map, closing, up, files, fd_to_path>>
      BY <1>1 DEF Open
    <3>5. RecordedPaths' /\ TranslationKnown'
      BY <3>1, <3>4 DEF Recorded, RecordedPaths, TranslationKnown
    <3>6. OpensSent'
      BY <3>1, <3>2, <3>3, <3>4 DEF Recorded, OpensSent, Opening, Tracked
    <3> QED BY <3>5, <3>6 DEF Recorded
  <2> QED BY <1>1, <2>1, <2>2 DEF Open, TrackFile
<1>2. CASE Read(c, fd)
  <2>1. CASE RemoteRead(c, fd)
    BY <1>2, <2>1, RecordedForward DEF Read, RemoteRead, ForwardRead
  <2>2. CASE UNCHANGED call
    BY <1>2, <2>2, RecordedStutter DEF Read
  <2> QED BY <1>2, <2>1, <2>2 DEF Read
<1>3. ASSUME NEW off, Pread(c, fd, off)
      PROVE  Recorded'
  BY <1>3, RecordedForward DEF Pread, ForwardRead
<1>4. ASSUME NEW off, NEW whence, Seek(c, fd, off, whence)
      PROVE  Recorded'
  <2>1. CASE Tracked(c, fd) /\ ForwardSeek(c, fd, RingHost[fd_map[c][fd]], off, whence)
    BY <1>4, <2>1, RecordedForward DEF Seek, ForwardSeek
  <2>2. CASE UNCHANGED call
    BY <1>4, <2>2, RecordedStutter DEF Seek
  <2> QED BY <1>4, <2>1, <2>2 DEF Seek
<1>5. CASE Close(c, fd)
  <2>1. CASE UNCHANGED <<fd_map, fd_redir_map, closing>>
    BY <1>5, <2>1, RecordedStutter DEF Close
  <2>2. CASE /\ Tracked(c, fd)
             /\ ForwardClose(c, fd, RingHost[fd_map[c][fd]])
             /\ fd_map' = [fd_map EXCEPT ![c][fd] = NoPath]
    <3> DEFINE host == RingHost[fd_map[c][fd]]
               rfd == fd_redir_map[c][fd]
    <3>1. \A ld \in Fds : ~Opening(c, ld)
      BY <1>5 DEF Opening, Close, Ready, NoCall
    <3>2. rfd # Absent
      BY <2>2, <3>1 DEF Recorded, OpensSent
    <3>3. UNCHANGED <<call, up, files, fd_to_path>>
      BY <1>5 DEF Close
    <3>4. /\ \A d \in Clients, ld \in Fds : d # c \/ ld # fd =>
               fd_map'[d][ld] = fd_map[d][ld] /\ fd_redir_map'[d][ld] = fd_redir_map[d][ld]
          /\ fd_map'[c][fd] = NoPath
      BY <2>2 DEF TypeOK, MapType, ForwardClose
    <3>5. \A s \in Servers : closing'[s][Absent] = closing[s][Absent]
      <4>1. closing' = [closing EXCEPT ![host][rfd] = @ + 1]
        BY <2>2 DEF ForwardClose
      <4> HIDE DEF host, rfd
      <4> QED BY <3>2, <4>1 DEF TypeOK, ClosingType, RemoteFd
    <3>6. RecordedPaths' /\ TranslationKnown'
      BY <3>3, <3>5 DEF Recorded, RecordedPaths, TranslationKnown
    <3>7. OpensSent'
      BY <3>1, <3>3, <3>4 DEF Recorded, OpensSent, Opening, Tracked
    <3> QED BY <3>6, <3>7 DEF Recorded
  <2> QED BY <1>5, <2>1, <2>2 DEF Close, RemoveFd
<1>6. CASE Fclose(c, fd) \/ Readv(c, fd)
  BY <1>6, RecordedStutter DEF Fclose, Readv
<1> QED BY <1>1, <1>2, <1>3, <1>4, <1>5, <1>6

\* The return of a call: an open enters its answer, which is a number.
LEMMA RecordedCallback ==
    ASSUME TypeOK, Recorded, NEW c \in Clients, Callback(c)
    PROVE  Recorded'
<1> USE DEF serverVars
<1>0. call' = [call EXCEPT ![c] = NoCall] /\ UNCHANGED <<closing, up, files, fd_to_path>>
  BY DEF Callback, FinishOpen, FinishRead, FinishSeek
<1>1. (\A d \in Clients \ {c} : call'[d] = call[d]) /\ call'[c].op = "none"
  BY <1>0, ReturnFacts DEF TypeOK
<1>2. RecordedPaths' /\ TranslationKnown'
  BY <1>0, <1>1 DEF Recorded, RecordedPaths, TranslationKnown
<1> DEFINE fd == call[c].fd
<1>3. CASE FinishOpen(c)
  <2>1. /\ call[c].op = "open" /\ Opened(c) /\ fd \in Fds
        /\ call[c].ret \in RemoteFds \cup {Failed} /\ UNCHANGED fd_map
        /\ \A ld \in Fds : Opening(c, ld) => ld = fd
    <3>1. call[c].op = "open" /\ call[c].stage = "answered"
      BY <1>3 DEF FinishOpen, Answered
    <3> QED BY <1>3, <3>1 DEF FinishOpen, Opening, Opened, TypeOK, CallType, Call, NoCall
  <2>2. /\ \A d \in Clients, ld \in Fds : d # c \/ ld # fd =>
             fd_redir_map'[d][ld] = fd_redir_map[d][ld]
        /\ fd_redir_map'[c][fd] = call[c].ret
    <3>1. fd_redir_map' = [fd_redir_map EXCEPT ![c][fd] = call[c].ret]
      BY <1>3 DEF FinishOpen
    <3> HIDE DEF fd
    <3> QED BY <2>1, <3>1 DEF TypeOK, MapType
  <2>3. OpensSent'
    <3> HIDE DEF fd
    <3> QED BY <1>1, <2>1, <2>2, RemoteFilesAssumption DEF Recorded, OpensSent, Opening, Tracked
  <2> QED BY <1>2, <2>3 DEF Recorded
<1>4. CASE FinishRead(c) \/ FinishSeek(c)
  <2>1. \A ld \in Fds : ~Opening(c, ld)
    BY <1>4 DEF FinishRead, FinishSeek, Answered, Opening
  <2>2. \A d \in Clients, ld \in Fds :
            fd_map'[d][ld] = fd_map[d][ld] \/ (d = c /\ fd_map'[d][ld] = NoPath)
    <3>1. CASE fd_map' = [fd_map EXCEPT ![c][fd] = NoPath]
      BY <3>1 DEF TypeOK, MapType
    <3>2. CASE UNCHANGED fd_map
      BY <3>2
    <3> QED BY <1>4, <3>1, <3>2 DEF FinishRead, FinishSeek
  <2>3. UNCHANGED fd_redir_map
    BY <1>4 DEF FinishRead, FinishSeek
  <2>4. OpensSent'
    <3> HIDE DEF fd
    <3> QED BY <1>1, <2>1, <2>2, <2>3 DEF Recorded, OpensSent, Opening, Tracked
  <2> QED BY <1>2, <2>4 DEF Recorded
<1> QED BY <1>3, <1>4 DEF Callback

\* The handlers: an open records the path it opens, the others record nothing.
LEMMA RecordedHandler ==
    ASSUME TypeOK, Recorded, NEW c \in Clients, Handler(c) \/ SeekUnanswered(c)
    PROVE  Recorded'
<1> USE DEF clientVars, serverVars, cacheVars
<1> DEFINE s == call[c].server
           r == call[c].rfd
<1>1. ASSUME NEW o \in {"open", "read", "pread", "seek"}, call[c].op = o
      PROVE  call[c] # NoCall /\ s \in Servers
  BY <1>1 DEF NoCall, TypeOK, CallType, Call
<1>2. CASE OpenHandler(c)
  <2> DEFINE p == fd_map[c][call[c].fd]
  <2>1. call[c] # NoCall /\ s \in Servers
    BY <1>1, <1>2 DEF OpenHandler, Request
  <2>2. /\ UNCHANGED <<fd_map, fd_redir_map, closing, up>>
        /\ \E stage, ret : Answer(c, stage, ret)
    BY <1>2 DEF OpenHandler
  <2>3. \A t \in Servers, q \in RemoteFds :
           \/ files'[t][q].path = files[t][q].path /\ fd_to_path'[t][q] = fd_to_path[t][q]
           \/ files'[t][q].path = fd_to_path'[t][q]
    <3>1. CASE \E q \in FreeFds(s) :
                 /\ files' = [files EXCEPT ![s][q] = [path |-> p, pos |-> 0]]
                 /\ fd_to_path' = [fd_to_path EXCEPT ![s][q] = p]
      <4> PICK q \in FreeFds(s) : /\ files' = [files EXCEPT ![s][q] = [path |-> p, pos |-> 0]]
                                  /\ fd_to_path' = [fd_to_path EXCEPT ![s][q] = p]
        BY <3>1
      <4> HIDE DEF s, p
      <4> QED BY <2>1 DEF TypeOK, FileType, PathType, RemoteFd, FreeFds
    <3>2. CASE fd_to_path' = [fd_to_path EXCEPT ![s][Failed] = p] /\ UNCHANGED files
      <4> HIDE DEF s, p
      <4> QED BY <2>1, <3>2, RemoteFilesAssumption DEF TypeOK, PathType, RemoteFd
    <3> QED BY <1>2, <3>1, <3>2 DEF OpenHandler
  <2> QED BY <2>1, <2>2, <2>3, RecordedAnswer
<1>3. CASE ReadHandler(c)
  <2>1. call[c] # NoCall /\ s \in Servers
    BY <1>1, <1>3 DEF ReadHandler, Request
  <2>2. CASE /\ HasFile(s, r)
             /\ Answer(c, "moving", [path |-> files[s][r].path, pos |-> files[s][r].pos])
             /\ files' = [files EXCEPT ![s][r].pos = Advance(@)]
             /\ UNCHANGED up
    <3> HIDE DEF s, r
    <3>1. \A t \in Servers, q \in RemoteFds : files'[t][q].path = files[t][q].path
      BY <2>1, <2>2 DEF TypeOK, FileType, HasFile
    <3>2. \E stage, ret : Answer(c, stage, ret)
      BY <2>2
    <3> QED BY <1>3, <2>1, <2>2, <3>1, <3>2, RecordedAnswer DEF ReadHandler
  <2>3. CASE Abort(s) /\ UNCHANGED <<call, files>>
    <3>1. \A t \in Servers : up'[t] => up[t]
      BY <2>3 DEF Abort, TypeOK
    <3> QED BY <1>3, <2>1, <2>3, <3>1, RecordedAnswer DEF ReadHandler
  <2> QED BY <1>3, <2>2, <2>3 DEF ReadHandler
<1>4. CASE PreadHandler(c) \/ BulkCallback(c) \/ SeekUnanswered(c)
  <2>1. \E stage, ret : Answer(c, stage, ret)
    BY <1>4 DEF PreadHandler, BulkCallback, SeekUnanswered
  <2>2. UNCHANGED <<fd_map, fd_redir_map, closing, up, files, fd_to_path>>
    BY <1>4 DEF PreadHandler, BulkCallback, SeekUnanswered
  <2>3. call[c] # NoCall
    BY <1>1, <1>4 DEF PreadHandler, Request, BulkCallback, SeekUnanswered, Dead
  <2> QED BY <2>1, <2>2, <2>3, RecordedAnswer
<1>5. CASE SeekHandler(c)
  <2>1. call[c] # NoCall /\ s \in Servers
    BY <1>1, <1>5 DEF SeekHandler, Request
  <2>2. \E stage, ret : Answer(c, stage, ret)
    BY <1>5 DEF SeekHandler
  <2>3. \A t \in Servers, q \in RemoteFds : files'[t][q].path = files[t][q].path
    <3>1. \/ HasFile(s, r) /\ \E off : files' = [files EXCEPT ![s][r].pos = off]
          \/ UNCHANGED files
      BY <1>5 DEF SeekHandler
    <3> HIDE DEF s, r
    <3>2. ASSUME NEW off, HasFile(s, r), files' = [files EXCEPT ![s][r].pos = off]
          PROVE  \A t \in Servers, q \in RemoteFds : files'[t][q].path = files[t][q].path
      BY <2>1, <3>2 DEF TypeOK, FileType, HasFile
    <3> QED BY <3>1, <3>2
  <2> QED BY <1>5, <2>1, <2>2, <2>3, RecordedAnswer DEF SeekHandler
<1> QED BY <1>2, <1>3, <1>4, <1>5 DEF Handler

\* A close RPC clears both records of the descriptor it names, or the server ends.
LEMMA RecordedClose ==
    ASSUME TypeOK, Recorded, NEW s \in Servers, NEW rfd \in RemoteFd, CloseHandler(s, rfd)
    PROVE  Recorded'
<1>1. UNCHANGED <<fd_map, fd_redir_map, call>>
  BY DEF CloseHandler, ForgetPath, clientVars
<1>2. \A t \in Servers : closing'[t][Absent] = 0
  <2>1. closing' = [closing EXCEPT ![s][rfd] = @ - 1] /\ closing[s][rfd] > 0
    BY DEF CloseHandler, ForgetPath
  <2> QED BY <2>1 DEF TypeOK, ClosingType, Recorded, TranslationKnown, RemoteFd
<1>3. /\ \A t \in Servers, r \in RemoteFds : t # s \/ r # rfd => files'[t][r] = files[t][r]
      /\ rfd \in RemoteFds => files'[s][rfd].path = NoPath
  <2>1. CASE HasFile(s, rfd) /\ files' = [files EXCEPT ![s][rfd] = ClosedFile]
    BY <2>1 DEF TypeOK, FileType, ClosedFile, HasFile
  <2>2. CASE ~HasFile(s, rfd) /\ UNCHANGED files
    BY <2>2 DEF HasFile
  <2> QED BY <2>1, <2>2 DEF CloseHandler, ForgetPath
<1>4. RecordedPaths'
  <2>1. CASE fd_to_path' = [fd_to_path EXCEPT ![s][rfd] = NoPath] /\ UNCHANGED up
    BY <1>3, <2>1 DEF Recorded, RecordedPaths, TypeOK, PathType, RemoteFd
  <2>2. CASE Abort(s) /\ UNCHANGED fd_to_path
    BY <1>3, <2>2 DEF Recorded, RecordedPaths, TypeOK, Abort
  <2> QED BY <2>1, <2>2 DEF CloseHandler, ForgetPath
<1>5. TranslationKnown' /\ OpensSent'
  BY <1>1, <1>2 DEF Recorded, TranslationKnown, OpensSent, Opening, Tracked
<1> QED BY <1>4, <1>5 DEF Recorded

\* Whatever the routes, the faults and the application, the records are right.
LEMMA RecordedHolds == Spec => []Recorded
<1>1. Init => Recorded
  BY DEF Init, Recorded, RecordedPaths, TranslationKnown, OpensSent, Opening, Tracked, RemoteFd,
         ClosedFile, NoCall
<1>2. ASSUME TypeOK, Recorded, [Next]_vars
      PROVE  Recorded'
  <2>1. ASSUME NEW c \in Clients, OpenTimeout(c) \/ CallbackAsserts(c) \/ ForwardAsserts(c)
        PROVE  Recorded'
    BY <1>2, <2>1, RecordedStutter DEF OpenTimeout, CallbackAsserts, ForwardAsserts, Exit, serverVars
  <2>2. ASSUME NEW s \in Servers, NEW p, MoveFile(s, p)
        PROVE  Recorded'
    BY <1>2, <2>2, RecordedStutter DEF MoveFile, clientVars
  <2>3. CASE UNCHANGED vars
    BY <1>2, <2>3, RecordedStutter DEF vars, clientVars, serverVars
  <2> QED BY <1>2, <2>1, <2>2, <2>3, RecordedApplication, RecordedCallback, RecordedHandler,
             RecordedClose DEF Next
<1> QED BY <1>1, <1>2, TypeCorrect, PTL DEF Spec

\* The path queued when a descriptor is closed is that of the open file.
THEOREM RecordedPathsHolds == Spec => []RecordedPaths
<1>1. Recorded => RecordedPaths
  BY DEF Recorded
<1> QED BY <1>1, RecordedHolds, PTL

\* No message carries a descriptor that fd_redir_map does not hold: operator[]
\* never inserts one.
THEOREM TranslationKnownHolds == Spec => []TranslationKnown
<1>1. Recorded => TranslationKnown
  BY DEF Recorded
<1> QED BY <1>1, RecordedHolds, PTL

-----------------------------------------------------------------------------
(* Ownership: with one routing function, server descriptors are never       *)
(* shared, reused or closed while a client relies on them.                  *)

\* Steps that leave the descriptor tables of both sides as they are.
LEMMA OwnershipStutter ==
    ASSUME Ownership, up' = up,
           UNCHANGED <<fd_map, fd_redir_map, call, closing, files, fd_to_path>>
    PROVE  Ownership'
  BY DEF Ownership, HeldFilesOpen, OneHolder, ClosesReleased, RecordedPaths, TranslationKnown,
         OpensSent, Opening, Held, Opened, Unheld, Tracked

\* Steps after which no more is held, and nothing is opened or closed.
LEMMA OwnershipShrinks ==
    ASSUME Ownership,
           \A c \in Clients, fd \in Fds, s \in Servers, r \in RemoteFds :
              Held(c, fd, s, r)' => Held(c, fd, s, r) /\ fd_map'[c][fd] = fd_map[c][fd],
           \A s \in Servers, r \in RemoteFds :
              files'[s][r].path = files[s][r].path /\ fd_to_path'[s][r] = fd_to_path[s][r],
           \A s \in Servers : up'[s] => up[s],
           closing' = closing
    PROVE  HeldFilesOpen' /\ OneHolder' /\ ClosesReleased' /\ RecordedPaths'
<1>1. HeldFilesOpen'
  BY DEF Ownership, HeldFilesOpen
<1>2. OneHolder'
  BY DEF Ownership, OneHolder
<1>3. ClosesReleased'
  BY DEF Ownership, ClosesReleased, Unheld
<1>4. RecordedPaths'
  BY DEF Ownership, RecordedPaths
<1> QED BY <1>1, <1>2, <1>3, <1>4

\* Forwarding a read, pread or seek of a tracked descriptor.
LEMMA OwnershipForward ==
    ASSUME TypeOK, Ownership, NEW c \in Clients, NEW fd \in Fds, Ready(c), Tracked(c, fd),
           NEW o \in {"read", "pread", "seek"}, NEW s, NEW off, NEW whence,
           Forward(c, o, fd, s, fd_redir_map[c][fd], off, whence),
           UNCHANGED <<fd_map, fd_redir_map, closing, up, files, fd_to_path>>
    PROVE  Ownership'
<1>1. /\ \A d \in Clients \ {c} : call'[d] = call[d]
      /\ call'[c].op = o /\ call'[c].rfd = fd_redir_map[c][fd]
  BY ForwardFacts DEF TypeOK
<1>2. \A ld \in Fds : ~Opening(c, ld) /\ ~Opening(c, ld)'
  BY <1>1 DEF Opening, Ready, NoCall
<1>3. \A d \in Clients, ld \in Fds : Opening(d, ld)' = Opening(d, ld)
  BY <1>1, <1>2 DEF Opening
<1>4. \A d \in Clients, ld \in Fds : \A t, r : Held(d, ld, t, r)' = Held(d, ld, t, r)
  BY <1>1, <1>2, <1>3 DEF Held, Opening, Opened, Tracked
<1>5. HeldFilesOpen' /\ OneHolder' /\ ClosesReleased' /\ RecordedPaths'
  BY <1>4, OwnershipShrinks
<1>6. TranslationKnown'
  <2>1. fd_redir_map[c][fd] # Absent
    BY <1>2 DEF Ownership, OpensSent
  <2> QED BY <1>1, <2>1 DEF Ownership, TranslationKnown
<1>7. OpensSent'
  BY <1>1, <1>2, <1>3 DEF Ownership, OpensSent, Tracked, Opening
<1> QED BY <1>5, <1>6, <1>7 DEF Ownership

\* An open clears the way: the new descriptor holds nothing until it is answered.
LEMMA OwnershipOpen ==
    ASSUME TypeOK, Ownership, NEW c \in Clients, NEW fd \in Fds, NEW p \in Paths, NEW mode,
           Open(c, fd, p, mode)
    PROVE  Ownership'
<1> USE DEF serverVars
<1>1. CASE UNCHANGED <<fd_map, call>>
  BY <1>1, OwnershipStutter DEF Open
<1>2. CASE fd_map' = [fd_map EXCEPT ![c][fd] = p] /\ ForwardOpen(c, fd, ModHost[p])
  <2>1. /\ \A d \in Clients \ {c} : call'[d] = call[d]
        /\ call'[c].op = "open" /\ call'[c].fd = fd /\ call'[c].server = ModHost[p]
        /\ call'[c].stage = "sent"
    BY <1>2, ForwardFacts DEF TypeOK, ForwardOpen
  <2>2. \A ld \in Fds : ~Opening(c, ld)
    BY <1>2 DEF Opening, Open, Ready, NoCall
  <2>3. /\ \A d \in Clients, ld \in Fds : d # c \/ ld # fd => fd_map'[d][ld] = fd_map[d][ld]
        /\ fd_map'[c][fd] = p /\ p # NoPath
    BY <1>2, RemoteFilesAssumption DEF TypeOK, MapType
  <2>4. UNCHANGED <<fd_redir_map, closing, up, files, fd_to_path>>
    BY DEF Open
  <2>5. \A s, r : ~Held(c, fd, s, r)'
    BY <2>1 DEF Held, Opening, Opened
  <2>6. \A d \in Clients, ld \in Fds : \A s, r : Held(d, ld, s, r)' =>
            Held(d, ld, s, r) /\ fd_map'[d][ld] = fd_map[d][ld]
    BY <2>1, <2>2, <2>3, <2>4, <2>5 DEF Held, Opening, Opened, Tracked
  <2>7. HeldFilesOpen' /\ OneHolder' /\ ClosesReleased' /\ RecordedPaths'
    BY <2>4, <2>6, OwnershipShrinks
  <2>8. TranslationKnown'
    BY <2>1, <2>4 DEF Ownership, TranslationKnown
  <2>9. OpensSent'
    BY <2>1, <2>2, <2>3, <2>4 DEF Ownership, OpensSent, Opening, Tracked
  <2> QED BY <2>7, <2>8, <2>9 DEF Ownership
<1> QED BY <1>1, <1>2 DEF Open, TrackFile

\* A close hands the server's descriptor over to the close RPC.
LEMMA OwnershipClose ==
    ASSUME ModHost = RingHost, TypeOK, Ownership, NEW c \in Clients, NEW fd \in Fds, Close(c, fd)
    PROVE  Ownership'
<1> USE DEF serverVars
<1>1. CASE UNCHANGED <<fd_map, fd_redir_map, closing>>
  BY <1>1, OwnershipStutter DEF Close
<1>2. CASE /\ Tracked(c, fd)
           /\ ForwardClose(c, fd, RingHost[fd_map[c][fd]])
           /\ fd_map' = [fd_map EXCEPT ![c][fd] = NoPath]
  <2> DEFINE host == ModHost[fd_map[c][fd]]
             rfd == fd_redir_map[c][fd]
  <2>1. host \in Servers /\ rfd \in RemoteFd
    BY <1>2, RemoteFilesAssumption DEF TypeOK, MapType, Tracked
  <2>2. \A ld \in Fds : ~Opening(c, ld)
    BY DEF Opening, Close, Ready, NoCall
  <2>3. rfd # Absent
    BY <1>2, <2>2 DEF Ownership, OpensSent
  <2>4. UNCHANGED <<call, up, files, fd_to_path>>
    BY DEF Close
  <2>5. /\ \A d \in Clients, ld \in Fds : d # c \/ ld # fd =>
             fd_map'[d][ld] = fd_map[d][ld] /\ fd_redir_map'[d][ld] = fd_redir_map[d][ld]
        /\ fd_map'[c][fd] = NoPath
    BY <1>2 DEF TypeOK, MapType, ForwardClose
  <2>6. /\ \A s \in Servers, r \in RemoteFd : s # host \/ r # rfd => closing'[s][r] = closing[s][r]
        /\ closing'[host][rfd] = closing[host][rfd] + 1
    <3>1. closing' = [closing EXCEPT ![host][rfd] = @ + 1]
      BY <1>2 DEF ForwardClose
    <3> HIDE DEF host, rfd
    <3> QED BY <2>1, <3>1 DEF TypeOK, ClosingType
  <2>7. \A d \in Clients, ld \in Fds : \A s, r : Held(d, ld, s, r)' =>
            /\ Held(d, ld, s, r) /\ fd_map'[d][ld] = fd_map[d][ld]
            /\ d # c \/ ld # fd
    BY <2>2, <2>4, <2>5 DEF Held, Opening, Opened, Tracked
  <2>8. Held(c, fd, host, rfd)
    BY <1>2, <2>2 DEF Held
  <2> HIDE DEF host, rfd
  <2>9. HeldFilesOpen'
    BY <2>4, <2>7 DEF Ownership, HeldFilesOpen
  <2>10. OneHolder'
    BY <2>7 DEF Ownership, OneHolder
  <2>11. ClosesReleased'
    <3> SUFFICES ASSUME NEW s \in Servers, NEW r \in RemoteFds, closing'[s][r] > 0
                 PROVE  closing'[s][r] = 1 /\ files'[s][r].path # NoPath /\ Unheld(s, r)'
      BY DEF ClosesReleased
    <3>1. CASE s = host /\ r = rfd
      <4>1. closing[s][r] = 0
        BY <2>8, <3>1 DEF Ownership, ClosesReleased, Unheld, TypeOK, ClosingType, RemoteFd
      <4>2. files[s][r].path # NoPath
        BY <1>2, <2>8, <3>1 DEF Ownership, HeldFilesOpen, Tracked
      <4>3. Unheld(s, r)'
        BY <2>7, <2>8, <3>1 DEF Ownership, OneHolder, Unheld
      <4> QED BY <2>4, <2>6, <3>1, <4>1, <4>2, <4>3
    <3>2. CASE s # host \/ r # rfd
      <4>1. closing'[s][r] = closing[s][r]
        BY <2>6, <3>2 DEF RemoteFd
      <4> QED BY <2>4, <2>7, <4>1 DEF Ownership, ClosesReleased, Unheld
    <3> QED BY <3>1, <3>2
  <2>12. RecordedPaths'
    BY <2>4 DEF Ownership, RecordedPaths
  <2>13. TranslationKnown'
    BY <2>3, <2>4, <2>6 DEF Ownership, TranslationKnown, RemoteFd
  <2>14. OpensSent'
    BY <2>2, <2>4, <2>5 DEF Ownership, OpensSent, Opening, Tracked
  <2> QED BY <2>9, <2>10, <2>11, <2>12, <2>13, <2>14 DEF Ownership
<1> QED BY <1>1, <1>2 DEF Close, RemoveFd


\* A callback's thread returns: what the answer of an open named is now in the
\* maps, and other calls leave everything held.
LEMMA OwnershipCallback ==
    ASSUME TypeOK, Ownership, NEW c \in Clients, Callback(c)
    PROVE  Ownership'
<1> USE DEF serverVars
<1>0. call' = [call EXCEPT ![c] = NoCall] /\ UNCHANGED <<closing, up, files, fd_to_path>>
  BY DEF Callback, FinishOpen, FinishRead, FinishSeek
<1>1. (\A d \in Clients \ {c} : call'[d] = call[d]) /\ call'[c].op = "none"
  BY <1>0, ReturnFacts DEF TypeOK
<1>2. \A ld \in Fds : ~Opening(c, ld)'
  BY <1>1 DEF Opening
<1>3. TranslationKnown'
  BY <1>0, <1>1 DEF Ownership, TranslationKnown
<1>4. CASE FinishOpen(c)
  <2> DEFINE fd == call[c].fd
  <2>1. /\ call[c].op = "open" /\ call[c].stage = "answered" /\ Opening(c, fd) /\ Opened(c)
        /\ fd \in Fds /\ call[c].ret \in RemoteFds \cup {Failed}
    <3>1. call[c].op = "open" /\ call[c].stage = "answered"
      BY <1>4 DEF FinishOpen, Answered
    <3> QED BY <3>1 DEF Opening, Opened, TypeOK, CallType, Call, NoCall
  <2>2. /\ \A d \in Clients, ld \in Fds : d # c \/ ld # fd =>
             fd_redir_map'[d][ld] = fd_redir_map[d][ld]
        /\ fd_redir_map'[c][fd] = call[c].ret
        /\ UNCHANGED fd_map
    <3> HIDE DEF fd
    <3>1. fd_redir_map' = [fd_redir_map EXCEPT ![c][fd] = call[c].ret] /\ UNCHANGED fd_map
      BY <1>4 DEF FinishOpen, fd
    <3> QED BY <2>1, <3>1 DEF TypeOK, MapType
  <2>3. \A ld \in Fds : Opening(c, ld) => ld = fd
    BY DEF Opening
  <2>4. call[c].server = ModHost[fd_map[c][fd]] /\ Tracked(c, fd)
    BY <2>1 DEF Ownership, OpensSent
  <2> HIDE DEF fd
  <2>5. \A d \in Clients, ld \in Fds : \A s, r : Held(d, ld, s, r)' => Held(d, ld, s, r)
    <3> SUFFICES ASSUME NEW d \in Clients, NEW ld \in Fds, NEW s, NEW r, Held(d, ld, s, r)'
                 PROVE  Held(d, ld, s, r)
      OBVIOUS
    <3>1. CASE d = c /\ ld = fd
      BY <1>2, <2>1, <2>2, <2>4, <3>1 DEF Held
    <3>2. CASE d = c /\ ld # fd
      BY <1>2, <2>2, <2>3, <3>2 DEF Held, Tracked
    <3>3. CASE d # c
      BY <1>1, <2>2, <3>3 DEF Held, Tracked, Opening, Opened
    <3> QED BY <3>1, <3>2, <3>3
  <2>6. HeldFilesOpen' /\ OneHolder' /\ ClosesReleased' /\ RecordedPaths'
    BY <1>0, <2>2, <2>5, OwnershipShrinks
  <2>7. OpensSent'
    BY <1>1, <1>2, <2>1, <2>2, <2>3, RemoteFilesAssumption
       DEF Ownership, OpensSent, Opening, Tracked
  <2> QED BY <1>3, <2>6, <2>7 DEF Ownership
<1>5. CASE FinishRead(c) \/ FinishSeek(c)
  <2>1. \A ld \in Fds : ~Opening(c, ld)
    BY <1>5 DEF FinishRead, FinishSeek, Answered, Opening
  <2>2. \A d \in Clients, ld \in Fds :
            fd_map'[d][ld] = fd_map[d][ld] \/ (d = c /\ fd_map'[d][ld] = NoPath)
    <3>1. CASE fd_map' = [fd_map EXCEPT ![c][call[c].fd] = NoPath]
      BY <3>1 DEF TypeOK, MapType
    <3>2. CASE UNCHANGED fd_map
      BY <3>2
    <3> QED BY <1>5, <3>1, <3>2 DEF FinishRead, FinishSeek
  <2>3. UNCHANGED fd_redir_map
    BY <1>5 DEF FinishRead, FinishSeek
  <2>4. \A d \in Clients, ld \in Fds : ld \in Fds => Opening(d, ld)' = Opening(d, ld)
    BY <1>1, <1>2, <2>1 DEF Opening
  <2>5. \A d \in Clients, ld \in Fds : \A s, r : Held(d, ld, s, r)' =>
            Held(d, ld, s, r) /\ fd_map'[d][ld] = fd_map[d][ld]
    BY <1>1, <1>2, <2>1, <2>2, <2>3 DEF Held, Tracked, Opening, Opened, Ownership, OpensSent
  <2>6. HeldFilesOpen' /\ OneHolder' /\ ClosesReleased' /\ RecordedPaths'
    BY <1>0, <2>5, OwnershipShrinks
  <2>7. OpensSent'
    BY <1>1, <1>2, <2>1, <2>2, <2>3 DEF Ownership, OpensSent, Opening, Tracked
  <2> QED BY <1>3, <2>6, <2>7 DEF Ownership
<1> QED BY <1>4, <1>5 DEF Callback

\* A handler that answers something else than an open, and opens or closes no
\* descriptor.
LEMMA OwnershipAnswer ==
    ASSUME TypeOK, Ownership, NEW c \in Clients, call[c] # NoCall, call[c].op # "open",
           \/ \E stage, ret : Answer(c, stage, ret)
           \/ UNCHANGED call,
           UNCHANGED <<fd_map, fd_redir_map, closing, fd_to_path>>,
           \A s \in Servers, r \in RemoteFds : files'[s][r].path = files[s][r].path,
           \A s \in Servers : up'[s] => up[s]
    PROVE  Ownership'
<1>1. \A d \in Clients : /\ call'[d].op = call[d].op /\ call'[d].fd = call[d].fd
                         /\ call'[d].server = call[d].server /\ call'[d].rfd = call[d].rfd
                         /\ call[d].op = "open" => call'[d] = call[d]
  <2>1. CASE \E stage, ret : Answer(c, stage, ret)
    BY <2>1, AnswerFacts DEF TypeOK
  <2>2. CASE UNCHANGED call
    BY <2>2
  <2> QED BY <2>1, <2>2
<1>2. \A d \in Clients, ld \in Fds : \A s, r : Held(d, ld, s, r)' = Held(d, ld, s, r)
  BY <1>1 DEF Held, Opening, Opened, Tracked
<1>3. HeldFilesOpen' /\ OneHolder' /\ ClosesReleased' /\ RecordedPaths'
  BY <1>2, OwnershipShrinks
<1>4. TranslationKnown' /\ OpensSent'
  BY <1>1 DEF Ownership, TranslationKnown, OpensSent, Opening, Tracked
<1> QED BY <1>3, <1>4 DEF Ownership

\* An open takes a free descriptor: nobody holds it and no close names it.
LEMMA OwnershipOpenHandler ==
    ASSUME TypeOK, Ownership, NEW c \in Clients, OpenHandler(c)
    PROVE  Ownership'
<1> DEFINE s == call[c].server
           fd == call[c].fd
           p == fd_map[c][fd]
<1>1. /\ call[c] # NoCall /\ call[c].op = "open" /\ call[c].stage = "sent"
      /\ s \in Servers /\ fd \in Fds /\ Opening(c, fd) /\ ~Opened(c)
  <2>1. call[c].op = "open" /\ call[c].stage = "sent"
    BY DEF OpenHandler, Request
  <2> QED BY <2>1 DEF NoCall, TypeOK, CallType, Call, Opening, Opened
<1>2. UNCHANGED <<fd_map, fd_redir_map, closing, up>>
  BY DEF OpenHandler, clientVars
<1>3. s = ModHost[p] /\ Tracked(c, fd)
  BY <1>1 DEF Ownership, OpensSent
<1>4. ASSUME NEW ret \in RemoteFds \cup {Failed}, Answer(c, "answered", ret)
      PROVE  /\ \A d \in Clients : /\ call'[d].op = call[d].op /\ call'[d].fd = call[d].fd
                                   /\ call'[d].server = call[d].server
                                   /\ call'[d].rfd = call[d].rfd
             /\ \A d \in Clients \ {c} : call'[d] = call[d]
             /\ TranslationKnown' /\ OpensSent'
             /\ \A d \in Clients, ld \in Fds : \A t, r :
                   Held(d, ld, t, r)' => \/ Held(d, ld, t, r)
                                         \/ d = c /\ ld = fd /\ t = s /\ r = ret
  <2>1. /\ \A d \in Clients : /\ call'[d].op = call[d].op /\ call'[d].fd = call[d].fd
                              /\ call'[d].server = call[d].server
                              /\ call'[d].rfd = call[d].rfd
        /\ \A d \in Clients \ {c} : call'[d] = call[d]
        /\ call'[c].ret = ret
    BY <1>1, <1>4, AnswerFacts DEF TypeOK
  <2>2. TranslationKnown' /\ OpensSent'
    BY <1>2, <2>1 DEF Ownership, TranslationKnown, OpensSent, Opening, Tracked
  <2>3. \A d \in Clients, ld \in Fds : \A t, r :
            Held(d, ld, t, r)' => \/ Held(d, ld, t, r)
                                  \/ d = c /\ ld = fd /\ t = s /\ r = ret
    BY <1>1, <1>2, <2>1 DEF Held, Opening, Opened, Tracked
  <2> QED BY <2>1, <2>2, <2>3
<1>5. CASE \E r \in FreeFds(s) :
             /\ files' = [files EXCEPT ![s][r] = [path |-> p, pos |-> 0]]
             /\ fd_to_path' = [fd_to_path EXCEPT ![s][r] = p]
             /\ Answer(c, "answered", r)
  <2> PICK r \in FreeFds(s) :
             /\ files' = [files EXCEPT ![s][r] = [path |-> p, pos |-> 0]]
             /\ fd_to_path' = [fd_to_path EXCEPT ![s][r] = p]
             /\ Answer(c, "answered", r)
    BY <1>5
  <2>1. r \in RemoteFds /\ files[s][r].path = NoPath
    BY DEF FreeFds
  <2> HIDE DEF s, p, fd
  <2>2. /\ \A t \in Servers, q \in RemoteFds : t # s \/ q # r =>
             files'[t][q] = files[t][q] /\ fd_to_path'[t][q] = fd_to_path[t][q]
        /\ files'[s][r].path = p /\ fd_to_path'[s][r] = p
    BY <1>1, <2>1 DEF TypeOK, FileType, PathType, RemoteFd
  <2>3. \A d \in Clients, ld \in Fds : ~Held(d, ld, s, r)
    <3> SUFFICES ASSUME NEW d \in Clients, NEW ld \in Fds, Held(d, ld, s, r) PROVE FALSE
      OBVIOUS
    <3>1. fd_map[d][ld] = NoPath
      BY <1>1, <2>1 DEF Ownership, HeldFilesOpen
    <3>2. Tracked(d, ld)
      BY DEF Held, Ownership, OpensSent
    <3> QED BY <3>1, <3>2 DEF Tracked
  <2>4. TranslationKnown' /\ OpensSent'
    BY <1>4, <2>1
  <2>5. \A d \in Clients, ld \in Fds : \A t, q :
            Held(d, ld, t, q)' => \/ Held(d, ld, t, q)
                                  \/ d = c /\ ld = fd /\ t = s /\ q = r
    BY <1>4, <2>1
  <2>6. HeldFilesOpen'
    <3> SUFFICES ASSUME NEW d \in Clients, NEW ld \in Fds, NEW t \in Servers,
                        NEW q \in RemoteFds, Held(d, ld, t, q)'
                 PROVE  files'[t][q].path = fd_map'[d][ld]
      BY DEF HeldFilesOpen
    <3>1. CASE Held(d, ld, t, q)
      BY <1>2, <2>2, <2>3, <3>1 DEF Ownership, HeldFilesOpen
    <3>2. CASE d = c /\ ld = fd /\ t = s /\ q = r
      BY <1>2, <2>2, <3>2 DEF p
    <3> QED BY <2>5, <3>1, <3>2
  <2>7. OneHolder'
    BY <2>3, <2>5 DEF Ownership, OneHolder
  <2>8. ClosesReleased'
    <3> SUFFICES ASSUME NEW t \in Servers, NEW q \in RemoteFds, closing'[t][q] > 0
                 PROVE  closing'[t][q] = 1 /\ files'[t][q].path # NoPath /\ Unheld(t, q)'
      BY DEF ClosesReleased
    <3>1. closing[t][q] = 1 /\ files[t][q].path # NoPath /\ Unheld(t, q)
      BY <1>2 DEF Ownership, ClosesReleased
    <3>2. t # s \/ q # r
      BY <2>1, <3>1
    <3> QED BY <1>2, <2>2, <2>5, <3>1, <3>2 DEF Unheld
  <2>9. RecordedPaths'
    BY <1>2, <2>2 DEF Ownership, RecordedPaths
  <2> QED BY <2>4, <2>6, <2>7, <2>8, <2>9 DEF Ownership
<1>6. CASE /\ fd_to_path' = [fd_to_path EXCEPT ![s][Failed] = p]
           /\ Answer(c, "answered", Failed)
           /\ UNCHANGED files
  <2> HIDE DEF s, p, fd
  <2>1. Failed \notin RemoteFds
    BY RemoteFilesAssumption
  <2>2. \A t \in Servers, q \in RemoteFds : fd_to_path'[t][q] = fd_to_path[t][q]
    BY <1>1, <1>6, <2>1 DEF TypeOK, PathType, RemoteFd
  <2>3. \A d \in Clients, ld \in Fds, t \in Servers, q \in RemoteFds :
            Held(d, ld, t, q)' => Held(d, ld, t, q)
    BY <1>4, <1>6, <2>1
  <2>4. HeldFilesOpen' /\ OneHolder' /\ ClosesReleased' /\ RecordedPaths'
    BY <1>2, <1>6, <2>2, <2>3, OwnershipShrinks
  <2>5. TranslationKnown' /\ OpensSent'
    BY <1>4, <1>6
  <2> QED BY <2>4, <2>5 DEF Ownership
<1> QED BY <1>5, <1>6 DEF OpenHandler

\* Every handler of a request preserves ownership.
LEMMA OwnershipHandler ==
    ASSUME TypeOK, Ownership, NEW c \in Clients, Handler(c)
    PROVE  Ownership'
<1> USE DEF clientVars, serverVars, cacheVars
<1>1. CASE OpenHandler(c)
  BY <1>1, OwnershipOpenHandler
<1>2. ASSUME NEW o \in {"read", "pread", "seek"}, call[c].op = o
      PROVE  call[c] # NoCall /\ call[c].op # "open" /\ call[c].server \in Servers
  BY <1>2 DEF NoCall, TypeOK, CallType, Call
<1>3. CASE ReadHandler(c)
  <2> DEFINE s == call[c].server
             r == call[c].rfd
  <2>1. call[c] # NoCall /\ call[c].op # "open" /\ s \in Servers
    BY <1>2, <1>3 DEF ReadHandler, Request
  <2>2. CASE /\ HasFile(s, r)
             /\ Answer(c, "moving", [path |-> files[s][r].path, pos |-> files[s][r].pos])
             /\ files' = [files EXCEPT ![s][r].pos = Advance(@)]
             /\ UNCHANGED up
    <3> HIDE DEF s, r
    <3>1. \A t \in Servers, q \in RemoteFds : files'[t][q].path = files[t][q].path
      BY <2>1, <2>2 DEF TypeOK, FileType, HasFile
    <3>2. \E stage, ret : Answer(c, stage, ret)
      BY <2>2
    <3> QED BY <1>3, <2>1, <2>2, <3>1, <3>2, OwnershipAnswer DEF ReadHandler
  <2>3. CASE Abort(s) /\ UNCHANGED <<call, files>>
    <3>1. \A t \in Servers : up'[t] => up[t]
      BY <2>3 DEF Abort, TypeOK
    <3> QED BY <1>3, <2>1, <2>3, <3>1, OwnershipAnswer DEF ReadHandler
  <2> QED BY <1>3, <2>2, <2>3 DEF ReadHandler
<1>4. CASE PreadHandler(c)
  <2>1. \E stage, ret : Answer(c, stage, ret)
    BY <1>4 DEF PreadHandler
  <2>2. UNCHANGED <<fd_map, fd_redir_map, closing, up, files, fd_to_path>>
    BY <1>4 DEF PreadHandler
  <2>3. call[c].op = "pread"
    BY <1>4 DEF PreadHandler, Request
  <2> QED BY <1>2, <2>1, <2>2, <2>3, OwnershipAnswer
<1>5. CASE BulkCallback(c)
  <2>1. \E stage, ret : Answer(c, stage, ret)
    BY <1>5 DEF BulkCallback
  <2>2. UNCHANGED <<fd_map, fd_redir_map, closing, up, files, fd_to_path>>
    BY <1>5 DEF BulkCallback
  <2>3. call[c].op \in {"read", "pread"}
    BY <1>5 DEF BulkCallback
  <2> QED BY <1>2, <2>1, <2>2, <2>3, OwnershipAnswer
<1>6. CASE SeekHandler(c)
  <2> DEFINE s  == call[c].server
             r  == call[c].rfd
             to == Target(files[s][r].pos, Narrow(call[c].off), call[c].whence)
  <2>1. call[c] # NoCall /\ call[c].op # "open" /\ s \in Servers
    BY <1>2, <1>6 DEF SeekHandler, Request
  <2>2. \E stage, ret : Answer(c, stage, ret)
    BY <1>6 DEF SeekHandler
  <2>3. \A t \in Servers, q \in RemoteFds : files'[t][q].path = files[t][q].path
    <3>1. \/ HasFile(s, r) /\ files' = [files EXCEPT ![s][r].pos = to]
          \/ UNCHANGED files
      BY <1>6 DEF SeekHandler
    <3> HIDE DEF s, r, to
    <3>2. CASE HasFile(s, r) /\ files' = [files EXCEPT ![s][r].pos = to]
      BY <2>1, <3>2 DEF TypeOK, FileType, HasFile
    <3>3. CASE UNCHANGED files
      BY <3>3
    <3> QED BY <3>1, <3>2, <3>3
  <2>4. UNCHANGED <<fd_map, fd_redir_map, closing, up, fd_to_path>>
    BY <1>6 DEF SeekHandler
  <2> QED BY <2>1, <2>2, <2>3, <2>4, OwnershipAnswer
<1> QED BY <1>1, <1>3, <1>4, <1>5, <1>6 DEF Handler

\* A close RPC closes a descriptor that nobody holds.
LEMMA OwnershipCloseHandler ==
    ASSUME TypeOK, Ownership, NEW s \in Servers, NEW rfd \in RemoteFd, CloseHandler(s, rfd)
    PROVE  /\ Ownership'
           /\ \A t \in Servers, r \in RemoteFds :
                 files[t][r].path # NoPath /\ files'[t][r].path = NoPath => Unheld(t, r)
<1>1. UNCHANGED <<fd_map, fd_redir_map, call>>
  BY DEF CloseHandler, ForgetPath, clientVars
<1>2. /\ \A t \in Servers, r \in RemoteFd : t # s \/ r # rfd => closing'[t][r] = closing[t][r]
      /\ closing[s][rfd] > 0 /\ closing'[s][rfd] = closing[s][rfd] - 1
  <2>1. closing' = [closing EXCEPT ![s][rfd] = @ - 1] /\ closing[s][rfd] > 0
    BY DEF CloseHandler, ForgetPath
  <2> QED BY <2>1 DEF TypeOK, ClosingType
<1>3. /\ \A t \in Servers, r \in RemoteFds : t # s \/ r # rfd => files'[t][r] = files[t][r]
      /\ rfd \in RemoteFds => files'[s][rfd].path = NoPath
  <2>1. CASE HasFile(s, rfd) /\ files' = [files EXCEPT ![s][rfd] = ClosedFile]
    BY <2>1 DEF TypeOK, FileType, ClosedFile, HasFile
  <2>2. CASE ~HasFile(s, rfd) /\ UNCHANGED files
    BY <2>2 DEF HasFile
  <2> QED BY <2>1, <2>2 DEF CloseHandler, ForgetPath
<1>4. rfd \in RemoteFds => closing[s][rfd] = 1 /\ Unheld(s, rfd)
  BY <1>2 DEF Ownership, ClosesReleased
<1>5. \A c \in Clients, fd \in Fds : \A t, r : Held(c, fd, t, r)' = Held(c, fd, t, r)
  BY <1>1 DEF Held, Opening, Opened, Tracked
<1>6. HeldFilesOpen'
  BY <1>1, <1>3, <1>4, <1>5 DEF Ownership, HeldFilesOpen, Unheld
<1>7. OneHolder'
  BY <1>5 DEF Ownership, OneHolder
<1>8. ClosesReleased'
  BY <1>2, <1>3, <1>4, <1>5 DEF Ownership, ClosesReleased, Unheld, RemoteFd
<1>9. RecordedPaths'
  <2>1. CASE fd_to_path' = [fd_to_path EXCEPT ![s][rfd] = NoPath] /\ UNCHANGED up
    BY <1>3, <2>1 DEF Ownership, RecordedPaths, TypeOK, PathType, RemoteFd
  <2>2. CASE Abort(s) /\ UNCHANGED fd_to_path
    BY <1>3, <2>2 DEF Ownership, RecordedPaths, TypeOK, Abort
  <2> QED BY <2>1, <2>2 DEF CloseHandler, ForgetPath
<1>10. TranslationKnown'
  BY <1>1, <1>2 DEF Ownership, TranslationKnown, RemoteFd
<1>11. OpensSent'
  BY <1>1 DEF Ownership, OpensSent, Opening, Tracked
<1> QED BY <1>3, <1>4, <1>6, <1>7, <1>8, <1>9, <1>10, <1>11 DEF Ownership

\* Every step preserves ownership, and closes only what nobody holds.
LEMMA OwnershipStep ==
    ASSUME ModHost = RingHost, TypeOK, Ownership, [Next]_vars
    PROVE  Ownership'
<1> USE DEF clientVars, serverVars
<1>1. ASSUME NEW c \in Clients, Application(c)
      PROVE  Ownership'
  <2> SUFFICES ASSUME NEW fd \in Fds,
                      \/ \E p \in Paths, mode \in {"read", "append"} : Open(c, fd, p, mode)
                      \/ Read(c, fd) \/ Readv(c, fd)
                      \/ \E off \in Position : Pread(c, fd, off)
                      \/ \E seek \in Seeks : Seek(c, fd, seek[1], seek[2])
                      \/ Close(c, fd)
                      \/ Fclose(c, fd)
               PROVE  Ownership'
    BY <1>1 DEF Application
  <2>1. ASSUME NEW p \in Paths, NEW mode, Open(c, fd, p, mode)
        PROVE  Ownership'
    BY <2>1, OwnershipOpen
  <2>2. CASE Read(c, fd)
    <3>1. CASE RemoteRead(c, fd)
      BY <2>2, <3>1, OwnershipForward DEF Read, RemoteRead, ForwardRead
    <3>2. CASE UNCHANGED call
      BY <2>2, <3>2, OwnershipStutter DEF Read
    <3> QED BY <2>2, <3>1, <3>2 DEF Read
  <2>3. ASSUME NEW off, Pread(c, fd, off)
        PROVE  Ownership'
    BY <2>3, OwnershipForward DEF Pread, ForwardRead
  <2>4. ASSUME NEW off, NEW whence, Seek(c, fd, off, whence)
        PROVE  Ownership'
    <3>1. CASE Tracked(c, fd) /\ ForwardSeek(c, fd, RingHost[fd_map[c][fd]], off, whence)
      BY <2>4, <3>1, OwnershipForward DEF Seek, ForwardSeek
    <3>2. CASE UNCHANGED call
      BY <2>4, <3>2, OwnershipStutter DEF Seek
    <3> QED BY <2>4, <3>1, <3>2 DEF Seek
  <2>5. CASE Close(c, fd)
    BY <2>5, OwnershipClose
  <2>6. CASE Fclose(c, fd)
    BY <2>6, OwnershipStutter DEF Fclose
  <2>7. CASE Readv(c, fd)
    BY <2>7, OwnershipStutter DEF Readv
  <2> QED BY <2>1, <2>2, <2>3, <2>4, <2>5, <2>6, <2>7
<1>2. ASSUME NEW c \in Clients, Callback(c)
      PROVE  Ownership'
  BY <1>2, OwnershipCallback
<1>3. ASSUME NEW c \in Clients, Handler(c)
      PROVE  Ownership'
  BY <1>3, OwnershipHandler
<1>4. ASSUME NEW c \in Clients, OpenTimeout(c) \/ CallbackAsserts(c) \/ ForwardAsserts(c)
      PROVE  Ownership'
  BY <1>4, OwnershipStutter DEF OpenTimeout, CallbackAsserts, ForwardAsserts, Exit
<1>5. ASSUME NEW s \in Servers, NEW rfd \in RemoteFd, CloseHandler(s, rfd)
      PROVE  Ownership'
  BY <1>5, OwnershipCloseHandler
<1>6. ASSUME NEW s \in Servers, NEW p, MoveFile(s, p)
      PROVE  Ownership'
  BY <1>6, OwnershipStutter DEF MoveFile
<1>7. CASE UNCHANGED vars
  BY <1>7, OwnershipStutter DEF vars
<1>8. ASSUME NEW c \in Clients, SeekUnanswered(c)
      PROVE  Ownership'
  <2>1. call[c] # NoCall /\ call[c].op # "open" /\ \E stage, ret : Answer(c, stage, ret)
    BY <1>8 DEF SeekUnanswered, Dead
  <2>2. UNCHANGED <<fd_map, fd_redir_map, closing, up, files, fd_to_path>>
    BY <1>8 DEF SeekUnanswered, clientVars, serverVars
  <2> QED BY <2>1, <2>2, OwnershipAnswer
<1> QED BY <1>1, <1>2, <1>3, <1>4, <1>5, <1>6, <1>7, <1>8 DEF Next

\* When open and close compute the same server for every path, no server
\* descriptor is shared, reused or closed under a client that relies on it,
\* whatever fails and even if the application closes behind HVAC's back.
THEOREM OwnershipHolds == ASSUME ModHost = RingHost PROVE Spec => []Ownership
<1>1. Init => Ownership
  <2> SUFFICES ASSUME Init PROVE Ownership
    OBVIOUS
  <2>1. \A c \in Clients, fd \in Fds : ~Opening(c, fd) /\ ~Tracked(c, fd)
    BY DEF Init, Opening, Tracked, NoCall
  <2>2. \A c \in Clients, fd \in Fds : \A s, r : ~Held(c, fd, s, r)
    BY <2>1 DEF Held
  <2>3. HeldFilesOpen /\ OneHolder /\ OpensSent
    BY <2>1, <2>2 DEF HeldFilesOpen, OneHolder, OpensSent
  <2>4. ClosesReleased /\ RecordedPaths /\ TranslationKnown
    BY DEF Init, ClosesReleased, RecordedPaths, TranslationKnown, RemoteFd, ClosedFile, NoCall
  <2> QED BY <2>3, <2>4 DEF Ownership
<1>2. TypeOK /\ Ownership /\ [Next]_vars => Ownership'
  BY OwnershipStep
<1> QED BY <1>1, <1>2, TypeCorrect, PTL DEF Spec

\* Only a close RPC closes a descriptor of a server.
LEMMA OnlyClosesClose ==
    ASSUME TypeOK, [Next]_vars, NEW t \in Servers, NEW q \in RemoteFds,
           files[t][q].path # NoPath, files'[t][q].path = NoPath
    PROVE  \E s \in Servers, rfd \in RemoteFd : CloseHandler(s, rfd)
<1> USE DEF clientVars, serverVars
<1>1. ASSUME NEW c \in Clients, Application(c)
      PROVE  UNCHANGED files
  BY <1>1 DEF Application, Open, Read, Readv, Pread, Seek, Close, Fclose
<1>2. ASSUME NEW c \in Clients,
             Callback(c) \/ OpenTimeout(c) \/ CallbackAsserts(c) \/ ForwardAsserts(c) \/ SeekUnanswered(c)
      PROVE  UNCHANGED files
  BY <1>2 DEF Callback, FinishOpen, FinishRead, FinishSeek, OpenTimeout, CallbackAsserts, ForwardAsserts, Exit,
              SeekUnanswered
<1>3. ASSUME NEW c \in Clients, Handler(c)
      PROVE  \/ UNCHANGED files
             \/ \E s : \E r \in FreeFds(s) :
                    \E p : files' = [files EXCEPT ![s][r] = [path |-> p, pos |-> 0]]
             \/ \E s, r : HasFile(s, r) /\
                    \E pos : files' = [files EXCEPT ![s][r].pos = pos]
  <2>1. CASE OpenHandler(c)
    <3> DEFINE s == call[c].server
               p == fd_map[c][call[c].fd]
    <3>1. \/ \E r \in FreeFds(s) : files' = [files EXCEPT ![s][r] = [path |-> p, pos |-> 0]]
          \/ UNCHANGED files
      BY <2>1 DEF OpenHandler
    <3> HIDE DEF s, p
    <3> QED BY <3>1
  <2>2. CASE ReadHandler(c)
    BY <2>2 DEF ReadHandler
  <2>3. CASE PreadHandler(c) \/ BulkCallback(c)
    BY <2>3 DEF PreadHandler, BulkCallback
  <2>4. CASE SeekHandler(c)
    BY <2>4 DEF SeekHandler
  <2> QED BY <1>3, <2>1, <2>2, <2>3, <2>4 DEF Handler
<1>4. ASSUME NEW c \in Clients, Handler(c)
      PROVE  FALSE
  <2>1. files \in [Servers -> [RemoteFds -> [path : Paths \cup {NoPath}, pos : Position]]]
    BY DEF TypeOK, FileType
  <2>2. CASE \E s : \E r \in FreeFds(s) :
               \E p : files' = [files EXCEPT ![s][r] = [path |-> p, pos |-> 0]]
    <3> PICK s, r, p : /\ r \in FreeFds(s)
                       /\ files' = [files EXCEPT ![s][r] = [path |-> p, pos |-> 0]]
      BY <2>2
    <3> QED BY <2>1 DEF FreeFds
  <2>3. CASE \E s, r : HasFile(s, r) /\ \E pos : files' = [files EXCEPT ![s][r].pos = pos]
    <3> PICK s, r, pos : HasFile(s, r) /\ files' = [files EXCEPT ![s][r].pos = pos]
      BY <2>3
    <3> QED BY <2>1 DEF HasFile
  <2>4. CASE UNCHANGED files
    BY <2>4
  <2> QED BY <1>3, <1>4, <2>2, <2>3, <2>4
<1>5. ASSUME NEW s \in Servers, NEW p, MoveFile(s, p)
      PROVE  UNCHANGED files
  BY <1>5 DEF MoveFile
<1>6. CASE UNCHANGED vars
  BY <1>6 DEF vars
<1> QED BY <1>1, <1>2, <1>4, <1>5, <1>6 DEF Next

\* Under the same condition, a server closes a descriptor only when no client
\* relies on it.
THEOREM ClosesOnlyUnheldHolds == ASSUME ModHost = RingHost PROVE Spec => ClosesOnlyUnheld
<1>1. TypeOK /\ Ownership /\ [Next]_vars =>
        [\A s \in Servers, r \in RemoteFds :
            files[s][r].path # NoPath /\ files'[s][r].path = NoPath => Unheld(s, r)]_vars
  BY OnlyClosesClose, OwnershipCloseHandler
<1> QED BY <1>1, TypeCorrect, OwnershipHolds, PTL DEF Spec, ClosesOnlyUnheld
-----------------------------------------------------------------------------
(* What Ownership says, part by part, under the same condition.            *)

\* A server descriptor a client relies on is open, on the tracked file.
THEOREM HeldFilesOpenHolds == ASSUME ModHost = RingHost PROVE Spec => []HeldFilesOpen
<1>1. Ownership => HeldFilesOpen
  BY DEF Ownership
<1> QED BY <1>1, OwnershipHolds, PTL

\* No two descriptors share a descriptor, and a position, of a server.
THEOREM OneHolderHolds == ASSUME ModHost = RingHost PROVE Spec => []OneHolder
<1>1. Ownership => OneHolder
  BY DEF Ownership
<1> QED BY <1>1, OwnershipHolds, PTL

\* A close in transit names an open descriptor that was released, once.
THEOREM ClosesReleasedHolds == ASSUME ModHost = RingHost PROVE Spec => []ClosesReleased
<1>1. Ownership => ClosesReleased
  BY DEF Ownership
<1> QED BY <1>1, OwnershipHolds, PTL

-----------------------------------------------------------------------------
(* Every server keeps its cache as CacheSpec has it, whatever the clients  *)
(* send and whatever fails.                                                *)

\* A step that leaves queue and map of s alone is invisible.
LEMMA CacheStutter ==
    ASSUME NEW s \in Servers, path_cache_map'[s] = path_cache_map[s], data_queue'[s] = data_queue[s]
    PROVE  UNCHANGED Cache(s)!cacheVars
  BY DEF Cache!cacheVars

\* A close RPC queues its file at its server unless that is cached.
LEMMA CloseCaches ==
    ASSUME TypeOK, NEW s \in Servers, NEW t \in Servers, NEW rfd \in RemoteFd,
           CloseHandler(t, rfd)
    PROVE  [Cache(s)!CacheNext]_(Cache(s)!cacheVars)
<1> DEFINE p == fd_to_path[t][rfd]
<1>1. UNCHANGED path_cache_map /\ p \in Paths \cup {NoPath}
  BY DEF CloseHandler, ForgetPath, TypeOK, PathType
<1>2. CASE UNCHANGED data_queue
  BY <1>1, <1>2, CacheStutter
<1>3. CASE /\ ~(p # NoPath /\ path_cache_map[t][p])
           /\ data_queue' = [data_queue EXCEPT ![t][p] = @ + 1]
  <2> HIDE DEF p
  <2>1. data_queue \in [Servers -> [Paths \cup {NoPath} -> Nat]]
    BY DEF TypeOK, CacheType
  <2>2. CASE s # t
    <3>1. data_queue'[s] = data_queue[s]
      BY <1>3, <2>1, <2>2
    <3> QED
      BY <1>1, <3>1, CacheStutter
  <2>3. CASE s = t /\ p = NoPath
    <3>1. [q \in Paths |-> data_queue[s][q]]' = [q \in Paths |-> data_queue[s][q]]
      BY <1>1, <1>3, <2>1, <2>3, RemoteFilesAssumption
    <3> QED
      BY <1>1, <3>1 DEF Cache!cacheVars
  <2>4. CASE s = t /\ p # NoPath
    <3> DEFINE pending == [q \in Paths |-> data_queue[s][q]]
    <3>1. p \in Paths /\ ~path_cache_map[s][p]
      BY <1>1, <1>3, <2>4
    <3>2. pending' = [pending EXCEPT ![p] = @ + 1]
      BY <1>3, <2>1, <2>4, <3>1
    <3> QED
      BY <1>1, <3>1, <3>2 DEF Cache!CacheNext, Cache!Enqueue
  <2> QED
    BY <2>2, <2>3, <2>4
<1> QED
  BY <1>2, <1>3 DEF CloseHandler, ForgetPath

\* The data mover works off one entry, by a copy or, if that may fail, without.
LEMMA MoveCaches ==
    ASSUME TypeOK, NEW s \in Servers, NEW t \in Servers, NEW p \in Paths \cup {NoPath},
           MoveFile(t, p)
    PROVE  [Cache(s)!CacheNext]_(Cache(s)!cacheVars)
<1>1. /\ data_queue \in [Servers -> [Paths \cup {NoPath} -> Nat]]
      /\ path_cache_map \in [Servers -> [Paths -> BOOLEAN]]
  BY DEF TypeOK, CacheType
<1>2. data_queue[t][p] > 0 /\ data_queue' = [data_queue EXCEPT ![t][p] = @ - 1]
  BY DEF MoveFile
<1>3. \/ p # NoPath /\ path_cache_map' = [path_cache_map EXCEPT ![t][p] = TRUE]
      \/ (p = NoPath \/ "copy" \in Faults) /\ UNCHANGED path_cache_map
  BY DEF MoveFile
<1>4. CASE s # t
  <2>1. data_queue'[s] = data_queue[s] /\ path_cache_map'[s] = path_cache_map[s]
    BY <1>1, <1>2, <1>3, <1>4
  <2> QED
    BY <2>1, CacheStutter
<1>5. CASE s = t /\ p = NoPath
  <2>1. [q \in Paths |-> data_queue[s][q]]' = [q \in Paths |-> data_queue[s][q]]
    BY <1>1, <1>2, <1>5, RemoteFilesAssumption
  <2> QED
    BY <1>3, <1>5, <2>1 DEF Cache!cacheVars
<1>6. CASE s = t /\ p # NoPath
  <2> DEFINE pending == [q \in Paths |-> data_queue[s][q]]
             cached  == {q \in Paths : path_cache_map[s][q]}
  <2>1. p \in Paths /\ pending[p] > 0
    BY <1>2, <1>6
  <2>2. pending' = [pending EXCEPT ![p] = @ - 1]
    BY <1>1, <1>2, <1>6, <2>1
  <2>3. cached' = cached \cup {p} \/ ("copy" \in Faults /\ UNCHANGED cached)
    BY <1>1, <1>3, <1>6, <2>1
  <2> QED
    BY <2>1, <2>2, <2>3 DEF Cache!CacheNext, Cache!Finish
<1> QED
  BY <1>4, <1>5, <1>6

\* The server's side of ServerCache's refinement, with clients that close over
\* the network: whatever they send, the servers queue and cache as promised.
THEOREM ServersCacheHolds == Spec => ServersCache
<1>1. ASSUME Init, NEW s \in Servers PROVE Cache(s)!CacheInit
  BY <1>1 DEF Init, Cache!CacheInit
<1>2. ASSUME TypeOK, [Next]_vars, NEW s \in Servers
      PROVE  [Cache(s)!CacheNext]_(Cache(s)!cacheVars)
  <2>1. ASSUME UNCHANGED cacheVars PROVE UNCHANGED Cache(s)!cacheVars
    BY <2>1, CacheStutter DEF cacheVars
  <2>2. ASSUME NEW c \in Clients, Application(c)
        PROVE  UNCHANGED cacheVars
    BY <2>2 DEF Application, Open, Read, Readv, Pread, Seek, Close, Fclose, serverVars, cacheVars
  <2>3. ASSUME NEW c \in Clients,
               Callback(c) \/ OpenTimeout(c) \/ CallbackAsserts(c) \/ ForwardAsserts(c) \/ SeekUnanswered(c)
        PROVE  UNCHANGED cacheVars
    BY <2>3 DEF Callback, FinishOpen, FinishRead, FinishSeek, OpenTimeout, CallbackAsserts, ForwardAsserts, Exit,
                SeekUnanswered, serverVars, cacheVars
  <2>4. ASSUME NEW c \in Clients, Handler(c)
        PROVE  UNCHANGED cacheVars
    BY <2>4 DEF Handler, OpenHandler, ReadHandler, PreadHandler, BulkCallback, SeekHandler,
                serverVars, cacheVars
  <2>5. CASE UNCHANGED vars
    BY <2>1, <2>5 DEF vars, serverVars, cacheVars
  <2> QED
    BY <1>2, <2>1, <2>2, <2>3, <2>4, <2>5, CloseCaches, MoveCaches DEF Next
<1>3. Init => \A s \in Servers : Cache(s)!CacheInit
  BY <1>1
<1>4. TypeOK /\ [Next]_vars => [\A s \in Servers : [Cache(s)!CacheNext]_(Cache(s)!cacheVars)]_vars
  BY <1>2
<1> QED BY <1>3, <1>4, TypeCorrect, PTL DEF Spec, ServersCache

=============================================================================
