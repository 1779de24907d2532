--------------------------- MODULE AnswersProofs ---------------------------
(***************************************************************************)
(* Transparency of the descriptor protocol: what a server answers is what  *)
(* the file itself would have answered, for any number of clients, servers,*)
(* files and descriptors.                                                  *)
(*                                                                         *)
(* It takes one routing function, an application that stays inside HVAC    *)
(* and seeks that the two int32 fields of the RPC can tell apart (Near);   *)
(* the files may have any size.  Any system call of a server may fail, and *)
(* with that the server.                                                   *)
(*                                                                         *)
(* The same invariant carries the refinement of PlainFiles.  The last part *)
(* is about what some instances refute.                                    *)
(***************************************************************************)
EXTENDS RemoteFilesProofs

Benign == ModHost = RingHost /\ ~PassThrough /\ ~FarSeeks

-----------------------------------------------------------------------------
(* The inductive invariant, client by client.                              *)

\* Where the server's descriptor for fd stands: at the application's position,
\* or where the call in progress will have taken the application.
Expected(c, fd) ==
    IF call[c].op = "read" /\ call[c].fd = fd /\ call[c].stage # "sent"
    THEN Advance(local[c][fd].want)
    ELSE IF call[c].op = "seek" /\ call[c].fd = fd /\ call[c].ret \in Place
    THEN Sought(local[c][fd].want, call[c].off, call[c].whence)
    ELSE local[c][fd].want

\* The next read of fd that reaches a living server, or an answer on its way,
\* sends the application to its local descriptor.
Refused(c, fd)   == call[c].op = "pread" /\ call[c].fd = fd /\ call[c].ret = Failed
FallsBack(c, fd) ==
    \/ ~Tracked(c, fd)
    \/ /\ ~Opening(c, fd) /\ fd_redir_map[c][fd] = Failed
       /\ up[ModHost[fd_map[c][fd]]] \/ Refused(c, fd)

\* One descriptor of a client: it is tracked by its own path, the descriptor
\* of a living server stands where it should, and so does the local one.
FdInv(c, fd) ==
    /\ Tracked(c, fd) => fd_map[c][fd] = local[c][fd].path
    /\ Opening(c, fd) => local[c][fd].want = 0 /\ local[c][fd].pos = 0
    /\ \A s \in Servers, r \in RemoteFds :
          Held(c, fd, s, r) /\ (up[s] \/ Opening(c, fd)) => files[s][r].pos = Expected(c, fd)
    /\ "pread" \notin Faults /\ IsOpen(c, fd) /\ FallsBack(c, fd) =>
          local[c][fd].pos = local[c][fd].want

RemoteCall(c) == call[c].op \in {"read", "pread", "seek"}

\* The call in progress: it went to the holder's server, the RPC can carry what
\* it asks for, and its answer, once there is one, is right.
CallInv(c) ==
    /\ call[c].op = "open" => call[c].ret \notin Place
    /\ RemoteCall(c) =>
         LET fd == call[c].fd IN
         /\ Tracked(c, fd)
         /\ call[c].server = ModHost[fd_map[c][fd]] /\ call[c].rfd = fd_redir_map[c][fd]
         /\ IF call[c].stage = "sent" THEN call[c].ret = Pending
                                      ELSE call[c].ret \in Place \cup {Failed}
         /\ call[c].op = "pread" => call[c].off \in Position
         /\ call[c].op = "seek" =>
               /\ call[c].stage \in {"sent", "answered"}
               /\ Near(local[c][fd].want, call[c].off, call[c].whence)
         /\ call[c].ret = Failed =>
               \/ call[c].op = "seek"
               \/ call[c].op = "pread" /\ ("pread" \in Faults \/ call[c].rfd = Failed)
         /\ HasAnswer(c) =>
               /\ call[c].rfd # Failed
               /\ call[c].ret = [path |-> local[c][fd].path, pos |-> Asked(c)]
               /\ Asked(c) \in Position

TransparencyInv == \A c \in Clients : CallInv(c) /\ \A fd \in Fds : FdInv(c, fd)

Known == TypeOK /\ Ownership /\ TransparencyInv

-----------------------------------------------------------------------------
(* What a step leaves alone keeps its part of the invariant.               *)

\* Where the calls of a client go.
LEMMA Targets ==
    ASSUME Known, NEW c \in Clients
    PROVE  /\ call[c] # NoCall => call[c].server \in Servers
           /\ \A fd \in Fds : Tracked(c, fd) => ModHost[fd_map[c][fd]] \in Servers
BY RemoteFilesAssumption DEF Known, TypeOK, CallType, Call, MapType, Tracked

\* No server comes back.
NoneRevived == \A s \in Servers : up'[s] => up[s]

LEMMA OtherClient ==
    ASSUME Known, NoneRevived, NEW d \in Clients,
           call'[d] = call[d], local'[d] = local[d], fd_map'[d] = fd_map[d],
           fd_redir_map'[d] = fd_redir_map[d],
           \A fd \in Fds, s \in Servers, r \in RemoteFds :
              Held(d, fd, s, r) => files'[s][r].pos = files[s][r].pos
    PROVE  CallInv(d)' /\ \A fd \in Fds : FdInv(d, fd)'
<1>0. CallInv(d) /\ \A fd \in Fds : FdInv(d, fd)
  BY DEF Known, TransparencyInv
<1>1. CallInv(d)'
  <2>1. HasAnswer(d)' => HasAnswer(d)
    BY Targets DEF HasAnswer, NoneRevived, Place, Position
  <2> QED
    BY <1>0, <2>1 DEF CallInv, RemoteCall, Tracked, Asked, Near, Target, Place, Position
<1>2. ASSUME NEW fd \in Fds PROVE FdInv(d, fd)'
  <2>1. Expected(d, fd)' = Expected(d, fd) /\ Opening(d, fd)' = Opening(d, fd)
    BY DEF Expected, Opening, Advance, Sought, Target, Place, Position
  <2>2. \A s \in Servers, r \in RemoteFds : Held(d, fd, s, r)' = Held(d, fd, s, r)
    BY DEF Held, Opening, Opened, Tracked
  <2>3. FallsBack(d, fd)' => FallsBack(d, fd)
    BY <2>1, Targets DEF FallsBack, Refused, Tracked, NoneRevived
  <2> QED
    BY <1>0, <2>1, <2>2, <2>3 DEF FdInv, Tracked, IsOpen, NoneRevived
<1> QED
  BY <1>1, <1>2

\* A descriptor of c that no call is about, neither before nor afterwards.
LEMMA OtherFd ==
    ASSUME Known, NoneRevived, NEW c \in Clients, NEW fd \in Fds,
           call[c].op = "none" \/ call[c].fd # fd,
           call'[c].op = "none" \/ call'[c].fd # fd,
           local'[c][fd] = local[c][fd], fd_map'[c][fd] = fd_map[c][fd],
           fd_redir_map'[c][fd] = fd_redir_map[c][fd],
           \A s \in Servers, r \in RemoteFds :
              Held(c, fd, s, r) => files'[s][r].pos = files[s][r].pos
    PROVE  FdInv(c, fd)'
<1>1. ~Opening(c, fd) /\ ~Opening(c, fd)'
  BY DEF Opening
<1>2. Expected(c, fd) = local[c][fd].want /\ Expected(c, fd)' = local'[c][fd].want
  BY DEF Expected
<1>3. \A s \in Servers, r \in RemoteFds : Held(c, fd, s, r)' = Held(c, fd, s, r)
  BY <1>1 DEF Held, Tracked
<1>4. FallsBack(c, fd)' => FallsBack(c, fd)
  BY <1>1, Targets DEF FallsBack, Refused, Tracked, NoneRevived
<1> QED
  BY <1>1, <1>2, <1>3, <1>4 DEF Known, TransparencyInv, FdInv, Tracked, IsOpen, NoneRevived

\* A step of client c that concerns its descriptor fd, and no server.
LEMMA ClientStep ==
    ASSUME Known, NEW c \in Clients, NEW fd \in Fds, UNCHANGED <<up, files>>,
           \A d \in Clients \ {c} : call'[d] = call[d] /\ local'[d] = local[d] /\
               fd_map'[d] = fd_map[d] /\ fd_redir_map'[d] = fd_redir_map[d],
           \A g \in Fds \ {fd} : local'[c][g] = local[c][g] /\
               fd_map'[c][g] = fd_map[c][g] /\ fd_redir_map'[c][g] = fd_redir_map[c][g],
           call[c].op = "none" \/ call[c].fd = fd,
           call'[c].op = "none" \/ call'[c].fd = fd,
           CallInv(c)', FdInv(c, fd)'
    PROVE  TransparencyInv'
<1>1. NoneRevived
  BY DEF NoneRevived
<1>2. ASSUME NEW d \in Clients PROVE CallInv(d)' /\ \A g \in Fds : FdInv(d, g)'
  <2>1. CASE d # c
    BY <1>1, <2>1, OtherClient
  <2>2. ASSUME NEW g \in Fds, g # fd PROVE FdInv(c, g)'
    BY <1>1, <2>2, OtherFd
  <2> QED
    BY <2>1, <2>2
<1> QED
  BY <1>2 DEF TransparencyInv

-----------------------------------------------------------------------------
(* The application.                                                        *)

\* A ready client calls nobody.
LEMMA ReadyIsIdle ==
    ASSUME NEW c \in Clients, Ready(c)
    PROVE  call[c].op = "none" /\ \A fd \in Fds : ~Opening(c, fd)
BY DEF Ready, NoCall, Opening

LEMMA TransparencyOpen ==
    ASSUME Known, Benign, NEW c \in Clients, NEW fd \in Fds, NEW p \in Paths, NEW mode,
           Open(c, fd, p, mode)
    PROVE  TransparencyInv'
<1>1. /\ call[c].op = "none" /\ fd_map[c][fd] = NoPath
      /\ UNCHANGED <<up, files, fd_redir_map>>
  <2>1. ~IsOpen(c, fd) /\ Ready(c)
    BY DEF Open
  <2>2. local[c][fd].path = NoPath
    BY <2>1 DEF IsOpen
  <2> QED
    BY <2>1, <2>2, ReadyIsIdle DEF Open, serverVars, Known, TransparencyInv, FdInv, Tracked
<1>2. /\ \A d \in Clients \ {c} : local'[d] = local[d]
      /\ \A g \in Fds \ {fd} : local'[c][g] = local[c][g]
      /\ local'[c][fd] = [path |-> p, pos |-> 0, want |-> 0]
  BY DEF Open, LocalFile, Known, TypeOK, LocalType
<1>3. CASE Tracks(p, mode)
  <2>1. /\ \A d \in Clients \ {c} : fd_map'[d] = fd_map[d] /\ call'[d] = call[d]
        /\ \A g \in Fds \ {fd} : fd_map'[c][g] = fd_map[c][g]
        /\ fd_map'[c][fd] = p
        /\ call'[c] = [op |-> "open", fd |-> fd, server |-> ModHost[p], rfd |-> Absent,
                       off |-> 0, whence |-> "set", stage |-> "sent", ret |-> Pending]
    BY <1>3 DEF Open, TrackFile, ForwardOpen, Forward, Known, TypeOK, MapType, CallType
  <2>2. CallInv(c)'
    <3>1. call'[c].ret \notin Place'
      BY <2>1, RemoteFilesAssumption DEF Place, Position
    <3> QED
      BY <2>1, <3>1 DEF CallInv, RemoteCall
  <2>3. FdInv(c, fd)'
    <3>1. \A s \in Servers, r \in RemoteFds : ~Held(c, fd, s, r)'
      BY <2>1 DEF Held, Opening, Opened
    <3> QED
      BY <1>2, <2>1, <3>1 DEF FdInv, Opening, Tracked, IsOpen
  <2> QED
    BY <1>1, <1>2, <2>1, <2>2, <2>3, ClientStep
<1>4. CASE ~Tracks(p, mode)
  <2>1. UNCHANGED <<fd_map, call>>
    BY <1>4 DEF Open, TrackFile
  <2>2. CallInv(c)'
    BY <1>1, <2>1 DEF CallInv, RemoteCall
  <2>3. FdInv(c, fd)'
    BY <1>1, <1>2, <2>1 DEF FdInv, Opening, Tracked, IsOpen, Held
  <2> QED
    BY <1>1, <1>2, <2>1, <2>2, <2>3, ClientStep
<1> QED
  BY <1>3, <1>4

\* Forwarding a read, pread or seek of a tracked descriptor.
LEMMA TransparencyForward ==
    ASSUME Known, NEW c \in Clients, NEW fd \in Fds, Ready(c), Tracked(c, fd),
           NEW o \in {"read", "pread", "seek"}, NEW off, NEW whence,
           o = "pread" => off \in Position,
           o = "seek" => Near(local[c][fd].want, off, whence),
           Forward(c, o, fd, ModHost[fd_map[c][fd]], fd_redir_map[c][fd], off, whence),
           UNCHANGED <<local, fd_map, fd_redir_map, up, files>>
    PROVE  TransparencyInv'
<1>1. call[c].op = "none" /\ ~Opening(c, fd)
  BY ReadyIsIdle
<1>2. /\ \A d \in Clients \ {c} : call'[d] = call[d]
      /\ call'[c] = [op |-> o, fd |-> fd, server |-> ModHost[fd_map[c][fd]],
                     rfd |-> fd_redir_map[c][fd], off |-> off, whence |-> whence,
                     stage |-> "sent", ret |-> Pending]
  BY DEF Forward, Known, TypeOK, CallType
<1>3. CallInv(c)'
  <2>1. call'[c].ret \notin Place' /\ call'[c].ret # Failed
    BY <1>2, RemoteFilesAssumption DEF Place, Position
  <2> QED
    BY <1>2, <2>1 DEF CallInv, RemoteCall, Tracked, HasAnswer
<1>4. FdInv(c, fd)'
  <2>1. ~Opening(c, fd)' /\ Expected(c, fd) = local[c][fd].want
    BY <1>1, <1>2 DEF Opening, Expected
  <2>2. Expected(c, fd)' = local[c][fd].want
    BY <1>2, RemoteFilesAssumption DEF Expected, Place, Position
  <2>3. \A s \in Servers, r \in RemoteFds : Held(c, fd, s, r)' = Held(c, fd, s, r)
    BY <1>1, <2>1 DEF Held, Tracked
  <2>4. FallsBack(c, fd)' => FallsBack(c, fd)
    BY <1>1, <1>2, <2>1, RemoteFilesAssumption DEF FallsBack, Refused, Tracked
  <2> QED
    BY <1>1, <2>1, <2>2, <2>3, <2>4 DEF Known, TransparencyInv, FdInv, Tracked, IsOpen
<1> QED
  BY <1>1, <1>2, <1>3, <1>4, ClientStep

\* A descriptor that is not tracked is read, moved or closed locally.
LEMMA TransparencyLocal ==
    ASSUME Known, NEW c \in Clients, NEW fd \in Fds, Ready(c), ~Tracked(c, fd),
           NEW p \in Paths \cup {NoPath}, NEW pos, NEW want,
           local' = [local EXCEPT ![c][fd] = LocalFile(p, pos, want)],
           local[c][fd].path # NoPath /\ local[c][fd].pos = local[c][fd].want => pos = want,
           local[c][fd].path # NoPath,
           UNCHANGED <<call, fd_map, fd_redir_map, up, files>>
    PROVE  TransparencyInv'
<1>1. call[c].op = "none" /\ ~Opening(c, fd)
  BY ReadyIsIdle
<1>2. /\ \A d \in Clients \ {c} : local'[d] = local[d]
      /\ \A g \in Fds \ {fd} : local'[c][g] = local[c][g]
      /\ local'[c][fd] = [path |-> p, pos |-> pos, want |-> want]
  BY DEF LocalFile, Known, TypeOK, LocalType
<1>3. CallInv(c)'
  BY <1>1 DEF CallInv, RemoteCall
<1>4. FdInv(c, fd)'
  BY <1>1, <1>2 DEF Known, TransparencyInv, FdInv, FallsBack, Opening, Tracked, IsOpen, Held
<1> QED
  BY <1>1, <1>2, <1>3, <1>4, ClientStep

LEMMA TransparencyApplication ==
    ASSUME Known, Benign, NEW c \in Clients, Application(c)
    PROVE  TransparencyInv'
<1> USE DEF serverVars, clientVars
<1> PICK fd \in Fds :
        \/ \E p \in Paths, mode \in {"read", "append"} : Open(c, fd, p, mode)
        \/ Read(c, fd) \/ Readv(c, fd)
        \/ \E off \in Position : Pread(c, fd, off)
        \/ \E seek \in Seeks : Seek(c, fd, seek[1], seek[2])
        \/ Close(c, fd) \/ Fclose(c, fd)
  BY DEF Application
<1>0. local[c][fd].path \in Paths \cup {NoPath}
  BY DEF Known, TypeOK, LocalType
<1>1. ASSUME NEW p \in Paths, NEW mode, Open(c, fd, p, mode)
      PROVE  TransparencyInv'
  BY <1>1, TransparencyOpen
<1>2. CASE Read(c, fd)
  <2>1. CASE Tracked(c, fd)
    BY <1>2, <2>1, TransparencyForward DEF Read, RemoteRead, ForwardRead
  <2>2. CASE ~Tracked(c, fd)
    BY <1>0, <1>2, <2>2, TransparencyLocal DEF Read, RemoteRead, RealRead, IsOpen
  <2> QED
    BY <2>1, <2>2
<1>3. ASSUME NEW off \in Position, Pread(c, fd, off)
      PROVE  TransparencyInv'
  <2>1. UNCHANGED <<local, fd_map, fd_redir_map, up, files>> /\ Ready(c) /\ Tracked(c, fd)
    BY <1>3 DEF Pread
  <2>2. Forward(c, "pread", fd, ModHost[fd_map[c][fd]], fd_redir_map[c][fd], off, "set")
    BY <1>3 DEF Pread, ForwardRead, Benign
  <2> QED
    BY <2>1, <2>2, TransparencyForward
<1>4. ASSUME NEW off, NEW whence, Seek(c, fd, off, whence)
      PROVE  TransparencyInv'
  <2>1. CASE Tracked(c, fd)
    <3>1. /\ Ready(c) /\ Near(local[c][fd].want, off, whence)
          /\ UNCHANGED <<local, fd_map, fd_redir_map, up, files>>
          /\ Forward(c, "seek", fd, ModHost[fd_map[c][fd]], fd_redir_map[c][fd], off, whence)
      BY <1>4, <2>1 DEF Seek, ForwardSeek, Benign
    <3> QED
      BY <2>1, <3>1, TransparencyForward
  <2>2. CASE ~Tracked(c, fd)
    <3> DEFINE file == local[c][fd]
    <3>1. /\ Ready(c) /\ file.path # NoPath
          /\ UNCHANGED <<call, fd_map, fd_redir_map, up, files>>
          /\ local' = [local EXCEPT ![c][fd] =
                          LocalFile(file.path, Sought(file.pos, off, whence),
                                               Sought(file.want, off, whence))]
      BY <1>4, <2>2 DEF Seek, RealSeek, IsOpen
    <3>2. file.pos = file.want => Sought(file.pos, off, whence) = Sought(file.want, off, whence)
      OBVIOUS
    <3> QED
      BY <1>0, <2>2, <3>1, <3>2, TransparencyLocal
  <2> QED
    BY <2>1, <2>2
<1>5. CASE Close(c, fd)
  <2>1. /\ Ready(c) /\ IsOpen(c, fd) /\ UNCHANGED <<call, up, files>>
        /\ local' = [local EXCEPT ![c][fd] = ClosedLocal]
    BY <1>5 DEF Close
  <2>2. CASE Tracked(c, fd)
    <3>1. /\ \A d \in Clients \ {c} : /\ local'[d] = local[d] /\ fd_map'[d] = fd_map[d]
                                     /\ fd_redir_map'[d] = fd_redir_map[d]
          /\ \A g \in Fds \ {fd} : /\ local'[c][g] = local[c][g] /\ fd_map'[c][g] = fd_map[c][g]
                                  /\ fd_redir_map'[c][g] = fd_redir_map[c][g]
          /\ fd_map'[c][fd] = NoPath
          /\ local'[c][fd] = [path |-> NoPath, pos |-> 0, want |-> 0]
      BY <1>5, <2>1, <2>2 DEF Close, RemoveFd, ForwardClose, ClosedLocal, LocalFile,
                              Known, TypeOK, LocalType, MapType
    <3>2. call[c].op = "none" /\ CallInv(c)'
      BY <2>1, ReadyIsIdle DEF CallInv, RemoteCall
    <3>3. FdInv(c, fd)'
      BY <2>1, <3>1, <3>2 DEF FdInv, Opening, Tracked, IsOpen, Held
    <3> QED
      BY <2>1, <3>1, <3>2, <3>3, ClientStep
  <2>3. CASE ~Tracked(c, fd)
    <3>1. UNCHANGED <<call, fd_map, fd_redir_map, up, files>>
      BY <1>5, <2>1, <2>3 DEF Close, RemoveFd
    <3>2. local' = [local EXCEPT ![c][fd] = LocalFile(NoPath, 0, 0)]
      BY <2>1 DEF ClosedLocal
    <3>3. Ready(c) /\ local[c][fd].path # NoPath
      BY <2>1 DEF IsOpen
    <3> QED
      BY <2>3, <3>1, <3>2, <3>3, TransparencyLocal
  <2> QED
    BY <2>2, <2>3
<1>6. ~Readv(c, fd) /\ ~Fclose(c, fd)
  BY DEF Readv, Fclose, Benign
<1> QED
  BY <1>1, <1>2, <1>3, <1>4, <1>5, <1>6

-----------------------------------------------------------------------------
(* Callbacks.                                                              *)

\* What a client knows about the call it is in.
LEMMA CallFacts ==
    ASSUME Known, NEW c \in Clients, call[c] # NoCall
    PROVE  /\ call[c] \in Call /\ call[c].fd \in Fds
           /\ CallInv(c) /\ FdInv(c, call[c].fd)
           /\ RemoteCall(c) \/ call[c].op = "open"
           /\ call[c].server \in Servers /\ call[c].rfd \in RemoteFd
           /\ local[c][call[c].fd].path \in Paths \cup {NoPath}
BY DEF Known, TransparencyInv, TypeOK, CallType, Call, RemoteCall, LocalType

LEMMA TransparencyFinishOpen ==
    ASSUME Known, NEW c \in Clients, NEW fd, fd = call[c].fd, FinishOpen(c)
    PROVE  TransparencyInv'
<1>1. call[c].op = "open" /\ call[c].stage = "answered" /\ call[c] # NoCall
  BY DEF FinishOpen, Answered, NoCall
<1>2. /\ fd \in Fds /\ FdInv(c, fd) /\ CallInv(c) /\ Opening(c, fd) /\ Opened(c)
      /\ call[c].ret \in RemoteFds \cup {Failed}
  BY <1>1, CallFacts DEF Opening, Opened, Known, TypeOK, CallType, CallInv
<1>3. /\ \A d \in Clients \ {c} : call'[d] = call[d] /\ fd_redir_map'[d] = fd_redir_map[d]
      /\ \A g \in Fds \ {fd} : fd_redir_map'[c][g] = fd_redir_map[c][g]
      /\ fd_redir_map'[c][fd] = call[c].ret /\ call'[c].op = "none"
      /\ UNCHANGED <<local, fd_map, up, files>>
  BY <1>2 DEF FinishOpen, Known, TypeOK, MapType, CallType, NoCall, serverVars
<1>4. CallInv(c)'
  BY <1>3 DEF CallInv, RemoteCall
<1>5. FdInv(c, fd)'
  <2>1. call[c].server = ModHost[fd_map[c][fd]] /\ Tracked(c, fd)
    BY <1>2 DEF Known, Ownership, OpensSent
  <2>2. \A s \in Servers, r \in RemoteFds : Held(c, fd, s, r)' = Held(c, fd, s, r)
    BY <1>2, <1>3, <2>1 DEF Held, Opening, Tracked
  <2>3. Expected(c, fd)' = Expected(c, fd)
    BY <1>1, <1>3 DEF Expected
  <2> QED
    BY <1>1, <1>2, <1>3, <2>1, <2>2, <2>3 DEF FdInv, Opening, Tracked, IsOpen
<1> QED
  BY <1>2, <1>3, <1>4, <1>5, ClientStep

\* A read or a seek that was answered: the application's position follows the
\* server's, or the descriptor is given up.
LEMMA TransparencyFinish ==
    ASSUME Known, NEW c \in Clients, NEW fd, fd = call[c].fd, FinishRead(c) \/ FinishSeek(c)
    PROVE  TransparencyInv'
<1>1. RemoteCall(c) /\ call[c].stage = "answered" /\ call[c] # NoCall
  BY DEF FinishRead, FinishSeek, Answered, NoCall, RemoteCall
<1>2. /\ call[c] \in Call /\ fd \in Fds /\ FdInv(c, fd) /\ CallInv(c)
      /\ ~Opening(c, fd) /\ Tracked(c, fd)
  BY <1>1, CallFacts DEF Opening, RemoteCall, CallInv
<1>3. /\ \A d \in Clients \ {c} : call'[d] = call[d]
      /\ call'[c].op = "none" /\ UNCHANGED <<fd_redir_map, up, files>>
  BY DEF FinishRead, FinishSeek, Known, TypeOK, CallType, NoCall, serverVars
<1>4. CallInv(c)'
  BY <1>3 DEF CallInv, RemoteCall
<1>5. ~Opening(c, fd)' /\ Expected(c, fd)' = local'[c][fd].want
  BY <1>3 DEF Opening, Expected
<1>6. CASE call[c].ret # Failed
  <2>1. /\ UNCHANGED fd_map
        /\ \A d \in Clients \ {c} : local'[d] = local[d]
        /\ \A g \in Fds \ {fd} : local'[c][g] = local[c][g]
        /\ local'[c][fd].path = local[c][fd].path
        /\ local'[c][fd].want = Expected(c, fd)
    <3>0. ASSUME NEW want, local' = [local EXCEPT ![c][fd].want = want]
          PROVE  /\ \A d \in Clients \ {c} : local'[d] = local[d]
                 /\ \A g \in Fds \ {fd} : local'[c][g] = local[c][g]
                 /\ local'[c][fd].path = local[c][fd].path /\ local'[c][fd].want = want
      BY <1>2, <3>0 DEF Known, TypeOK, LocalType
    <3>1. CASE call[c].op = "read"
      <4>1. /\ UNCHANGED fd_map
            /\ local' = [local EXCEPT ![c][fd].want = Advance(local[c][fd].want)]
        BY <1>6, <3>1 DEF FinishRead, FinishSeek, Answered
      <4>2. Expected(c, fd) = Advance(local[c][fd].want)
        BY <1>1, <3>1 DEF Expected
      <4> QED
        BY <3>0, <4>1, <4>2
    <3>2. CASE call[c].op = "pread"
      BY <1>1, <1>6, <3>2 DEF FinishRead, FinishSeek, Answered, Expected
    <3>3. CASE call[c].op = "seek"
      <4>1. call[c].ret \in Place
        BY <1>1, <1>2, <1>6 DEF CallInv
      <4>2. UNCHANGED fd_map
            /\ local' = [local EXCEPT ![c][fd].want =
                            Sought(local[c][fd].want, call[c].off, call[c].whence)]
        BY <1>6, <3>3 DEF FinishRead, FinishSeek, Answered
      <4>3. Expected(c, fd) = Sought(local[c][fd].want, call[c].off, call[c].whence)
        BY <3>3, <4>1 DEF Expected
      <4> QED
        BY <3>0, <4>2, <4>3
    <3> QED
      BY <1>1, <3>1, <3>2, <3>3 DEF RemoteCall
  <2>2. \A s \in Servers, r \in RemoteFds : Held(c, fd, s, r)' = Held(c, fd, s, r)
    BY <1>2, <1>3, <1>5, <2>1 DEF Held, Tracked
  <2>3. ~FallsBack(c, fd)'
    <3>1. call[c].ret \in Place /\ call[c].server = ModHost[fd_map[c][fd]]
          /\ call[c].rfd = fd_redir_map[c][fd]
      BY <1>1, <1>2, <1>6 DEF CallInv
    <3>2. HasAnswer(c) \/ ~up[call[c].server]
      BY <1>1, <3>1 DEF HasAnswer
    <3>3. HasAnswer(c) => fd_redir_map[c][fd] # Failed
      BY <1>1, <1>2, <3>1 DEF CallInv
    <3> QED
      BY <1>2, <1>3, <2>1, <3>1, <3>2, <3>3 DEF FallsBack, Refused, Tracked
  <2>4. FdInv(c, fd)'
    BY <1>2, <1>3, <1>5, <2>1, <2>2, <2>3 DEF FdInv, Tracked, IsOpen
  <2> QED
    BY <1>2, <1>3, <1>4, <2>1, <2>4, ClientStep
<1>7. CASE call[c].ret = Failed /\ call[c].op = "seek"
  <2>1. UNCHANGED <<fd_map, local>>
    BY <1>7 DEF FinishRead, FinishSeek, Answered
  <2>2. Expected(c, fd) = local[c][fd].want
    BY <1>7, RemoteFilesAssumption DEF Expected
  <2>3. \A s \in Servers, r \in RemoteFds : Held(c, fd, s, r)' = Held(c, fd, s, r)
    BY <1>2, <1>3, <1>5, <2>1 DEF Held, Tracked
  <2>4. FallsBack(c, fd)' => FallsBack(c, fd)
    BY <1>2, <1>3, <1>5, <2>1 DEF FallsBack, Refused, Tracked
  <2>5. FdInv(c, fd)'
    BY <1>2, <1>3, <1>5, <2>1, <2>2, <2>3, <2>4 DEF FdInv, Tracked, IsOpen
  <2> QED
    BY <1>2, <1>3, <1>4, <2>1, <2>5, ClientStep
<1>8. CASE call[c].ret = Failed /\ call[c].op # "seek"
  <2>1. call[c].op = "pread" /\ ("pread" \in Faults \/ fd_redir_map[c][fd] = Failed)
    BY <1>1, <1>2, <1>8 DEF CallInv
  <2>2. UNCHANGED local /\ fd_map' = [fd_map EXCEPT ![c][fd] = NoPath]
    BY <1>8, <2>1 DEF FinishRead, FinishSeek, Answered
  <2>3. /\ \A d \in Clients \ {c} : fd_map'[d] = fd_map[d]
        /\ \A g \in Fds \ {fd} : fd_map'[c][g] = fd_map[c][g]
        /\ fd_map'[c][fd] = NoPath
    BY <1>2, <2>2 DEF Known, TypeOK, MapType
  <2>4. "pread" \notin Faults => FallsBack(c, fd)
    BY <1>2, <1>8, <2>1 DEF FallsBack, Refused
  <2>5. FdInv(c, fd)'
    BY <1>2, <1>5, <2>2, <2>3, <2>4 DEF FdInv, Tracked, Held, IsOpen
  <2> QED
    BY <1>2, <1>3, <1>4, <2>2, <2>3, <2>5, ClientStep
<1> QED
  BY <1>6, <1>7, <1>8

-----------------------------------------------------------------------------
(* Handlers.                                                               *)

\* A handler goes on with, or answers, the call of client c; at most one
\* descriptor of a server changes, and nobody else holds that.
LEMMA HandlerStep ==
    ASSUME Known, NEW c \in Clients, NEW fd \in Fds, call[c] # NoCall, fd = call[c].fd,
           NEW stage, NEW ret, Answer(c, stage, ret), UNCHANGED <<clientVars, up>>,
           CallInv(c)', FdInv(c, fd)',
           \A d \in Clients, g \in Fds, s \in Servers, r \in RemoteFds :
              Held(d, g, s, r) /\ (d # c \/ g # fd) => files'[s][r].pos = files[s][r].pos
    PROVE  TransparencyInv'
<1>1. /\ \A d \in Clients \ {c} : call'[d] = call[d]
      /\ call'[c].fd = fd /\ UNCHANGED <<local, fd_map, fd_redir_map>>
  BY AnswerFacts DEF Known, TypeOK, clientVars
<1>2. NoneRevived
  BY DEF NoneRevived
<1>3. ASSUME NEW d \in Clients PROVE CallInv(d)' /\ \A g \in Fds : FdInv(d, g)'
  <2>1. CASE d # c
    BY <1>1, <1>2, <2>1, OtherClient
  <2>2. ASSUME NEW g \in Fds, g # fd PROVE FdInv(c, g)'
    BY <1>1, <1>2, <2>2, OtherFd
  <2> QED
    BY <2>1, <2>2
<1> QED
  BY <1>3 DEF TransparencyInv

LEMMA TransparencyOpenHandler ==
    ASSUME Known, NEW c \in Clients, OpenHandler(c)
    PROVE  TransparencyInv'
<1> PICK fd \in Fds, s \in Servers : fd = call[c].fd /\ s = call[c].server
  <2>1. call[c] # NoCall
    BY DEF OpenHandler, Request, NoCall
  <2> QED
    BY <2>1, CallFacts DEF Call
<1>1. /\ call[c] # NoCall /\ call[c].op = "open" /\ call[c].stage = "sent"
      /\ Opening(c, fd) /\ FdInv(c, fd)
  BY CallFacts DEF OpenHandler, Request, NoCall, Opening
<1>2. UNCHANGED <<clientVars, up>>
  BY DEF OpenHandler
<1>3. ASSUME NEW ret \in RemoteFds \cup {Failed}, Answer(c, "answered", ret)
      PROVE  /\ call'[c].op = "open" /\ call'[c].fd = fd /\ call'[c].server = s
             /\ call'[c].ret = ret /\ Opening(c, fd)' /\ CallInv(c)'
             /\ Expected(c, fd)' = 0
             /\ FallsBack(c, fd)' => FallsBack(c, fd)
  <2>1. /\ call'[c].op = "open" /\ call'[c].fd = fd /\ call'[c].server = s
        /\ call'[c].stage = "answered" /\ call'[c].ret = ret
    BY <1>1, <1>3, AnswerFacts DEF Known, TypeOK
  <2>2. ret \notin Place'
    BY RemoteFilesAssumption DEF Place, Position
  <2> QED
    BY <1>1, <1>2, <2>1, <2>2 DEF CallInv, RemoteCall, Opening, Expected, FdInv, FallsBack,
                                  Tracked, clientVars
<1>4. ASSUME NEW r \in FreeFds(s),
             files' = [files EXCEPT ![s][r] = [path |-> fd_map[c][fd], pos |-> 0]],
             Answer(c, "answered", r)
      PROVE  TransparencyInv'
  <2>1. r \in RemoteFds /\ files[s][r].path = NoPath
    BY DEF FreeFds
  <2>2. /\ \A t \in Servers, q \in RemoteFds : t # s \/ q # r => files'[t][q] = files[t][q]
        /\ files'[s][r].pos = 0
    BY <1>4, <2>1 DEF Known, TypeOK, FileType
  <2>3. FdInv(c, fd)'
    <3>1. \A t \in Servers, q \in RemoteFds : Held(c, fd, t, q)' => t = s /\ q = r
      BY <1>3, <1>4, <2>1 DEF Held
    <3> QED
      BY <1>1, <1>2, <1>3, <1>4, <2>1, <2>2, <3>1 DEF FdInv, Tracked, IsOpen, clientVars
  <2>4. \A d \in Clients, g \in Fds, t \in Servers, q \in RemoteFds :
           Held(d, g, t, q) => files'[t][q].pos = files[t][q].pos
    <3> SUFFICES ASSUME NEW d \in Clients, NEW g \in Fds, Held(d, g, s, r) PROVE FALSE
      BY <2>2
    <3>1. fd_map[d][g] = NoPath
      BY <2>1 DEF Known, Ownership, HeldFilesOpen
    <3> QED
      BY <3>1 DEF Held, Known, Ownership, OpensSent, Tracked
  <2> QED
    BY <1>1, <1>2, <1>3, <1>4, <2>1, <2>3, <2>4, HandlerStep
<1>5. CASE Answer(c, "answered", Failed) /\ UNCHANGED files
  <2>1. FdInv(c, fd)'
    <3>1. \A t \in Servers, q \in RemoteFds : ~Held(c, fd, t, q)'
      BY <1>3, <1>5, RemoteFilesAssumption DEF Held
    <3> QED
      BY <1>1, <1>2, <1>3, <1>5, <3>1 DEF FdInv, Tracked, IsOpen, clientVars
  <2> QED
    BY <1>1, <1>2, <1>3, <1>5, <2>1, HandlerStep
<1> QED
  BY <1>4, <1>5 DEF OpenHandler

\* The server's descriptor a remote call names, if there is one, is open on the
\* right file and stands where the application believes it to.
LEMMA TargetFacts ==
    ASSUME Known, NEW c \in Clients, NEW fd \in Fds, fd = call[c].fd, RemoteCall(c),
           NEW s, NEW r, s = call[c].server, r = call[c].rfd, r # Failed
    PROVE  /\ s \in Servers /\ r \in RemoteFds /\ HasFile(s, r) /\ Held(c, fd, s, r)
           /\ files[s][r].path = local[c][fd].path
           /\ up[s] => files[s][r].pos = Expected(c, fd)
           /\ local[c][fd].path \in Paths
<1>1. call[c] # NoCall /\ call[c].op # "open"
  BY DEF RemoteCall, NoCall
<1>2. CallInv(c) /\ FdInv(c, fd) /\ ~Opening(c, fd) /\ call[c] \in Call
  BY <1>1, CallFacts DEF Opening
<1>3. /\ s \in Servers /\ r \in RemoteFds /\ Held(c, fd, s, r) /\ Tracked(c, fd)
      /\ fd_map[c][fd] = local[c][fd].path
  <2>1. r # Absent
    BY DEF RemoteCall, Known, Ownership, TranslationKnown
  <2> QED
    BY <1>2, <2>1 DEF CallInv, FdInv, Held, Call, RemoteFd
<1>4. files[s][r].path = fd_map[c][fd]
  BY <1>3 DEF Known, Ownership, HeldFilesOpen
<1>5. HasFile(s, r)
  BY <1>3, <1>4 DEF HasFile, Tracked
<1>6. up[s] => files[s][r].pos = Expected(c, fd)
  BY <1>2, <1>3 DEF FdInv
<1>7. local[c][fd].path \in Paths
  BY <1>3 DEF Tracked, Known, TypeOK, LocalType
<1> QED
  BY <1>3, <1>4, <1>5, <1>6, <1>7

\* One holder, so a change of that descriptor is no one else's concern.
LEMMA OnlyHolder ==
    ASSUME Known, NEW c \in Clients, NEW fd \in Fds, NEW s \in Servers, NEW r \in RemoteFds,
           Held(c, fd, s, r),
           \A t \in Servers, q \in RemoteFds : t # s \/ q # r => files'[t][q] = files[t][q]
    PROVE  \A d \in Clients, g \in Fds, t \in Servers, q \in RemoteFds :
              Held(d, g, t, q) /\ (d # c \/ g # fd) => files'[t][q].pos = files[t][q].pos
<1>1. \A d \in Clients, g \in Fds : Held(d, g, s, r) => d = c /\ g = fd
  BY DEF Known, Ownership, OneHolder
<1> QED
  BY <1>1

\* A remote call that goes on or is answered keeps its part of the invariant,
\* if the answer is right and the server's descriptor moves along with it.
LEMMA RemoteAnswer ==
    ASSUME Known, NEW c \in Clients, NEW fd \in Fds, fd = call[c].fd, RemoteCall(c),
           NEW stage, stage # "sent", NEW ret \in Place \cup {Failed}, Answer(c, stage, ret),
           call[c].op = "seek" => stage = "answered",
           ret = Failed => \/ call[c].op = "seek"
                           \/ call[c].op = "pread" /\ ("pread" \in Faults \/ call[c].rfd = Failed),
           ret \in Place =>
               /\ call[c].rfd # Failed
               /\ ret = [path |-> local[c][fd].path, pos |-> Asked(c)] /\ Asked(c) \in Position,
           UNCHANGED <<clientVars, up>>, up[call[c].server],
           call[c].rfd # Failed => files'[call[c].server][call[c].rfd].pos = Expected(c, fd)',
           \A d \in Clients, g \in Fds, t \in Servers, q \in RemoteFds :
              Held(d, g, t, q) /\ (d # c \/ g # fd) => files'[t][q].pos = files[t][q].pos
    PROVE  TransparencyInv'
<1>1. call[c] # NoCall /\ call[c].op # "open"
  BY DEF RemoteCall, NoCall
<1>2. /\ call'[c].op = call[c].op /\ call'[c].fd = fd
      /\ call'[c].server = call[c].server /\ call'[c].rfd = call[c].rfd
      /\ call'[c].stage = stage /\ call'[c].ret = ret
  BY <1>1, AnswerFacts DEF Known, TypeOK
<1>3. CallInv(c) /\ FdInv(c, fd) /\ ~Opening(c, fd) /\ ~Opening(c, fd)'
  BY <1>1, <1>2, CallFacts DEF Opening
<1>4. call'[c].off = call[c].off /\ call'[c].whence = call[c].whence
  <2>1. call[c] \in Call
    BY <1>1, CallFacts
  <2> QED
    BY <2>1 DEF Answer, Known, TypeOK, CallType, Call
<1>5. CallInv(c)'
  <2>1. Place' = Place /\ Position' = Position
    BY DEF Place, Position
  <2>2. Asked(c)' = Asked(c) /\ Near(local[c][fd].want, call[c].off, call[c].whence)'
                             = Near(local[c][fd].want, call[c].off, call[c].whence)
    BY <1>2, <1>4 DEF Asked, Near, Target, clientVars
  <2> QED
    BY <1>1, <1>2, <1>3, <1>4, <2>1, <2>2 DEF CallInv, RemoteCall, Tracked, HasAnswer, clientVars
<1>6. FdInv(c, fd)'
  <2>1. \A t \in Servers, q \in RemoteFds :
           /\ Held(c, fd, t, q)' = Held(c, fd, t, q)
           /\ Held(c, fd, t, q) => t = call[c].server /\ q = call[c].rfd /\ q # Failed
    BY <1>3, RemoteFilesAssumption DEF Held, Tracked, CallInv, clientVars
  <2>2. FallsBack(c, fd)' => FallsBack(c, fd)
    BY <1>3 DEF FallsBack, Tracked, CallInv, clientVars
  <2> QED
    BY <1>3, <2>1, <2>2 DEF FdInv, Tracked, IsOpen, clientVars
<1> QED
  BY <1>1, <1>5, <1>6, HandlerStep

\* A number that an int holds passes an int32 field unchanged.
LEMMA NarrowKeeps ==
    ASSUME NEW n \in Int, -IntBound <= n, n < IntBound
    PROVE  Narrow(n) = n
<1>1. IntBound \in Nat \ {0} /\ n + IntBound >= 0 /\ n + IntBound < 2 * IntBound
  BY RemoteFilesAssumption
<1>2. (n + IntBound) % (2 * IntBound) = n + IntBound
  BY <1>1
<1> QED
  BY <1>1, <1>2 DEF Narrow

\* From there up to the next 2 GiB it arrives negative.
LEMMA NarrowWraps ==
    ASSUME NEW n \in Int, IntBound <= n, n < 2 * IntBound
    PROVE  Narrow(n) < 0
<1>1. IntBound \in Nat \ {0} /\ n - IntBound >= 0 /\ n - IntBound < 2 * IntBound
  BY RemoteFilesAssumption
<1>2. (n + IntBound) % (2 * IntBound) = n - IntBound
  BY <1>1
<1> QED
  BY <1>1, <1>2 DEF Narrow

\* A near seek that the server's kernel accepts went where it was to go, and
\* the number it returns arrives as it is.
LEMMA NearArrives ==
    ASSUME NEW pos \in Position, NEW off, off \in Int, NEW whence \in Whence,
           Near(pos, off, whence), NEW p, NEW to, to = Target(pos, Narrow(off), whence), to \in Position
    PROVE  to = Target(pos, off, whence) /\ Reported(p, Narrow(to)) = [path |-> p, pos |-> to]
<1> SUFFICES to = Target(pos, off, whence) /\ Narrow(to) = to /\ to # -1
  BY DEF Reported
<1>1. /\ pos \in Nat /\ FileSize \in Nat /\ IntBound \in Nat \ {0}
      /\ to \in Nat /\ off >= -IntBound
  BY RemoteFilesAssumption DEF Position, Near
<1>2. CASE whence = "set"
  <2>1. off < 2 * IntBound /\ to = Narrow(off)
    BY <1>2 DEF Near, Target
  <2>2. off < IntBound
    BY <1>1, <2>1, NarrowWraps
  <2>3. Narrow(off) = off
    BY <1>1, <2>2, NarrowKeeps
  <2>4. Target(pos, off, whence) = off
    BY <1>2 DEF Target
  <2> QED
    BY <1>1, <2>1, <2>3, <2>4
<1>3. CASE whence \in {"cur", "end"}
  <2> DEFINE from == IF whence = "cur" THEN pos ELSE FileSize
  <2>1. from \in Nat /\ Target(pos, off, whence) = from + off /\ to = from + Narrow(off)
    BY <1>1, <1>3 DEF Target
  <2>2. from + off < IntBound
    BY <1>3, <2>1 DEF Near
  <2> HIDE DEF from
  <2>3. Narrow(off) = off
    BY <1>1, <2>1, <2>2, NarrowKeeps
  <2>4. Narrow(to) = to
    BY <1>1, <2>1, <2>2, <2>3, NarrowKeeps
  <2> QED
    BY <1>1, <2>1, <2>3, <2>4
<1> QED
  BY <1>2, <1>3 DEF Whence

\* What is reported of a file, and a position in it, is neither of the marks.
LEMMA PlaceOf ==
    ASSUME NEW p \in Paths, NEW pos \in Position
    PROVE  [path |-> p, pos |-> pos] \in Place /\ [path |-> p, pos |-> pos] # Failed
<1>1. [path |-> p, pos |-> pos] \in Place
  BY SeekNumbers DEF Place
<1> QED
  BY <1>1, RemoteFilesAssumption

\* What a seek that was forwarded asks for.
LEMMA SeekFacts ==
    ASSUME Known, NEW c \in Clients, call[c].op = "seek", NEW fd, fd = call[c].fd
    PROVE  /\ call[c] \in Call /\ call[c].off \in Int /\ call[c].whence \in Whence
           /\ local[c][fd].want \in Position
           /\ Near(local[c][fd].want, call[c].off, call[c].whence)
           /\ call[c].stage = "sent" => call[c].ret = Pending /\ Pending \notin Place
<1>1. call[c] # NoCall /\ RemoteCall(c)
  BY DEF NoCall, RemoteCall
<1>2. /\ call[c] \in Call /\ fd \in Fds /\ CallInv(c)
      /\ call[c].off \in Int /\ call[c].whence \in Whence
  BY <1>1, CallFacts DEF Call
<1>3. local[c][fd].want \in Position
  BY <1>2 DEF Known, TypeOK, LocalType
<1>4. /\ Near(local[c][fd].want, call[c].off, call[c].whence)
      /\ call[c].stage = "sent" => call[c].ret = Pending
  BY <1>1, <1>2 DEF CallInv
<1> QED
  BY <1>2, <1>3, <1>4, RemoteFilesAssumption

\* What the server answers to a seek is what the application asks for.
LEMMA SeekArrives ==
    ASSUME Known, NEW c \in Clients, call[c].op = "seek", NEW fd, fd = call[c].fd,
           NEW pos, pos = local[c][fd].want, NEW p,
           NEW to, to = Target(pos, Narrow(call[c].off), call[c].whence), to \in Position
    PROVE  /\ to = Target(pos, call[c].off, call[c].whence)
           /\ Reported(p, Narrow(to)) = [path |-> p, pos |-> to]
<1> DEFINE off    == call[c].off
           whence == call[c].whence
<1>1. /\ pos \in Position /\ off \in Int /\ whence \in Whence /\ Near(pos, off, whence)
      /\ to = Target(pos, Narrow(off), whence)
  BY SeekFacts
<1> HIDE DEF off, whence
<1>2. to = Target(pos, off, whence) /\ Reported(p, Narrow(to)) = [path |-> p, pos |-> to]
  BY <1>1, NearArrives
<1> QED
  BY <1>2 DEF off, whence

\* Steps of a server on its own, and of a client or a server that ends.
LEMMA TransparencyKept ==
    ASSUME Known, NoneRevived, UNCHANGED <<local, fd_map, fd_redir_map, call>>,
           \A c \in Clients, fd \in Fds, s \in Servers, r \in RemoteFds :
              Held(c, fd, s, r) => files'[s][r].pos = files[s][r].pos
    PROVE  TransparencyInv'
BY OtherClient DEF TransparencyInv

\* A server without the descriptor that a call names was never given one: the
\* open had failed.
LEMMA UnknownIsFailed ==
    ASSUME Known, NEW c \in Clients, RemoteCall(c), ~HasFile(call[c].server, call[c].rfd)
    PROVE  call[c].rfd = Failed
<1>1. call[c] # NoCall
  BY DEF RemoteCall, NoCall
<1> QED
  BY <1>1, CallFacts, TargetFacts

LEMMA TransparencyReads ==
    ASSUME Known, NEW c \in Clients, ReadHandler(c) \/ PreadHandler(c)
    PROVE  TransparencyInv'
<1> USE DEF serverVars
<1>1. /\ RemoteCall(c) /\ call[c].stage = "sent" /\ call[c] # NoCall /\ call[c].op # "seek"
      /\ UNCHANGED clientVars
  BY DEF ReadHandler, PreadHandler, Request, RemoteCall, NoCall
<1> PICK fd \in Fds, s \in Servers, r \in RemoteFd : fd = call[c].fd /\ s = call[c].server /\ r = call[c].rfd
  BY <1>1, CallFacts
<1>2. up[s]
  BY DEF ReadHandler, PreadHandler, Request
<1>3. ASSUME r # Failed
      PROVE  /\ r \in RemoteFds /\ HasFile(s, r) /\ Held(c, fd, s, r)
             /\ files[s][r].path = local[c][fd].path /\ files[s][r].pos = Expected(c, fd)
             /\ local[c][fd].path \in Paths
  BY <1>1, <1>2, <1>3, TargetFacts
<1>4. /\ Expected(c, fd) = local[c][fd].want /\ local[c][fd].want \in Position
      /\ call[c].op = "pread" => call[c].off \in Position
  <2>1. Expected(c, fd) = local[c][fd].want
    BY <1>1 DEF Expected
  <2>2. local[c][fd].want \in Position
    BY DEF Known, TypeOK, LocalType
  <2>3. call[c].op = "pread" => call[c].off \in Position
    BY <1>1, CallFacts DEF CallInv
  <2> QED
    BY <2>1, <2>2, <2>3
<1>5. CASE /\ ReadHandler(c) /\ HasFile(s, r) /\ UNCHANGED up
           /\ Answer(c, "moving", [path |-> files[s][r].path, pos |-> files[s][r].pos])
           /\ files' = [files EXCEPT ![s][r].pos = Advance(files[s][r].pos)]
  <2>0. r # Failed
    BY <1>5, RemoteFilesAssumption DEF HasFile
  <2>1. call[c].op = "read" /\ call'[c].op = "read" /\ call'[c].fd = fd /\ call'[c].stage = "moving"
    BY <1>1, <1>5, AnswerFacts DEF ReadHandler, Request, Known, TypeOK
  <2>2. Expected(c, fd)' = Advance(local[c][fd].want)
    BY <1>1, <2>1 DEF Expected, clientVars, Advance
  <2>3. /\ files'[s][r].pos = Advance(local[c][fd].want)
        /\ \A d \in Clients, g \in Fds, t \in Servers, q \in RemoteFds :
              Held(d, g, t, q) /\ (d # c \/ g # fd) => files'[t][q].pos = files[t][q].pos
    <3>0. r \in RemoteFds /\ files' = [files EXCEPT ![s][r].pos = Advance(files[s][r].pos)]
      BY <1>3, <1>5, <2>0
    <3>1. /\ \A t \in Servers, q \in RemoteFds : t # s \/ q # r => files'[t][q] = files[t][q]
          /\ files'[s][r].pos = Advance(files[s][r].pos)
      BY <3>0 DEF Known, TypeOK, FileType
    <3>2. r \in RemoteFds /\ Held(c, fd, s, r) /\ files[s][r].pos = local[c][fd].want
      BY <1>3, <1>4, <2>0
    <3> QED
      BY <3>1, <3>2, OnlyHolder
  <2> DEFINE ret == [path |-> files[s][r].path, pos |-> files[s][r].pos]
  <2>4. /\ ret \in Place /\ ret # Failed
        /\ ret = [path |-> local[c][fd].path, pos |-> Asked(c)] /\ Asked(c) \in Position
    <3>1. Asked(c) = local[c][fd].want
      BY <2>1 DEF Asked
    <3> QED
      BY <1>3, <1>4, <2>0, <3>1, PlaceOf
  <2>5. Answer(c, "moving", ret) /\ UNCHANGED up
    BY <1>5
  <2> HIDE DEF ret
  <2> QED
    BY <1>1, <1>2, <2>0, <2>2, <2>3, <2>4, <2>5, RemoteAnswer
<1>6. CASE ReadHandler(c) /\ Abort(s) /\ UNCHANGED <<call, files>>
  <2>1. NoneRevived
    BY <1>6 DEF NoneRevived, Abort, Known, TypeOK
  <2> QED
    BY <1>1, <1>6, <2>1, TransparencyKept DEF clientVars
<1>7. CASE PreadHandler(c)
  <2>1. call[c].op = "pread" /\ UNCHANGED <<files, up>>
    BY <1>7 DEF PreadHandler, Request
  <2>2. ASSUME NEW stage, NEW ret, Answer(c, stage, ret), r # Failed
        PROVE  Expected(c, fd)' = files'[s][r].pos
    <3>1. call'[c].op = "pread"
      BY <1>1, <2>1, <2>2, AnswerFacts DEF Known, TypeOK
    <3> QED
      BY <1>1, <1>3, <1>4, <2>1, <2>2, <3>1 DEF Expected, clientVars
  <2>3. CASE HasFile(s, r) /\ Answer(c, "moving", [path |-> files[s][r].path, pos |-> call[c].off])
    <3> DEFINE ret == [path |-> files[s][r].path, pos |-> call[c].off]
    <3>0. r # Failed
      BY <2>3, RemoteFilesAssumption DEF HasFile
    <3>1. /\ ret \in Place /\ ret # Failed
          /\ ret = [path |-> local[c][fd].path, pos |-> Asked(c)] /\ Asked(c) \in Position
      <4>1. Asked(c) = call[c].off
        BY <2>1 DEF Asked
      <4> QED
        BY <1>3, <1>4, <2>1, <3>0, <4>1, PlaceOf
    <3>2. Answer(c, "moving", ret)
      BY <2>3
    <3> HIDE DEF ret
    <3> QED
      BY <1>1, <1>2, <2>1, <2>2, <3>0, <3>1, <3>2, RemoteAnswer
  <2>4. CASE (~HasFile(s, r) \/ "pread" \in Faults) /\ Answer(c, "answered", Failed)
    <3>1. "pread" \in Faults \/ r = Failed
      BY <1>1, <2>4, UnknownIsFailed
    <3>2. Failed \in Place \cup {Failed} /\ Failed \notin Place
      BY RemoteFilesAssumption
    <3> QED
      BY <1>1, <1>2, <2>1, <2>2, <2>4, <3>1, <3>2, RemoteAnswer
  <2> QED
    BY <1>7, <2>3, <2>4 DEF PreadHandler
<1> QED
  BY <1>5, <1>6, <1>7 DEF ReadHandler

LEMMA TransparencySeekHandler ==
    ASSUME Known, Benign, NEW c \in Clients, SeekHandler(c)
    PROVE  TransparencyInv'
<1>1. /\ RemoteCall(c) /\ call[c].stage = "sent" /\ call[c] # NoCall /\ call[c].op = "seek"
      /\ UNCHANGED <<clientVars, up>>
  BY DEF SeekHandler, Request, RemoteCall, NoCall
<1> PICK fd \in Fds, s \in Servers, r \in RemoteFd : fd = call[c].fd /\ s = call[c].server /\ r = call[c].rfd
  BY <1>1, CallFacts
<1>0. up[s]
  BY DEF SeekHandler, Request
<1>2. ASSUME r # Failed
      PROVE  /\ r \in RemoteFds /\ HasFile(s, r) /\ Held(c, fd, s, r)
             /\ files[s][r].path = local[c][fd].path /\ files[s][r].pos = Expected(c, fd)
             /\ local[c][fd].path \in Paths
  BY <1>0, <1>1, <1>2, TargetFacts
<1>3. /\ call[c] \in Call /\ call[c].off \in Int /\ call[c].whence \in Whence
      /\ local[c][fd].want \in Position /\ Near(local[c][fd].want, call[c].off, call[c].whence)
      /\ call[c].ret = Pending /\ Pending \notin Place
  BY <1>1, SeekFacts
<1> DEFINE to == Target(files[s][r].pos, Narrow(call[c].off), call[c].whence)
<1> HIDE DEF to
<1>4. CASE /\ HasFile(s, r) /\ to \in Position
           /\ files' = [files EXCEPT ![s][r].pos = to]
           /\ Answer(c, "answered", Reported(files[s][r].path, Narrow(to)))
  <2>0. r # Failed
    BY <1>4, RemoteFilesAssumption DEF HasFile
  <2> DEFINE path == files[s][r].path
  <2>1. /\ to = Target(local[c][fd].want, call[c].off, call[c].whence)
        /\ Reported(path, Narrow(to)) = [path |-> path, pos |-> to]
    <3>1. files[s][r].pos = local[c][fd].want
      BY <1>1, <1>2, <1>3, <2>0 DEF Expected
    <3>2. to = Target(local[c][fd].want, Narrow(call[c].off), call[c].whence) /\ to \in Position
      BY <1>4, <3>1 DEF to
    <3> HIDE DEF path
    <3> QED
      BY <1>1, <3>2, SeekArrives
  <2>2. Asked(c) = to
    BY <1>1, <2>1 DEF Asked
  <2> DEFINE ret == [path |-> files[s][r].path, pos |-> to]
  <2>3. Answer(c, "answered", ret)
    BY <1>4, <2>1
  <2>4. /\ ret \in Place /\ ret # Failed
        /\ ret = [path |-> local[c][fd].path, pos |-> Asked(c)] /\ Asked(c) \in Position
    BY <1>2, <1>4, <2>0, <2>2, PlaceOf
  <2>5. to = Sought(local[c][fd].want, call[c].off, call[c].whence)
    BY <1>4, <2>1 DEF Sought
  <2> HIDE DEF ret
  <2>6. /\ call'[c].op = "seek" /\ call'[c].fd = fd /\ call'[c].ret = ret
        /\ call'[c].off = call[c].off /\ call'[c].whence = call[c].whence
    BY <1>1, <1>3, <2>3 DEF Answer, Known, TypeOK, CallType, Call
  <2>7. Expected(c, fd)' = to
    <3>1. ret \in Place'
      BY <2>4 DEF Place
    <3>2. Expected(c, fd)' = Sought(local[c][fd].want, call[c].off, call[c].whence)'
      BY <2>6, <3>1 DEF Expected
    <3>3. local'[c][fd].want = local[c][fd].want
      BY <1>1 DEF clientVars
    <3> QED
      BY <2>5, <2>6, <3>2, <3>3 DEF Sought, Target
  <2>8. /\ files'[s][r].pos = to
        /\ \A d \in Clients, g \in Fds, t \in Servers, q \in RemoteFds :
              Held(d, g, t, q) /\ (d # c \/ g # fd) => files'[t][q].pos = files[t][q].pos
    <3>0. r \in RemoteFds /\ files' = [files EXCEPT ![s][r].pos = to]
      BY <1>2, <1>4, <2>0
    <3>1. /\ \A t \in Servers, q \in RemoteFds : t # s \/ q # r => files'[t][q] = files[t][q]
          /\ files'[s][r].pos = to
      BY <3>0 DEF Known, TypeOK, FileType
    <3> QED
      BY <1>2, <2>0, <3>1, OnlyHolder
  <2> QED
    BY <1>0, <1>1, <2>0, <2>3, <2>4, <2>7, <2>8, RemoteAnswer
<1>5. CASE Answer(c, "answered", Failed) /\ UNCHANGED files
  <2>1. call'[c].op = "seek" /\ call'[c].ret = Failed
    BY <1>1, <1>5, AnswerFacts DEF Known, TypeOK
  <2>2. Expected(c, fd)' = Expected(c, fd)
    BY <1>1, <1>3, <2>1, RemoteFilesAssumption DEF Expected, clientVars, Place
  <2>3. Failed \in Place \cup {Failed} /\ Failed \notin Place
    BY RemoteFilesAssumption
  <2> QED
    BY <1>0, <1>1, <1>2, <1>5, <2>2, <2>3, RemoteAnswer
<1> QED
  BY <1>4, <1>5 DEF SeekHandler, to

\* A seek whose server has died returns whatever was in memory.
LEMMA TransparencySeekUnanswered ==
    ASSUME Known, NEW c \in Clients, SeekUnanswered(c)
    PROVE  TransparencyInv'
<1>1. /\ call[c] # NoCall /\ call[c].op = "seek" /\ RemoteCall(c) /\ ~up[call[c].server]
      /\ UNCHANGED <<clientVars, up, files>>
  BY DEF SeekUnanswered, Dead, RemoteCall, serverVars
<1> PICK fd \in Fds : fd = call[c].fd
  BY <1>1, CallFacts
<1> PICK ret \in {Failed} \cup Place : Answer(c, "answered", ret)
  <2>1. PICK p \in Paths, n \in Number : Answer(c, "answered", Reported(p, n))
    BY DEF SeekUnanswered
  <2>2. Reported(p, n) \in {Failed} \cup Place
    BY SeekNumbers DEF Reported, Place
  <2> QED
    BY <2>1, <2>2
<1>2. /\ CallInv(c) /\ FdInv(c, fd) /\ Tracked(c, fd) /\ ~Opening(c, fd)
      /\ call[c].server = ModHost[fd_map[c][fd]]
  BY <1>1, CallFacts DEF CallInv, Opening
<1>3. /\ call'[c].op = "seek" /\ call'[c].fd = fd /\ call'[c].server = call[c].server
      /\ call'[c].rfd = call[c].rfd /\ call'[c].stage = "answered" /\ call'[c].ret = ret
  BY <1>1, AnswerFacts DEF Known, TypeOK
<1>4. CallInv(c)'
  <2>1. call'[c].off = call[c].off /\ call'[c].whence = call[c].whence
    BY <1>1, CallFacts DEF Answer, Known, TypeOK, CallType, Call
  <2>2. Place' = Place
    BY DEF Place, Position
  <2> QED
    BY <1>1, <1>2, <1>3, <2>1, <2>2
    DEF CallInv, RemoteCall, Tracked, HasAnswer, Near, Target, clientVars
<1>5. FdInv(c, fd)'
  <2>1. \A t \in Servers, q \in RemoteFds : Held(c, fd, t, q)' => ~up[t]
    BY <1>1, <1>2, <1>3 DEF Held, Opening, Tracked, clientVars
  <2>2. ~FallsBack(c, fd)'
    BY <1>1, <1>2, <1>3 DEF FallsBack, Refused, Tracked, clientVars
  <2> QED
    BY <1>1, <1>2, <1>3, <2>1, <2>2 DEF FdInv, Opening, Tracked, IsOpen, clientVars
<1> QED
  BY <1>1, <1>4, <1>5, HandlerStep

\* The end of a transfer: the answer is delivered, or lost.
LEMMA TransparencyBulkCallback ==
    ASSUME Known, NEW c \in Clients, BulkCallback(c)
    PROVE  TransparencyInv'
<1> USE DEF serverVars
<1>1. /\ RemoteCall(c) /\ call[c].stage = "moving" /\ call[c] # NoCall /\ call[c].op # "seek"
      /\ UNCHANGED <<clientVars, up, files>> /\ up[call[c].server]
  BY DEF BulkCallback, RemoteCall, NoCall
<1> PICK fd \in Fds, s \in Servers, r \in RemoteFd : fd = call[c].fd /\ s = call[c].server /\ r = call[c].rfd
  BY <1>1, CallFacts
<1>2. r # Failed => files[s][r].pos = Expected(c, fd)
  BY <1>1, TargetFacts
<1>3. /\ call[c].ret \in Place \cup {Failed}
      /\ call[c].ret = Failed => \/ call[c].op = "seek"
                                 \/ call[c].op = "pread" /\ ("pread" \in Faults \/ r = Failed)
      /\ call[c].ret \in Place =>
            /\ r # Failed
            /\ call[c].ret = [path |-> local[c][fd].path, pos |-> Asked(c)]
            /\ Asked(c) \in Position
  BY <1>1, CallFacts DEF CallInv, HasAnswer
<1>4. ASSUME NEW stage \in {"answered", "lost"}, Answer(c, stage, call[c].ret)
      PROVE  TransparencyInv'
  <2>1. call'[c].op = call[c].op /\ call'[c].fd = fd /\ call'[c].stage = stage
    BY <1>1, <1>4, AnswerFacts DEF Known, TypeOK
  <2>2. Expected(c, fd)' = Expected(c, fd)
    BY <1>1, <1>4, <2>1 DEF Expected, clientVars, RemoteCall, Advance
  <2> QED
    BY <1>1, <1>2, <1>3, <1>4, <2>2, RemoteAnswer
<1> QED
  BY <1>4 DEF BulkCallback

-----------------------------------------------------------------------------
(* All steps.                                                              *)

LEMMA TransparencyCloseHandler ==
    ASSUME Known, NEW s \in Servers, NEW rfd \in RemoteFd, CloseHandler(s, rfd)
    PROVE  TransparencyInv'
<1>1. /\ UNCHANGED <<local, fd_map, fd_redir_map, call>> /\ closing[s][rfd] > 0
      /\ files' = IF HasFile(s, rfd) THEN [files EXCEPT ![s][rfd] = ClosedFile] ELSE files
      /\ UNCHANGED up \/ Abort(s)
  BY DEF CloseHandler, clientVars
<1>0. NoneRevived
  BY <1>1 DEF NoneRevived, Abort, Known, TypeOK
<1>2. CASE HasFile(s, rfd)
  <2>1. rfd \in RemoteFds /\ Unheld(s, rfd)
    BY <1>1, <1>2 DEF HasFile, Known, Ownership, ClosesReleased
  <2>2. \A t \in Servers, q \in RemoteFds : t # s \/ q # rfd => files'[t][q] = files[t][q]
    BY <1>1, <1>2 DEF Known, TypeOK, FileType
  <2> QED
    BY <1>0, <1>1, <2>1, <2>2, TransparencyKept DEF Unheld
<1>3. CASE ~HasFile(s, rfd)
  BY <1>0, <1>1, <1>3, TransparencyKept
<1> QED
  BY <1>2, <1>3

LEMMA TransparencyStep ==
    ASSUME Known, Benign, [Next]_vars
    PROVE  TransparencyInv'
<1>1. ASSUME NEW c \in Clients, Application(c) PROVE TransparencyInv'
  BY <1>1, TransparencyApplication
<1>2. ASSUME NEW c \in Clients, Callback(c) PROVE TransparencyInv'
  BY <1>2, TransparencyFinishOpen, TransparencyFinish DEF Callback
<1>3. ASSUME NEW c \in Clients, Handler(c) PROVE TransparencyInv'
  BY <1>3, TransparencyOpenHandler, TransparencyReads, TransparencySeekHandler,
     TransparencyBulkCallback DEF Handler
<1>4. ASSUME NEW c \in Clients, OpenTimeout(c) \/ CallbackAsserts(c) \/ ForwardAsserts(c)
      PROVE  TransparencyInv'
  BY <1>4, TransparencyKept
  DEF OpenTimeout, CallbackAsserts, ForwardAsserts, Exit, serverVars, NoneRevived
<1>5. ASSUME NEW c \in Clients, SeekUnanswered(c) PROVE TransparencyInv'
  BY <1>5, TransparencySeekUnanswered
<1>6. ASSUME NEW s \in Servers, NEW rfd \in RemoteFd, CloseHandler(s, rfd)
      PROVE  TransparencyInv'
  BY <1>6, TransparencyCloseHandler
<1>7. ASSUME NEW s \in Servers, NEW p, MoveFile(s, p) PROVE TransparencyInv'
  BY <1>7, TransparencyKept DEF MoveFile, clientVars, NoneRevived
<1>8. CASE UNCHANGED vars
  BY <1>8, TransparencyKept DEF vars, clientVars, serverVars, NoneRevived
<1> QED
  BY <1>1, <1>2, <1>3, <1>4, <1>5, <1>6, <1>7, <1>8 DEF Next

LEMMA TransparencyInit == Init => TransparencyInv
<1> SUFFICES ASSUME Init PROVE TransparencyInv
  OBVIOUS
<1>1. \A c \in Clients : call[c].op = "none"
  BY DEF Init, NoCall
<1>2. \A c \in Clients, fd \in Fds : /\ ~Opening(c, fd) /\ ~Tracked(c, fd) /\ ~IsOpen(c, fd)
  BY <1>1 DEF Init, Opening, Tracked, IsOpen, ClosedLocal, LocalFile
<1>3. \A c \in Clients : CallInv(c)
  BY <1>1 DEF CallInv, RemoteCall
<1>4. \A c \in Clients, fd \in Fds : FdInv(c, fd)
  BY <1>2 DEF FdInv, Held
<1> QED
  BY <1>3, <1>4 DEF TransparencyInv

LEMMA TransparencyHolds == ASSUME Benign PROVE Spec => []Known
<1> DEFINE SameHost == ModHost = RingHost
<1>1. SameHost
  BY DEF Benign
<1>2. Spec => []Ownership
  BY <1>1, OwnershipHolds
<1>3. TypeOK /\ Ownership /\ TransparencyInv /\ [Next]_vars => TransparencyInv'
  BY TransparencyStep DEF Known
<1> QED
  BY <1>2, <1>3, TransparencyInit, TypeCorrect, PTL DEF Spec, Known

(***************************************************************************)
(* A server answers what the file itself would have answered.              *)
(***************************************************************************)
THEOREM AnswersRightHolds == ASSUME Benign PROVE Spec => []AnswersRight
<1>1. Known => AnswersRight
  <2> SUFFICES ASSUME Known, NEW c \in Clients, HasAnswer(c)
               PROVE  /\ call[c].ret = [path |-> local[c][call[c].fd].path, pos |-> Asked(c)]
                      /\ Asked(c) \in Position
    BY DEF AnswersRight
  <2> QED
    BY CallFacts DEF CallInv, HasAnswer
<1> QED
  BY <1>1, TransparencyHolds, PTL

(***************************************************************************)
(* If preads do not fail, either, a descriptor that is read locally stands *)
(* where the application believes it to stand.                             *)
(***************************************************************************)
THEOREM PositionsRightHolds == ASSUME Benign, "pread" \notin Faults PROVE Spec => []PositionsRight
<1>1. Known => PositionsRight
  BY DEF Known, TransparencyInv, FdInv, FallsBack, PositionsRight
<1> QED
  BY <1>1, TransparencyHolds, PTL

-----------------------------------------------------------------------------
(* The refinement of PlainFiles: every step is one of a process that reads *)
(* its files itself, or does not show.                                     *)

\* The descriptor of a server where the next read of fd will take place is held.
LEMMA AtServerHolds ==
    ASSUME Known, NEW c \in Clients, NEW fd \in Fds, AtServer(c, fd)
    PROVE  /\ ModHost[fd_map[c][fd]] \in Servers /\ fd_redir_map[c][fd] \in RemoteFds
           /\ Held(c, fd, ModHost[fd_map[c][fd]], fd_redir_map[c][fd])
BY Targets DEF AtServer, Held

\* What is unchanged around a descriptor leaves it standing where it stood.
LEMMA StandingKept ==
    ASSUME Known, NEW c \in Clients, NEW fd \in Fds, Opening(c, fd)' <=> Opening(c, fd),
           local'[c][fd].pos = local[c][fd].pos, fd_map'[c][fd] = fd_map[c][fd],
           fd_redir_map'[c][fd] = fd_redir_map[c][fd],
           \A s \in Servers, r \in RemoteFds :
              Held(c, fd, s, r) => files'[s][r].pos = files[s][r].pos
    PROVE  Standing(c, fd)' = Standing(c, fd)
<1>1. AtServer(c, fd)' = AtServer(c, fd)
  BY DEF AtServer, Tracked
<1>2. CASE AtServer(c, fd)
  <2>1. Held(c, fd, ModHost[fd_map[c][fd]], fd_redir_map[c][fd])
        /\ ModHost[fd_map[c][fd]] \in Servers /\ fd_redir_map[c][fd] \in RemoteFds
    BY <1>2, AtServerHolds
  <2>2. Standing(c, fd) = files[ModHost[fd_map[c][fd]]][fd_redir_map[c][fd]].pos
    BY <1>2 DEF Standing
  <2>3. Standing(c, fd)' = files'[ModHost[fd_map[c][fd]]][fd_redir_map[c][fd]].pos
    BY <1>1, <1>2 DEF Standing
  <2> QED
    BY <2>1, <2>2, <2>3
<1>3. CASE ~AtServer(c, fd)
  BY <1>1, <1>3 DEF Standing
<1> QED
  BY <1>2, <1>3

\* A step about descriptor fd of client c shows in that descriptor, and in the
\* call of that client, only.
LEMMA StepShows ==
    ASSUME Known, NEW c \in Clients, NEW fd \in Fds,
           \A d \in Clients \ {c} : call'[d] = call[d] /\ local'[d] = local[d] /\
               fd_map'[d] = fd_map[d] /\ fd_redir_map'[d] = fd_redir_map[d],
           \A g \in Fds \ {fd} : local'[c][g] = local[c][g] /\
               fd_map'[c][g] = fd_map[c][g] /\ fd_redir_map'[c][g] = fd_redir_map[c][g],
           call[c].op = "none" \/ call[c].fd = fd,
           call'[c].op = "none" \/ call'[c].fd = fd,
           \A d \in Clients, g \in Fds, s \in Servers, r \in RemoteFds :
              Held(d, g, s, r) /\ (d # c \/ g # fd) => files'[s][r].pos = files[s][r].pos
    PROVE  /\ Descriptors' = [Descriptors EXCEPT ![c][fd] = Shown(c, fd)']
           /\ CallsMade' = [CallsMade EXCEPT ![c] = Doing(c)']
<1>1. ASSUME NEW d \in Clients, NEW g \in Fds, d # c \/ g # fd
      PROVE  Shown(d, g)' = Shown(d, g)
  <2>1. /\ local'[d][g] = local[d][g] /\ fd_map'[d][g] = fd_map[d][g]
        /\ fd_redir_map'[d][g] = fd_redir_map[d][g]
    BY <1>1
  <2>2. Opening(d, g)' <=> Opening(d, g)
    BY <1>1 DEF Opening
  <2> QED
    BY <1>1, <2>1, <2>2, StandingKept DEF Shown
<1>2. Descriptors' = [Descriptors EXCEPT ![c][fd] = Shown(c, fd)']
  <2> DEFINE Row(d) == [g \in Fds |-> Shown(d, g)]
  <2>1. \A d \in Clients \ {c} : Row(d)' = Row(d)
    BY <1>1
  <2>2. Row(c)' = [Row(c) EXCEPT ![fd] = Shown(c, fd)']
    BY <1>1
  <2>3. Descriptors = [d \in Clients |-> Row(d)] /\ Descriptors' = [d \in Clients |-> Row(d)']
    BY DEF Descriptors
  <2> HIDE DEF Row
  <2> QED
    BY <2>1, <2>2, <2>3
<1>3. \A d \in Clients \ {c} : Doing(d)' = Doing(d)
  BY DEF Doing
<1> QED
  BY <1>2, <1>3 DEF CallsMade

\* A step of a server on its own, or the end of a process, does not show.
LEMMA NothingShows ==
    ASSUME Known, UNCHANGED <<local, fd_map, fd_redir_map, call>>,
           \A d \in Clients, g \in Fds, s \in Servers, r \in RemoteFds :
              Held(d, g, s, r) => files'[s][r].pos = files[s][r].pos
    PROVE  UNCHANGED <<Descriptors, CallsMade>>
<1>1. ASSUME NEW d \in Clients, NEW g \in Fds PROVE Shown(d, g)' = Shown(d, g)
  <2>1. Opening(d, g)' <=> Opening(d, g)
    BY DEF Opening
  <2> QED
    BY <2>1, StandingKept DEF Shown
<1>2. Descriptors' = Descriptors
  BY <1>1 DEF Descriptors
<1>3. CallsMade' = CallsMade
  BY DEF CallsMade, Doing
<1> QED
  BY <1>2, <1>3

\* One descriptor and one call, seen from outside.
LEMMA OneShown ==
    ASSUME NEW c \in Clients, NEW fd \in Fds
    PROVE  /\ Descriptors[c][fd] = Shown(c, fd)
           /\ Shown(c, fd).path = local[c][fd].path /\ Shown(c, fd).pos = Standing(c, fd)
           /\ CallsMade[c] = Doing(c)
           /\ Descriptors = [Descriptors EXCEPT ![c][fd] = Shown(c, fd)]
           /\ CallsMade = [CallsMade EXCEPT ![c] = Doing(c)]
<1>1. /\ Descriptors[c][fd] = Shown(c, fd) /\ CallsMade[c] = Doing(c)
      /\ Descriptors = [Descriptors EXCEPT ![c][fd] = Shown(c, fd)]
      /\ CallsMade = [CallsMade EXCEPT ![c] = Doing(c)]
  BY DEF Descriptors, CallsMade
<1> QED
  BY <1>1 DEF Shown

\* The descriptor moves.
LEMMA MoveShown ==
    ASSUME NEW c \in Clients, NEW fd \in Fds, NEW pos,
           Descriptors' = [Descriptors EXCEPT ![c][fd] = Shown(c, fd)'],
           Shown(c, fd)' = [path |-> local[c][fd].path, pos |-> pos]
    PROVE  Plain!Move(c, fd, pos)
<1>1. Descriptors[c][fd] = [path |-> local[c][fd].path, pos |-> Standing(c, fd)]
  BY OneShown DEF Shown
<1>2. [Descriptors[c][fd] EXCEPT !.pos = pos] = [path |-> local[c][fd].path, pos |-> pos]
  BY <1>1
<1> QED
  BY <1>2 DEF Plain!Move

\* Both go where lseek is asked to go.
LEMMA PlainTarget ==
    \A pos, off, whence : Plain!Target(pos, off, whence) = Target(pos, off, whence)
BY DEF Target, Plain!Target

\* A client that is ready for a call is free, and its open descriptors in use.
LEMMA ReadyIsFree ==
    ASSUME NEW c \in Clients, Ready(c)
    PROVE  /\ Plain!Free(c)
           /\ \A fd \in Fds : IsOpen(c, fd) => Plain!Uses(c, fd)
<1>1. CallsMade[c] = Plain!Idle
  BY DEF CallsMade, Ready, Doing, NoCall, Plain!Idle
<1>2. \A fd \in Fds : Descriptors[c][fd].path = local[c][fd].path
  BY OneShown
<1> QED
  BY <1>1, <1>2 DEF Ready, IsOpen, Plain!Free, Plain!Uses

\* No server ends, so no file is lost.
LEMMA LostKept == ASSUME UNCHANGED up PROVE UNCHANGED LostFiles
BY DEF LostFiles

LEMMA ShowsOpen ==
    ASSUME Known, NEW c \in Clients, NEW fd \in Fds, NEW p \in Paths, NEW mode,
           Open(c, fd, p, mode)
    PROVE  Plain!Open(c, fd, p)
<1>1. /\ Ready(c) /\ local[c][fd].path = NoPath /\ call[c].op = "none"
      /\ UNCHANGED <<alive, up, files, fd_redir_map>>
  <2>1. Ready(c) /\ ~IsOpen(c, fd)
    BY DEF Open
  <2> QED
    BY <2>1, ReadyIsIdle DEF Open, IsOpen, serverVars
<1>2. /\ \A d \in Clients \ {c} : local'[d] = local[d]
      /\ \A g \in Fds \ {fd} : local'[c][g] = local[c][g]
      /\ local'[c][fd] = [path |-> p, pos |-> 0, want |-> 0]
  BY DEF Open, LocalFile, Known, TypeOK, LocalType
<1>3. Plain!Free(c) /\ Descriptors[c][fd].path = NoPath /\ UNCHANGED LostFiles
  BY <1>1, ReadyIsFree, OneShown, LostKept
<1>4. CASE Tracks(p, mode)
  <2>1. /\ \A d \in Clients \ {c} : fd_map'[d] = fd_map[d] /\ call'[d] = call[d]
        /\ \A g \in Fds \ {fd} : fd_map'[c][g] = fd_map[c][g]
        /\ call'[c] = [op |-> "open", fd |-> fd, server |-> ModHost[p], rfd |-> Absent,
                       off |-> 0, whence |-> "set", stage |-> "sent", ret |-> Pending]
    BY <1>4 DEF Open, TrackFile, ForwardOpen, Forward, Known, TypeOK, MapType, CallType
  <2>2. Shown(c, fd)' = [path |-> p, pos |-> 0]
    BY <1>2, <2>1 DEF Shown, Standing, AtServer, Opening
  <2>3. Doing(c)' = [op |-> "open", fd |-> fd, off |-> 0, whence |-> "set", answer |-> Pending]
    <3>1. call'[c] # NoCall
      BY <2>1 DEF NoCall
    <3> QED
      BY <2>1, <3>1 DEF Doing
  <2>4. /\ Descriptors' = [Descriptors EXCEPT ![c][fd] = Shown(c, fd)']
        /\ CallsMade' = [CallsMade EXCEPT ![c] = Doing(c)']
    BY <1>1, <1>2, <2>1, StepShows
  <2> QED
    BY <1>1, <1>3, <2>2, <2>3, <2>4 DEF Plain!Open, Plain!Begin
<1>5. CASE ~Tracks(p, mode)
  <2>1. UNCHANGED <<fd_map, call>>
    BY <1>5 DEF Open, TrackFile
  <2>2. Shown(c, fd)' = [path |-> p, pos |-> 0]
    BY <1>1, <1>2, <2>1 DEF Shown, Standing, AtServer, Tracked, Known, TransparencyInv, FdInv
  <2>3. Doing(c)' = Doing(c)
    BY <2>1 DEF Doing
  <2>4. /\ Descriptors' = [Descriptors EXCEPT ![c][fd] = Shown(c, fd)']
        /\ CallsMade' = [CallsMade EXCEPT ![c] = Doing(c)']
    BY <1>1, <1>2, <2>1, StepShows
  <2>5. CallsMade' = CallsMade
    BY <2>3, <2>4, OneShown
  <2> QED
    BY <1>1, <1>3, <2>2, <2>4, <2>5 DEF Plain!Open
<1> QED
  BY <1>4, <1>5

LEMMA ShowsAsk ==
    ASSUME Known, NEW c \in Clients, NEW fd \in Fds, Ready(c), IsOpen(c, fd),
           NEW o \in {"read", "pread", "seek"}, NEW off, NEW whence, NEW s, NEW r,
           Forward(c, o, fd, s, r, off, whence),
           UNCHANGED <<alive, local, fd_map, fd_redir_map, up, files>>
    PROVE  Plain!Ask(c, o, fd, off, whence)
<1>1. call[c].op = "none" /\ ~Opening(c, fd)
  BY ReadyIsIdle
<1>2. /\ \A d \in Clients \ {c} : call'[d] = call[d]
      /\ call'[c] = [op |-> o, fd |-> fd, server |-> s, rfd |-> r, off |-> off,
                     whence |-> whence, stage |-> "sent", ret |-> Pending]
  BY DEF Forward, Known, TypeOK, CallType
<1>3. Shown(c, fd)' = Shown(c, fd)
  <2>1. ~Opening(c, fd)'
    BY <1>2 DEF Opening
  <2>2. Opening(c, fd)' <=> Opening(c, fd)
    BY <1>1, <2>1
  <2>3. Standing(c, fd)' = Standing(c, fd)
    BY <2>2, StandingKept
  <2> QED
    BY <2>3 DEF Shown
<1>4. Doing(c)' = [op |-> o, fd |-> fd, off |-> off, whence |-> whence, answer |-> Pending]
  <2>1. call'[c] # NoCall
    BY <1>2 DEF NoCall
  <2> QED
    BY <1>2, <2>1 DEF Doing
<1>5. /\ Descriptors' = [Descriptors EXCEPT ![c][fd] = Shown(c, fd)']
      /\ CallsMade' = [CallsMade EXCEPT ![c] = Doing(c)']
  BY <1>1, <1>2, StepShows
<1>6. UNCHANGED Descriptors
  BY <1>3, <1>5, OneShown
<1> QED
  BY <1>4, <1>5, <1>6, ReadyIsFree, LostKept DEF Plain!Ask, Plain!Begin

LEMMA ShowsLocal ==
    ASSUME Known, NEW c \in Clients, NEW fd \in Fds, Ready(c), IsOpen(c, fd),
           ~Tracked(c, fd), NEW pos, NEW want,
           local' = [local EXCEPT ![c][fd] = LocalFile(local[c][fd].path, pos, want)],
           UNCHANGED <<call, fd_map, fd_redir_map, up, files>>
    PROVE  /\ Plain!Uses(c, fd) /\ Plain!Move(c, fd, pos)
           /\ Descriptors[c][fd].pos = local[c][fd].pos
           /\ UNCHANGED <<CallsMade, LostFiles>>
<1>1. /\ \A d \in Clients \ {c} : local'[d] = local[d]
      /\ \A g \in Fds \ {fd} : local'[c][g] = local[c][g]
      /\ local'[c][fd].path = local[c][fd].path /\ local'[c][fd].pos = pos
  BY DEF LocalFile, Known, TypeOK, LocalType
<1>2. call[c].op = "none" /\ call'[c].op = "none"
  BY ReadyIsIdle
<1>3. Shown(c, fd)' = [path |-> local[c][fd].path, pos |-> pos] /\ Doing(c)' = Doing(c)
  BY <1>1 DEF Shown, Standing, AtServer, Tracked, Doing
<1>4. /\ Descriptors' = [Descriptors EXCEPT ![c][fd] = Shown(c, fd)']
      /\ CallsMade' = [CallsMade EXCEPT ![c] = Doing(c)']
  BY <1>1, <1>2, StepShows
<1>5. Plain!Move(c, fd, pos)
  BY <1>3, <1>4, MoveShown
<1>6. CallsMade' = CallsMade
  BY <1>3, <1>4, OneShown
<1>7. Descriptors[c][fd].pos = local[c][fd].pos
  BY OneShown DEF Standing, AtServer
<1> QED
  BY <1>5, <1>6, <1>7, ReadyIsFree, LostKept

LEMMA ShowsClose ==
    ASSUME Known, NEW c \in Clients, NEW fd \in Fds, Close(c, fd)
    PROVE  Plain!Close(c, fd)
<1>1. /\ Ready(c) /\ IsOpen(c, fd) /\ UNCHANGED <<alive, call, up, files>>
  BY DEF Close, serverVars
<1>2. /\ \A d \in Clients \ {c} : /\ local'[d] = local[d] /\ fd_map'[d] = fd_map[d]
                                 /\ fd_redir_map'[d] = fd_redir_map[d]
      /\ \A g \in Fds \ {fd} : /\ local'[c][g] = local[c][g] /\ fd_map'[c][g] = fd_map[c][g]
                              /\ fd_redir_map'[c][g] = fd_redir_map[c][g]
      /\ fd_map'[c][fd] = NoPath
      /\ local'[c][fd] = [path |-> NoPath, pos |-> 0, want |-> 0]
  <2>1. CASE Tracked(c, fd)
    BY <2>1 DEF Close, RemoveFd, ForwardClose, ClosedLocal, LocalFile, Known, TypeOK,
                LocalType, MapType
  <2>2. CASE ~Tracked(c, fd)
    BY <2>2 DEF Close, RemoveFd, ClosedLocal, LocalFile, Known, TypeOK, LocalType, Tracked
  <2> QED
    BY <2>1, <2>2
<1>3. call[c].op = "none" /\ call'[c].op = "none"
  BY <1>1, ReadyIsIdle
<1>4. Shown(c, fd)' = [path |-> NoPath, pos |-> 0] /\ Doing(c)' = Doing(c)
  BY <1>1, <1>2 DEF Shown, Standing, AtServer, Tracked, Doing
<1>5. /\ Descriptors' = [Descriptors EXCEPT ![c][fd] = Shown(c, fd)']
      /\ CallsMade' = [CallsMade EXCEPT ![c] = Doing(c)']
  BY <1>1, <1>2, <1>3, StepShows
<1>6. CallsMade' = CallsMade
  BY <1>4, <1>5, OneShown
<1> QED
  BY <1>1, <1>4, <1>5, <1>6, ReadyIsFree, LostKept DEF Plain!Close, Plain!Closed

LEMMA ShowsApplication ==
    ASSUME Known, Benign, NEW c \in Clients, Application(c)
    PROVE  Plain!FilesNext \/ UNCHANGED <<alive, Descriptors, CallsMade, LostFiles>>
<1> USE DEF serverVars, clientVars
<1> PICK fd \in Fds :
        \/ \E p \in Paths, mode \in {"read", "append"} : Open(c, fd, p, mode)
        \/ Read(c, fd) \/ Readv(c, fd)
        \/ \E off \in Position : Pread(c, fd, off)
        \/ \E seek \in Seeks : Seek(c, fd, seek[1], seek[2])
        \/ Close(c, fd) \/ Fclose(c, fd)
  BY DEF Application
<1>0. Plain!Position = Position
  BY DEF Position, Plain!Position
<1>1. ASSUME NEW p \in Paths, NEW mode, Open(c, fd, p, mode)
      PROVE  Plain!FilesNext
  BY <1>1, ShowsOpen DEF Plain!FilesNext
<1>2. CASE Read(c, fd)
  <2>1. CASE RemoteRead(c, fd)
    <3>1. Plain!Ask(c, "read", fd, 0, "set")
      BY <1>2, <2>1, ShowsAsk DEF Read, RemoteRead, ForwardRead
    <3> QED
      BY <3>1 DEF Plain!FilesNext
  <2>2. CASE ~Tracked(c, fd) /\ RealRead(c, fd) /\ UNCHANGED call
    <3>1. /\ Plain!Uses(c, fd) /\ Plain!Move(c, fd, Advance(local[c][fd].pos))
          /\ Descriptors[c][fd].pos = local[c][fd].pos /\ UNCHANGED <<CallsMade, LostFiles>>
      BY <1>2, <2>2, ShowsLocal DEF Read, RealRead
    <3>2. Advance(local[c][fd].pos) = Plain!After(local[c][fd].pos)
      BY DEF Advance, Plain!After
    <3>3. Plain!ReadNow(c, fd)
      BY <1>2, <3>1, <3>2 DEF Plain!ReadNow, Read
    <3> QED
      BY <3>3 DEF Plain!FilesNext
  <2> QED
    BY <1>2, <2>1, <2>2 DEF Read
<1>3. ASSUME NEW off \in Position, Pread(c, fd, off)
      PROVE  Plain!FilesNext
  <2>1. Plain!Ask(c, "pread", fd, off, "set")
    BY <1>3, ShowsAsk DEF Pread, ForwardRead
  <2> QED
    BY <1>0, <2>1 DEF Plain!FilesNext
<1>4. ASSUME NEW seek \in Seeks, Seek(c, fd, seek[1], seek[2])
      PROVE  Plain!FilesNext \/ UNCHANGED <<alive, Descriptors, CallsMade, LostFiles>>
  <2>1. CASE Tracked(c, fd)
    <3>1. Plain!Ask(c, "seek", fd, seek[1], seek[2])
      BY <1>4, <2>1, ShowsAsk DEF Seek, ForwardSeek
    <3> QED
      BY <3>1 DEF Plain!FilesNext
  <2>2. CASE ~Tracked(c, fd)
    <3> DEFINE pos == local[c][fd].pos
               to  == Target(pos, seek[1], seek[2])
    <3>1. /\ Plain!Uses(c, fd) /\ Plain!Move(c, fd, Sought(pos, seek[1], seek[2]))
          /\ Descriptors[c][fd].pos = pos
          /\ UNCHANGED <<alive, CallsMade, LostFiles>>
      BY <1>4, <2>2, ShowsLocal DEF Seek, RealSeek
    <3>2. Plain!Target(pos, seek[1], seek[2]) = to
      BY PlainTarget
    <3>3. CASE to \in Position
      <4>1. Plain!SeekNow(c, fd, seek[1], seek[2])
        BY <1>0, <3>1, <3>2, <3>3 DEF Plain!SeekNow, Sought
      <4> QED
        BY <4>1 DEF Plain!FilesNext
    <3>4. CASE to \notin Position
      <4>1. Plain!Move(c, fd, pos)
        BY <3>1, <3>4 DEF Sought
      <4>2. [Descriptors[c][fd] EXCEPT !.pos = pos] = Shown(c, fd)
        <5>1. Descriptors[c][fd] = Shown(c, fd) /\ Shown(c, fd).pos = pos
          BY <3>1, OneShown
        <5>2. [Shown(c, fd) EXCEPT !.pos = Shown(c, fd).pos] = Shown(c, fd)
          BY DEF Shown
        <5> QED
          BY <5>1, <5>2
      <4>3. UNCHANGED Descriptors
        BY <4>1, <4>2, OneShown DEF Plain!Move
      <4> QED
        BY <3>1, <4>3
    <3> QED
      BY <3>3, <3>4
  <2> QED
    BY <2>1, <2>2
<1>5. CASE Close(c, fd)
  BY <1>5, ShowsClose DEF Plain!FilesNext
<1>6. ~Readv(c, fd) /\ ~Fclose(c, fd)
  BY DEF Readv, Fclose, Benign
<1> QED
  BY <1>1, <1>2, <1>3, <1>4, <1>5, <1>6

-----------------------------------------------------------------------------
(* The refinement: calls that return, and processes that end.              *)

\* A call in progress, seen from outside.
LEMMA CallShown ==
    ASSUME Known, NEW c \in Clients, call[c] # NoCall
    PROVE  /\ CallsMade[c] # Plain!Idle
           /\ CallsMade[c].op = call[c].op /\ CallsMade[c].fd = call[c].fd
           /\ CallsMade[c].off = call[c].off /\ CallsMade[c].whence = call[c].whence
           /\ call[c].op = "open" => CallsMade[c].answer = Pending
           /\ call[c].op # "open" => CallsMade[c].answer = call[c].ret
<1>1. call[c].op # "none"
  BY CallFacts DEF RemoteCall
<1>2. CallsMade[c] = [op |-> call[c].op, fd |-> call[c].fd, off |-> call[c].off,
                     whence |-> call[c].whence,
                     answer |-> IF call[c].op = "open" THEN Pending ELSE call[c].ret]
  BY DEF CallsMade, Doing
<1> QED
  BY <1>1, <1>2 DEF Plain!Idle

\* A call that returns, and whose descriptor stands where it stood.
LEMMA ShowsBack ==
    ASSUME Known, NEW c \in Clients, NEW fd \in Fds, fd = call[c].fd, alive[c],
           call[c] # NoCall, call[c].stage = "answered",
           call' = [call EXCEPT ![c] = NoCall],
           \A d \in Clients \ {c} : local'[d] = local[d] /\ fd_map'[d] = fd_map[d] /\
               fd_redir_map'[d] = fd_redir_map[d],
           \A g \in Fds \ {fd} : local'[c][g] = local[c][g] /\
               fd_map'[c][g] = fd_map[c][g] /\ fd_redir_map'[c][g] = fd_redir_map[c][g],
           local'[c][fd].path = local[c][fd].path, UNCHANGED <<alive, up, files>>,
           \/ Standing(c, fd)' = Standing(c, fd)
           \/ /\ "pread" \in Faults /\ call[c].op = "pread" /\ call[c].ret = Failed
              /\ Standing(c, fd)' \in Position
    PROVE  Plain!Return(c)
<1>1. /\ \A d \in Clients \ {c} : call'[d] = call[d]
      /\ call'[c] = NoCall /\ call'[c].op = "none"
  BY DEF Known, TypeOK, CallType, NoCall
<1>2. /\ Descriptors' = [Descriptors EXCEPT ![c][fd] = Shown(c, fd)']
      /\ CallsMade' = [CallsMade EXCEPT ![c] = Doing(c)']
  BY <1>1, StepShows
<1>3. Doing(c)' = Plain!Idle
  BY <1>1 DEF Doing, NoCall, Plain!Idle
<1>4. /\ alive[c] /\ CallsMade[c] # Plain!Idle
      /\ CallsMade[c].op = "open" \/ CallsMade[c].answer # Pending
  <2>1. call[c].op = "open" \/ call[c].ret # Pending
    BY CallFacts, RemoteFilesAssumption DEF CallInv
  <2> QED
    BY <2>1, CallShown
<1>5. CallsMade' = [CallsMade EXCEPT ![c] = Plain!Idle] /\ UNCHANGED <<alive, LostFiles>>
  BY <1>2, <1>3, LostKept
<1>6. CASE Standing(c, fd)' = Standing(c, fd)
  <2>1. Shown(c, fd)' = Shown(c, fd)
    BY <1>6 DEF Shown
  <2>2. Descriptors' = Descriptors
    BY <1>2, <2>1, OneShown
  <2> QED
    BY <1>4, <1>5, <2>2 DEF Plain!Return
<1>7. CASE /\ "pread" \in Faults /\ call[c].op = "pread" /\ call[c].ret = Failed
           /\ Standing(c, fd)' \in Position
  <2> DEFINE pos == Standing(c, fd)'
  <2>1. Shown(c, fd)' = [path |-> local[c][fd].path, pos |-> pos]
    BY DEF Shown
  <2>2. pos \in Plain!Position
    BY <1>7 DEF Position, Plain!Position
  <2> HIDE DEF pos
  <2>3. Plain!Move(c, fd, pos)
    BY <1>2, <2>1, MoveShown
  <2>4. CallsMade[c].op = "pread" /\ CallsMade[c].answer = Failed /\ CallsMade[c].fd = fd
    BY <1>7, CallShown
  <2> QED
    BY <1>4, <1>5, <1>7, <2>2, <2>3, <2>4 DEF Plain!Return
<1> QED
  BY <1>6, <1>7

LEMMA ShowsFinishOpen ==
    ASSUME Known, NEW c \in Clients, FinishOpen(c)
    PROVE  Plain!Return(c)
<1>1. /\ alive[c] /\ call[c].op = "open" /\ call[c].stage = "answered" /\ call[c] # NoCall
      /\ call' = [call EXCEPT ![c] = NoCall] /\ UNCHANGED <<alive, local, fd_map, up, files>>
  BY DEF FinishOpen, Answered, NoCall, serverVars
<1> PICK fd \in Fds : fd = call[c].fd
  BY <1>1, CallFacts
<1>2. /\ FdInv(c, fd) /\ Opening(c, fd) /\ Opened(c)
      /\ call[c].ret \in RemoteFds \cup {Failed}
  BY <1>1, CallFacts DEF Opening, Opened, Known, TypeOK, CallType
<1>3. /\ \A d \in Clients \ {c} : fd_redir_map'[d] = fd_redir_map[d]
      /\ \A g \in Fds \ {fd} : fd_redir_map'[c][g] = fd_redir_map[c][g]
      /\ fd_redir_map'[c][fd] = call[c].ret /\ ~Opening(c, fd)'
  BY DEF FinishOpen, Known, TypeOK, MapType, CallType, NoCall, Opening
<1>4. call[c].server = ModHost[fd_map[c][fd]] /\ Tracked(c, fd)
  BY <1>2 DEF Known, Ownership, OpensSent
<1>5. Standing(c, fd) = 0
  BY <1>2 DEF Standing, AtServer, FdInv
<1>6. Standing(c, fd)' = 0
  <2>1. CASE call[c].ret \in RemoteFds
    <3>1. Held(c, fd, ModHost[fd_map[c][fd]], call[c].ret)
      BY <1>2, <1>4 DEF Held
    <3>2. Expected(c, fd) = 0
      BY <1>1, <1>2 DEF Expected, FdInv
    <3>3. files[ModHost[fd_map[c][fd]]][call[c].ret].pos = 0
      BY <1>2, <1>4, <2>1, <3>1, <3>2, Targets DEF FdInv
    <3>4. AtServer(c, fd)'
      BY <1>1, <1>3, <1>4, <2>1 DEF AtServer, Tracked
    <3> QED
      BY <1>1, <1>3, <3>3, <3>4 DEF Standing
  <2>2. CASE call[c].ret = Failed
    <3>1. ~AtServer(c, fd)'
      BY <1>3, <2>2, RemoteFilesAssumption DEF AtServer
    <3> QED
      BY <1>1, <1>2, <3>1 DEF Standing, FdInv
  <2> QED
    BY <1>2, <2>1, <2>2
<1> QED
  BY <1>1, <1>3, <1>5, <1>6, ShowsBack

LEMMA ShowsFinish ==
    ASSUME Known, NEW c \in Clients, FinishRead(c) \/ FinishSeek(c)
    PROVE  Plain!Return(c)
<1>1. /\ alive[c] /\ RemoteCall(c) /\ call[c].stage = "answered" /\ call[c] # NoCall
      /\ call' = [call EXCEPT ![c] = NoCall] /\ UNCHANGED <<alive, fd_redir_map, up, files>>
  BY DEF FinishRead, FinishSeek, Answered, NoCall, RemoteCall, serverVars
<1> PICK fd \in Fds : fd = call[c].fd
  BY <1>1, CallFacts
<1>2. CallInv(c) /\ Tracked(c, fd) /\ ~Opening(c, fd) /\ ~Opening(c, fd)'
  BY <1>1, CallFacts DEF Opening, RemoteCall, CallInv, NoCall, Known, TypeOK, CallType
<1>3. CASE call[c].ret # Failed \/ call[c].op = "seek"
  <2>1. PICK want : /\ UNCHANGED fd_map
                    /\ \/ UNCHANGED local
                       \/ local' = [local EXCEPT ![c][fd].want = want]
    BY <1>1, <1>3 DEF FinishRead, FinishSeek, Answered
  <2>2. /\ \A d \in Clients \ {c} : local'[d] = local[d]
        /\ \A g \in Fds \ {fd} : local'[c][g] = local[c][g]
        /\ local'[c][fd].path = local[c][fd].path /\ local'[c][fd].pos = local[c][fd].pos
    <3>1. CASE local' = [local EXCEPT ![c][fd].want = want]
      BY <3>1 DEF Known, TypeOK, LocalType
    <3> QED
      BY <2>1, <3>1
  <2>3. Opening(c, fd)' <=> Opening(c, fd)
    BY <1>2
  <2>4. Standing(c, fd)' = Standing(c, fd)
    BY <1>1, <2>1, <2>2, <2>3, StandingKept
  <2> QED
    BY <1>1, <2>1, <2>2, <2>4, ShowsBack
<1>4. CASE call[c].ret = Failed /\ call[c].op # "seek"
  <2>1. call[c].op = "pread" /\ ("pread" \in Faults \/ fd_redir_map[c][fd] = Failed)
    BY <1>1, <1>2, <1>4 DEF CallInv
  <2>2. UNCHANGED local /\ fd_map' = [fd_map EXCEPT ![c][fd] = NoPath]
    BY <1>4, <2>1 DEF FinishRead, FinishSeek, Answered
  <2>3. /\ \A d \in Clients \ {c} : fd_map'[d] = fd_map[d]
        /\ \A g \in Fds \ {fd} : fd_map'[c][g] = fd_map[c][g]
        /\ fd_map'[c][fd] = NoPath
    BY <2>2 DEF Known, TypeOK, MapType
  <2>4. Standing(c, fd)' = local[c][fd].pos
    BY <2>2, <2>3 DEF Standing, AtServer, Tracked
  <2>5. local[c][fd].pos \in Position
    BY DEF Known, TypeOK, LocalType
  <2>6. fd_redir_map[c][fd] = Failed => Standing(c, fd) = local[c][fd].pos
    BY RemoteFilesAssumption DEF Standing, AtServer
  <2>7. \/ Standing(c, fd)' = Standing(c, fd)
        \/ /\ "pread" \in Faults /\ call[c].op = "pread" /\ call[c].ret = Failed
           /\ Standing(c, fd)' \in Position
    BY <1>4, <2>1, <2>4, <2>5, <2>6
  <2> QED
    BY <1>1, <2>2, <2>3, <2>7, ShowsBack
<1> QED
  BY <1>3, <1>4

LEMMA ShowsExit ==
    ASSUME Known, Benign, NEW c \in Clients,
           OpenTimeout(c) \/ CallbackAsserts(c) \/ ForwardAsserts(c)
    PROVE  Plain!Exit(c)
<1>1. /\ alive' = [alive EXCEPT ![c] = FALSE]
      /\ UNCHANGED <<local, fd_map, fd_redir_map, call, up, files>>
  BY DEF OpenTimeout, CallbackAsserts, ForwardAsserts, Exit, serverVars
<1>2. UNCHANGED <<Descriptors, CallsMade, LostFiles>>
  BY <1>1, NothingShows, LostKept
<1>3. CASE OpenTimeout(c) \/ CallbackAsserts(c)
  <2>1. call[c] # NoCall
    BY <1>3 DEF OpenTimeout, CallbackAsserts, Dead, NoCall
  <2> QED
    BY <1>1, <1>2, <2>1, CallShown DEF Plain!Exit
<1>4. CASE ForwardAsserts(c)
  <2>1. PICK p \in Paths : ~up[ModHost[p]]
    <3>1. \A fd \in Fds : Tracked(c, fd) => fd_map[c][fd] \in Paths
      BY DEF Known, TypeOK, MapType, Tracked
    <3> QED
      BY <1>4, <3>1, RemoteFilesAssumption DEF ForwardAsserts, Benign
  <2>2. LostFiles # {}
    BY <2>1 DEF LostFiles
  <2> QED
    BY <1>1, <1>2, <2>2 DEF Plain!Exit
<1> QED
  BY <1>3, <1>4

-----------------------------------------------------------------------------
(* The refinement: handlers.                                               *)

\* Where the descriptor of a remote call stands, if its server knows it.
LEMMA TargetShown ==
    ASSUME Known, NEW c \in Clients, NEW fd \in Fds, fd = call[c].fd, RemoteCall(c),
           NEW s, NEW r, s = call[c].server, r = call[c].rfd, HasFile(s, r)
    PROVE  /\ s \in Servers /\ r \in RemoteFds /\ Held(c, fd, s, r)
           /\ files[s][r].path = local[c][fd].path
           /\ Tracked(c, fd) /\ s = ModHost[fd_map[c][fd]] /\ r = fd_redir_map[c][fd]
           /\ AtServer(c, fd) /\ Standing(c, fd) = files[s][r].pos
<1>1. r # Failed /\ r \in RemoteFds
  BY RemoteFilesAssumption DEF HasFile
<1>2. s \in Servers /\ Held(c, fd, s, r) /\ files[s][r].path = local[c][fd].path
  BY <1>1, TargetFacts
<1>3. /\ Tracked(c, fd) /\ s = ModHost[fd_map[c][fd]] /\ r = fd_redir_map[c][fd]
      /\ ~Opening(c, fd)
  <2>1. call[c] # NoCall /\ call[c].op # "open"
    BY DEF RemoteCall, NoCall
  <2> QED
    BY <2>1, CallFacts DEF CallInv, Opening
<1> QED
  BY <1>1, <1>2, <1>3 DEF AtServer, Standing

\* A handler that answers a call, or passes it on: the call shows its answer,
\* and its descriptor where it stands then.
LEMMA ShowsAnswer ==
    ASSUME Known, NEW c \in Clients, NEW fd \in Fds, fd = call[c].fd, RemoteCall(c),
           NEW stage, NEW ret, Answer(c, stage, ret), UNCHANGED clientVars,
           \A d \in Clients, g \in Fds, s \in Servers, r \in RemoteFds :
              Held(d, g, s, r) /\ (d # c \/ g # fd) => files'[s][r].pos = files[s][r].pos
    PROVE  /\ Plain!Answer(c, ret) /\ UNCHANGED alive
           /\ AtServer(c, fd)' <=> AtServer(c, fd)
           /\ Descriptors' = [Descriptors EXCEPT ![c][fd] = Shown(c, fd)']
<1>1. call[c] # NoCall /\ call[c].op # "open" /\ call[c] \in Call
  BY CallFacts DEF RemoteCall, NoCall
<1>2. /\ \A d \in Clients \ {c} : call'[d] = call[d]
      /\ call'[c].op = call[c].op /\ call'[c].fd = fd /\ call'[c].off = call[c].off
      /\ call'[c].whence = call[c].whence /\ call'[c].ret = ret /\ call'[c] # NoCall
  BY <1>1 DEF Answer, Known, TypeOK, CallType, Call, NoCall
<1>3. /\ Descriptors' = [Descriptors EXCEPT ![c][fd] = Shown(c, fd)']
      /\ CallsMade' = [CallsMade EXCEPT ![c] = Doing(c)']
  BY <1>2, StepShows DEF clientVars
<1>4. Doing(c)' = [CallsMade[c] EXCEPT !.answer = ret]
  <2>1. Doing(c)' = [op |-> call[c].op, fd |-> fd, off |-> call[c].off,
                     whence |-> call[c].whence, answer |-> ret]
    BY <1>1, <1>2 DEF Doing
  <2>2. CallsMade[c] = [op |-> call[c].op, fd |-> fd, off |-> call[c].off,
                       whence |-> call[c].whence, answer |-> call[c].ret]
    BY <1>1, OneShown DEF Doing
  <2> QED
    BY <2>1, <2>2
<1>5. AtServer(c, fd)' <=> AtServer(c, fd)
  BY <1>1, <1>2 DEF AtServer, Opening, Tracked, clientVars
<1> QED
  BY <1>3, <1>4, <1>5 DEF Plain!Answer, clientVars

\* If no descriptor of a server that is held moves, no descriptor does.
LEMMA ShowsAnswerOnly ==
    ASSUME Known, NEW c \in Clients, RemoteCall(c), NEW stage, NEW ret,
           Answer(c, stage, ret), UNCHANGED <<clientVars, files, up>>
    PROVE  Plain!Answer(c, ret) /\ UNCHANGED <<alive, Descriptors, LostFiles>>
<1> PICK fd \in Fds : fd = call[c].fd
  BY CallFacts DEF RemoteCall, NoCall
<1>1. /\ Plain!Answer(c, ret) /\ UNCHANGED alive
      /\ AtServer(c, fd)' <=> AtServer(c, fd)
      /\ Descriptors' = [Descriptors EXCEPT ![c][fd] = Shown(c, fd)']
  BY ShowsAnswer
<1>2. Shown(c, fd)' = Shown(c, fd)
  BY <1>1 DEF Shown, Standing, clientVars
<1> QED
  BY <1>1, <1>2, OneShown, LostKept

LEMMA ShowsOpenHandler ==
    ASSUME Known, NEW c \in Clients, OpenHandler(c)
    PROVE  UNCHANGED <<alive, Descriptors, CallsMade, LostFiles>>
<1> PICK fd \in Fds, s \in Servers : fd = call[c].fd /\ s = call[c].server
  <2>1. call[c] # NoCall
    BY DEF OpenHandler, Request, NoCall
  <2> QED
    BY <2>1, CallFacts DEF Call
<1>1. /\ call[c] # NoCall /\ call[c].op = "open" /\ Opening(c, fd) /\ call[c] \in Call
      /\ UNCHANGED <<clientVars, up>>
  BY CallFacts DEF OpenHandler, Request, NoCall, Opening
<1> PICK ret : Answer(c, "answered", ret)
  BY DEF OpenHandler
<1>2. /\ \A d \in Clients \ {c} : call'[d] = call[d]
      /\ call'[c].op = "open" /\ call'[c].fd = fd /\ call'[c].off = call[c].off
      /\ call'[c].whence = call[c].whence /\ call'[c] # NoCall
  BY <1>1 DEF Answer, Known, TypeOK, CallType, Call, NoCall
<1>3. ASSUME NEW d \in Clients, NEW g \in Fds, NEW t \in Servers, NEW q \in RemoteFds,
             Held(d, g, t, q)
      PROVE  files'[t][q].pos = files[t][q].pos
  <2>1. files[t][q].path # NoPath
    BY <1>3 DEF Held, Tracked, Known, Ownership, HeldFilesOpen, OpensSent
  <2>2. CASE \E r \in FreeFds(s) : files' = [files EXCEPT ![s][r] = [path |-> fd_map[c][fd], pos |-> 0]]
    <3> PICK r \in FreeFds(s) : files' = [files EXCEPT ![s][r] = [path |-> fd_map[c][fd], pos |-> 0]]
      BY <2>2
    <3>1. r \in RemoteFds /\ (t # s \/ q # r)
      BY <2>1 DEF FreeFds
    <3> QED
      BY <3>1 DEF Known, TypeOK, FileType
  <2> QED
    BY <2>2 DEF OpenHandler
<1>4. /\ Descriptors' = [Descriptors EXCEPT ![c][fd] = Shown(c, fd)']
      /\ CallsMade' = [CallsMade EXCEPT ![c] = Doing(c)']
  BY <1>1, <1>2, <1>3, StepShows DEF clientVars
<1>5. Shown(c, fd)' = Shown(c, fd) /\ Doing(c)' = Doing(c)
  BY <1>1, <1>2 DEF Shown, Standing, AtServer, Opening, Doing, clientVars
<1> QED
  BY <1>1, <1>4, <1>5, OneShown, LostKept DEF clientVars

\* A server that aborts takes its files with it.
LEMMA ShowsAbort ==
    ASSUME Known, NEW s \in Servers, Abort(s), UNCHANGED <<alive, Descriptors, CallsMade>>
    PROVE  Plain!Lose
<1> DEFINE paths == {p \in Paths : ModHost[p] = s}
<1>1. LostFiles' = LostFiles \cup paths
  BY RemoteFilesAssumption DEF LostFiles, Abort, Known, TypeOK
<1>2. paths \in SUBSET Paths
  OBVIOUS
<1> HIDE DEF paths
<1> QED
  BY <1>1, <1>2 DEF Plain!Lose

LEMMA ShowsReads ==
    ASSUME Known, NEW c \in Clients, ReadHandler(c) \/ PreadHandler(c)
    PROVE  Plain!FilesNext
<1> USE DEF serverVars
<1>1. /\ RemoteCall(c) /\ call[c].stage = "sent" /\ call[c] # NoCall /\ call[c].op # "open"
      /\ UNCHANGED clientVars
  BY DEF ReadHandler, PreadHandler, Request, RemoteCall, NoCall
<1> PICK fd \in Fds, s \in Servers, r \in RemoteFd : fd = call[c].fd /\ s = call[c].server /\ r = call[c].rfd
  BY <1>1, CallFacts
<1>2. CallsMade[c].answer = Pending /\ CallsMade[c].op = call[c].op /\ CallsMade[c].fd = fd
      /\ CallsMade[c].off = call[c].off
  BY <1>1, CallFacts, CallShown DEF CallInv
<1>3. ASSUME HasFile(s, r)
      PROVE  /\ r \in RemoteFds /\ Held(c, fd, s, r) /\ AtServer(c, fd)
             /\ s = ModHost[fd_map[c][fd]] /\ r = fd_redir_map[c][fd]
             /\ Descriptors[c][fd] = [path |-> files[s][r].path, pos |-> files[s][r].pos]
             /\ files[s][r].path = local[c][fd].path
  BY <1>1, <1>3, TargetShown, OneShown DEF Shown
<1>4. CASE /\ ReadHandler(c) /\ HasFile(s, r) /\ UNCHANGED up
           /\ Answer(c, "moving", [path |-> files[s][r].path, pos |-> files[s][r].pos])
           /\ files' = [files EXCEPT ![s][r].pos = Advance(files[s][r].pos)]
  <2> DEFINE ret == [path |-> files[s][r].path, pos |-> files[s][r].pos]
  <2>0. r \in RemoteFds /\ files' = [files EXCEPT ![s][r].pos = Advance(files[s][r].pos)]
    BY <1>3, <1>4
  <2>1. /\ \A t \in Servers, q \in RemoteFds : t # s \/ q # r => files'[t][q] = files[t][q]
        /\ files'[s][r].pos = Advance(files[s][r].pos)
    BY <2>0 DEF Known, TypeOK, FileType
  <2>2. \A d \in Clients, g \in Fds, t \in Servers, q \in RemoteFds :
           Held(d, g, t, q) /\ (d # c \/ g # fd) => files'[t][q].pos = files[t][q].pos
    <3>1. r \in RemoteFds /\ Held(c, fd, s, r)
      BY <1>3, <1>4
    <3> QED
      BY <2>1, <3>1, OnlyHolder
  <2>3. Answer(c, "moving", ret) /\ ret = Descriptors[c][fd]
    BY <1>3, <1>4
  <2> HIDE DEF ret
  <2>4. /\ Plain!Answer(c, ret) /\ UNCHANGED alive
        /\ AtServer(c, fd)' <=> AtServer(c, fd)
        /\ Descriptors' = [Descriptors EXCEPT ![c][fd] = Shown(c, fd)']
    BY <1>1, <2>2, <2>3, ShowsAnswer
  <2>5. Shown(c, fd)' = [path |-> local[c][fd].path, pos |-> Advance(files[s][r].pos)]
    <3>1. AtServer(c, fd) /\ s = ModHost[fd_map[c][fd]] /\ r = fd_redir_map[c][fd]
      BY <1>3, <1>4
    <3> QED
      BY <1>1, <2>1, <2>4, <3>1 DEF Shown, Standing, clientVars
  <2>6. Plain!Move(c, fd, Advance(files[s][r].pos))
    BY <2>4, <2>5, MoveShown
  <2>7. Advance(files[s][r].pos) = Plain!After(Descriptors[c][fd].pos)
    <3>1. Descriptors[c][fd].pos = files[s][r].pos
      BY <1>3, <1>4
    <3> QED
      BY <3>1 DEF Advance, Plain!After
  <2>8. call[c].op = "read" /\ UNCHANGED LostFiles
    BY <1>4, LostKept DEF ReadHandler, Request
  <2>9. Plain!Read(c)
    BY <1>2, <2>3, <2>4, <2>6, <2>7, <2>8 DEF Plain!Read, Plain!Waiting, Plain!File
  <2> QED
    BY <2>9 DEF Plain!FilesNext
<1>5. CASE Abort(s) /\ UNCHANGED <<call, files>>
  <2>1. UNCHANGED <<Descriptors, CallsMade, alive>>
    BY <1>1, <1>5, NothingShows DEF clientVars
  <2> QED
    BY <1>5, <2>1, ShowsAbort DEF Plain!FilesNext
<1>6. CASE PreadHandler(c)
  <2>1. call[c].op = "pread" /\ UNCHANGED <<files, up>>
    BY <1>6 DEF PreadHandler, Request
  <2>2. CASE HasFile(s, r) /\ Answer(c, "moving", [path |-> files[s][r].path, pos |-> call[c].off])
    <3> DEFINE ret == [path |-> files[s][r].path, pos |-> call[c].off]
    <3>1. Answer(c, "moving", ret) /\ ret = [path |-> Descriptors[c][fd].path, pos |-> call[c].off]
      BY <1>3, <2>2
    <3> HIDE DEF ret
    <3>2. Plain!Answer(c, ret) /\ UNCHANGED <<alive, Descriptors, LostFiles>>
      BY <1>1, <2>1, <3>1, ShowsAnswerOnly
    <3>3. Plain!Pread(c)
      BY <1>2, <2>1, <3>1, <3>2 DEF Plain!Pread, Plain!Waiting, Plain!File
    <3> QED
      BY <3>3 DEF Plain!FilesNext
  <2>3. CASE Answer(c, "answered", Failed)
    <3>1. Plain!Answer(c, Failed) /\ UNCHANGED <<alive, Descriptors, LostFiles>>
      BY <1>1, <2>1, <2>3, ShowsAnswerOnly
    <3>2. Plain!Refuse(c)
      BY <1>2, <2>1, <3>1 DEF Plain!Refuse, Plain!Waiting
    <3> QED
      BY <3>2 DEF Plain!FilesNext
  <2> QED
    BY <1>6, <2>2, <2>3 DEF PreadHandler
<1> QED
  BY <1>4, <1>5, <1>6 DEF ReadHandler

LEMMA ShowsBulkCallback ==
    ASSUME Known, NEW c \in Clients, BulkCallback(c)
    PROVE  UNCHANGED <<alive, Descriptors, CallsMade, LostFiles>>
<1>1. /\ RemoteCall(c) /\ call[c] # NoCall /\ call[c].op # "open"
      /\ UNCHANGED <<clientVars, files, up>>
  BY DEF BulkCallback, RemoteCall, NoCall, serverVars
<1> PICK stage : Answer(c, stage, call[c].ret)
  BY DEF BulkCallback
<1>2. Plain!Answer(c, call[c].ret) /\ UNCHANGED <<alive, Descriptors, LostFiles>>
  BY <1>1, ShowsAnswerOnly
<1>3. CallsMade' = CallsMade
  <2>1. CallsMade[c] = [op |-> call[c].op, fd |-> call[c].fd, off |-> call[c].off,
                       whence |-> call[c].whence, answer |-> call[c].ret]
    BY <1>1 DEF CallsMade, Doing
  <2>2. [CallsMade[c] EXCEPT !.answer = call[c].ret] = CallsMade[c]
    BY <2>1
  <2>3. CallsMade' = [CallsMade EXCEPT ![c] = CallsMade[c]]
    BY <1>2, <2>2 DEF Plain!Answer
  <2> QED
    BY <2>3 DEF CallsMade
<1> QED
  BY <1>2, <1>3

LEMMA ShowsSeekHandler ==
    ASSUME Known, NEW c \in Clients, SeekHandler(c)
    PROVE  Plain!FilesNext
<1>1. /\ RemoteCall(c) /\ call[c].stage = "sent" /\ call[c] # NoCall /\ call[c].op = "seek"
      /\ UNCHANGED <<clientVars, up>> /\ up[call[c].server]
  BY DEF SeekHandler, Request, RemoteCall, NoCall
<1> PICK fd \in Fds, s \in Servers, r \in RemoteFd : fd = call[c].fd /\ s = call[c].server /\ r = call[c].rfd
  BY <1>1, CallFacts
<1>2. CallsMade[c].answer = Pending /\ CallsMade[c].op = "seek" /\ CallsMade[c].fd = fd
      /\ CallsMade[c].off = call[c].off /\ CallsMade[c].whence = call[c].whence
  BY <1>1, CallFacts, CallShown DEF CallInv
<1> DEFINE to == Target(files[s][r].pos, Narrow(call[c].off), call[c].whence)
<1> HIDE DEF to
<1>3. CASE /\ HasFile(s, r) /\ to \in Position
           /\ files' = [files EXCEPT ![s][r].pos = to]
           /\ Answer(c, "answered", Reported(files[s][r].path, Narrow(to)))
  <2>1. /\ r \in RemoteFds /\ Held(c, fd, s, r) /\ AtServer(c, fd)
        /\ s = ModHost[fd_map[c][fd]] /\ r = fd_redir_map[c][fd]
        /\ files[s][r].path = local[c][fd].path
        /\ Descriptors[c][fd].path = files[s][r].path
        /\ Descriptors[c][fd].pos = files[s][r].pos
    <3>1. HasFile(s, r)
      BY <1>3
    <3>2. /\ r \in RemoteFds /\ Held(c, fd, s, r) /\ AtServer(c, fd)
          /\ s = ModHost[fd_map[c][fd]] /\ r = fd_redir_map[c][fd]
          /\ files[s][r].path = local[c][fd].path
          /\ Standing(c, fd) = files[s][r].pos
      BY <1>1, <3>1, TargetShown
    <3>3. /\ Descriptors[c][fd].path = local[c][fd].path
          /\ Descriptors[c][fd].pos = Standing(c, fd)
      BY OneShown
    <3> QED
      BY <3>2, <3>3
  <2> DEFINE path == files[s][r].path
             pos  == files[s][r].pos
  <2>2. /\ to = Target(pos, call[c].off, call[c].whence)
        /\ Reported(path, Narrow(to)) = [path |-> path, pos |-> to]
    <3>1. pos = local[c][fd].want
      <4>1. call[c].ret \notin Place /\ FdInv(c, fd)
        BY <1>1, CallFacts, RemoteFilesAssumption DEF CallInv
      <4>2. Expected(c, fd) = local[c][fd].want
        BY <1>1, <4>1 DEF Expected
      <4> QED
        BY <1>1, <2>1, <4>1, <4>2 DEF FdInv
    <3>2. to = Target(pos, Narrow(call[c].off), call[c].whence) /\ to \in Position
      BY <1>3 DEF to
    <3> HIDE DEF path, pos
    <3> QED
      BY <1>1, <3>1, <3>2, SeekArrives
  <2>0. r \in RemoteFds /\ files' = [files EXCEPT ![s][r].pos = to]
    BY <1>3, <2>1
  <2>3. Plain!Target(Descriptors[c][fd].pos, call[c].off, call[c].whence) = to
    <3>1. Descriptors[c][fd].pos = pos
      BY <2>1
    <3> HIDE DEF pos
    <3> QED
      BY <2>2, <3>1, PlainTarget
  <2> DEFINE ret == [path |-> path, pos |-> to]
  <2>4. Answer(c, "answered", ret) /\ ret = [path |-> Descriptors[c][fd].path, pos |-> to]
    <3>1. Descriptors[c][fd].path = path
      BY <2>1
    <3>2. Answer(c, "answered", Reported(path, Narrow(to)))
      BY <1>3
    <3> HIDE DEF path
    <3> QED
      BY <2>2, <3>1, <3>2
  <2>5. to \in Plain!Position
    BY <1>3 DEF Position, Plain!Position
  <2> HIDE DEF ret
  <2>6. /\ \A t \in Servers, q \in RemoteFds : t # s \/ q # r => files'[t][q] = files[t][q]
        /\ files'[s][r].pos = to
    BY <2>0 DEF Known, TypeOK, FileType
  <2>7. \A d \in Clients, g \in Fds, t \in Servers, q \in RemoteFds :
           Held(d, g, t, q) /\ (d # c \/ g # fd) => files'[t][q].pos = files[t][q].pos
    <3>1. r \in RemoteFds /\ Held(c, fd, s, r)
      BY <2>1
    <3> QED
      BY <2>6, <3>1, OnlyHolder
  <2>8. /\ Plain!Answer(c, ret) /\ UNCHANGED alive
        /\ AtServer(c, fd)' <=> AtServer(c, fd)
        /\ Descriptors' = [Descriptors EXCEPT ![c][fd] = Shown(c, fd)']
    BY <1>1, <2>4, <2>7, ShowsAnswer
  <2>9. Shown(c, fd)' = [path |-> local[c][fd].path, pos |-> to]
    BY <1>1, <2>1, <2>6, <2>8 DEF Shown, Standing, clientVars
  <2>10. Plain!Move(c, fd, to)
    BY <2>8, <2>9, MoveShown
  <2>11. Plain!Seek(c)
    BY <1>1, <1>2, <2>3, <2>4, <2>5, <2>8, <2>10, LostKept
    DEF Plain!Seek, Plain!Waiting, Plain!File
  <2> QED
    BY <2>11 DEF Plain!FilesNext
<1>4. CASE Answer(c, "answered", Failed) /\ UNCHANGED files
  <2>1. Plain!Answer(c, Failed) /\ UNCHANGED <<alive, Descriptors, LostFiles>>
    BY <1>1, <1>4, ShowsAnswerOnly
  <2>2. Plain!Refuse(c)
    BY <1>2, <2>1 DEF Plain!Refuse, Plain!Waiting
  <2> QED
    BY <2>2 DEF Plain!FilesNext
<1> QED
  BY <1>3, <1>4 DEF SeekHandler, to

LEMMA ShowsSeekUnanswered ==
    ASSUME Known, NEW c \in Clients, SeekUnanswered(c)
    PROVE  Plain!SeekLost(c)
<1>1. /\ call[c] # NoCall /\ call[c].op = "seek" /\ RemoteCall(c) /\ ~up[call[c].server]
      /\ call[c].stage # "answered" /\ UNCHANGED <<clientVars, up, files>>
  BY DEF SeekUnanswered, Dead, RemoteCall, serverVars
<1> PICK fd \in Fds : fd = call[c].fd
  BY <1>1, CallFacts
<1> PICK p \in Paths, n \in Number : Answer(c, "answered", Reported(p, n))
  BY DEF SeekUnanswered
<1>2. CallsMade[c].answer = Pending /\ CallsMade[c].op = "seek" /\ CallsMade[c].fd = fd
  <2>1. call[c].ret = Pending
    BY <1>1, CallFacts DEF CallInv
  <2> QED
    BY <1>1, <2>1, CallShown
<1>3. Descriptors[c][fd].path \in LostFiles
  <2>1. /\ Tracked(c, fd) /\ fd_map[c][fd] = local[c][fd].path
        /\ call[c].server = ModHost[fd_map[c][fd]]
    BY <1>1, CallFacts DEF CallInv, FdInv
  <2>2. local[c][fd].path \in Paths
    BY <1>1, <2>1, CallFacts DEF Tracked
  <2> QED
    BY <1>1, <2>1, <2>2, OneShown DEF LostFiles
<1>4. Plain!Answer(c, Reported(p, n)) /\ UNCHANGED <<alive, Descriptors, LostFiles>>
  BY <1>1, ShowsAnswerOnly
<1>5. Reported(p, n) = Failed \/ Reported(p, n) = [path |-> p, pos |-> n]
  BY DEF Reported
<1> QED
  BY <1>2, <1>3, <1>4, <1>5 DEF Plain!SeekLost, Plain!Waiting, Plain!File

LEMMA ShowsCloseHandler ==
    ASSUME Known, NEW s \in Servers, NEW rfd \in RemoteFd, CloseHandler(s, rfd)
    PROVE  Plain!Lose \/ UNCHANGED <<alive, Descriptors, CallsMade, LostFiles>>
<1>1. /\ UNCHANGED <<alive, local, fd_map, fd_redir_map, call>> /\ closing[s][rfd] > 0
      /\ files' = IF HasFile(s, rfd) THEN [files EXCEPT ![s][rfd] = ClosedFile] ELSE files
      /\ UNCHANGED up \/ Abort(s)
  BY DEF CloseHandler, clientVars
<1>2. \A d \in Clients, g \in Fds, t \in Servers, q \in RemoteFds :
         Held(d, g, t, q) => files'[t][q].pos = files[t][q].pos
  <2>1. CASE HasFile(s, rfd)
    <3>1. rfd \in RemoteFds /\ Unheld(s, rfd)
      BY <1>1, <2>1 DEF HasFile, Known, Ownership, ClosesReleased
    <3>2. \A t \in Servers, q \in RemoteFds : t # s \/ q # rfd => files'[t][q] = files[t][q]
      BY <1>1, <2>1 DEF Known, TypeOK, FileType
    <3> QED
      BY <3>1, <3>2 DEF Unheld
  <2> QED
    BY <1>1, <2>1
<1>3. UNCHANGED <<alive, Descriptors, CallsMade>>
  BY <1>1, <1>2, NothingShows
<1> QED
  BY <1>1, <1>3, ShowsAbort, LostKept

-----------------------------------------------------------------------------
(* The refinement: all steps.                                              *)

LEMMA ShowsInit == Init => Plain!FilesInit
<1> SUFFICES ASSUME Init PROVE Plain!FilesInit
  OBVIOUS
<1>1. ASSUME NEW c \in Clients, NEW fd \in Fds
      PROVE  Shown(c, fd) = Plain!Closed /\ Doing(c) = Plain!Idle
  BY DEF Init, Shown, Standing, AtServer, Tracked, ClosedLocal, LocalFile, Doing, NoCall,
         Plain!Closed, Plain!Idle
<1>2. Descriptors = [c \in Clients |-> [fd \in Fds |-> Plain!Closed]]
  BY <1>1 DEF Descriptors
<1>3. CallsMade = [c \in Clients |-> Plain!Idle]
  BY DEF CallsMade, Init, Doing, NoCall, Plain!Idle
<1>4. LostFiles = {} /\ alive = [c \in Clients |-> TRUE]
  BY RemoteFilesAssumption DEF LostFiles, Init
<1> QED
  BY <1>2, <1>3, <1>4 DEF Plain!FilesInit

LEMMA ShowsStep ==
    ASSUME Known, Benign, [Next]_vars
    PROVE  [Plain!FilesNext]_(Plain!fileVars)
<1> DEFINE Stutter == UNCHANGED <<alive, Descriptors, CallsMade, LostFiles>>
<1>1. ASSUME NEW c \in Clients, Application(c) PROVE Plain!FilesNext \/ Stutter
  BY <1>1, ShowsApplication
<1>2. ASSUME NEW c \in Clients, Callback(c) PROVE Plain!FilesNext
  BY <1>2, ShowsFinishOpen, ShowsFinish DEF Callback, Plain!FilesNext
<1>3. ASSUME NEW c \in Clients, Handler(c) PROVE Plain!FilesNext \/ Stutter
  BY <1>3, ShowsOpenHandler, ShowsReads, ShowsSeekHandler, ShowsBulkCallback DEF Handler
<1>4. ASSUME NEW c \in Clients, OpenTimeout(c) \/ CallbackAsserts(c) \/ ForwardAsserts(c)
      PROVE  Plain!FilesNext
  BY <1>4, ShowsExit DEF Plain!FilesNext
<1>5. ASSUME NEW c \in Clients, SeekUnanswered(c) PROVE Plain!FilesNext
  BY <1>5, ShowsSeekUnanswered DEF Plain!FilesNext
<1>6. ASSUME NEW s \in Servers, NEW rfd \in RemoteFd, CloseHandler(s, rfd)
      PROVE  Plain!FilesNext \/ Stutter
  BY <1>6, ShowsCloseHandler DEF Plain!FilesNext
<1>7. ASSUME NEW s \in Servers, NEW p, MoveFile(s, p) PROVE Stutter
  BY <1>7, NothingShows, LostKept DEF MoveFile, clientVars
<1>8. ASSUME UNCHANGED vars PROVE Stutter
  BY <1>8, NothingShows, LostKept DEF vars, clientVars, serverVars
<1>9. Plain!FilesNext \/ Stutter
  BY <1>1, <1>2, <1>3, <1>4, <1>5, <1>6, <1>7, <1>8 DEF Next
<1> QED
  BY <1>9 DEF Plain!fileVars

(***************************************************************************)
(* An application that reads its files through HVAC sees what it would see *)
(* if it read them itself, whatever the other clients do and whichever     *)
(* system calls of the servers fail.                                       *)
(***************************************************************************)
THEOREM TransparentHolds == ASSUME Benign PROVE Spec => Transparent
<1>1. Known /\ [Next]_vars => [Plain!FilesNext]_(Plain!fileVars)
  BY ShowsStep
<1> QED
  BY <1>1, ShowsInit, TransparencyHolds, PTL DEF Spec, Transparent, Plain!FilesSpec

-----------------------------------------------------------------------------
(* What some instances refute holds in all others: each of the three       *)
(* statements below has one cause to fail, and none without it.            *)

\* What is tracked lies below the data directory and, unless descriptors are
\* closed behind the wrappers' back, is the file the application has open; a
\* remote call is about a tracked descriptor, by its translation.
Tracking(c) ==
    /\ \A fd \in Fds : Tracked(c, fd) =>
          /\ fd_map[c][fd] \in DataDir
          /\ PassThrough \/ fd_map[c][fd] = local[c][fd].path
    /\ RemoteCall(c) =>
          LET fd == call[c].fd
              p  == fd_map[c][fd]
          IN  /\ Tracked(c, fd) /\ call[c].rfd = fd_redir_map[c][fd]
              /\ call[c].server = IF call[c].op = "read" THEN ModHost[p] ELSE RingHost[p]

TrackingInv == \A c \in Clients : Tracking(c)

\* A step that touches neither the maps nor what the client has open, and goes
\* on with its call, ends it or leaves it alone.
LEMMA TrackingKept ==
    ASSUME NEW c \in Clients, Tracking(c),
           fd_map'[c] = fd_map[c], fd_redir_map'[c] = fd_redir_map[c],
           \A fd \in Fds : local'[c][fd].path = local[c][fd].path,
           \/ ~RemoteCall(c)'
           \/ /\ call'[c].op = call[c].op /\ call'[c].fd = call[c].fd
              /\ call'[c].server = call[c].server /\ call'[c].rfd = call[c].rfd
    PROVE  Tracking(c)'
BY DEF Tracking, RemoteCall, Tracked

\* The local descriptor keeps its file, whatever happens to its position.
LEMMA PathKept ==
    ASSUME LocalType, NEW c \in Clients, NEW fd \in Fds,
           \/ RealRead(c, fd)
           \/ \E pos, want : local' = [local EXCEPT ![c][fd] = LocalFile(@.path, pos, want)]
           \/ \E want : local' = [local EXCEPT ![c][fd].want = want]
    PROVE  \A d \in Clients, g \in Fds : local'[d][g].path = local[d][g].path
<1>1. ASSUME NEW pos, NEW want,
             local' = [local EXCEPT ![c][fd] = LocalFile(local[c][fd].path, pos, want)]
      PROVE  \A d \in Clients, g \in Fds : local'[d][g].path = local[d][g].path
  BY <1>1 DEF LocalType, LocalFile
<1>2. ASSUME NEW want, local' = [local EXCEPT ![c][fd].want = want]
      PROVE  \A d \in Clients, g \in Fds : local'[d][g].path = local[d][g].path
  BY <1>2 DEF LocalType
<1> QED
  BY <1>1, <1>2 DEF RealRead

\* What concerns client c alone leaves the tracking of the others as it is.
LEMMA TrackingOne ==
    ASSUME TrackingInv, NEW c \in Clients, Tracking(c)',
           \A d \in Clients \ {c} : /\ call'[d] = call[d] /\ local'[d] = local[d]
                                    /\ fd_map'[d] = fd_map[d]
                                    /\ fd_redir_map'[d] = fd_redir_map[d]
    PROVE  TrackingInv'
BY TrackingKept DEF TrackingInv

LEMMA TrackingApplication ==
    ASSUME TypeOK, TrackingInv, NEW c \in Clients, Application(c)
    PROVE  TrackingInv'
<1> PICK fd \in Fds :
        \/ \E p \in Paths, mode \in {"read", "append"} : Open(c, fd, p, mode)
        \/ Read(c, fd) \/ Readv(c, fd)
        \/ \E off \in Position : Pread(c, fd, off)
        \/ \E seek \in Seeks : Seek(c, fd, seek[1], seek[2])
        \/ Close(c, fd) \/ Fclose(c, fd)
  BY DEF Application
<1>1. Ready(c) /\ ~RemoteCall(c) /\ Tracking(c)
  BY ReadyIsIdle DEF Open, Read, Readv, Pread, Seek, Close, Fclose, RemoteCall, TrackingInv
<1>2. ASSUME NEW p \in Paths, NEW mode, Open(c, fd, p, mode) PROVE TrackingInv'
  <2>1. /\ \A d \in Clients \ {c} : local'[d] = local[d]
        /\ \A g \in Fds \ {fd} : local'[c][g].path = local[c][g].path
        /\ local'[c][fd].path = p /\ UNCHANGED fd_redir_map /\ local[c][fd].path = NoPath
    BY <1>2 DEF Open, LocalFile, TypeOK, LocalType, IsOpen
  <2>2. CASE Tracks(p, mode)
    <3>1. /\ \A d \in Clients \ {c} : fd_map'[d] = fd_map[d] /\ call'[d] = call[d]
          /\ \A g \in Fds \ {fd} : fd_map'[c][g] = fd_map[c][g]
          /\ fd_map'[c][fd] = p /\ call'[c].op = "open"
      BY <1>2, <2>2 DEF Open, TrackFile, ForwardOpen, Forward, TypeOK, MapType, CallType
    <3>2. Tracking(c)'
      BY <1>1, <2>1, <2>2, <3>1 DEF Tracking, Tracked, Tracks, RemoteCall
    <3> QED
      BY <2>1, <3>1, <3>2, TrackingOne
  <2>3. CASE ~Tracks(p, mode)
    <3>1. UNCHANGED <<fd_map, call>>
      BY <1>2, <2>3 DEF Open, TrackFile
    <3>2. PassThrough \/ ~Tracked(c, fd)
      BY <1>1, <2>1, RemoteFilesAssumption DEF Tracking, Tracked
    <3>3. Tracking(c)'
      BY <1>1, <2>1, <3>1, <3>2 DEF Tracking, Tracked, RemoteCall
    <3> QED
      BY <2>1, <3>1, <3>3, TrackingOne
  <2> QED
    BY <2>2, <2>3
<1>3. ASSUME NEW o \in {"read", "pread", "seek"}, NEW off, NEW whence, Tracked(c, fd),
             LET p == fd_map[c][fd] IN
             Forward(c, o, fd, IF o = "read" THEN ModHost[p] ELSE RingHost[p],
                     fd_redir_map[c][fd], off, whence),
             UNCHANGED <<local, fd_map, fd_redir_map>>
      PROVE  TrackingInv'
  <2>1. /\ \A d \in Clients \ {c} : call'[d] = call[d]
        /\ call'[c].op = o /\ call'[c].fd = fd /\ call'[c].rfd = fd_redir_map[c][fd]
        /\ call'[c].server = IF o = "read" THEN ModHost[fd_map[c][fd]]
                                           ELSE RingHost[fd_map[c][fd]]
    BY <1>3 DEF Forward, TypeOK, CallType
  <2>2. Tracking(c)'
    BY <1>1, <1>3, <2>1 DEF Tracking, Tracked, RemoteCall
  <2> QED
    BY <1>3, <2>1, <2>2, TrackingOne
<1>4. ASSUME UNCHANGED <<fd_map, fd_redir_map, call>>,
             \A d \in Clients, g \in Fds : local'[d][g].path = local[d][g].path
      PROVE  TrackingInv'
  BY <1>4, TrackingKept DEF TrackingInv
<1>5. CASE Read(c, fd) \/ Readv(c, fd)
  <2>1. CASE Read(c, fd) /\ Tracked(c, fd)
    BY <1>3, <2>1 DEF Read, RemoteRead, ForwardRead
  <2>2. CASE RealRead(c, fd) /\ UNCHANGED <<fd_map, fd_redir_map, call>>
    BY <1>4, <2>2, PathKept DEF TypeOK
  <2> QED
    BY <1>5, <2>1, <2>2 DEF Read, RemoteRead, Readv
<1>6. ASSUME NEW off, NEW whence, Pread(c, fd, off) \/ Seek(c, fd, off, whence)
      PROVE  TrackingInv'
  <2>1. CASE Pread(c, fd, off)
    BY <1>3, <2>1 DEF Pread, ForwardRead, clientVars
  <2>2. CASE Seek(c, fd, off, whence) /\ Tracked(c, fd)
    BY <1>3, <2>2 DEF Seek, ForwardSeek
  <2>3. CASE Seek(c, fd, off, whence) /\ ~Tracked(c, fd)
    <3>1. \E pos, want : local' = [local EXCEPT ![c][fd] = LocalFile(@.path, pos, want)]
      BY <2>3 DEF Seek, RealSeek
    <3>2. UNCHANGED <<fd_map, fd_redir_map, call>>
      BY <2>3 DEF Seek
    <3> QED
      BY <1>4, <3>1, <3>2, PathKept DEF TypeOK
  <2> QED
    BY <1>6, <2>1, <2>2, <2>3
<1>7. CASE Close(c, fd)
  <2>1. /\ \A d \in Clients \ {c} : local'[d] = local[d] /\ fd_map'[d] = fd_map[d]
                                     /\ fd_redir_map'[d] = fd_redir_map[d]
        /\ \A g \in Fds \ {fd} : local'[c][g].path = local[c][g].path
                                 /\ fd_map'[c][g] = fd_map[c][g]
        /\ fd_map'[c][fd] = NoPath /\ UNCHANGED call
    BY <1>7 DEF Close, RemoveFd, ForwardClose, ClosedLocal, LocalFile, Tracked,
                TypeOK, LocalType, MapType
  <2>2. Tracking(c)'
    BY <1>1, <2>1 DEF Tracking, Tracked, RemoteCall
  <2> QED
    BY <2>1, <2>2, TrackingOne
<1>8. CASE Fclose(c, fd)
  <2>1. /\ \A d \in Clients \ {c} : local'[d] = local[d]
        /\ PassThrough /\ UNCHANGED <<fd_map, fd_redir_map, call>>
    BY <1>8 DEF Fclose, TypeOK, LocalType
  <2>2. Tracking(c)'
    BY <1>1, <2>1 DEF Tracking, Tracked, RemoteCall
  <2> QED
    BY <2>1, <2>2, TrackingOne
<1> QED
  BY <1>2, <1>5, <1>6, <1>7, <1>8

LEMMA TrackingCallback ==
    ASSUME TypeOK, TrackingInv, NEW c \in Clients, Callback(c)
    PROVE  TrackingInv'
<1>1. /\ \A d \in Clients \ {c} : call'[d] = call[d]
      /\ call'[c].op = "none" /\ call[c] \in Call /\ call[c].fd \in Fds
  BY DEF Callback, FinishOpen, FinishRead, FinishSeek, Answered, TypeOK, CallType, NoCall, Call
<1>2. Tracking(c)
  BY DEF TrackingInv
<1>3. CASE FinishOpen(c)
  <2>1. /\ UNCHANGED <<local, fd_map>>
        /\ \A d \in Clients \ {c} : fd_redir_map'[d] = fd_redir_map[d]
    BY <1>3 DEF FinishOpen, TypeOK, MapType
  <2>2. Tracking(c)'
    BY <1>1, <1>2, <2>1 DEF Tracking, Tracked, RemoteCall
  <2> QED
    BY <1>1, <2>1, <2>2, TrackingOne
<1>4. CASE FinishRead(c) \/ FinishSeek(c)
  <2>1. \A d \in Clients, g \in Fds : local'[d][g].path = local[d][g].path
    <3>1. ASSUME NEW want, local' = [local EXCEPT ![c][call[c].fd].want = want]
          PROVE  \A d \in Clients, g \in Fds : local'[d][g].path = local[d][g].path
      BY <1>1, <3>1, PathKept DEF TypeOK
    <3>2. \/ UNCHANGED local
          \/ \E want : local' = [local EXCEPT ![c][call[c].fd].want = want]
      BY <1>4 DEF FinishRead, FinishSeek
    <3> QED
      BY <3>1, <3>2
  <2>2. /\ UNCHANGED fd_redir_map
        /\ \A d \in Clients, g \in Fds : fd_map'[d][g] \in {fd_map[d][g], NoPath}
    BY <1>1, <1>4 DEF FinishRead, FinishSeek, TypeOK, MapType
  <2>3. \A d \in Clients \ {c} : fd_map'[d] = fd_map[d]
    BY <1>4 DEF FinishRead, FinishSeek, TypeOK, MapType
  <2>4. ASSUME NEW d \in Clients PROVE Tracking(d)'
    <3>1. CASE d = c
      BY <1>1, <1>2, <2>1, <2>2, <3>1 DEF Tracking, Tracked, RemoteCall
    <3>2. CASE d # c
      BY <1>1, <2>1, <2>2, <2>3, <3>2, TrackingKept DEF TrackingInv
    <3> QED
      BY <3>1, <3>2
  <2> QED
    BY <2>4 DEF TrackingInv
<1> QED
  BY <1>3, <1>4 DEF Callback

LEMMA TrackingStep ==
    ASSUME TypeOK, TrackingInv, [Next]_vars
    PROVE  TrackingInv'
<1>0. ASSUME UNCHANGED <<local, fd_map, fd_redir_map, call>> PROVE TrackingInv'
  BY <1>0, TrackingKept DEF TrackingInv
<1>1. ASSUME NEW c \in Clients, Application(c) \/ Callback(c) PROVE TrackingInv'
  BY <1>1, TrackingApplication, TrackingCallback
<1>2. ASSUME NEW c \in Clients, Handler(c) \/ SeekUnanswered(c) PROVE TrackingInv'
  <2>1. UNCHANGED <<local, fd_map, fd_redir_map>>
    BY <1>2 DEF Handler, OpenHandler, ReadHandler, PreadHandler, BulkCallback, SeekHandler,
                SeekUnanswered, clientVars
  <2>2. /\ call[c] # NoCall
        /\ UNCHANGED call \/ \E stage, ret : Answer(c, stage, ret)
    <3>1. CASE OpenHandler(c)
      <4>1. call[c] # NoCall
        BY <3>1 DEF OpenHandler, Request, NoCall
      <4>2. PICK ret \in RemoteFds \cup {Failed} : Answer(c, "answered", ret)
        BY <3>1 DEF OpenHandler, FreeFds
      <4> QED
        BY <4>1, <4>2
    <3>2. CASE ReadHandler(c)
      BY <3>2 DEF ReadHandler, Request, NoCall
    <3>3. CASE PreadHandler(c)
      BY <3>3 DEF PreadHandler, Request, NoCall
    <3>4. CASE BulkCallback(c)
      BY <3>4 DEF BulkCallback, NoCall
    <3>5. CASE SeekHandler(c)
      BY <3>5 DEF SeekHandler, Request, NoCall
    <3>6. CASE SeekUnanswered(c)
      BY <3>6 DEF SeekUnanswered, Dead
    <3> QED
      BY <1>2, <3>1, <3>2, <3>3, <3>4, <3>5, <3>6 DEF Handler
  <2>3. \A d \in Clients : /\ call'[d].op = call[d].op /\ call'[d].fd = call[d].fd
                            /\ call'[d].server = call[d].server /\ call'[d].rfd = call[d].rfd
    BY <2>2, AnswerFacts DEF TypeOK
  <2> QED
    BY <2>1, <2>3, TrackingKept DEF TrackingInv
<1>3. ASSUME NEW c \in Clients, OpenTimeout(c) \/ CallbackAsserts(c) \/ ForwardAsserts(c)
      PROVE  TrackingInv'
  BY <1>0, <1>3 DEF OpenTimeout, CallbackAsserts, ForwardAsserts, Exit
<1>4. ASSUME NEW s \in Servers,
             \/ \E rfd \in RemoteFd : CloseHandler(s, rfd)
             \/ \E p \in Paths \cup {NoPath} : MoveFile(s, p)
      PROVE  TrackingInv'
  BY <1>0, <1>4 DEF CloseHandler, MoveFile, clientVars
<1>5. CASE UNCHANGED vars
  BY <1>0, <1>5 DEF vars, clientVars
<1> QED
  BY <1>1, <1>2, <1>3, <1>4, <1>5 DEF Next

LEMMA TrackingHolds == Spec => [](TypeOK /\ TrackingInv)
<1>1. Init => TrackingInv
  <2> SUFFICES ASSUME Init, NEW c \in Clients PROVE Tracking(c)
    BY DEF TrackingInv
  <2>1. call[c].op = "none" /\ \A fd \in Fds : ~Tracked(c, fd)
    BY DEF Init, NoCall, Tracked
  <2> QED
    BY <2>1 DEF Tracking, RemoteCall
<1>2. TypeOK /\ TrackingInv /\ [Next]_vars => TrackingInv'
  BY TrackingStep
<1> QED
  BY <1>1, <1>2, TypeCorrect, PTL DEF Spec

(***************************************************************************)
(* If every close passes a wrapper, only the descriptor of a file below    *)
(* the data directory is ever read remotely ("Non-HVAC Reads come from     *)
(* base", hvac_client.cpp:242).                                            *)
(***************************************************************************)
THEOREM NonHvacReadsFromBaseHolds ==
    ASSUME ~PassThrough PROVE Spec => []NonHvacReadsFromBase
<1>1. TypeOK /\ TrackingInv => NonHvacReadsFromBase
  <2> SUFFICES ASSUME TypeOK, TrackingInv, NEW c \in Clients, call[c].op = "read"
               PROVE  local[c][call[c].fd].path \in DataDir
    BY DEF NonHvacReadsFromBase
  <2>1. call[c].fd \in Fds /\ RemoteCall(c) /\ Tracking(c)
    BY DEF TypeOK, CallType, Call, NoCall, RemoteCall, TrackingInv
  <2> QED
    BY <2>1 DEF Tracking
<1> QED
  BY <1>1, TrackingHolds, PTL

-----------------------------------------------------------------------------
(* With one routing function, an answer is about the file of the           *)
(* descriptor, and a server is only ended by a system call that fails.     *)

Answering(c) ==
    /\ call[c].op = "open" => call[c].ret \notin Place
    /\ RemoteCall(c) /\ HasAnswer(c) => call[c].ret.path = fd_map[c][call[c].fd]

AnsweringInv == \A c \in Clients : Answering(c)

\* The descriptor a request names, if the server gave one out, is open there on
\* the tracked file.
LEMMA RequestFindsFile ==
    ASSUME TypeOK, TrackingInv, Ownership, ModHost = RingHost,
           NEW c \in Clients, RemoteCall(c), call[c].rfd # Failed
    PROVE  /\ HasFile(call[c].server, call[c].rfd)
           /\ files[call[c].server][call[c].rfd].path = fd_map[c][call[c].fd]
<1> DEFINE fd == call[c].fd
           s  == call[c].server
           r  == call[c].rfd
<1>1. /\ call[c] \in Call /\ fd \in Fds /\ s \in Servers /\ r \in RemoteFd
      /\ ~Opening(c, fd)
  BY DEF RemoteCall, TypeOK, CallType, Call, NoCall, Opening
<1>2. Tracked(c, fd) /\ r = fd_redir_map[c][fd] /\ s = ModHost[fd_map[c][fd]]
  BY DEF TrackingInv, Tracking
<1>3. r \in RemoteFds
  <2>1. r # Absent
    BY DEF RemoteCall, Ownership, TranslationKnown
  <2> QED
    BY <1>1, <2>1 DEF RemoteFd
<1> HIDE DEF fd, s, r
<1>4. Held(c, fd, s, r)
  BY <1>1, <1>2 DEF Held
<1>5. files[s][r].path = fd_map[c][fd]
  BY <1>1, <1>3, <1>4 DEF Ownership, HeldFilesOpen
<1>6. HasFile(s, r)
  BY <1>2, <1>3, <1>5 DEF HasFile, Tracked
<1> QED
  BY <1>5, <1>6 DEF fd, s, r

\* Client d's call is untouched, or over.
LEMMA AnsweringKept ==
    ASSUME TypeOK, NoneRevived, NEW d \in Clients, Answering(d),
           \/ call'[d].op = "none"
           \/ call'[d] = call[d] /\ fd_map'[d] = fd_map[d]
           \/ call'[d].op = "open" /\ call'[d].ret = Pending
           \/ call'[d].ret = Pending
    PROVE  Answering(d)'
<1>1. Place' = Place /\ Pending \notin Place
  BY RemoteFilesAssumption DEF Place, Position
<1>2. CASE call'[d] = call[d] /\ fd_map'[d] = fd_map[d]
  <2>1. call[d] # NoCall => call[d].server \in Servers
    BY DEF TypeOK, CallType, Call
  <2>2. HasAnswer(d)' => HasAnswer(d)
    BY <1>1, <1>2, <2>1 DEF HasAnswer, NoneRevived
  <2> QED
    BY <1>1, <1>2, <2>2 DEF Answering, RemoteCall
<1>3. CASE call'[d].op = "none"
  BY <1>3 DEF Answering, RemoteCall
<1>4. CASE call'[d].ret = Pending
  BY <1>1, <1>4 DEF Answering, RemoteCall, HasAnswer
<1> QED
  BY <1>2, <1>3, <1>4

\* A handler goes on with c's call, or answers it.
LEMMA AnsweringAnswer ==
    ASSUME TypeOK, AnsweringInv, NEW c \in Clients, call[c] # NoCall, NEW stage, NEW ret,
           Answer(c, stage, ret), UNCHANGED <<clientVars, up>>,
           call[c].op = "open" => ret \notin Place,
           RemoteCall(c) /\ ret \in Place /\ up[call[c].server]
              => ret.path = fd_map[c][call[c].fd],
           call[c].op \in {"read", "pread"} => up[call[c].server]
    PROVE  AnsweringInv'
<1>1. /\ \A d \in Clients \ {c} : call'[d] = call[d]
      /\ call'[c].op = call[c].op /\ call'[c].fd = call[c].fd
      /\ call'[c].server = call[c].server /\ call'[c].ret = ret
  BY AnswerFacts DEF TypeOK
<1>2. NoneRevived
  BY DEF NoneRevived
<1>3. Answering(c)'
  <2>1. Place' = Place
    BY DEF Place, Position
  <2> QED
    BY <1>1, <2>1 DEF Answering, RemoteCall, HasAnswer, clientVars
<1> QED
  BY <1>1, <1>2, <1>3, AnsweringKept DEF AnsweringInv, clientVars

LEMMA AnsweringHandler ==
    ASSUME TypeOK, TrackingInv, Ownership, ModHost = RingHost, AnsweringInv,
           NEW c \in Clients, Handler(c) \/ SeekUnanswered(c)
    PROVE  AnsweringInv'
<1> USE DEF serverVars
<1> DEFINE s == call[c].server
           r == call[c].rfd
<1>1. Failed \notin Place /\ Failed \notin RemoteFds /\ \A q \in RemoteFds : q \notin Place
  BY RemoteFilesAssumption
<1>2. CASE OpenHandler(c)
  <2>1. call[c].op = "open" /\ call[c] # NoCall /\ ~RemoteCall(c) /\ UNCHANGED <<clientVars, up>>
    BY <1>2 DEF OpenHandler, Request, NoCall, RemoteCall
  <2>2. PICK ret \in RemoteFds \cup {Failed} : Answer(c, "answered", ret)
    BY <1>2 DEF OpenHandler, FreeFds
  <2> QED
    BY <1>1, <2>1, <2>2, AnsweringAnswer
<1>3. CASE ReadHandler(c) \/ PreadHandler(c)
  <2>1. /\ RemoteCall(c) /\ call[c] # NoCall /\ call[c].op # "open" /\ up[s] /\ UNCHANGED clientVars
        /\ call[c].op # "seek"
    BY <1>3 DEF ReadHandler, PreadHandler, Request, NoCall, RemoteCall
  <2>2. ASSUME HasFile(s, r) PROVE files[s][r].path = fd_map[c][call[c].fd]
    BY <1>1, <2>1, <2>2, RequestFindsFile DEF HasFile
  <2>3. ASSUME HasFile(s, r), NEW pos, Answer(c, "moving", [path |-> files[s][r].path, pos |-> pos]),
               UNCHANGED up
        PROVE  AnsweringInv'
    <3> DEFINE ret == [path |-> files[s][r].path, pos |-> pos]
    <3>1. ret.path = fd_map[c][call[c].fd]
      BY <2>2, <2>3
    <3>2. Answer(c, "moving", ret)
      BY <2>3
    <3> HIDE DEF ret
    <3> QED
      BY <2>1, <2>3, <3>1, <3>2, AnsweringAnswer
  <2>4. CASE Answer(c, "answered", Failed) /\ UNCHANGED up
    BY <1>1, <2>1, <2>4, AnsweringAnswer
  <2>5. CASE Abort(s) /\ UNCHANGED call
    <3>1. NoneRevived
      BY <2>5 DEF NoneRevived, Abort, TypeOK
    <3> QED
      BY <2>1, <2>5, <3>1, AnsweringKept DEF AnsweringInv, clientVars
  <2> QED
    BY <1>3, <2>3, <2>4, <2>5 DEF ReadHandler, PreadHandler
<1>4. CASE SeekHandler(c)
  <2>1. /\ RemoteCall(c) /\ call[c] # NoCall /\ call[c].op = "seek" /\ up[s]
        /\ UNCHANGED <<clientVars, up>>
    BY <1>4 DEF SeekHandler, Request, NoCall, RemoteCall
  <2>2. ASSUME HasFile(s, r), NEW n, Answer(c, "answered", Reported(files[s][r].path, n))
        PROVE  AnsweringInv'
    <3> DEFINE ret == Reported(files[s][r].path, n)
    <3>1. ret \in Place => ret.path = fd_map[c][call[c].fd]
      BY <1>1, <2>1, <2>2, RequestFindsFile DEF HasFile, Reported
    <3>2. Answer(c, "answered", ret)
      BY <2>2
    <3> HIDE DEF ret
    <3> QED
      BY <2>1, <3>1, <3>2, AnsweringAnswer
  <2>3. CASE Answer(c, "answered", Failed)
    BY <1>1, <2>1, <2>3, AnsweringAnswer
  <2> QED
    BY <1>4, <2>2, <2>3 DEF SeekHandler
<1>5. CASE BulkCallback(c)
  <2>1. /\ RemoteCall(c) /\ call[c] # NoCall /\ call[c].op \in {"read", "pread"} /\ up[s]
        /\ UNCHANGED <<clientVars, up>>
    BY <1>5 DEF BulkCallback, NoCall, RemoteCall
  <2>2. call[c].ret \in Place => call[c].ret.path = fd_map[c][call[c].fd]
    BY <2>1 DEF AnsweringInv, Answering, HasAnswer
  <2>3. PICK stage : Answer(c, stage, call[c].ret)
    BY <1>5 DEF BulkCallback
  <2> QED
    BY <2>1, <2>2, <2>3, AnsweringAnswer
<1>6. CASE SeekUnanswered(c)
  <2>1. /\ call[c] # NoCall /\ call[c].op = "seek" /\ ~up[s] /\ UNCHANGED <<clientVars, up>>
    BY <1>6 DEF SeekUnanswered, Dead
  <2>2. PICK ret : Answer(c, "answered", ret)
    BY <1>6 DEF SeekUnanswered
  <2> QED
    BY <2>1, <2>2, AnsweringAnswer
<1> QED
  BY <1>2, <1>3, <1>4, <1>5, <1>6 DEF Handler

LEMMA AnsweringStep ==
    ASSUME TypeOK, TrackingInv, Ownership, ModHost = RingHost, AnsweringInv, [Next]_vars
    PROVE  AnsweringInv'
<1>1. ASSUME NEW c \in Clients, Application(c) PROVE AnsweringInv'
  <2> PICK fd \in Fds :
        \/ \E p \in Paths, mode \in {"read", "append"} : Open(c, fd, p, mode)
        \/ Read(c, fd) \/ Readv(c, fd)
        \/ \E off \in Position : Pread(c, fd, off)
        \/ \E seek \in Seeks : Seek(c, fd, seek[1], seek[2])
        \/ Close(c, fd) \/ Fclose(c, fd)
    BY <1>1 DEF Application
  <2>1. NoneRevived
    BY DEF Open, Read, Readv, Pread, Seek, Close, Fclose, serverVars, NoneRevived
  <2>2. call[c].op = "none" /\ \A d \in Clients \ {c} : fd_map'[d] = fd_map[d]
    BY ReadyIsIdle DEF Open, TrackFile, Read, Readv, Pread, Seek, Close, RemoveFd, Fclose,
                       clientVars, TypeOK, MapType
  <2>3. \/ UNCHANGED call
        \/ \E o, f, s, rfd, off, whence : Forward(c, o, f, s, rfd, off, whence)
    BY DEF Open, TrackFile, ForwardOpen, Read, RemoteRead, ForwardRead, Readv, Pread, Seek,
           ForwardSeek, Close, Fclose
  <2>4. /\ \A d \in Clients \ {c} : call'[d] = call[d]
        /\ call'[c].op = "none" \/ call'[c].ret = Pending
    BY <2>2, <2>3 DEF Forward, TypeOK, CallType
  <2> QED
    BY <2>1, <2>2, <2>4, AnsweringKept DEF AnsweringInv
<1>2. ASSUME NEW c \in Clients, Callback(c) PROVE AnsweringInv'
  <2>1. /\ NoneRevived /\ call'[c].op = "none"
        /\ \A d \in Clients \ {c} : call'[d] = call[d] /\ fd_map'[d] = fd_map[d]
    BY <1>2 DEF Callback, FinishOpen, FinishRead, FinishSeek, serverVars, NoneRevived,
                NoCall, TypeOK, CallType, MapType
  <2> QED
    BY <2>1, AnsweringKept DEF AnsweringInv
<1>3. ASSUME NEW c \in Clients, Handler(c) \/ SeekUnanswered(c) PROVE AnsweringInv'
  BY <1>3, AnsweringHandler
<1>4. ASSUME NoneRevived, UNCHANGED <<call, fd_map>> PROVE AnsweringInv'
  BY <1>4, AnsweringKept DEF AnsweringInv
<1>5. ASSUME NEW c \in Clients, OpenTimeout(c) \/ CallbackAsserts(c) \/ ForwardAsserts(c)
      PROVE  AnsweringInv'
  BY <1>4, <1>5 DEF OpenTimeout, CallbackAsserts, ForwardAsserts, Exit, serverVars, NoneRevived
<1>6. ASSUME NEW s \in Servers,
             \/ \E rfd \in RemoteFd : CloseHandler(s, rfd)
             \/ \E p \in Paths \cup {NoPath} : MoveFile(s, p)
      PROVE  AnsweringInv'
  <2>1. UNCHANGED <<call, fd_map>> /\ (UNCHANGED up \/ Abort(s))
    BY <1>6 DEF CloseHandler, MoveFile, clientVars
  <2>2. NoneRevived
    BY <2>1 DEF NoneRevived, Abort, TypeOK
  <2> QED
    BY <1>4, <2>1, <2>2
<1>7. CASE UNCHANGED vars
  BY <1>4, <1>7 DEF vars, clientVars, serverVars, NoneRevived
<1> QED
  BY <1>1, <1>2, <1>3, <1>5, <1>6, <1>7 DEF Next

(***************************************************************************)
(* With one routing function and every close passing a wrapper, an answer  *)
(* is about the file that the application opened: the collision on the     *)
(* remote side that hvac_client.cpp:255 wants to avoid does not happen.    *)
(***************************************************************************)
THEOREM AvoidsCollisionHolds ==
    ASSUME ModHost = RingHost, ~PassThrough PROVE Spec => []AvoidsCollision
<1> DEFINE SameHost == ModHost = RingHost
<1>0. SameHost
  OBVIOUS
<1>1. Init => AnsweringInv
  <2> SUFFICES ASSUME Init, NEW c \in Clients PROVE Answering(c)
    BY DEF AnsweringInv
  <2>1. call[c].op = "none"
    BY DEF Init, NoCall
  <2> QED
    BY <2>1 DEF Answering, RemoteCall
<1>2. TypeOK /\ TrackingInv /\ Ownership /\ AnsweringInv /\ [Next]_vars => AnsweringInv'
  BY AnsweringStep
<1>3. TypeOK /\ TrackingInv /\ AnsweringInv => AvoidsCollision
  <2> SUFFICES ASSUME TypeOK, TrackingInv, AnsweringInv, NEW c \in Clients, HasAnswer(c)
               PROVE  call[c].ret.path = local[c][call[c].fd].path
    BY DEF AvoidsCollision
  <2>1. call[c] \in Call /\ call[c].fd \in Fds /\ Tracking(c) /\ Answering(c)
    BY DEF HasAnswer, TypeOK, CallType, Call, TrackingInv, AnsweringInv
  <2>2. RemoteCall(c)
    BY <2>1 DEF Call, RemoteCall, Answering, HasAnswer
  <2> QED
    BY <2>1, <2>2 DEF Tracking, Answering
<1>4. Spec => []Ownership
  BY <1>0, OwnershipHolds
<1> QED
  BY <1>1, <1>2, <1>3, <1>4, TrackingHolds, PTL DEF Spec

-----------------------------------------------------------------------------
(* Which servers stay.                                                     *)

\* Nothing that ends a server can happen.
NothingAborts == Faults \cap {"open", "read", "hgi"} = {}

AllUp == \A s \in Servers : up[s]

\* No open has failed, so no request names a descriptor that does not exist.
Served ==
    /\ AllUp
    /\ \A c \in Clients : /\ call[c].op = "open" => call[c].ret # Failed
                          /\ \A fd \in Fds : fd_redir_map[c][fd] # Failed

LEMMA ServedStep ==
    ASSUME TypeOK, TrackingInv, Ownership, ModHost = RingHost, NothingAborts, Served, [Next]_vars
    PROVE  Served'
<1>0. Failed # Absent /\ Failed # Pending /\ Failed \notin RemoteFds
  BY RemoteFilesAssumption
<1>1. ASSUME UNCHANGED <<up, call, fd_redir_map>> PROVE Served'
  BY <1>1 DEF Served, AllUp
<1>2. ASSUME NEW c \in Clients, Application(c) PROVE Served'
  <2> PICK fd \in Fds :
        \/ \E p \in Paths, mode \in {"read", "append"} : Open(c, fd, p, mode)
        \/ Read(c, fd) \/ Readv(c, fd)
        \/ \E off \in Position : Pread(c, fd, off)
        \/ \E seek \in Seeks : Seek(c, fd, seek[1], seek[2])
        \/ Close(c, fd) \/ Fclose(c, fd)
    BY <1>2 DEF Application
  <2>1. UNCHANGED up
    BY DEF Open, Read, Readv, Pread, Seek, Close, Fclose, serverVars
  <2>2. call[c].op = "none"
    BY ReadyIsIdle DEF Open, Read, Readv, Pread, Seek, Close, Fclose
  <2>3. \/ UNCHANGED call
        \/ \E o, f, s, rfd, off, whence : Forward(c, o, f, s, rfd, off, whence)
    BY DEF Open, TrackFile, ForwardOpen, Read, RemoteRead, ForwardRead, Readv, Pread, Seek,
           ForwardSeek, Close, Fclose
  <2>4. /\ \A d \in Clients \ {c} : call'[d] = call[d]
        /\ call'[c].op = "none" \/ call'[c].ret = Pending
    BY <2>2, <2>3 DEF Forward, TypeOK, CallType
  <2>5. \A d \in Clients, g \in Fds : fd_redir_map'[d][g] \in {fd_redir_map[d][g], Absent}
    <3>1. \/ UNCHANGED fd_redir_map
          \/ fd_redir_map' = [fd_redir_map EXCEPT ![c][fd] = Absent]
      BY DEF Open, Read, Readv, Pread, Seek, Close, RemoveFd, ForwardClose, Fclose, clientVars
    <3> QED
      BY <3>1 DEF TypeOK, MapType
  <2> QED
    BY <1>0, <2>1, <2>4, <2>5 DEF Served, AllUp
<1>3. ASSUME NEW c \in Clients, Callback(c) PROVE Served'
  <2>1. /\ call'[c].op = "none" /\ UNCHANGED up
        /\ \A d \in Clients \ {c} : call'[d] = call[d]
    BY <1>3 DEF Callback, FinishOpen, FinishRead, FinishSeek, serverVars, NoCall, TypeOK, CallType
  <2>2. \/ UNCHANGED fd_redir_map
        \/ /\ call[c].op = "open"
           /\ fd_redir_map' = [fd_redir_map EXCEPT ![c][call[c].fd] = call[c].ret]
    BY <1>3 DEF Callback, FinishOpen, FinishRead, FinishSeek, Answered
  <2>3. \A d \in Clients, g \in Fds : fd_redir_map'[d][g] # Failed
    BY <2>2 DEF Served, TypeOK, MapType
  <2> QED
    BY <2>1, <2>3 DEF Served, AllUp
<1>4. ASSUME NEW c \in Clients, NEW stage, NEW ret, call[c] # NoCall, Answer(c, stage, ret),
             call[c].op = "open" => ret # Failed, UNCHANGED <<up, fd_redir_map>>
      PROVE  Served'
  BY <1>4, AnswerFacts DEF Served, AllUp, TypeOK
<1>5. ASSUME NEW c \in Clients, Handler(c) PROVE Served'
  <2>1. CASE OpenHandler(c)
    <3>1. PICK ret \in RemoteFds : Answer(c, "answered", ret)
      BY <2>1 DEF OpenHandler, FreeFds, NothingAborts
    <3>2. call[c] # NoCall /\ UNCHANGED <<up, fd_redir_map>>
      BY <2>1 DEF OpenHandler, Request, NoCall, clientVars
    <3> QED
      BY <1>0, <1>4, <3>1, <3>2
  <2>2. CASE ReadHandler(c)
    <3>1. RemoteCall(c) /\ call[c] # NoCall /\ call[c].op # "open" /\ UNCHANGED fd_redir_map
      BY <2>2 DEF ReadHandler, Request, NoCall, RemoteCall, clientVars
    <3>2. call[c].rfd # Failed
      <4>1. call[c].fd \in Fds
        BY <3>1 DEF TypeOK, CallType, Call
      <4> QED
        BY <3>1, <4>1 DEF TrackingInv, Tracking, Served
    <3>3. HasFile(call[c].server, call[c].rfd)
      BY <3>1, <3>2, RequestFindsFile
    <3>4. UNCHANGED up /\ \E ret : Answer(c, "moving", ret)
      BY <2>2, <3>3 DEF ReadHandler, NothingAborts
    <3> QED
      BY <1>4, <3>1, <3>4
  <2>3. CASE PreadHandler(c)
    <3>1. /\ call[c] # NoCall /\ call[c].op # "open" /\ UNCHANGED <<up, fd_redir_map>>
          /\ \E stage, ret : Answer(c, stage, ret)
      BY <2>3 DEF PreadHandler, Request, NoCall, clientVars, serverVars
    <3> QED
      BY <1>4, <3>1
  <2>4. CASE BulkCallback(c)
    <3>1. /\ call[c] # NoCall /\ call[c].op # "open" /\ UNCHANGED <<up, fd_redir_map>>
          /\ \E stage, ret : Answer(c, stage, ret)
      BY <2>4 DEF BulkCallback, NoCall, clientVars, serverVars
    <3> QED
      BY <1>4, <3>1
  <2>5. CASE SeekHandler(c)
    <3>1. /\ call[c] # NoCall /\ call[c].op # "open" /\ UNCHANGED <<up, fd_redir_map>>
          /\ \E stage, ret : Answer(c, stage, ret)
      BY <2>5 DEF SeekHandler, Request, NoCall, clientVars
    <3> QED
      BY <1>4, <3>1
  <2> QED
    BY <1>5, <2>1, <2>2, <2>3, <2>4, <2>5 DEF Handler
<1>6. ASSUME NEW c \in Clients, OpenTimeout(c) \/ CallbackAsserts(c) \/ ForwardAsserts(c)
      PROVE  Served'
  BY <1>1, <1>6 DEF OpenTimeout, CallbackAsserts, ForwardAsserts, Exit, serverVars
<1>7. ASSUME NEW c \in Clients, SeekUnanswered(c) PROVE FALSE
  <2>1. call[c] # NoCall /\ ~up[call[c].server]
    BY <1>7 DEF SeekUnanswered, Dead
  <2> QED
    BY <2>1 DEF TypeOK, CallType, Call, Served, AllUp
<1>8. ASSUME NEW s \in Servers,
             \/ \E rfd \in RemoteFd : CloseHandler(s, rfd)
             \/ \E p \in Paths \cup {NoPath} : MoveFile(s, p)
      PROVE  Served'
  BY <1>1, <1>8 DEF CloseHandler, MoveFile, clientVars, NothingAborts
<1>9. CASE UNCHANGED vars
  BY <1>1, <1>9 DEF vars, clientVars, serverVars
<1> QED
  BY <1>2, <1>3, <1>5, <1>6, <1>7, <1>8, <1>9 DEF Next

(***************************************************************************)
(* A server ends only if an open or a read(2) of it fails (running out of  *)
(* descriptors is a failing open), or the close handler's stray pointer    *)
(* ends it: neither a close in transit nor a failing pread, copy or        *)
(* transfer does it.  The routes have to agree.                            *)
(***************************************************************************)
THEOREM ServersStayHolds ==
    ASSUME ModHost = RingHost, NothingAborts PROVE Spec => []AllUp
<1> DEFINE SameHost == ModHost = RingHost
<1>0. SameHost
  OBVIOUS
<1>1. Init => Served
  BY RemoteFilesAssumption DEF Init, NoCall, Served, AllUp
<1>2. TypeOK /\ TrackingInv /\ Ownership /\ Served /\ [Next]_vars => Served'
  BY ServedStep
<1>3. Served => AllUp
  BY DEF Served
<1>4. Spec => []Ownership
  BY <1>0, OwnershipHolds
<1> QED
  BY <1>1, <1>2, <1>3, <1>4, TrackingHolds, PTL DEF Spec

(***************************************************************************)
(* Under the same conditions the assertion hvac_comm.cpp:436 on the        *)
(* transfer of a sequential read never fails.                              *)
(***************************************************************************)
THEOREM TransferAcceptedHolds ==
    ASSUME ModHost = RingHost, NothingAborts PROVE Spec => []TransferAccepted
<1> DEFINE SameHost == ModHost = RingHost
<1>0. SameHost
  OBVIOUS
<1>1. TypeOK /\ AllUp => TransferAccepted
  BY DEF TransferAccepted, AllUp, TypeOK, CallType, Call, NoCall
<1>2. Spec => []AllUp
  BY <1>0, ServersStayHolds
<1> QED
  BY <1>1, <1>2, TypeCorrect, PTL

=============================================================================
