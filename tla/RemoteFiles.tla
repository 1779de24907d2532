----------------------------- MODULE RemoteFiles -----------------------------
(***************************************************************************)
(* The descriptor protocol of HVAC at the granularity of RPCs.             *)
(*                                                                         *)
(* A client process preloads the library of wrappers.c and hvac_client.cpp.*)
(* Every file it opens is opened by the kernel of the client (local); when *)
(* the file is tracked, fd_map remembers its path and a server opens it as *)
(* well: fd_redir_map translates the local descriptor into the server's.   *)
(* Reads, seeks and closes of a tracked descriptor then go to a server, by *)
(* that translated number.  A server answers from its own descriptor table *)
(* and hands closed files to its data mover, which copies them to NVMe.    *)
(*                                                                         *)
(* A client has one application thread, so at most one call of it waits    *)
(* for an answer; closes have no answer and stay in transit in `closing'.  *)
(* The locks inside one process are the subject of ServerCache and         *)
(* CallWait; the failure detector is not modelled here (its counters       *)
(* stay 0 as long as the process lives, see the README).                   *)
(*                                                                         *)
(* A definition announced as a "slip" is a variant of the definition after *)
(* it that contains a plausible bug; it only serves to show that the       *)
(* properties would notice the bug.                                        *)
(***************************************************************************)
EXTENDS Integers

CONSTANTS
    Clients, Servers, Paths,
    DataDir,        \* the paths below HVAC_DATA_DIR
    Fds,            \* descriptor numbers of a client process
    RemoteFds,      \* bound: descriptor numbers of a server process (running
                    \* out of them is the fault "open")
    ModHost,        \* std::hash(path) % server count: used by open and read
    RingHost,       \* hashRing->GetNode(path): used by pread, lseek and close
    FileSize,       \* length of every file, in blocks
    MaxPosition,    \* the kernel refuses to seek beyond (s_maxbytes)
    IntBound,       \* a C int holds -IntBound .. IntBound - 1 (blocks)
    Seeks,          \* bound: the offsets and directions of the application's seeks
    FarSeeks,       \* may it seek by, or to, what an int cannot tell (see Near)?
    MaxQueued,      \* bound: entries of one path in one data_queue
    MaxClosing,     \* bound: closes of one number in transit to one server
    PassThrough,    \* may the application use fclose, readv and read64, which
                    \* all reach the kernel without HVAC?
    Faults,         \* system calls of the server that may fail
    NoPath, Failed, Absent, Pending

FaultKinds == {"open", "read", "pread", "copy", "transfer", "hgi"}

\* Where a descriptor may stand; from FileSize on, at the end of the file.
Position == 0 .. MaxPosition
\* The numbers an int32 field holds, and the directions of a seek: from the
\* beginning, the current position or the end of the file.
Number   == -IntBound .. IntBound - 1
Whence   == {"set", "cur", "end"}
\* What is reported of a file: the position a read took place at, or what
\* lseek returned.
Place    == [path : Paths, pos : Int]

ASSUME RemoteFilesAssumption ==
    /\ DataDir \subseteq Paths
    /\ ModHost \in [Paths -> Servers]
    /\ RingHost \in [Paths -> Servers]
    /\ MaxPosition \in Nat /\ FileSize \in Position /\ IntBound \in Nat \ {0}
    /\ Seeks \subseteq Int \X Whence /\ FarSeeks \in BOOLEAN
    /\ MaxQueued \in Nat /\ MaxClosing \in Nat
    /\ PassThrough \in BOOLEAN
    /\ Faults \subseteq FaultKinds
    /\ NoPath \notin Paths
    /\ Failed \notin RemoteFds /\ Absent \notin RemoteFds /\ Failed # Absent
    /\ Pending # Failed /\ \A r \in RemoteFds \cup {Failed, Pending} : r \notin Place

VARIABLES
    alive,          \* clients that have not exited
    local,          \* kernel descriptors of a client; want is what the
                    \* application, not knowing of HVAC, takes the position for
    fd_map, fd_redir_map,
    call,           \* the call a client is blocked in
    closing,        \* how many closes of each number are in transit
    up,             \* servers that have not aborted
    files,          \* kernel descriptors of a server
    fd_to_path, path_cache_map, data_queue

clientVars == <<alive, local, fd_map, fd_redir_map>>
cacheVars  == <<path_cache_map, data_queue>>
serverVars == <<up, files, fd_to_path, path_cache_map, data_queue>>
vars == <<clientVars, call, closing, serverVars>>

RemoteFd == RemoteFds \cup {Failed, Absent}

NoCall == [op |-> "none"]
Call   == [op : {"open", "read", "pread", "seek"}, fd : Fds, server : Servers,
           rfd : RemoteFd, off : Int, whence : Whence,
           stage : {"sent", "moving", "lost", "answered"},
           ret : RemoteFds \cup {Failed, Pending} \cup Place]

ClosedFile  == [path |-> NoPath, pos |-> 0]
LocalFile(p, pos, want) == [path |-> p, pos |-> pos, want |-> want]
ClosedLocal == LocalFile(NoPath, 0, 0)

\* The server has answered the open that c is still waiting for.
Opened(c) == call[c].op = "open" /\ call[c].stage = "answered"

LocalType   == local \in [Clients -> [Fds -> [path : Paths \cup {NoPath},
                                              pos : Position, want : Position]]]
MapType     == /\ fd_map \in [Clients -> [Fds -> Paths \cup {NoPath}]]
               /\ fd_redir_map \in [Clients -> [Fds -> RemoteFd]]
CallType    == /\ call \in [Clients -> Call \cup {NoCall}]
               /\ \A c \in Clients :
                     Opened(c) => call[c].ret \in RemoteFds \cup {Failed}
ClosingType == closing \in [Servers -> [RemoteFd -> Nat]]
FileType    == files \in [Servers -> [RemoteFds -> [path : Paths \cup {NoPath},
                                                    pos : Position]]]
PathType    == fd_to_path \in [Servers -> [RemoteFd -> Paths \cup {NoPath}]]
CacheType   == /\ path_cache_map \in [Servers -> [Paths -> BOOLEAN]]
               /\ data_queue \in [Servers -> [Paths \cup {NoPath} -> Nat]]

\* The type of every variable.
TypeOK ==
    /\ alive \in [Clients -> BOOLEAN] /\ up \in [Servers -> BOOLEAN]
    /\ LocalType /\ MapType /\ CallType
    /\ ClosingType /\ FileType /\ PathType /\ CacheType

Init ==
    /\ alive = [c \in Clients |-> TRUE]
    /\ local = [c \in Clients |-> [fd \in Fds |-> ClosedLocal]]
    /\ fd_map = [c \in Clients |-> [fd \in Fds |-> NoPath]]
    /\ fd_redir_map = [c \in Clients |-> [fd \in Fds |-> Absent]]
    /\ call = [c \in Clients |-> NoCall]
    /\ closing = [s \in Servers |-> [r \in RemoteFd |-> 0]]
    /\ up = [s \in Servers |-> TRUE]
    /\ files = [s \in Servers |-> [r \in RemoteFds |-> ClosedFile]]
    /\ fd_to_path = [s \in Servers |-> [r \in RemoteFd |-> NoPath]]
    /\ path_cache_map = [s \in Servers |-> [p \in Paths |-> FALSE]]
    /\ data_queue = [s \in Servers |-> [p \in Paths \cup {NoPath} |-> 0]]

-----------------------------------------------------------------------------
(* The client: wrappers, the library behind them, and the RPCs they send.  *)

Ready(c)       == alive[c] /\ call[c] = NoCall
IsOpen(c, fd)  == local[c][fd].path # NoPath
Tracked(c, fd) == fd_map[c][fd] # NoPath

\* Slip: a read at the end of the file moves the position, too.
AdvancePastEnd(pos) == pos + 1

\* Position after one sequential read; at end of file it stays.
Advance(pos) == IF pos < FileSize THEN pos + 1 ELSE pos

\* Slip: the offset is cut to the positive part of an int.
NarrowPositive(off) == off % IntBound

\* A 64-bit number in an int: lseek passes its off_t through an int parameter
\* and an int32 RPC field, and the server its result through another.
Narrow(off) == ((off + IntBound) % (2 * IntBound)) - IntBound

\* The position that lseek is asked for; the kernel moves there or refuses.
Target(pos, off, whence) == CASE whence = "set" -> off
                              [] whence = "cur" -> pos + off
                              [] whence = "end" -> FileSize + off
Sought(pos, off, whence) ==
    IF Target(pos, off, whence) \in Position THEN Target(pos, off, whence) ELSE pos

\* Seeks whose offset and result the two int32 fields carry, or whose offset
\* arrives negative and is refused: below 4 GiB from the beginning, to below
\* 2 GiB from elsewhere.
Near(pos, off, whence) ==
    /\ off >= -IntBound
    /\ IF whence = "set" THEN off < 2 * IntBound ELSE Target(pos, off, whence) < IntBound

\* Whether hvac_track_file tracks a file: below the data directory and not
\* opened O_WRONLY or O_APPEND (O_RDONLY and O_RDWR are "read").
Tracks(p, mode) == p \in DataDir /\ mode = "read"

\* The client blocks until the request it forwards here is answered.
Forward(c, o, fd, s, rfd, off, whence) ==
    call' = [call EXCEPT ![c] = [op |-> o, fd |-> fd, server |-> s, rfd |-> rfd,
                                 off |-> off, whence |-> whence,
                                 stage |-> "sent", ret |-> Pending]]

\* The request goes on, or its answer arrives.
Answer(c, stage, ret) ==
    call' = [call EXCEPT ![c].stage = stage, ![c].ret = ret]

ForwardOpen(c, fd, s) == Forward(c, "open", fd, s, Absent, 0, "set")

\* Slip: a read carries the local number, which names some file at the server.
ForwardReadUntranslated(c, o, fd, s, off) ==
    \E r \in RemoteFds : Forward(c, o, fd, s, r, off, "set")

ForwardRead(c, o, fd, s, off) == Forward(c, o, fd, s, fd_redir_map[c][fd], off, "set")
ForwardSeek(c, fd, s, off, whence) ==
    Forward(c, "seek", fd, s, fd_redir_map[c][fd], off, whence)

\* Slips: a close carries the local number; a close is sent a second time.
ForwardCloseUntranslated(c, fd, s) ==
    /\ \E r \in RemoteFds : /\ closing[s][r] < MaxClosing
                            /\ closing' = [closing EXCEPT ![s][r] = @ + 1]
    /\ fd_redir_map' = [fd_redir_map EXCEPT ![c][fd] = Absent]
ForwardCloseTwice(c, fd, s) ==
    /\ closing[s][fd_redir_map[c][fd]] < MaxClosing
    /\ closing' = [closing EXCEPT ![s][fd_redir_map[c][fd]] = @ + 2]
    /\ fd_redir_map' = [fd_redir_map EXCEPT ![c][fd] = Absent]

\* A close is forwarded to the server and forgotten.
ForwardClose(c, fd, s) ==
    /\ closing[s][fd_redir_map[c][fd]] < MaxClosing
    /\ closing' = [closing EXCEPT ![s][fd_redir_map[c][fd]] = @ + 1]
    /\ fd_redir_map' = [fd_redir_map EXCEPT ![c][fd] = Absent]

\* A tracked descriptor is entered in fd_map before its open RPC is sent; an
\* untracked one leaves the maps as they are, whatever they hold for fd.
TrackFile(c, fd, p, mode) ==
    \/ /\ Tracks(p, mode)
       /\ fd_map' = [fd_map EXCEPT ![c][fd] = p]
       /\ ForwardOpen(c, fd, ModHost[p])
    \/ /\ ~Tracks(p, mode)
       /\ UNCHANGED <<fd_map, call>>

Open(c, fd, p, mode) ==
    /\ Ready(c) /\ ~IsOpen(c, fd)
    /\ local' = [local EXCEPT ![c][fd] = LocalFile(p, 0, 0)]
    /\ TrackFile(c, fd, p, mode)
    /\ UNCHANGED <<alive, fd_redir_map, closing, serverVars>>

\* read(2): by the modulo host, at the server's own position.
RemoteRead(c, fd) ==
    /\ Tracked(c, fd)
    /\ ForwardRead(c, "read", fd, ModHost[fd_map[c][fd]], 0)
    /\ UNCHANGED local

RealRead(c, fd) ==
    LET file == local[c][fd] IN
    local' = [local EXCEPT ![c][fd] =
                 LocalFile(file.path, Advance(file.pos), Advance(file.want))]

Read(c, fd) ==
    /\ Ready(c) /\ IsOpen(c, fd)
    /\ \/ RemoteRead(c, fd)
       \/ ~Tracked(c, fd) /\ RealRead(c, fd) /\ UNCHANGED call
    /\ UNCHANGED <<alive, fd_map, fd_redir_map, closing, serverVars>>

\* readv(2) and read64: the wrappers look up the descriptor, but only to log.
Readv(c, fd) ==
    /\ PassThrough /\ Ready(c) /\ IsOpen(c, fd)
    /\ RealRead(c, fd)
    /\ UNCHANGED <<alive, fd_map, fd_redir_map, call, closing, serverVars>>

\* pread(2): by the host of the hash ring.  A pread of an untracked
\* descriptor changes no state.
Pread(c, fd, off) ==
    /\ Ready(c) /\ IsOpen(c, fd) /\ Tracked(c, fd)
    /\ ForwardRead(c, "pread", fd, RingHost[fd_map[c][fd]], off)
    /\ UNCHANGED <<clientVars, closing, serverVars>>

RealSeek(c, fd, off, whence) ==
    LET file == local[c][fd] IN
    local' = [local EXCEPT ![c][fd] = LocalFile(file.path, Sought(file.pos, off, whence),
                                                Sought(file.want, off, whence))]

\* lseek(2), by the host of the hash ring.
Seek(c, fd, off, whence) ==
    /\ Ready(c) /\ IsOpen(c, fd)
    /\ \/ /\ Tracked(c, fd)
          /\ FarSeeks \/ Near(local[c][fd].want, off, whence)
          /\ ForwardSeek(c, fd, RingHost[fd_map[c][fd]], off, whence)
          /\ UNCHANGED local
       \/ /\ ~Tracked(c, fd)
          /\ RealSeek(c, fd, off, whence)
          /\ UNCHANGED call
    /\ UNCHANGED <<alive, fd_map, fd_redir_map, closing, serverVars>>

\* Slip: fd_map keeps the entry of a closed descriptor.
RemoveFdKeepsEntry(c, fd) ==
    /\ \/ Tracked(c, fd) /\ ForwardClose(c, fd, RingHost[fd_map[c][fd]])
       \/ ~Tracked(c, fd) /\ UNCHANGED <<fd_redir_map, closing>>
    /\ UNCHANGED fd_map

\* close(2): a tracked descriptor sends a close RPC nobody waits for.
RemoveFd(c, fd) ==
    \/ /\ Tracked(c, fd)
       /\ ForwardClose(c, fd, RingHost[fd_map[c][fd]])
       /\ fd_map' = [fd_map EXCEPT ![c][fd] = NoPath]
    \/ /\ ~Tracked(c, fd)
       /\ UNCHANGED <<fd_map, fd_redir_map, closing>>

Close(c, fd) ==
    /\ Ready(c) /\ IsOpen(c, fd)
    /\ RemoveFd(c, fd)
    /\ local' = [local EXCEPT ![c][fd] = ClosedLocal]
    /\ UNCHANGED <<alive, call, serverVars>>

\* fclose(3) reaches the kernel without passing any wrapper.
Fclose(c, fd) ==
    /\ PassThrough /\ Ready(c) /\ IsOpen(c, fd)
    /\ local' = [local EXCEPT ![c][fd] = ClosedLocal]
    /\ UNCHANGED <<alive, fd_map, fd_redir_map, call, closing, serverVars>>

-----------------------------------------------------------------------------
(* The client: callbacks of the progress thread and the rest of each call. *)

Answered(c, o) == alive[c] /\ call[c].op = o /\ call[c].stage = "answered"

FinishOpen(c) ==
    /\ Answered(c, "open")
    /\ fd_redir_map' = [fd_redir_map EXCEPT ![c][call[c].fd] = call[c].ret]
    /\ call' = [call EXCEPT ![c] = NoCall]
    /\ UNCHANGED <<alive, local, fd_map, closing, serverVars>>

\* A failed pread stops the tracking of the descriptor (only fd_map forgets
\* it) and is repeated on the local descriptor.  A read would be, too, but no
\* server answers that a read failed (ReadHandler, BulkCallback).
FinishRead(c) ==
    LET fd == call[c].fd IN
    /\ Answered(c, "read") \/ Answered(c, "pread")
    /\ \/ /\ call[c].ret # Failed
          /\ local' = IF call[c].op = "read"
                      THEN [local EXCEPT ![c][fd].want = Advance(@)]
                      ELSE local
          /\ UNCHANGED fd_map
       \/ /\ call[c].op = "pread" /\ call[c].ret = Failed
          /\ fd_map' = [fd_map EXCEPT ![c][fd] = NoPath]
          /\ UNCHANGED local
    /\ call' = [call EXCEPT ![c] = NoCall]
    /\ UNCHANGED <<alive, fd_redir_map, closing, serverVars>>

\* The application takes a seek that does not return -1 to have succeeded.
FinishSeek(c) ==
    /\ Answered(c, "seek")
    /\ local' = IF call[c].ret = Failed
                THEN local
                ELSE [local EXCEPT ![c][call[c].fd].want =
                         Sought(@, call[c].off, call[c].whence)]
    /\ call' = [call EXCEPT ![c] = NoCall]
    /\ UNCHANGED <<alive, fd_map, fd_redir_map, closing, serverVars>>

Exit(c) ==
    /\ alive' = [alive EXCEPT ![c] = FALSE]
    /\ UNCHANGED <<local, fd_map, fd_redir_map, call, closing, serverVars>>

\* hvac_client_block gives an open five seconds and then ends the process.
OpenTimeout(c) == alive[c] /\ call[c].op = "open" /\ Exit(c)

\* HG_Forward may fail if the server has died: then the client asserts that it
\* did not, before it waits, and before a close is forgotten.
ForwardAsserts(c) ==
    /\ Ready(c)
    /\ \E fd \in Fds :
          \/ ~IsOpen(c, fd) /\ \E p \in DataDir : ~up[ModHost[p]]
          \/ /\ IsOpen(c, fd) /\ Tracked(c, fd)
             /\ ~up[ModHost[fd_map[c][fd]]] \/ ~up[RingHost[fd_map[c][fd]]]
    /\ Exit(c)

\* An RPC to a server that died.
Dead(c) == /\ alive[c] /\ call[c] # NoCall
           /\ call[c].stage # "answered" /\ ~up[call[c].server]

\* If Mercury reports its failure, the callbacks of an open and a read assert
\* that there was none, which ends the client.
CallbackAsserts(c) == Dead(c) /\ call[c].op # "seek" /\ Exit(c)

\* What lseek reports of file p: -1 is a failure.
Reported(p, n) == IF n = -1 THEN Failed ELSE [path |-> p, pos |-> n]

\* The callback of a seek looks at nothing and returns what an uninitialized
\* out.ret holds: any number.
SeekUnanswered(c) ==
    /\ Dead(c) /\ call[c].op = "seek"
    /\ \E p \in Paths, n \in Number : Answer(c, "answered", Reported(p, n))
    /\ UNCHANGED <<clientVars, closing, serverVars>>

-----------------------------------------------------------------------------
(* The server: RPC handlers of the progress thread and the data mover.     *)

Request(c, o) == call[c].op = o /\ call[c].stage = "sent" /\ up[call[c].server]

HasFile(s, rfd) == rfd \in RemoteFds /\ files[s][rfd].path # NoPath
FreeFds(s)      == {r \in RemoteFds : files[s][r].path = NoPath}

\* assert() ends the server process.
Abort(s) == up' = [up EXCEPT ![s] = FALSE]

\* An open is redirected to the copy that path_cache_map names, if any; that
\* the copy reads like the original is the subject of ServerCache, so a
\* descriptor is known here by the original path, as in fd_to_path.
OpenHandler(c) ==
    LET s == call[c].server
        p == fd_map[c][call[c].fd]
    IN
    /\ Request(c, "open")
    /\ \/ \E r \in FreeFds(s) :
            /\ files' = [files EXCEPT ![s][r] = [path |-> p, pos |-> 0]]
            /\ fd_to_path' = [fd_to_path EXCEPT ![s][r] = p]
            /\ Answer(c, "answered", r)
       \/ /\ "open" \in Faults
          /\ fd_to_path' = [fd_to_path EXCEPT ![s][Failed] = p]
          /\ Answer(c, "answered", Failed)
          /\ UNCHANGED files
    /\ UNCHANGED <<clientVars, closing, up, cacheVars>>

\* A sequential read.  When read() fails the size of the bulk transfer becomes
\* (size_t)-1, Mercury refuses it and the handler's assertion fails.
ReadHandler(c) ==
    LET s == call[c].server
        r == call[c].rfd
    IN
    /\ Request(c, "read")
    /\ \/ /\ HasFile(s, r)
          /\ Answer(c, "moving", [path |-> files[s][r].path, pos |-> files[s][r].pos])
          /\ files' = [files EXCEPT ![s][r].pos = Advance(@)]
          /\ UNCHANGED up
       \/ /\ ~HasFile(s, r) \/ "read" \in Faults
          /\ Abort(s)
          /\ UNCHANGED <<call, files>>
    /\ UNCHANGED <<clientVars, closing, fd_to_path, cacheVars>>

PreadHandler(c) ==
    LET s == call[c].server
        r == call[c].rfd
    IN
    /\ Request(c, "pread")
    /\ \/ /\ HasFile(s, r)
          /\ Answer(c, "moving", [path |-> files[s][r].path, pos |-> call[c].off])
       \/ /\ ~HasFile(s, r) \/ "pread" \in Faults
          /\ Answer(c, "answered", Failed)
    /\ UNCHANGED <<clientVars, closing, serverVars>>

\* Slip: the end of a bulk transfer is not answered.
BulkCallbackSilent(c) ==
    /\ call[c].op \in {"read", "pread"} /\ call[c].stage = "moving"
    /\ up[call[c].server]
    /\ Answer(c, "lost", call[c].ret)
    /\ UNCHANGED <<clientVars, closing, serverVars>>

\* The bulk transfer is over: the answer is sent, or, after a failed
\* transfer, everything is freed and no answer is sent at all.
BulkCallback(c) ==
    /\ call[c].op \in {"read", "pread"} /\ call[c].stage = "moving"
    /\ up[call[c].server]
    /\ \/ Answer(c, "answered", call[c].ret)
       \/ "transfer" \in Faults /\ Answer(c, "lost", call[c].ret)
    /\ UNCHANGED <<clientVars, closing, serverVars>>

\* lseek64 gets the offset as the int32 field has it, and what it returns is
\* cut to an int32 in turn.
SeekHandler(c) ==
    LET s  == call[c].server
        r  == call[c].rfd
        to == Target(files[s][r].pos, Narrow(call[c].off), call[c].whence)
    IN
    /\ Request(c, "seek")
    /\ \/ /\ HasFile(s, r) /\ to \in Position
          /\ files' = [files EXCEPT ![s][r].pos = to]
          /\ Answer(c, "answered", Reported(files[s][r].path, Narrow(to)))
       \/ /\ ~(HasFile(s, r) /\ to \in Position)
          /\ Answer(c, "answered", Failed)
          /\ UNCHANGED files
    /\ UNCHANGED <<clientVars, closing, up, fd_to_path, cacheVars>>

\* Slip: the handler leaves the path of the closed descriptor recorded.
ForgetPathNot(s, rfd) == UNCHANGED fd_to_path

ForgetPath(s, rfd) == fd_to_path' = [fd_to_path EXCEPT ![s][rfd] = NoPath]

\* The handler closes whatever descriptor the message names, and queues the
\* path recorded for it unless that is cached.  (It also reads through an
\* uninitialized pointer after the close, which may end the process.)
CloseHandler(s, rfd) ==
    LET p == fd_to_path[s][rfd]
        cached == p # NoPath /\ path_cache_map[s][p]
    IN
    /\ up[s] /\ closing[s][rfd] > 0
    /\ closing' = [closing EXCEPT ![s][rfd] = @ - 1]
    /\ files' = IF HasFile(s, rfd)
                THEN [files EXCEPT ![s][rfd] = ClosedFile]
                ELSE files
    /\ \/ /\ cached \/ data_queue[s][p] < MaxQueued
          /\ data_queue' = IF cached THEN data_queue
                           ELSE [data_queue EXCEPT ![s][p] = @ + 1]
          /\ ForgetPath(s, rfd)
          /\ UNCHANGED up
       \/ /\ "hgi" \in Faults
          /\ Abort(s)
          /\ UNCHANGED <<data_queue, fd_to_path>>
    /\ UNCHANGED <<clientVars, call, path_cache_map>>

\* Slip: the copy is made but not entered in path_cache_map.
MoveFileUnpublished(s, p) ==
    /\ up[s] /\ data_queue[s][p] > 0
    /\ data_queue' = [data_queue EXCEPT ![s][p] = @ - 1]
    /\ UNCHANGED <<clientVars, call, closing, up, files, fd_to_path, path_cache_map>>

\* The data mover copies one queued file and publishes the copy; an entry
\* without a path, or a copy that throws, is dropped.
MoveFile(s, p) ==
    /\ up[s] /\ data_queue[s][p] > 0
    /\ data_queue' = [data_queue EXCEPT ![s][p] = @ - 1]
    /\ \/ /\ p # NoPath
          /\ path_cache_map' = [path_cache_map EXCEPT ![s][p] = TRUE]
       \/ /\ p = NoPath \/ "copy" \in Faults
          /\ UNCHANGED path_cache_map
    /\ UNCHANGED <<clientVars, call, closing, up, files, fd_to_path>>

-----------------------------------------------------------------------------
Application(c) ==
    \E fd \in Fds :
        \/ \E p \in Paths, mode \in {"read", "append"} : Open(c, fd, p, mode)
        \/ Read(c, fd) \/ Readv(c, fd)
        \/ \E off \in Position : Pread(c, fd, off)
        \/ \E seek \in Seeks : Seek(c, fd, seek[1], seek[2])
        \/ Close(c, fd)
        \/ Fclose(c, fd)

Callback(c) == FinishOpen(c) \/ FinishRead(c) \/ FinishSeek(c)

Handler(c) == \/ OpenHandler(c) \/ ReadHandler(c) \/ PreadHandler(c)
              \/ BulkCallback(c) \/ SeekHandler(c)

Next ==
    \/ \E c \in Clients : \/ Application(c) \/ Callback(c) \/ Handler(c)
                          \/ OpenTimeout(c) \/ CallbackAsserts(c) \/ ForwardAsserts(c)
                          \/ SeekUnanswered(c)
    \/ \E s \in Servers : \/ \E rfd \in RemoteFd : CloseHandler(s, rfd)
                          \/ \E p \in Paths \cup {NoPath} : MoveFile(s, p)

Spec == Init /\ [][Next]_vars

\* The progress threads keep triggering handlers and callbacks, and the data
\* mover loops for ever; the application and the environment need not act.
Fairness ==
    /\ \A c \in Clients : WF_vars(Handler(c)) /\ WF_vars(Callback(c))
    /\ \A s \in Servers :
          /\ \A rfd \in RemoteFd : WF_vars(CloseHandler(s, rfd))
          /\ \A p \in Paths \cup {NoPath} : WF_vars(MoveFile(s, p))

FairSpec == Spec /\ Fairness

-----------------------------------------------------------------------------
(* Safety.                                                                 *)

Opening(c, fd) == call[c].op = "open" /\ call[c].fd = fd

\* Descriptor r of server s stands for descriptor fd of client c: the answer
\* that names it is on its way to c, or c has entered it in its maps.
Held(c, fd, s, r) ==
    IF Opening(c, fd)
    THEN Opened(c) /\ s = call[c].server /\ r = call[c].ret
    ELSE Tracked(c, fd) /\ s = ModHost[fd_map[c][fd]] /\ r = fd_redir_map[c][fd]

Unheld(s, r) == \A c \in Clients, fd \in Fds : ~Held(c, fd, s, r)

\* A server descriptor a client relies on is open, on the file the client
\* tracks: no close RPC and no reuse of the number has come between (the
\* translation through fd_redir_map, hvac_comm_client.cpp:476 and 331).
HeldFilesOpen ==
    \A c \in Clients, fd \in Fds, s \in Servers, r \in RemoteFds :
        Held(c, fd, s, r) => files[s][r].path = fd_map[c][fd]

\* No two descriptors, of one client or of several, share a descriptor of a
\* server, and with it a position.
OneHolder ==
    \A c, d \in Clients, fd, ld \in Fds, s \in Servers, r \in RemoteFds :
        Held(c, fd, s, r) /\ Held(d, ld, s, r) => c = d /\ fd = ld

\* A close RPC in transit names a descriptor that is still open and that
\* nobody relies on, and no other close names it: the handler, which ignores
\* the result of close(), never closes a number that was given out again.
ClosesReleased ==
    \A s \in Servers, r \in RemoteFds : closing[s][r] > 0 =>
        /\ closing[s][r] = 1
        /\ files[s][r].path # NoPath
        /\ Unheld(s, r)

\* The path a server would queue when a descriptor is closed is the path of
\* the file it has open there.
RecordedPaths ==
    \A s \in Servers, r \in RemoteFds :
        up[s] => fd_to_path[s][r] = files[s][r].path

\* A request or a close never carries a descriptor that fd_redir_map does not
\* hold (operator[] would insert 0, which is the server's standard input).
TranslationKnown ==
    /\ \A c \in Clients : call[c].op \in {"read", "pread", "seek"} => call[c].rfd # Absent
    /\ \A s \in Servers : closing[s][Absent] = 0

\* An open in progress was sent to the modulo host of the tracked path, and
\* every tracked descriptor whose open is over has a translation.
OpensSent ==
    \A c \in Clients, fd \in Fds :
        /\ Opening(c, fd) => /\ Tracked(c, fd)
                             /\ call[c].server = ModHost[fd_map[c][fd]]
        /\ Tracked(c, fd) => Opening(c, fd) \/ fd_redir_map[c][fd] # Absent

\* The five properties above hold together, and only together with OpensSent
\* are they inductive.
Ownership ==
    /\ HeldFilesOpen /\ OneHolder /\ ClosesReleased /\ RecordedPaths
    /\ TranslationKnown /\ OpensSent

\* An answer of a server stands in c's call.  The callback of a seek never looks
\* whether there was one: if the server has died the result is what happened to
\* be in memory, and says nothing.
HasAnswer(c) == /\ call[c] # NoCall /\ call[c].ret \in Place
                /\ call[c].op = "seek" => up[call[c].server]

\* The position that c's call asks for.
Asked(c) ==
    LET want == local[c][call[c].fd].want IN
    CASE call[c].op = "read"  -> want
      [] call[c].op = "pread" -> call[c].off
      [] call[c].op = "seek"  -> Target(want, call[c].off, call[c].whence)

\* What a server answers is what the file itself would have answered: a read
\* the block at the application's position, a pread that at its offset, a seek
\* the position it leads to, if the kernel would have gone there, each of the
\* file the application opened (hvac_remote_read and its siblings,
\* hvac_client.cpp:189-336).
AnswersRight ==
    \A c \in Clients : HasAnswer(c) =>
        /\ call[c].ret = [path |-> local[c][call[c].fd].path, pos |-> Asked(c)]
        /\ Asked(c) \in Position

\* A descriptor that is not tracked is read at its local position: that must
\* be the position the application expects, whatever was read remotely before.
PositionsRight ==
    \A c \in Clients, fd \in Fds :
        alive[c] /\ IsOpen(c, fd) /\ ~Tracked(c, fd) => local[c][fd].pos = local[c][fd].want

\* A server closes a descriptor only when no client relies on it any more.
ClosesOnlyUnheld ==
    [][\A s \in Servers, r \in RemoteFds :
         files[s][r].path # NoPath /\ files'[s][r].path = NoPath => Unheld(s, r)]_vars

\* The cache of server s as CacheSpec has it, which knows nothing of clients
\* and descriptors: the same promise that the threads of ServerCache keep.
Cache(s) == INSTANCE CacheSpec WITH
    cached  <- {p \in Paths : path_cache_map[s][p]},
    pending <- [p \in Paths |-> data_queue[s][p]],
    MayFail <- "copy" \in Faults

\* A close of a file queues it at its server, once, unless it is cached there,
\* and what is queued is cached or given up (hvac_comm.cpp:584-595).
ServersCache ==
    /\ \A s \in Servers : Cache(s)!CacheInit
    /\ [][\A s \in Servers : [Cache(s)!CacheNext]_(Cache(s)!cacheVars)]_vars

\* A descriptor stands where its next read will take place: at its server, if
\* the file was opened there, else locally.
AtServer(c, fd) ==
    Tracked(c, fd) /\ ~Opening(c, fd) /\ fd_redir_map[c][fd] \in RemoteFds
Standing(c, fd) ==
    IF AtServer(c, fd) THEN files[ModHost[fd_map[c][fd]]][fd_redir_map[c][fd]].pos
                       ELSE local[c][fd].pos

\* A call as the application knows it: the number of an open is not for it.
Doing(c) ==
    IF call[c] = NoCall THEN NoCall
    ELSE [op |-> call[c].op, fd |-> call[c].fd, off |-> call[c].off, whence |-> call[c].whence,
          answer |-> IF call[c].op = "open" THEN Pending ELSE call[c].ret]

Shown(c, fd) == [path |-> local[c][fd].path, pos |-> Standing(c, fd)]

Descriptors == [c \in Clients |-> [fd \in Fds |-> Shown(c, fd)]]
CallsMade   == [c \in Clients |-> Doing(c)]
LostFiles   == {p \in Paths : ~up[ModHost[p]]}

Plain == INSTANCE PlainFiles WITH
    Garbage <- Number,
    opened <- Descriptors, doing <- CallsMade, lost <- LostFiles,
    MayLosePosition <- "pread" \in Faults

\* The application sees its own descriptors and its own files, as if it read
\* them itself: no other client, no descriptor number of a server and no close
\* on its way shows, and a fallback to the local descriptor loses no position,
\* but for that of a pread that fails at a server that lives
\* (the read path of wrappers.c, hvac_client.cpp and hvac_comm.cpp:380-594).
Transparent == Plain!FilesSpec

-----------------------------------------------------------------------------
(* Liveness.                                                               *)

\* A file whose close is on its way to a server that lives is cached there.
ClosedFilesCached ==
    \A s \in Servers, p \in Paths :
        (\E r \in RemoteFds : closing[s][r] > 0 /\ files[s][r].path = p)
            ~> (path_cache_map[s][p] \/ ~up[s])

\* A forwarded call returns, unless its client exits or its server aborts (for
\* which a read then waits without a timeout, hvac_comm_client.cpp:275).
CallsReturn ==
    \A c \in Clients :
        call[c] # NoCall ~> (call[c] = NoCall \/ ~alive[c] \/ ~up[call[c].server])

-----------------------------------------------------------------------------
(* What comments and assertions of the code say and some instance refutes. *)

\* hvac_client.cpp:255: "We must know the remote FD to avoid collision on the
\* remote side": an answer is about the file that the application opened.
AvoidsCollision ==
    \A c \in Clients : HasAnswer(c) => call[c].ret.path = local[c][call[c].fd].path

\* hvac_comm.cpp:436: assert(ret == 0), the bulk transfer of a sequential read
\* is always accepted.
TransferAccepted ==
    \A c \in Clients :
        call[c].op = "read" /\ call[c].stage = "sent" => up[call[c].server]

\* hvac_client.cpp:242: "Non-HVAC Reads come from base": only the descriptor of
\* a file below the data directory is read remotely.
NonHvacReadsFromBase ==
    \A c \in Clients :
        call[c].op = "read" => local[c][call[c].fd].path \in DataDir

==============================================================================
