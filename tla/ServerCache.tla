---------------------------- MODULE ServerCache ----------------------------
(***************************************************************************)
(* One HVAC server at the granularity of its locks: the progress thread,   *)
(* which runs the open and close handlers one after the other, and the     *)
(* data mover, which copies closed files to the local NVMe.  They share    *)
(* path_cache_map (under path_map_mutex) and data_queue (under data_mutex  *)
(* and data_cond).  Files can be overwritten on the parallel file system   *)
(* at any time: the write wrapper passes every write through.              *)
(*                                                                         *)
(* A "slip" is a variant of the definition after it with a plausible bug;  *)
(* it only serves to show that the properties would notice the bug.        *)
(*                                                                         *)
(* One action is one stretch of code between two points where the other    *)
(* thread can see or stop it: taking a lock belongs to the stretch that    *)
(* follows it, releasing one is a step of its own.                         *)
(***************************************************************************)
EXTENDS Naturals, FiniteSets, Sequences

CONSTANTS
    Paths, NoPath,  \* NoPath: the "" that fd_to_path holds for no descriptor
    Fds, NoFd,      \* bound: descriptors of the server
    Copies, NoCopy, \* bound: directories that mkdtemp has names for
    MaxQueue,       \* bound: length of data_queue
    MaxVersion,     \* bound: how often a file is overwritten
    CopyFails,      \* may fs::copy throw for a file that exists?
    Free            \* the owner of a mutex nobody holds

Threads == {"progress", "mover"}

ASSUME ServerCacheAssumption ==
    /\ NoPath \notin Paths /\ NoFd \notin Fds /\ NoCopy \notin Copies
    /\ Free \notin Threads
    /\ MaxQueue \in Nat /\ MaxVersion \in Nat
    /\ CopyFails \in BOOLEAN

VARIABLES
    rpc,            \* the handler the progress thread is in, and where
    mover,          \* where the data mover is
    path_map_mutex, data_mutex,
    signalled,      \* data_cond was signalled while the mover waited on it
    data_queue, local_list,
    path_cache_map,
    fd_to_path,
    opened,         \* the copy a descriptor reads; NoCopy: the file itself
    version,        \* of each file on the parallel file system
    copies,         \* the files in the mover's directories, in two halves
    newdir          \* the directory of the copy in progress

progressVars == <<rpc, fd_to_path, opened>>
moverVars    == <<mover, local_list, copies, newdir>>
lockVars     == <<path_map_mutex, data_mutex>>
vars == <<progressVars, moverVars, lockVars, signalled, data_queue,
          path_cache_map, version>>

Files   == Paths \cup {NoPath}
Version == 0 .. MaxVersion
Idle    == [at |-> "idle", path |-> NoPath, fd |-> NoFd, redir |-> NoCopy]
NoFile  == [path |-> NoPath, halves |-> << >>]

TypeOK ==
    /\ rpc \in [at : {"idle", "open", "open_unlock", "open_file", "close",
                      "close_check", "close_push", "close_signal",
                      "close_unlock_data", "close_unlock"},
                path : Files, fd : Fds \cup {NoFd}, redir : Copies \cup {NoCopy}]
    /\ mover \in {"lock", "check", "waiting", "unlock", "copy", "copying",
                  "publish", "publish_unlock", "pop"}
    /\ path_map_mutex \in Threads \cup {Free}
    /\ data_mutex \in Threads \cup {Free}
    /\ signalled \in BOOLEAN
    /\ data_queue \in Seq(Files) /\ local_list \in Seq(Files)
    /\ path_cache_map \in [Files -> Copies \cup {NoCopy}]
    /\ fd_to_path \in [Fds -> Files]
    /\ opened \in [Fds -> Copies \cup {NoCopy}]
    /\ version \in [Paths -> Version]
    /\ copies \in [Copies -> [path : Files, halves : Seq(Version)]]
    /\ newdir \in Copies \cup {NoCopy}

Init ==
    /\ rpc = Idle /\ mover = "lock"
    /\ path_map_mutex = Free /\ data_mutex = Free /\ signalled = FALSE
    /\ data_queue = << >> /\ local_list = << >>
    /\ path_cache_map = [p \in Files |-> NoCopy]
    /\ fd_to_path = [fd \in Fds |-> NoPath]
    /\ opened = [fd \in Fds |-> NoCopy]
    /\ version = [p \in Paths |-> 0]
    /\ copies = [d \in Copies |-> NoFile]
    /\ newdir = NoCopy

-----------------------------------------------------------------------------
(* The progress thread: one handler at a time.                             *)

Goto(at) == rpc' = [rpc EXCEPT !.at = at]

\* Mercury triggers the handler of the next request.  A close may name any
\* descriptor, also one that the server does not know.
OpenArrives(p) ==
    /\ rpc = Idle
    /\ \E fd \in Fds : fd_to_path[fd] = NoPath
    /\ rpc' = [Idle EXCEPT !.at = "open", !.path = p]
    /\ UNCHANGED <<fd_to_path, opened, moverVars, lockVars, signalled, data_queue,
                   path_cache_map, version>>

CloseArrives(fd) ==
    /\ rpc = Idle
    /\ rpc' = [Idle EXCEPT !.at = "close", !.fd = fd]
    /\ UNCHANGED <<fd_to_path, opened, moverVars, lockVars, signalled, data_queue,
                   path_cache_map, version>>

\* The path is redirected to its copy, if path_cache_map names one.
OpenLookup ==
    /\ rpc.at = "open"
    /\ path_map_mutex = Free /\ path_map_mutex' = "progress"
    /\ rpc' = [rpc EXCEPT !.at = "open_unlock", !.redir = path_cache_map[rpc.path]]
    /\ UNCHANGED <<fd_to_path, opened, moverVars, data_mutex, signalled, data_queue,
                   path_cache_map, version>>

OpenUnlock ==
    /\ rpc.at = "open_unlock" /\ Goto("open_file")
    /\ path_map_mutex' = Free
    /\ UNCHANGED <<fd_to_path, opened, moverVars, data_mutex, signalled, data_queue,
                   path_cache_map, version>>

\* Slip: the redirected path is recorded instead of the file's own.
OpenFileRecordsCopy ==
    /\ rpc.at = "open_file" /\ rpc' = Idle
    /\ \E fd \in Fds :
          /\ fd_to_path[fd] = NoPath
          /\ fd_to_path' = [fd_to_path EXCEPT ![fd] =
                IF rpc.redir = NoCopy THEN rpc.path ELSE rpc.redir]
          /\ opened' = [opened EXCEPT ![fd] = rpc.redir]
    /\ UNCHANGED <<moverVars, lockVars, signalled, data_queue, path_cache_map, version>>

\* The file is opened outside the lock.  (A failed open only changes
\* fd_to_path[-1], which RemoteFiles models.)
OpenFile ==
    /\ rpc.at = "open_file" /\ rpc' = Idle
    /\ \E fd \in Fds :
          /\ fd_to_path[fd] = NoPath
          /\ fd_to_path' = [fd_to_path EXCEPT ![fd] = rpc.path]
          /\ opened' = [opened EXCEPT ![fd] = rpc.redir]
    /\ UNCHANGED <<moverVars, lockVars, signalled, data_queue, path_cache_map, version>>

\* close() comes before any lock.
CloseFile ==
    /\ rpc.at = "close" /\ Goto("close_check")
    /\ opened' = [opened EXCEPT ![rpc.fd] = NoCopy]
    /\ UNCHANGED <<fd_to_path, moverVars, lockVars, signalled, data_queue,
                   path_cache_map, version>>

\* Bounds: the queue is not full, and every entry will find a directory.
Room ==
    /\ Len(data_queue) < MaxQueue
    /\ Len(data_queue) + Len(local_list) < Cardinality({d \in Copies : copies[d] = NoFile})

\* Slip: a path is queued whether it is cached or not.
AlwaysUncached(p) == TRUE

Uncached(p) == path_cache_map[p] = NoCopy

\* Slip: the check is made under the lock, the push after giving it up.
CloseCheckThenUnlock ==
    /\ rpc.at = "close_check"
    /\ path_map_mutex = Free
    /\ \/ Uncached(fd_to_path[rpc.fd]) /\ Room /\ Goto("close_push")
       \/ ~Uncached(fd_to_path[rpc.fd]) /\ Goto("close_unlock")
    /\ UNCHANGED <<fd_to_path, opened, moverVars, lockVars, signalled, data_queue,
                   path_cache_map, version>>

\* The path of the descriptor is queued unless it is cached; path_map_mutex is
\* held from this check until after the push.
CloseCheck ==
    /\ rpc.at = "close_check"
    /\ path_map_mutex = Free /\ path_map_mutex' = "progress"
    /\ \/ Uncached(fd_to_path[rpc.fd]) /\ Room /\ Goto("close_push")
       \/ ~Uncached(fd_to_path[rpc.fd]) /\ Goto("close_unlock")
    /\ UNCHANGED <<fd_to_path, opened, moverVars, data_mutex, signalled, data_queue,
                   path_cache_map, version>>

ClosePush ==
    /\ rpc.at = "close_push" /\ Goto("close_signal")
    /\ data_mutex = Free /\ data_mutex' = "progress"
    /\ data_queue' = Append(data_queue, fd_to_path[rpc.fd])
    /\ UNCHANGED <<fd_to_path, opened, moverVars, path_map_mutex, signalled,
                   path_cache_map, version>>

\* A signal wakes the mover if it waits, and is lost otherwise.
CloseSignal ==
    /\ rpc.at = "close_signal" /\ Goto("close_unlock_data")
    /\ signalled' = (signalled \/ mover = "waiting")
    /\ UNCHANGED <<fd_to_path, opened, moverVars, lockVars, data_queue,
                   path_cache_map, version>>

CloseUnlockData ==
    /\ rpc.at = "close_unlock_data" /\ Goto("close_unlock")
    /\ data_mutex' = Free
    /\ UNCHANGED <<fd_to_path, opened, moverVars, path_map_mutex, signalled, data_queue,
                   path_cache_map, version>>

\* The handler's last steps: no other thread uses fd_to_path.
CloseUnlock ==
    /\ rpc.at = "close_unlock" /\ rpc' = Idle
    /\ path_map_mutex' = Free
    /\ fd_to_path' = [fd_to_path EXCEPT ![rpc.fd] = NoPath]
    /\ UNCHANGED <<opened, moverVars, data_mutex, signalled, data_queue,
                   path_cache_map, version>>

OpenHandler  == OpenLookup \/ OpenUnlock \/ OpenFile
CloseHandler == \/ CloseFile \/ CloseCheck \/ ClosePush \/ CloseSignal
                \/ CloseUnlockData \/ CloseUnlock

-----------------------------------------------------------------------------
(* The data mover.                                                         *)

MoverLock ==
    /\ mover = "lock" /\ mover' = "check"
    /\ data_mutex = Free /\ data_mutex' = "mover"
    /\ UNCHANGED <<progressVars, local_list, copies, newdir, path_map_mutex, signalled,
                   data_queue, path_cache_map, version>>

\* Slip: the mover waits without looking at the queue.
MoverWaitUnchecked ==
    /\ mover = "check" /\ mover' = "waiting"
    /\ data_mutex' = Free
    /\ UNCHANGED <<progressVars, local_list, copies, newdir, path_map_mutex, signalled,
                   data_queue, path_cache_map, version>>

\* pthread_cond_wait gives the mutex up and enters the wait set at once.
MoverWait ==
    /\ mover = "check" /\ mover' = "waiting"
    /\ data_queue = << >>
    /\ data_mutex' = Free
    /\ UNCHANGED <<progressVars, local_list, copies, newdir, path_map_mutex, signalled,
                   data_queue, path_cache_map, version>>

\* It returns with the mutex, after a signal or spuriously.
MoverWake ==
    /\ mover = "waiting" /\ mover' = "check"
    /\ data_mutex = Free /\ data_mutex' = "mover"
    /\ signalled' = FALSE
    /\ UNCHANGED <<progressVars, local_list, copies, newdir, path_map_mutex,
                   data_queue, path_cache_map, version>>

MoverDrain ==
    /\ mover = "check" /\ mover' = "unlock"
    /\ data_queue # << >>
    /\ local_list' = local_list \o data_queue
    /\ data_queue' = << >>
    /\ UNCHANGED <<progressVars, copies, newdir, lockVars, signalled, path_cache_map,
                   version>>

\* Slip: the mover copies and publishes with data_mutex locked.
MoverKeepsLock ==
    /\ mover = "unlock" /\ mover' = "copy"
    /\ UNCHANGED <<progressVars, local_list, copies, newdir, lockVars, signalled,
                   data_queue, path_cache_map, version>>

MoverUnlock ==
    /\ mover = "unlock" /\ mover' = "copy"
    /\ data_mutex' = Free
    /\ UNCHANGED <<progressVars, local_list, copies, newdir, path_map_mutex, signalled,
                   data_queue, path_cache_map, version>>

\* Slip: a directory that holds a copy is taken again.
AnyDirectory == Copies

\* mkdtemp makes a directory that did not exist.
NewDirectories == {d \in Copies : copies[d] = NoFile}

\* Slip: the copy is published before it is complete.
CopyOnlyStarted ==
    /\ mover = "copy" /\ Head(local_list) # NoPath /\ mover' = "publish"
    /\ \E d \in NewDirectories :
          /\ newdir' = d
          /\ copies' = [copies EXCEPT ![d] =
                [path |-> Head(local_list), halves |-> <<version[Head(local_list)]>>]]
    /\ UNCHANGED <<progressVars, local_list, lockVars, signalled, data_queue,
                   path_cache_map, version>>

\* Every copy is made in a directory of its own.  Copying the empty path
\* throws, and so may any other copy; what was copied stays on the NVMe.
CopyStart ==
    /\ mover = "copy"
    /\ \E d \in NewDirectories :
          \/ /\ Head(local_list) # NoPath /\ mover' = "copying"
             /\ newdir' = d
             /\ copies' = [copies EXCEPT ![d] =
                   [path |-> Head(local_list), halves |-> <<version[Head(local_list)]>>]]
          \/ /\ Head(local_list) = NoPath \/ CopyFails
             /\ mover' = "pop"
             /\ UNCHANGED <<newdir, copies>>
    /\ UNCHANGED <<progressVars, local_list, lockVars, signalled, data_queue,
                   path_cache_map, version>>

CopyRest ==
    /\ mover = "copying"
    /\ \/ /\ mover' = "publish"
          /\ copies' = [copies EXCEPT ![newdir].halves =
                           Append(@, version[Head(local_list)])]
       \/ /\ CopyFails /\ mover' = "pop"
          /\ UNCHANGED copies
    /\ UNCHANGED <<progressVars, local_list, newdir, lockVars, signalled, data_queue,
                   path_cache_map, version>>

Publish ==
    /\ mover = "publish" /\ mover' = "publish_unlock"
    /\ path_map_mutex = Free /\ path_map_mutex' = "mover"
    /\ path_cache_map' = [path_cache_map EXCEPT ![Head(local_list)] = newdir]
    /\ UNCHANGED <<progressVars, local_list, copies, newdir, data_mutex, signalled,
                   data_queue, version>>

PublishUnlock ==
    /\ mover = "publish_unlock" /\ mover' = "pop"
    /\ path_map_mutex' = Free
    /\ UNCHANGED <<progressVars, local_list, copies, newdir, data_mutex, signalled,
                   data_queue, path_cache_map, version>>

MoverPop ==
    /\ mover = "pop"
    /\ local_list' = Tail(local_list)
    /\ newdir' = NoCopy
    /\ mover' = IF Len(local_list) = 1 THEN "lock" ELSE "copy"
    /\ UNCHANGED <<progressVars, copies, lockVars, signalled, data_queue,
                   path_cache_map, version>>

Mover == \/ MoverLock \/ MoverWait \/ MoverWake \/ MoverDrain \/ MoverUnlock
         \/ CopyStart \/ CopyRest \/ Publish \/ PublishUnlock \/ MoverPop

\* Somebody overwrites a file where it really lives.
Overwrite(p) ==
    /\ version[p] < MaxVersion
    /\ version' = [version EXCEPT ![p] = @ + 1]
    /\ UNCHANGED <<progressVars, moverVars, lockVars, signalled, data_queue,
                   path_cache_map>>

Next ==
    \/ \E p \in Paths : OpenArrives(p) \/ Overwrite(p)
    \/ \E fd \in Fds : CloseArrives(fd)
    \/ OpenHandler \/ CloseHandler \/ Mover

Spec == Init /\ [][Next]_vars

\* Both threads run, and a thread whose mutex is free time and again gets it.
\* Without a signal nothing makes the mover wake up.
FairSpec ==
    /\ Spec
    /\ SF_vars(OpenHandler) /\ SF_vars(CloseHandler)
    /\ SF_vars(Mover /\ (mover = "waiting" => signalled))

-----------------------------------------------------------------------------
(* What the server's threads must keep.                                    *)

\* The mover sleeps beside a filled queue only while the close handler that
\* filled it is about to signal.
NoLostWakeup ==
    mover = "waiting" /\ data_queue # << >> => signalled \/ rpc.at = "close_signal"

\* The two threads never wait for each other's mutex: the mover wants
\* path_map_mutex only when it does not hold data_mutex.
NoCircularWait ==
    ~ /\ rpc.at = "close_push" /\ data_mutex = "mover"
      /\ mover = "publish" /\ path_map_mutex = "progress"

\* Only a complete copy of that very file is ever published, and an open that
\* is redirected reads a copy of the path the descriptor is known by.
IsCopyOf(d, p) == d # NoCopy => copies[d].path = p /\ Len(copies[d].halves) = 2

CopiesWhole ==
    /\ \A p \in Paths : IsCopyOf(path_cache_map[p], p)
    /\ \A fd \in Fds : IsCopyOf(opened[fd], fd_to_path[fd])

\* What has been published stays as it is, whatever happens to the file it was
\* copied from and however often that file is queued again.
CopiesFrozen ==
    [][\A p \in Paths : path_cache_map[p] # NoCopy =>
         copies'[path_cache_map[p]] = copies[path_cache_map[p]]]_vars

Entries(p) == Cardinality({i \in DOMAIN data_queue : data_queue[i] = p})
            + Cardinality({i \in DOMAIN local_list : local_list[i] = p})

\* Once a file is cached and its last entry is worked off, every later open of
\* it is redirected to the same copy.
CachedSettled ==
    [][\A p \in Paths : path_cache_map[p] # NoCopy /\ Entries(p) = 0 =>
         path_cache_map'[p] = path_cache_map[p] /\ Entries(p)' = 0]_vars

\* The lock-level server implements the promise of CacheSpec.  An entry counts
\* as worked off as soon as its file is published.
Pending(p) == IF mover \in {"publish_unlock", "pop"} /\ Head(local_list) = p /\ newdir # NoCopy
                 /\ path_cache_map[p] = newdir
              THEN Entries(p) - 1
              ELSE Entries(p)

Cache == INSTANCE CacheSpec WITH
             cached  <- {p \in Paths : path_cache_map[p] # NoCopy},
             pending <- [p \in Paths |-> Pending(p)],
             MayFail <- CopyFails

ImplementsCache == Cache!CacheSpec
=============================================================================
