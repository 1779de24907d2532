# A TLA+ model of HVAC

HVAC is a read-only cache for deep-learning training. A library is preloaded
into every training process and intercepts its file calls; files below
`HVAC_DATA_DIR` are opened and read by servers, one per compute node, which copy
every closed file to their node-local NVMe and serve it from there the next
time. Processes and servers talk through Mercury RPCs.

This directory holds TLA+ modules that model the code, TLC configurations that
check them on small instances, and proofs that TLAPS checks. Line numbers refer
to the repository (`src/` in `PROJECT.json` is its root).

## The system's parts

| Part | State | Operations | Talks to |
|---|---|---|---|
| Wrappers (`wrappers.c`) | none | `open`, `fopen`, `close`, `read`, `pread`, `lseek` go to the library and fall back to libc; `readv`, `read64` and `write` only log; `fclose` and `mmap` are compiled out | client library |
| Client library (`hvac_client.cpp`) | `fd_map` (tracked descriptor to path), `fd_redir_map` (local to server descriptor), `g_mercury_init`, `hashRing` | `hvac_track_file`, `hvac_remote_read`, `_pread`, `_lseek`, `_close`, `hvac_remove_fd` | client RPCs; the fallback is the local descriptor every tracked file has as well |
| Client RPCs (`hvac_comm_client.cpp`) | per-call flags in the caller's stack frame; the global `done`, `read_ret`, `done_mutex`, `done_cond`; `address_cache`; `timeout_counters` | `..._gen_open/read/seek/close_rpc`, their callbacks, `hvac_client_block`, `hvac_read_block`, `hvac_seek_block` | server handlers by Mercury; its own progress thread runs the callbacks |
| Server handlers (`hvac_comm.cpp`) | the process's descriptors, `fd_to_path` | open, read and pread, bulk callback, seek, close | share `path_cache_map` and `data_queue` with the mover |
| Data mover (`hvac_data_mover.cpp`) | `data_queue`, a local list, `path_cache_map`, the NVMe directories | one loop: wait, take the queue, copy, publish | close handler (condition variable), open handler (the published map) |
| Mercury glue (`hvac_comm.cpp`) | class, context, shutdown flag | the progress thread triggers one handler or callback after the other | everything |
| Server start, address directory (`hvac_server.cpp`, `hvac_comm.cpp`) | `.ports.cfg.<job>`, one line appended per server | publish, look up | clients read the file |
| Hash ring (`hvac_hashing.h`) | virtual nodes in a sorted map | `AddNode`, `RemoveNode`, `GetNode` | client library |
| Failure detector (`hvac_client.cpp`, `hvac_comm_client.cpp`) | `timeout_counters`, `failure_flags` | a limit of timeouts takes a node off the ring | ring |

What is hard here, and what makes each part correct:

* **Descriptors travel.** Three tables describe one open file (the client's
  kernel and maps, the server's kernel, the server's `fd_to_path`), related only
  by numbers that both kernels reuse at once. `close` sends an RPC nobody waits
  for. Correct: a translated number always denotes the file it was given out
  for, for one holder only, until that holder closes it.
* **Two routing functions.** `open` and `read` use `std::hash(path) % n`;
  `pread`, `lseek` and `close` use the hash ring. Correct: a request reaches the
  server that opened the descriptor.
* **Fallbacks.** A failed remote read is repeated on a local descriptor whose
  position never moved. Correct: the application cannot tell.
* **Waiting.** Callers sleep on conditions that callbacks signal through
  pointers into the caller's stack. Correct: no wake-up is lost, no callback
  writes to a frame that is gone, nobody gets another call's answer, everybody
  returns.
* **Copying.** Two server threads use two mutexes and a condition. Correct:
  every closed file gets copied, only whole copies are ever opened, no deadlock.
* **Failures.** Time-outs, aborting assertions and unanswered RPCs. Correct:
  what the documentation promises about them.
* **Removing a server.** Threads look hosts up in the ring without a lock while
  another erases points one by one. Correct: only a server with
  `TIMEOUT_LIMIT` timeouts goes, all of it and nothing else, and paths of the
  others keep their route.
* **Starting.** Servers publish their address before they can answer, the
  address file keeps the lines of dead servers, and a client initializes itself
  under an unguarded flag in the middle of its first open. Correct: if servers
  start first, the first open works; in any case it ends.

`PROJECT.json` lists the hazards line by line with the properties that cover
them.

## The modules

### RemoteFiles: the descriptor protocol

RPC granularity: each intercepted call, handler and callback is one action.

| State | Code |
|---|---|
| `local[c][fd]` | the client's kernel descriptor: file and position, and `want`, the position an application that knows nothing of HVAC believes in (a specification variable) |
| `fd_map`, `fd_redir_map` | the maps of `hvac_client.cpp`; `Absent` is a missing key |
| `call[c]` | the call the client is blocked in, with the RPC's fields and how far it is: `sent`, `moving` (bulk transfer), `lost` (no answer will come), `answered` |
| `closing[s][r]` | close RPCs in transit: a bag, as they may be reordered |
| `files`, `fd_to_path`, `path_cache_map`, `data_queue`, `up` | a server's kernel descriptors, the maps of `hvac_comm.cpp` and `hvac_data_mover.cpp`, and whether its process lives |

`Open`, `Read`, `Readv`, `Pread`, `Seek`, `Close` and `Fclose` are the
application's calls through `wrappers.c` as far as the point where they block;
`FinishOpen`, `FinishRead` and `FinishSeek` are the callback together with the
rest of the call, fallback to libc included; `OpenHandler`, `ReadHandler`,
`PreadHandler`, `BulkCallback`, `SeekHandler` and `CloseHandler` are the
server's; `MoveFile` is one round of the data mover, seen from outside.
`OpenTimeout`, `ForwardAsserts` (the assertions behind each `HG_Forward`),
`CallbackAsserts` and `SeekUnanswered` are what happens to calls when servers
are slow or dead. `Faults` names the system calls that may fail. `Readv` stands
for `readv` and `read64` alike: both wrappers only log and call libc.

A seek carries its offset and whence to the server as the code does. The offset
is cut to an `int` on its way (`hvac_client.cpp:303`, `hvac_comm.h:92`), the
server applies it to its own position or the end of the file, and what `lseek64`
returns is cut to an `int32` again (`hvac_comm.h:91`); -1 then reads as a
failure. `Target` is the position asked for, `MaxPosition` what the kernel
still accepts. `Near` names the seeks that come out right: from the beginning,
offsets below 4 GiB (from 2 GiB on they arrive negative and are refused); from
the current position or the end, positions below 2 GiB. The code does not keep to
them. `lseek(fd, 0, SEEK_END)` on a file of 3 GiB moves the server's descriptor to
the end and reports a negative number; `SEEK_CUR` by 3 GiB goes backwards by one.
`FarSeeks` says whether an application does such things, and where it does, only
ownership is claimed.

A file is a sequence of blocks and a read returns one, so an answer is a file
and a position; `FileSize` stands for the end of the file. That a read returns
its block is the kernel's business. The actual bytes, `errno` and the Mercury
buffers are left out. Descriptor -1 is `Failed`.

Three families of properties: *ownership* (`HeldFilesOpen`, `OneHolder`,
`ClosesReleased`, `RecordedPaths`, `TranslationKnown`, `OpensSent`, and the step
property `ClosesOnlyUnheld`), *transparency* (`AnswersRight`,
`PositionsRight` and the refinement `Transparent`), and what comes of calls and
closes (`ServersCache`, `ClosedFilesCached`, `CallsReturn`). `ServersCache` says
that each server is a `CacheSpec` (below): here with clients that close over the
network, in `ServerCache` with the locks.

### PlainFiles: what the application may expect

`PlainFiles` is the abstract specification of the whole: processes that open,
read, seek and close files of their own, without servers, messages or a second
table of descriptors. A seek moves to the position that offset and whence name
and returns it, whatever its size. What may show of a failing server is an action
each: a seek or pread that is refused, a seek that returns any number at all
(`Garbage`) once its file's server has ended, a process that exits while it waits
or when it calls for a file that is lost, and, if preads can fail, a position
lost with one (`MayLosePosition`). `Transparent` says that `RemoteFiles` implements it:

| `PlainFiles` | `RemoteFiles` |
|---|---|
| `alive` | `alive` |
| `opened[c][fd]` | the file of `local[c][fd]`; its position is the one the *server's* descriptor stands at if the file was opened there (`AtServer`), else the local one |
| `doing[c]` | `call[c]` without server, server descriptor and stage, and without the number an open answers |
| `lost` | the files whose modulo host has ended |
| `Garbage` | `Number`, what an uninitialized `int32` may hold |
| `MayLosePosition` | `"pread"` is among the `Faults` |

A read thus takes place when its handler moves the server's descriptor. The
open handler, the bulk callback, the data mover and the close handler are
invisible; a server that aborts is `Lose`. Nothing here refers to `want`: the
claim is about the two descriptor tables themselves.

### ServerCache and CacheSpec: the threads of one server

`ServerCache` opens up what `RemoteFiles` takes as atomic: `rpc` is where the
progress thread is in the open or close handler, `mover` where the data mover is,
and every lock, unlock, wait and signal of `path_map_mutex`, `data_mutex` and
`data_cond` is visible. Files may be overwritten between the two halves of a
copy (`Overwrite`: the `write` wrapper passes through). `CacheSpec` is what a
server promises, without threads: `cached` files and a number of `pending`
entries. `ImplementsCache` is the refinement, safety and liveness: `cached` is
the domain of `path_cache_map`, `pending` counts the entries in `data_queue` and
the mover's list, less the one whose copy has just been published.

### CallWait and BlockingCall: waiting in a client

`CallWait` opens up `call` of `RemoteFiles`: threads, the mutex, flag, condition
and result each call waits on (a *slot*: the thread's own stack frame, or the
process-wide one for a seek), and the progress thread's callbacks statement by
statement. `ForwardAsserts` is `HG_Forward` reporting a dead server to its caller,
`CallbackAsserts` Mercury reporting it to a callback. `BlockingCall` is the promise: a call returns once, with the answer
to its own request or a failure, unless the process exits or the server dies.
`Answers` and `Reliable` name the exceptions: a thread that seeks beside another,
or seeks at a server that died, may get any answer (the callback looks at neither
return code, `hvac_comm_client.cpp:51`). `ImplementsCalls` is the refinement with
the identity on `alive`, `serverUp`, `request` and `result`.

### Ring and HashRing: the consistent hash ring

`Ring` has the values and operators of `hvac_hashing.h`: `VirtualName` (what is
hashed for a replica), `Point`, `With` (`AddNode`), `Without` (`RemoveNode`),
`GetNode`. A ring is a function from points to servers; an insertion overwrites
and a removal erases a point whoever has it, as `std::map` does. `Hash` and
`KeyHash` are arbitrary functions, constants of the module. A virtual node's
name is the server's with the replica's number behind it, so names are numbers
here: `server1` with replica 10 and `server11` with replica 0 have one name.
`HashRing` is the object as a state machine; `members` are the servers that were
added and not removed. `AdjacentNodes` is called by nothing and left out.

### Failover: the failure detector

The threads of one client process share `timeout_counters`, `failure_flags`,
`fd_map` and the ring.

| State | Code |
|---|---|
| `process`, `added`, `ring_` | `initialize_hash_ring`; `"ended"` after `exit`, an assertion or an exception |
| `timeout_counters`, `failure_flags`, `timeout_mutex` | the globals of `hvac_client.cpp` |
| `fd_map`, `local` | tracked paths; the file the kernel has open under a descriptor |
| `stale` | a history variable: descriptors closed inside libc while `fd_map` had them, until they are opened below the data directory or closed by `close` |
| `thread[t]` | the call a thread is in, the host it looked up, and, while it removes a server, the next replica to erase |
| `health[h]` | a server serves, fails its reads, or is dead |

`Open`, `OpenAnswered`, `OpenTimesOut` and `Shutdown` follow an open from the
modulo host to `exit(-1)`. `Begin`, `Lookup`, `Check`, `RemoveReplica`,
`FinishRemoval`, `Answered` and `Unanswered` follow the other calls, with a step
wherever another thread can come between: the check of `fd_map`, the lookup
without a lock, the check under `timeout_mutex`, each point erased, the answer.
`Fclose` is a close inside libc, which no wrapper sees (`wrappers.c:348`): the
kernel forgets the descriptor and `fd_map` does not, so that a later file of the
same number is taken for the old one (finding `stale`). `PathsKept` therefore
excepts the descriptors of `stale`, and no others: it says that otherwise `fd_map`
has the file's own path or, once a server has failed or an open timed out
(`Disturbed`), none or the empty one. `Unanswered` covers the assertions of the
callbacks and those behind `HG_Forward`.
`LookupFails` is a lookup beside an erasure going wrong. `SharedRing` shows that
what the threads see is a `HashRing`, where a removal happens at once.

### Startup: servers and clients coming up

| State | Code |
|---|---|
| `phase[h]`, `starts[h]` | how far `hvac_start_comm_server` is, and how often the server was started |
| `ports` | the lines of `.ports.cfg` |
| `inits`, `hg_class`, `hg_context`, `registered`, `g_mercury_init` | who called `HG_Init`, the globals, the classes in which RPCs are registered, the flag |
| `onRing` | the servers on the ring that `hashRing` points to |
| `address_cache`, `thread[t]` | cached addresses; how far a thread's open is and the class, address and context it uses |
| `ordered` | a specification variable: all servers serve before the first open, and none stops once it is started |

`StartServer`, `ListAddress`, `RegisterServer` and `CrashServer` are a server's
life. `Begin` to `OpenTimesOut` are `hvac_track_file` with initialization,
address lookup and request, one step for each global it touches;
`LookupHostFails` and `FillingRace` are what threads do to each other while the
ring is filled again. `ordered` is a little more than the comment it stands for
(`hvac_comm.cpp:187`, servers are started before clients): a server that is
started again before the first open serves too, but the address of its first
start is the one that clients find (`FirstListed`).

### Slips

The definitions announced as a "slip" in the modules are variants of a definition
with a bug such code plausibly has (a dropped check, the untranslated
descriptor, a lock released too early, the wait of an older version under
`src/backup`). None of them is part of a specification. Every property is known
to fail when some slip takes the place of the original: `PROJECT.json` pairs them
under "mutants".

## The runs

| Run | Instance | Shows |
|---|---|---|
| `share` | 2 clients with 1 descriptor, 2 servers with 2 descriptors, 1 path each, routes agree, no faults | all ownership properties, and the refinements of `PlainFiles` and `CacheSpec`, across servers and clients |
| `faults` | 1 client with 2 descriptors, 1 server, empty files; everything in `FaultKinds` fails, and the application uses `fclose`, `readv` and `read64`, and seeks farther than an `int` counts | ownership through failures, fallbacks, server crashes and an application that goes around HVAC |
| `live` | 1 client, 1 server, a file longer than an `int` counts, seeks from the beginning, the position and the end; `open`, `read`, `pread` fail; fair | right answers through fallbacks and refused seeks, and nothing that `PlainFiles` does not list; closed files get cached; calls return |
| `threads` | 2 files, 1 descriptor, 2 copies, queue of 2, 1 overwrite, copies may fail | all of `ServerCache`, with deadlock detection |
| `calls` | a thread that opens and reads, one that seeks, 2 requests, the server may die | all of `CallWait` |
| `failover` | 3 threads, 2 descriptors (one may be closed by `fclose`), 2 servers with 3 replicas, one point shared, limit 1, server 0 fails or dies | all of `Failover`, with the refinement of `HashRing` |
| `startup` | 2 threads, 2 servers, one restart of server 0, opens go to server 0 | all of `Startup` |
| `routes`, `abort`, `stale`, `seeks`, `dies` | minimal | the findings below (each is expected to be violated) |

**Bounds.** `FileSize = 1` gives a beginning and an end of file, the two cases
`Advance` has; `faults` has empty files because positions play no part in who
owns a descriptor. Two server descriptors are enough for reuse of a number while
another is open and for two holders, the only ways ownership gets lost between
two parties; the theorems remove these bounds. `MaxQueued` and `MaxClosing` are
guards of `CloseHandler` and `ForwardClose`; they hold back only further closes
of the same path or number. In `live` they cannot block anything for ever, as
`MoveFile` always drains the queue. `IntBound` stands for 2^31, and `Seeks` lists
the seeks applications make: in `share` one backwards and one to the end; in
`live`, where an `int` holds -2 to 1, a file has 2 blocks and the kernel goes up to
3, there are seeks from all three places, forwards and backwards, to positions
within the file, and to 3, which arrives as -1 and is refused; in `faults` an `int`
holds only -1 and 0, and a seek to 2, which no empty file has, arrives as one to 0
and succeeds. In `ServerCache`, `Room` in
`CloseCheck` keeps the queue within `MaxQueue` and ensures every entry finds a
fresh directory (`mkdtemp` has more names than the runs have entries); once
there is none, closes of uncached files stop there, which is why the bound is
part of the guard and not of the mover. One server descriptor suffices there
because the two threads meet in the cache and the queue, and the handlers of one
progress thread never overlap; two paths and a queue of two let one file be
queued twice and another come between. In `CallWait` a third request name would
only rename the others: `InUse` frees a name as soon as neither thread, network
nor callback has it; the run `seeks` uses three. In `Failover`, `Faulty` names
the servers that may fail; two servers are enough for one to go and another to
stay, two replicas whose points alternate with the other server's for a
half-removed server, a third on a point both servers have (the later insertion
takes it, and the removal of either erases it), three threads for one in `exit()`, one that removes the
server and one that looks a host up meanwhile; `Streams` has one of the two
descriptors, so that a stale entry meets one that is kept; `Watched` has one
thread, since threads are alike and the calls of one stand for those of each; the
limit is 1 where the code has
3 (`hvac_client.cpp:32`), as more would only ask for as many threads in
`exit()`. The code has 100 replicas (`hvac_client.cpp:16`). In `Startup`,
`MaxStarts` bounds restarts and `Targets` the hosts that files are opened at:
one restart gives a stale line, and the second server a line of someone else.
Servers are followed only while the client runs. The theorems remove these
bounds.

`CHECK_DEADLOCK FALSE` stands where a client may really stop: an exited process
takes no steps, and a call whose answer is lost waits for ever. `ServerCache` is
checked for deadlock.

**Fairness.** The progress threads loop over `HG_Progress` and `HG_Trigger`
(`hvac_comm.cpp:169-184`), so in `RemoteFiles` handlers, bulk callbacks and
client callbacks are weakly fair, each client's and each close message's apart
(Mercury's completion queue is a queue). `MoveFile` is weakly fair because the
mover's loop never ends and a signal is never lost, which is what `ServerCache`
shows. The application, time-outs, deaths and faults are never fair. At lock
level a thread is strongly fair: a thread that finds its mutex free time and
again gets it some time, as any usual `pthread_mutex` does although POSIX does not
demand it. A waiter that nobody has signalled is not fair: nothing relies on
spurious wake-ups, although they may happen. A server that lives answers. In
`Failover` and `Startup` a thread's steps after it has begun a call are weakly
fair: it is scheduled, the five seconds of an open pass, `exit()` ends the
process, and what waits for a server that lives is answered. Servers need not
start, and nothing obliges them to fail.

## Findings

1. **`routes`** `open` and `read` of a file go to one server, its `pread`,
   `lseek` and `close` to another (`hvac_client.cpp:156,208` against
   `267,313,327`). A `pread` is then answered from whatever file has that number
   there, although the comment at `hvac_client.cpp:255` has the number known "to
   avoid collision". A close may likewise close another client's file, and the
   one it should close is never closed or cached. All ownership results
   therefore carry the hypothesis `ModHost = RingHost`. It holds of one
   server; in the code as it stands nothing else makes it hold. It is the only
   cause: `AvoidsCollisionHolds` proves the statement under it, for an
   application that closes through the wrappers.
2. **`abort`** A failing sequential `read()` turns into a bulk transfer of
   `(size_t)-1` bytes, and `assert(ret == 0)` (`hvac_comm.cpp:436`) ends the
   server. The pread branch answers -1. `TransferAcceptedHolds` proves that the
   assertion never fails while opens and sequential reads do not, the stray
   pointer of `hvac_comm.cpp:549` does no harm and the routes agree;
   `ServersStayHolds` adds that under those conditions no server ends at all,
   whatever preads, copies and transfers do.
3. **`stale`** With the `fclose` wrapper compiled out (`wrappers.c:348`), `fd_map`
   keeps entries of closed descriptors; a file outside the data directory opened
   under the same number is read remotely, against `hvac_client.cpp:242`. If every
   close passes a wrapper, the statement holds (`NonHvacReadsFromBaseHolds`).
4. **`seeks`** Seeks share one flag and one result, against `README.md:105`
   (each request has its own). Two seeking threads mix up their answers. Opens
   and reads never do (`FramesAnsweredHolds`), and one seeking thread does not
   (`OwnAnswersHolds`).
5. **`dies`** A server that dies ends every process that opens there and blocks
   every one that reads there, against the promise at `README.md:3`.

## What is proved

All theorems hold for any number of clients, threads, servers, paths,
descriptors and requests, any bounds and any faults, unless a hypothesis is
named. They rest on the `ASSUME` of each module (types of the constants, and
that special values differ), which TLC evaluates in the runs.

| Module | Theorems | Hypothesis |
|---|---|---|
| `RemoteFilesProofs` | `TypeCorrect`, `RecordedPathsHolds`, `TranslationKnownHolds`, `ServersCacheHolds` | none |
| | `OwnershipHolds`, `HeldFilesOpenHolds`, `OneHolderHolds`, `ClosesReleasedHolds`, `ClosesOnlyUnheldHolds` | `ModHost = RingHost` |
| `AnswersProofs` | `AnswersRightHolds`, `TransparentHolds` | `Benign` (below) |
| | `PositionsRightHolds` | `Benign`, preads do not fail |
| | `NonHvacReadsFromBaseHolds` | `~PassThrough` |
| | `AvoidsCollisionHolds` | `ModHost = RingHost`, `~PassThrough` |
| | `ServersStayHolds`, `TransferAcceptedHolds` | `ModHost = RingHost`, `NothingAborts` |
| `ServerCacheProofs` | `TypeCorrect`, `NoLostWakeupHolds`, `NoCircularWaitHolds`, `CopiesWholeHolds`, `CopiesFrozenHolds`, `CachedSettledHolds`, `ImplementsCacheSteps` | none |
| `CallWaitProofs` | `TypeCorrect`, `FramesOutliveCallbacksHolds`, `FramesAnsweredHolds`, `ImplementsCallSteps` | none |
| | `OwnAnswersHolds` | at most one thread seeks |
| `RingProofs` | `TenServersDistinct` | names of virtual nodes that differ hash differently |
| | `ElevenServersClash` | 11 servers and 11 replicas or more |
| `HashRingProofs` | `LooksUpMembersHolds` | none: points may collide |
| | `DistinctPointsHashConsistently` | `DistinctPoints` |
| `FailoverProofs` | every safety property of the run, and the refinement `SharedRingHolds` | none: points may collide |
| | `TenServersKeepRoutes` | up to ten servers, names that differ hash differently |
| `StartupProofs` | every safety property of the run | none |

**Ownership.** `TypeOK` is inductive alone. The one conjunct that is more than a
type says that an answered open carries a descriptor or `Failed`, without which
`FinishOpen` could put anything in `fd_redir_map`. For the rest, `Held(c, fd, s,
r)` says that number `r` of server `s` stands for descriptor `fd` of client `c`,
either because the maps say so or because the open's answer is on its way. An
open handler takes a number that is free at the server; `HeldFilesOpen` says held
numbers are not free and `ClosesReleased` that numbers named by a close in
transit are not free either, so the new number has no holder and no close.
`FinishOpen` moves the number from the answer to the maps: same holder.
`ForwardClose` moves it from the maps to `closing`: by `OneHolder` it is then
unheld, by `ClosesReleased` no second close names it. A close handler finds an
open, unheld number. `HeldFilesOpen`, `OneHolder` and `ClosesReleased` thus
support each other, and two more are needed: `OpensSent` (the open went to the
modulo host of the path that `fd_map` has, and a tracked descriptor whose open
is over has a translation) ties the server the number came from to the server
`Held` computes. `ModHost = RingHost` is used once, where a close is sent. That
`Fclose` is among the steps costs nothing: it leaves the maps alone, and a new
open under the same local number only gives the old server number up.
`RecordedPaths`, `TranslationKnown` and `ServersCache` have inductions of their
own, which need no agreement of the routes: a server records the path of what it
opened itself, and a request is only made for a descriptor in `fd_redir_map`.

**Answers.** `Benign` asks for one routing function, an application inside HVAC
(`~PassThrough`), and seeks that are `Near` (`~FarSeeks`): then an offset that does
not fit an `int` arrives as a negative position and is refused, and no result is
too long for the way back. Files may have any size. Nothing is asked of the
faults: opens, reads, preads, copies and transfers may fail and servers may end. The
invariant `TransparencyInv` has two parts for each client. `FdInv` says that a
held number of a living server stands at `Expected`: the application's own
position, or where the read or seek in progress will have taken it; and that a
descriptor which the next read will find at the local file (`FallsBack`) stands
there at the application's position, unless preads fail. `CallInv` says that a
call went to the holder's server under the holder's number, and that an answered
one has a place or `Failed` to return. It needs `Ownership`, as a handler that
moves the position of a number must not move anybody else's, and the facts the
fallbacks rest on: a read of a living server fails only with the server
(`hvac_comm.cpp:436`), so that the local position left behind is the hazard of
preads alone, which erase `fd_map` at a server that lives on.

**Transparency as a refinement.** `TransparentHolds` takes each action to the step
of `PlainFiles` it implements. The invariant is the same; what is new is that
only one descriptor of one client can change what it shows. A handler moves the
server's descriptor `r`: by `OneHolder` it shows at one client descriptor
(`ShowsStep`). A close handler closes a number nobody holds and shows nowhere. An
open handler's number shows only once `FinishOpen` has stored it, and then at
position 0, where the local descriptor stood.

**What the findings need.** The statements that `routes`, `abort` and `stale`
refute are proved under the condition each lacks in the code, so those conditions
are sufficient as well as broken: `TrackingInv` says that, without `fclose`, a
tracked descriptor is open, on the path that is tracked and below the data
directory; `Served` that, as long as nothing aborts a server, no open has
failed and no request carries `Failed`.

**One server.** The inductive invariant of `ServerCache` says who holds each mutex
as a function of where the two threads are (`LockInv`), what the handler in
progress works on (`RpcInv`), and that the directory the mover copies to is
unknown to everybody else until it is published (`MoverInv`). `NoCircularWait`
follows from `LockInv`: whoever waits for `path_map_mutex` in the mover does not
have `data_mutex`. The refinement maps an entry as worked off when its file is
published, so `Publish` is `CacheSpec`'s step and all locking is stuttering.

**Waiting.** In `CallWait` a message in flight, or a callback that has not yet
signalled, belongs to a call that still waits (`FlightInv`, `CallbackInv`), and
its slot is not yet done: this is why no frame goes away under a callback.
It needs that reads never time out and an open's timeout ends the process. For
the slot all seeks share this is only true if one thread seeks; the invariant
carries this as the guard `Own`, so that opens and reads stay free of it. With
that, the refinement needs no hypothesis: where `Own` is missing, `BlockingCall`
allows any answer.

**The ring.** `PointKept` says that a lookup which does not end at an erased point
is not moved by the erasure; `RoutesKept` and consistent hashing follow, however
the points are erased. A point that two servers share goes to the server added
last and with the removal of either, so consistent hashing needs points to be
distinct. They are up to ten servers if `std::hash` keeps names apart; from eleven
on names themselves coincide.

**Failover.** A counter equals the number of threads in `exit()` on account of
its server, by induction; at the limit a thread may begin to remove, and the
thread that does holds `timeout_mutex`, so there is only one (`StageInv`). The ring
is then exactly the whole ring without the points of flagged servers and the
replicas already erased (`PointInv`, `FlagsMatchRing`), from which routes and the
refinement follow. None of this assumes distinct points: the ring is compared with
`RingOf(n)`, what inserting servers 1 to `n` leaves of shared points, and
`RoutesKept` speaks of paths whose point is `Undisputed`, no point of a server
that is flagged or being removed. `TenServersKeepRoutes` says when every point of
a standing server is. `PathsKept` is a separate induction over all steps
(`KeptInv`): `PathsKept` itself, descriptor by descriptor (`Kept`), and `UseInv`:
whoever is in a call uses an open file below the data directory or a stale
descriptor, and whoever closes one is alone with it. As long as nothing has failed
the descriptor is then tracked, so that `operator[]` inserts nothing. It relies on
`MayUse`, an assumption about programs: no thread closes a descriptor while another
uses it, or uses one whose open has not returned.

**Starting.** What holds in any start (`StageInv`, `FirstListed`,
`RingComplete`) is kept apart from what holds if one thread initializes
(`ReadyInv`) and what holds if servers start first (`ListInv`, `ServingInv`);
`OrderlyStart` needs all of them.

## Only model-checked, or not modelled

* Liveness: `ClosedFilesCached`, `CallsReturn`, `CallsEnd`, `OpensEnd`, and the
  liveness part of `ImplementsCache` and `ImplementsCalls` (whose steps are
  proved). Liveness under fairness is out of the prover's reach.
* `PositionsRight` does not hold when preads fail: a pread that fails after
  remote reads succeeded sends the descriptor to a local position that was left
  behind, by design of the fallback (hazard at `hvac_client.cpp:239`).
  `PlainFiles` lists this as `MayLosePosition`.
* Far seeks (not `Near`): modelled, and admitted in `faults`, but no property about
  positions holds of them; what goes wrong is told under `RemoteFiles`.
* Hazards without a property, each with its reason in `PROJECT.json`: files written
  after they were copied, repeated copies, allocation failures, the record of
  descriptor -1, the stray pointer `hgi`, maps used by two threads at the same
  moment, translated numbers after a removal, calls looked up before a removal, the
  ring deleted in `exit()`.
* A client in `RemoteFiles` has one thread. `CallWait`, `Failover` and `Startup`
  have several. That one operation on a `std::map` tolerates another at the same
  moment is assumed, except where a search or an insertion in the ring runs
  beside another change of it (`LookupFails`, `LookupHostFails`, `FillingRace`),
  which may end the process.
* After `Shutdown` the process counts as ended: what other threads do in the last
  moments of `exit()` with the deleted ring is not followed.
* In `Startup`, what a stale address leads to is a server that is gone or one that
  answers; an uninitialized address leads to a failing request.
* Removing a server and translated descriptors are not composed: in the code the
  routes disagree even without a removal (`routes`), and a removal lasts only
  while the process is in `exit()` (`DetectorIdle`).
* Allocation failures, and exceptions they cause.
* The `mmap` and `xstat` wrappers (compiled out), `write` beyond its effect on
  copies, `AdjacentNodes`, logging (pure output), `src/backup` (superseded, not
  built), build files, scripts.

## State of the plan

Every part named at the top is modelled, the wrappers partly, and every safety
property that a passing run checks is proved under the hypotheses above, as are
`PositionsRight` and `DetectorIdle`, which no run lists because what they are
about is checked there in other words (a wrong local position by `Transparent`;
an idle detector by `CountersCountExits`, `RemovedAtLimit` and `FlagsMatchRing`
together), and the safety parts of all refinements (`SharedRing`, `ServersCache`,
`ImplementsCache`, `ImplementsCalls`, `Transparent`). What could still be added:
the composition of `RemoteFiles` with a ring that changes, if the two routing
functions are made one; several threads per client in `RemoteFiles`; what
`PlainFiles` becomes for an application that goes around the wrappers.
