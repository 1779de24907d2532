----------------------------- MODULE PlainFiles -----------------------------
(***************************************************************************)
(* What processes that read files may expect of the operating system, and  *)
(* what HVAC, which reads the files for them, promises to keep: every      *)
(* process has a table of descriptors of its own, a descriptor has a file  *)
(* and a position, and a read returns the block at the position of its     *)
(* descriptor.  There is no server here, no second table of descriptors    *)
(* and no message: whatever those do must not show.                        *)
(*                                                                         *)
(* What does show of a failing server is listed as an action each: a call  *)
(* that is refused, a seek that returns anything once its file is lost, a  *)
(* process that exits when one is, and, if preads can fail, a position     *)
(* that is lost with them.                                                 *)
(***************************************************************************)
EXTENDS Integers

CONSTANTS Clients, Fds, Paths,
          FileSize,             \* length of every file, in blocks
          MaxPosition,          \* no descriptor stands beyond
          Seeks,                \* offsets and directions of the seeks made
          Garbage,              \* numbers that a seek in a lost file returns
          NoPath, Failed, Pending,
          MayLosePosition       \* may a failed pread cost the position?

VARIABLES alive,                \* processes that have not exited
          opened,               \* descriptors: file and position
          doing,                \* the call a process is in, with its answer
          lost                  \* files whose server has ended

fileVars == <<alive, opened, doing, lost>>

Position == 0 .. MaxPosition
Idle     == [op |-> "none"]
Closed   == [path |-> NoPath, pos |-> 0]

FilesInit ==
    /\ alive = [c \in Clients |-> TRUE]
    /\ opened = [c \in Clients |-> [fd \in Fds |-> Closed]]
    /\ doing = [c \in Clients |-> Idle]
    /\ lost = {}

\* The position after the block at pos was read; at the end of the file it stays.
After(pos) == IF pos < FileSize THEN pos + 1 ELSE pos

Free(c)     == alive[c] /\ doing[c] = Idle
Uses(c, fd) == Free(c) /\ opened[c][fd].path # NoPath

Begin(c, o, fd, off, whence) ==
    doing' = [doing EXCEPT ![c] = [op |-> o, fd |-> fd, off |-> off, whence |-> whence,
                                   answer |-> Pending]]
Answer(c, answer) == doing' = [doing EXCEPT ![c].answer = answer]
Move(c, fd, pos)  == opened' = [opened EXCEPT ![c][fd].pos = pos]

-----------------------------------------------------------------------------
(* Calls that are done at once, or begin.                                  *)

Open(c, fd, p) ==
    /\ Free(c) /\ opened[c][fd].path = NoPath
    /\ opened' = [opened EXCEPT ![c][fd] = [path |-> p, pos |-> 0]]
    /\ Begin(c, "open", fd, 0, "set") \/ UNCHANGED doing
    /\ UNCHANGED <<alive, lost>>

ReadNow(c, fd) ==
    /\ Uses(c, fd)
    /\ Move(c, fd, After(opened[c][fd].pos))
    /\ UNCHANGED <<alive, doing, lost>>

\* The position a seek leads to; at one that no descriptor has it is refused.
Target(pos, off, whence) == CASE whence = "set" -> off
                              [] whence = "cur" -> pos + off
                              [] whence = "end" -> FileSize + off

SeekNow(c, fd, off, whence) ==
    LET to == Target(opened[c][fd].pos, off, whence) IN
    /\ Uses(c, fd)
    /\ to \in Position /\ Move(c, fd, to)
    /\ UNCHANGED <<alive, doing, lost>>

Ask(c, o, fd, off, whence) ==
    /\ Uses(c, fd)
    /\ Begin(c, o, fd, off, whence)
    /\ UNCHANGED <<alive, opened, lost>>

Close(c, fd) ==
    /\ Uses(c, fd)
    /\ opened' = [opened EXCEPT ![c][fd] = Closed]
    /\ UNCHANGED <<alive, doing, lost>>

-----------------------------------------------------------------------------
(* Calls in progress.                                                      *)

Waiting(c, o) == doing[c].op = o /\ doing[c].answer = Pending
File(c)       == opened[c][doing[c].fd]

Read(c) ==
    /\ Waiting(c, "read")
    /\ Answer(c, File(c))
    /\ Move(c, doing[c].fd, After(File(c).pos))
    /\ UNCHANGED <<alive, lost>>

Pread(c) ==
    /\ Waiting(c, "pread")
    /\ Answer(c, [path |-> File(c).path, pos |-> doing[c].off])
    /\ UNCHANGED <<alive, opened, lost>>

Seek(c) ==
    LET to == Target(File(c).pos, doing[c].off, doing[c].whence) IN
    /\ Waiting(c, "seek")
    /\ to \in Position
    /\ Answer(c, [path |-> File(c).path, pos |-> to])
    /\ Move(c, doing[c].fd, to)
    /\ UNCHANGED <<alive, lost>>

\* A refused pread is repeated on the local file; a refused seek is reported
\* to the application, and has not moved the position.
Refuse(c) ==
    /\ Waiting(c, "pread") \/ Waiting(c, "seek")
    /\ Answer(c, Failed)
    /\ UNCHANGED <<alive, opened, lost>>

\* A seek on a lost file may claim anything.
SeekLost(c) ==
    /\ Waiting(c, "seek") /\ File(c).path \in lost
    /\ \/ Answer(c, Failed)
       \/ \E p \in Paths, n \in Garbage : Answer(c, [path |-> p, pos |-> n])
    /\ UNCHANGED <<alive, opened, lost>>

Return(c) ==
    /\ alive[c] /\ doing[c] # Idle
    /\ doing[c].op = "open" \/ doing[c].answer # Pending
    /\ doing' = [doing EXCEPT ![c] = Idle]
    /\ \/ UNCHANGED opened
       \/ /\ MayLosePosition /\ doing[c].op = "pread" /\ doing[c].answer = Failed
          /\ \E pos \in Position : Move(c, doing[c].fd, pos)
    /\ UNCHANGED <<alive, lost>>

\* A process ends when a server does not answer or cannot be reached.
Exit(c) ==
    /\ doing[c] # Idle \/ lost # {}
    /\ alive' = [alive EXCEPT ![c] = FALSE]
    /\ UNCHANGED <<opened, doing, lost>>

Lose ==
    /\ \E paths \in SUBSET Paths : lost' = lost \cup paths
    /\ UNCHANGED <<alive, opened, doing>>

FilesNext ==
    \/ \E c \in Clients :
          \/ \E fd \in Fds :
                \/ \E p \in Paths : Open(c, fd, p)
                \/ ReadNow(c, fd) \/ Close(c, fd) \/ Ask(c, "read", fd, 0, "set")
                \/ \E off \in Position : Ask(c, "pread", fd, off, "set")
                \/ \E seek \in Seeks : \/ SeekNow(c, fd, seek[1], seek[2])
                                      \/ Ask(c, "seek", fd, seek[1], seek[2])
          \/ Read(c) \/ Pread(c) \/ Seek(c) \/ Refuse(c) \/ SeekLost(c)
          \/ Return(c) \/ Exit(c)
    \/ Lose

FilesSpec == FilesInit /\ [][FilesNext]_fileVars
=============================================================================
