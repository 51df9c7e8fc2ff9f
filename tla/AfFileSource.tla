----------------------------- MODULE AfFileSource -----------------------------
(***************************************************************************)
(* A file source in follow mode (affile_sd_*, affile.c, with the polling   *)
(* of logreader.c): it follows the file at its path over rotations, and    *)
(* remembers its position over a deinit and the next init, be it a reload  *)
(* or a restart.                                                           *)
(*                                                                         *)
(* A file is an inode with a number of bytes, every LineLength-th of which *)
(* is a newline.  How lines are cut is the subject of LogReader; here only *)
(* the positions matter.                                                   *)
(***************************************************************************)
EXTENDS Integers

CONSTANTS
  Inode,       \* the files that come to lie at the path, each at most once
  MaxSize,     \* bound: bytes in a file
  LineLength,
  Missing,     \* no file at the path; a reader that has none open
  NoReader, NoValue

\* Of struct _LogReader the file, how far it was read, and the bytes that
\* are in the buffer.
FileReader == [fd : Inode \cup {Missing}, pos : Nat, ofs : Nat]

ASSUME AfFileSourceAssumption ==
  /\ MaxSize \in Nat /\ LineLength \in Nat \ {0}
  /\ Missing \notin Inode
  /\ NoReader \notin FileReader /\ NoValue \notin Int

VARIABLES
  path,       \* the inode at the path
  size,       \* the bytes of each inode
  sd_running, \* between init and deinit
  reader,     \* the reader: its open file, file offset and buffered bytes
  curpos,     \* the persistent value affile_sd_curpos(path)
  got,        \* history: how often each byte was made part of a message
  last,       \* history: the file open at the last deinit
  ignored    \* history: files whose remembered position was dropped

disk == <<path, size>>
sd_vars == <<disk, sd_running, reader, curpos, got, last, ignored>>

AfFileSourceTypeOK ==
  /\ path \in Inode \cup {Missing}
  /\ size \in [Inode -> 0..MaxSize]
  /\ sd_running \in BOOLEAN
  /\ reader \in FileReader \cup {NoReader}
  /\ reader # NoReader =>
       /\ reader.ofs <= reader.pos
       /\ reader.fd \in Inode => reader.pos <= size[reader.fd]
       /\ reader.fd = Missing => reader.pos = 0
  /\ curpos \in {NoValue} \cup (-1..MaxSize)
  /\ ~sd_running => reader = NoReader
  /\ got \in [Inode -> [1..MaxSize -> 0..2]]
  /\ last \in Inode \cup {Missing} /\ ignored \subseteq Inode \cup {Missing}

AfFileSourceInit ==
  /\ path = Missing
  /\ size = [i \in Inode |-> 0]
  /\ sd_running = FALSE /\ reader = NoReader /\ curpos = NoValue
  /\ got = [i \in Inode |-> [b \in 1..MaxSize |-> 0]]
  /\ last = Missing /\ ignored = {}

Complete(bytes) == (bytes \div LineLength) * LineLength

\* log_reader_new with the buffer empty.
Opened(fd, pos) == [fd |-> fd, pos |-> pos, ofs |-> 0]

-----------------------------------------------------------------------------
(***************************************************************************)
(* What other programs do: append to any file, also to one moved away, and *)
(* move the file away or put a new one in its place.                       *)
(***************************************************************************)
Grow(i) ==
  /\ size[i] < MaxSize
  /\ size' = [size EXCEPT ![i] = @ + 1]
  /\ UNCHANGED <<path, sd_running, reader, curpos, got, last, ignored>>

Rotate ==
  /\ path' \in {i \in Inode : size[i] = 0} \cup {Missing}
  /\ path' # path
  /\ UNCHANGED <<size, sd_running, reader, curpos, got, last, ignored>>

-----------------------------------------------------------------------------
\* log_reader_set_pos: beyond the end means the end; lseek refuses a negative
\* offset and leaves the position where finding out the size put it, at the end.
SetPos(i, ofs) == IF ofs < 0 \/ ofs > size[i] THEN size[i] ELSE ofs

\* log_reader_get_pos: -1 is the answer of lseek for a file that is not open.
GetPos == IF reader.fd = Missing THEN -1 ELSE reader.pos - reader.ofs

\* affile_sd_init opened the file: the remembered position, if any, is used.
InitOpened ==
  /\ path # Missing
  /\ reader' = Opened(path, IF curpos = NoValue THEN 0 ELSE SetPos(path, curpos))
  /\ UNCHANGED ignored

\* It could not: opening is deferred, and the remembered position dropped.
InitDeferred ==
  /\ reader' = Opened(Missing, 0)
  /\ ignored' = IF curpos = NoValue THEN ignored
                ELSE ignored \cup {last}

SdInit ==
  /\ ~sd_running
  /\ sd_running' = TRUE
  /\ InitOpened \/ InitDeferred
  /\ curpos' = NoValue
  /\ UNCHANGED <<disk, got, last>>

\* affile_sd_deinit; without a reader nothing is remembered.
FileSdDeinit ==
  /\ sd_running
  /\ sd_running' = FALSE
  /\ reader' = NoReader
  /\ IF reader # NoReader
       THEN curpos' = GetPos /\ last' = reader.fd
       ELSE UNCHANGED <<curpos, last>>
  /\ UNCHANGED <<disk, got, ignored>>

-----------------------------------------------------------------------------
(***************************************************************************)
(* log_reader_fd_check of a follow-mode reader and what it leads to.  A    *)
(* complete line in the buffer comes first, then bytes behind the position *)
(* in the open file, then another file at the path.                        *)
(***************************************************************************)
First == reader.pos - reader.ofs

LineEnd == Complete(First) + LineLength

Buffered == reader # NoReader /\ reader.pos >= LineEnd

HasInput == reader # NoReader /\ reader.fd # Missing /\ reader.pos < size[reader.fd]

\* Bound: a count is not told apart beyond two.
Twice(count) == IF count = 0 THEN 1 ELSE 2

DeliverLine ==
  /\ Buffered
  /\ got' = [got EXCEPT ![reader.fd] =
       [b \in DOMAIN @ |-> IF b \in First + 1 .. LineEnd THEN Twice(@[b]) ELSE @[b]]]
  /\ reader' = [reader EXCEPT !.ofs = reader.pos - LineEnd]
  /\ UNCHANGED <<disk, sd_running, curpos, last, ignored>>

ReadFile ==
  /\ ~Buffered /\ HasInput
  /\ \E n \in 1..(size[reader.fd] - reader.pos) :
       reader' = [reader EXCEPT !.pos = @ + n, !.ofs = @ + n]
  /\ UNCHANGED <<disk, sd_running, curpos, got, last, ignored>>

\* Mutants: any file at the path is taken for a new one; only a reader that
\* has no file looks for one.
MovedAlways ==
  reader # NoReader /\ ~Buffered /\ ~HasInput /\ path # Missing
MovedIfNone ==
  reader # NoReader /\ ~Buffered /\ ~HasInput /\ path # Missing /\ reader.fd = Missing

Moved ==
  /\ reader # NoReader /\ ~Buffered /\ ~HasInput
  /\ path # Missing
  /\ reader.fd # path

\* affile_sd_notify, NC_FILE_MOVED: the reader is replaced, and what it had of
\* a line is dropped.  If the file cannot be opened there is no reader any more.
FileMoved ==
  /\ Moved
  /\ reader' = Opened(path, 0)
  /\ UNCHANGED <<disk, sd_running, curpos, got, last, ignored>>

FileMovedUnopened ==
  /\ Moved
  /\ reader' = NoReader
  /\ UNCHANGED <<disk, sd_running, curpos, got, last, ignored>>

AfFileSourceNext ==
  \/ \E i \in Inode : Grow(i)
  \/ Rotate
  \/ SdInit \/ FileSdDeinit
  \/ DeliverLine \/ ReadFile \/ FileMoved \/ FileMovedUnopened

\* The reader is polled every follow_freq() seconds.
AfFileSourceFairness ==
  /\ WF_sd_vars(DeliverLine)
  /\ WF_sd_vars(ReadFile)
  /\ WF_sd_vars(FileMoved)

AfFileSourceSpec ==
  AfFileSourceInit /\ [][AfFileSourceNext]_sd_vars /\ AfFileSourceFairness

-----------------------------------------------------------------------------
\* Over rotations, reloads and restarts a byte becomes part of a message at
\* most once, unless its file could not be opened at an init that would have
\* taken up its position.
ReadOnce ==
  \A i \in Inode, b \in 1..MaxSize : got[i][b] > 1 => i \in ignored

\* However often the path changed, a source that is not stopped and has a reader
\* ends up at the end of the last complete line of the file that stays there.
Followed ==
  \A i \in Inode :
    <>[](sd_running /\ reader # NoReader /\ path = i)
      => <>(reader # NoReader /\ reader.fd = i /\ First >= Complete(size[i]))
=============================================================================
