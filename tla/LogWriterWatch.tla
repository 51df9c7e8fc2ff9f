---------------------------- MODULE LogWriterWatch ----------------------------
(***************************************************************************)
(* The watch of a writer in the main loop (log_writer_fd_prepare,          *)
(* log_writer_fd_check and log_writer_fd_dispatch of logwriter.c): it      *)
(* holds messages back until there are flush_lines() of them or            *)
(* flush_timeout() has passed.  Time is counted in ticks, several to the   *)
(* second, because log_writer_fd_check compares seconds.                   *)
(*                                                                         *)
(* Times are kept relative to now, so that the clock never ends.           *)
(***************************************************************************)
EXTENDS Integers

CONSTANTS
  TicksPerSecond,
  flush_timeout,  \* in ticks
  FlushLines,     \* the values of flush_lines()
  LwFifo          \* log_fifo_size()

ASSUME LogWriterWatchAssumption ==
  /\ TicksPerSecond \in Nat \ {0} /\ flush_timeout \in Nat
  /\ FlushLines \subseteq Nat /\ LwFifo \in Nat

VARIABLES
  flush_lines,
  detect_eof,     \* LW_DETECT_EOF
  lw,             \* queue: its length; partial: part of a line is to be written
  room,           \* whether write() takes anything
  peer,           \* "open", "eof" (readable at its end) or "hup"
  tick,           \* of the second: 0 .. TicksPerSecond - 1
  flush_waiting,  \* flush_waiting_for_timeout
  flush_due,      \* flush_target, in ticks from now
  pollfd,         \* events, and revents of the last poll
  poll,           \* where the loop is, and how many ticks poll may still take
  lw_broken       \* log_writer_broken was called and the watch is gone

lw_vars == <<flush_lines, detect_eof, lw, room, peer, tick, flush_waiting, flush_due,
             pollfd, poll, lw_broken>>

Forever == -1

LogWriterWatchTypeOK ==
  /\ lw \in [queue : 0 .. LwFifo, partial : BOOLEAN]
  /\ tick \in 0 .. TicksPerSecond - 1
  /\ flush_due \in -1 .. flush_timeout
  /\ pollfd.events \subseteq {"out", "in", "hup"} /\ pollfd.revents \subseteq {"out", "in", "hup"}
  /\ poll.at \in {"prepare", "poll", "dispatch"} /\ poll.timeout \in Forever .. flush_timeout

LogWriterWatchInit ==
  /\ flush_lines \in FlushLines /\ detect_eof \in BOOLEAN
  /\ lw = [queue |-> 0, partial |-> FALSE]
  /\ room = TRUE /\ peer = "open" /\ tick = 0
  /\ flush_waiting = FALSE /\ flush_due = 0
  /\ pollfd = [events |-> {}, revents |-> {}]
  /\ poll = [at |-> "prepare", timeout |-> Forever, ready |-> FALSE]
  /\ lw_broken = FALSE

-----------------------------------------------------------------------------
(* The environment. *)

\* log_writer_queue, from the dispatch of another watch: never while the main
\* loop is in poll, but also after a flush, before the next prepare.
QueueForWatch ==
  /\ poll.at # "poll" /\ lw.queue < LwFifo
  /\ lw' = [lw EXCEPT !.queue = @ + 1]
  /\ UNCHANGED <<flush_lines, detect_eof, room, peer, tick, flush_waiting, flush_due, pollfd,
                 poll, lw_broken>>

\* A target in the past is not told apart from an older one.
Later(due) == IF due > -1 THEN due - 1 ELSE -1

Tick ==
  /\ tick' = (tick + 1) % TicksPerSecond
  /\ flush_due' = Later(flush_due)
  /\ poll' = [poll EXCEPT !.timeout = IF @ > 0 THEN @ - 1 ELSE @]
  /\ UNCHANGED <<flush_lines, detect_eof, lw, room, peer, flush_waiting, pollfd, lw_broken>>

\* The peer reads.
MakeRoom ==
  /\ ~room /\ room' = TRUE
  /\ UNCHANGED <<flush_lines, detect_eof, lw, peer, tick, flush_waiting, flush_due, pollfd,
                 poll, lw_broken>>

PeerGoes ==
  /\ peer = "open" /\ peer' \in {"eof", "hup"}
  /\ UNCHANGED <<flush_lines, detect_eof, lw, room, tick, flush_waiting, flush_due, pollfd,
                 poll, lw_broken>>

-----------------------------------------------------------------------------
(* log_writer_fd_prepare. *)

Full == IF flush_lines = 0 THEN lw.queue # 0 ELSE lw.queue >= flush_lines

Prepared(timeout, ready) ==
  /\ ~lw_broken /\ poll.at = "prepare"
  /\ poll' = [at |-> "poll", timeout |-> timeout, ready |-> ready]
  /\ UNCHANGED <<flush_lines, detect_eof, lw, room, peer, tick, lw_broken>>

\* There is something to flush, or nothing to wait for.
PrepareFlush ==
  /\ lw.partial \/ Full \/ lw.queue = 0
  /\ Prepared(Forever, FALSE)
  /\ pollfd' = [revents |-> {},
                events |-> (IF lw.partial \/ Full THEN {"out"} ELSE {})
                             \cup (IF detect_eof THEN {"in", "hup"} ELSE {})]
  /\ flush_waiting' = FALSE
  /\ UNCHANGED flush_due

\* Mutant: each time, the wait starts again.
AlwaysStarts == ~(lw.partial \/ Full) /\ lw.queue # 0
\* Too little to flush: the wait starts; the events stay those of the last time.
StartsWaiting == ~(lw.partial \/ Full) /\ lw.queue # 0 /\ ~flush_waiting

PrepareWait ==
  /\ StartsWaiting
  /\ Prepared(flush_timeout, FALSE)
  /\ flush_waiting' = TRUE /\ flush_due' = flush_timeout
  /\ UNCHANGED pollfd

\* The wait goes on, also with messages that came after those it was for were
\* flushed, but before this.
PrepareWaiting ==
  /\ ~(lw.partial \/ Full) /\ lw.queue # 0 /\ ~StartsWaiting
  /\ IF flush_due < 0 THEN Prepared(0, TRUE) ELSE Prepared(flush_due, FALSE)
  /\ UNCHANGED <<flush_waiting, flush_due, pollfd>>

-----------------------------------------------------------------------------
(* poll() and log_writer_fd_check. *)

\* What poll reports: hup also if it was not asked for.
Reported ==
  (IF "out" \in pollfd.events /\ (room \/ peer = "hup") THEN {"out"} ELSE {})
    \cup (IF "in" \in pollfd.events /\ peer # "open" THEN {"in"} ELSE {})
    \cup (IF peer = "hup" THEN {"hup"} ELSE {})

\* The seconds of flush_target are compared with those of now: this may be up
\* to a second early.
Elapsed == tick + flush_due < TicksPerSecond

CheckWatch ==
  IF lw.queue # 0 \/ lw.partial
  THEN IF flush_waiting THEN Elapsed ELSE Reported # {}
  ELSE Reported # {}

Polled ==
  /\ ~lw_broken /\ poll.at = "poll"
  /\ pollfd' = [pollfd EXCEPT !.revents = Reported]
  /\ poll' = [at |-> IF poll.ready \/ CheckWatch THEN "dispatch" ELSE "prepare",
              timeout |-> Forever, ready |-> FALSE]
  /\ UNCHANGED <<flush_lines, detect_eof, lw, room, peer, tick, flush_waiting, flush_due,
                 lw_broken>>

PollReturns == (poll.timeout = 0 \/ Reported # {}) /\ Polled
\* Another watch is ready, or its timeout comes first.
PollInterrupted == poll.timeout # 0 /\ Reported = {} /\ Polled

-----------------------------------------------------------------------------
(* log_writer_fd_dispatch. *)

DispatchBroken ==
  /\ ~lw_broken /\ poll.at = "dispatch"
  /\ pollfd.revents \cap {"in", "hup"} # {}
  /\ lw_broken' = TRUE
  /\ UNCHANGED <<flush_lines, detect_eof, lw, room, peer, tick, flush_waiting, flush_due,
                 pollfd, poll>>

Dispatched ==
  /\ ~lw_broken /\ poll.at = "dispatch"
  /\ pollfd.revents \cap {"in", "hup"} = {}
  /\ poll' = [poll EXCEPT !.at = "prepare"]
  /\ UNCHANGED <<flush_lines, detect_eof, peer, tick, flush_waiting, flush_due, pollfd,
                 lw_broken>>

\* log_writer_flush_log: everything is written, ...
DispatchAll ==
  /\ room
  /\ Dispatched
  /\ lw' = [queue |-> 0, partial |-> FALSE]
  /\ UNCHANGED room

\* ... or at least a byte, until the line of a message stays behind, ...
DispatchSome ==
  /\ room /\ lw.queue + (IF lw.partial THEN 1 ELSE 0) > 0
  /\ Dispatched
  /\ \E left \in 0 .. lw.queue - (IF lw.partial THEN 0 ELSE 1) :
       lw' = [queue |-> left, partial |-> TRUE]
  /\ room' = FALSE

\* ... or nothing: the message taken from the queue is the partial line.
DispatchNone ==
  /\ ~room
  /\ Dispatched
  /\ lw' = IF lw.partial \/ lw.queue = 0 THEN lw
           ELSE [queue |-> lw.queue - 1, partial |-> TRUE]
  /\ UNCHANGED room

\* log_writer_reopen, by the driver.
ReopenWatch ==
  /\ lw_broken /\ lw_broken' = FALSE
  /\ peer' = "open" /\ room' = TRUE
  /\ flush_waiting' = FALSE /\ flush_due' = 0
  /\ pollfd' = [events |-> {}, revents |-> {}]
  /\ poll' = [at |-> "prepare", timeout |-> Forever, ready |-> FALSE]
  /\ UNCHANGED <<flush_lines, detect_eof, lw, tick>>

WatchStep ==
  \/ PrepareFlush \/ PrepareWait \/ PrepareWaiting \/ PollReturns
  \/ DispatchBroken \/ DispatchAll \/ DispatchSome \/ DispatchNone

LogWriterWatchNext ==
  \/ WatchStep \/ PollInterrupted \/ ReopenWatch
  \/ QueueForWatch \/ Tick \/ MakeRoom \/ PeerGoes

\* The main loop goes on, time passes, and the peer reads what was sent.
LogWriterWatchFairness ==
  /\ WF_lw_vars(WatchStep) /\ WF_lw_vars(Tick) /\ WF_lw_vars(MakeRoom)

LogWriterWatchSpec ==
  LogWriterWatchInit /\ [][LogWriterWatchNext]_lw_vars /\ LogWriterWatchFairness

-----------------------------------------------------------------------------
\* However many other watches interrupt the poll and whatever is queued in the
\* meantime, messages that are held back are flushed in the end, all of them or
\* up to the line that is being written, unless the peer goes.
HeldBackFlushed == lw.queue # 0 ~> lw.queue = 0 \/ lw.partial \/ lw_broken
=============================================================================
