----------------------------- MODULE AfSocketDest -----------------------------
(***************************************************************************)
(* A stream destination: the driver that connects and reconnects           *)
(* (afsocket_dd_*, afsocket.c) and the writer that sends the queue over    *)
(* whatever connection there is (logwriter.c).                             *)
(*                                                                         *)
(* The driver lives on three kinds of event source: the timer until the    *)
(* next attempt, the watch of a socket that is connecting, and the watch   *)
(* of the writer's connection.  It keeps their handles in fields that are  *)
(* not cleared when the source goes away by itself.  A handle is never     *)
(* given out again, so removing one that is stale does nothing.            *)
(*                                                                         *)
(* A datagram destination is the case in which a write takes all or        *)
(* nothing and a connection never has to be waited for.                    *)
(***************************************************************************)
EXTENDS Integers, Sequences, FiniteSets, SequencesExt

CONSTANTS
  Message,  \* messages, each queued at most once
  Size,     \* the length of the line each of them makes
  Fifo,     \* log_fifo_size()
  Id,       \* GSource ids
  Socket,   \* descriptors, used again once they are closed
  None

ASSUME AfSocketDestAssumption ==
  /\ Size \in [Message -> Nat \ {0}]
  /\ Fifo \in Nat \ {0}
  /\ None \notin Message \cup Id \cup Socket

VARIABLES
  running,          \* between init and deinit
  queue,            \* of the writer
  partial,          \* the line that could not be written completely
  partial_pos,
  out,              \* the descriptor of the writer's watch
  counter,          \* the writer's counter of drops
  timers,           \* the ids of the live timers
  connecting,       \* the live connect watches: [id, fd]
  reconnect_timer,  \* fields of the driver
  source_id,
  open,             \* the open descriptors
  accepted,         \* history: the messages queued
  sent              \* history: the bytes taken by write(), on all connections

writer == <<queue, partial, partial_pos, accepted, sent>>
driver == <<out, timers, connecting, reconnect_timer, source_id, open>>
vars == <<running, counter, writer, driver>>

\* Byte i of the line of m.
Bytes(m, from, to) == [i \in 1..(to - from) |-> <<m, from + i>>]

Line(m) == Bytes(m, 0, Size[m])

TypeOK ==
  /\ running \in BOOLEAN
  /\ counter \in {"no writer", "registered", "orphaned"}
  /\ queue \in Seq(Message) /\ Len(queue) <= Fifo
  /\ partial \in Message \cup {None}
  /\ partial_pos \in Nat
  /\ partial # None => partial_pos < Size[partial]
  /\ out \in Socket \cup {None}
  /\ timers \subseteq Id
  /\ connecting \subseteq [id : Id, fd : Socket]
  /\ {reconnect_timer, source_id} \subseteq Id \cup {None}
  /\ open \subseteq Socket
  /\ accepted \in Seq(Message)

\* The driver is made with no writer; afsocket_dd_init has not run.
Init ==
  /\ running = FALSE
  /\ counter = "no writer"
  /\ queue = <<>> /\ partial = None /\ partial_pos = 0
  /\ out = None
  /\ timers = {} /\ connecting = {}
  /\ reconnect_timer = None /\ source_id = None
  /\ open = {}
  /\ accepted = <<>> /\ sent = <<>>

-----------------------------------------------------------------------------
(***************************************************************************)
(* The driver.  Each operation is given the sources that are live and the  *)
(* descriptors that are open when it is called.                            *)
(***************************************************************************)

FreshId == Id \ (timers \cup {reconnect_timer, source_id})

\* afsocket_dd_start_reconnect_timer; afsocket_dd_notify does the same.
StartTimer(live) ==
  \E id \in FreshId :
    /\ timers' = (live \ {reconnect_timer}) \cup {id}
    /\ reconnect_timer' = id

\* Mutant: the socket that could not be connected stays open.
ConnectFailedOpen(fd, live, watches, fds) ==
  /\ StartTimer(live)
  /\ connecting' = watches
  /\ open' = fds
  /\ UNCHANGED <<out, source_id>>

\* afsocket_dd_connected finds an error, or start_connect fails.
ConnectFailed(fd, live, watches, fds) ==
  /\ StartTimer(live)
  /\ connecting' = watches
  /\ open' = fds \ {fd}
  /\ UNCHANGED <<out, source_id>>

\* The watch that source_id names is removed, if it is still there.
Unwatched(watches) == {w \in watches : w.id # source_id}

\* afsocket_dd_connected: the writer gets the connection.  The descriptor it
\* had before is closed with the watch.
ConnectDone(fd, live, watches, fds) ==
  /\ timers' = live
  /\ connecting' = Unwatched(watches)
  /\ source_id' = None
  /\ out' = fd
  /\ open' = fds \ {out}
  /\ UNCHANGED reconnect_timer

\* connect() is in progress.
ConnectLater(fd, live) ==
  /\ \E id \in FreshId :
       /\ connecting' = connecting \cup {[id |-> id, fd |-> fd]}
       /\ source_id' = id
  /\ timers' = live
  /\ open' = open \cup {fd}
  /\ UNCHANGED <<out, reconnect_timer>>

Reconnect(live) ==
  \E fd \in Socket \ open :
    \/ ConnectFailed(fd, live, connecting, open \cup {fd})
    \/ ConnectDone(fd, live, connecting, open \cup {fd})
    \/ ConnectLater(fd, live)

\* afsocket_dd_init.  The first call makes the writer and initialises it,
\* which registers its counter; later calls keep it as it is.
Start ==
  /\ ~running
  /\ running' = TRUE
  /\ counter' = IF counter = "no writer" THEN "registered" ELSE counter
  /\ Reconnect(timers)
  /\ UNCHANGED writer

\* Mutant: the timer is left alone.
StopTimerKept ==
  /\ running
  /\ running' = FALSE
  /\ connecting' = Unwatched(connecting)
  /\ open' = open \ ({w.fd : w \in connecting} \cup {out})
  /\ out' = None
  /\ counter' = "orphaned"
  /\ UNCHANGED <<writer, timers, reconnect_timer, source_id>>

\* afsocket_dd_deinit, for a reload whose new configuration then fails to
\* initialise.  The writer's watch goes and its counter is orphaned.
Stop ==
  /\ running
  /\ running' = FALSE
  /\ timers' = timers \ {reconnect_timer}
  /\ connecting' = Unwatched(connecting)
  /\ open' = open \ ({w.fd : w \in connecting \ Unwatched(connecting)} \cup {out})
  /\ out' = None
  /\ counter' = "orphaned"
  /\ UNCHANGED <<writer, reconnect_timer, source_id>>

\* afsocket_dd_reconnect_timer.
TimerFires(id) ==
  /\ id \in timers
  /\ Reconnect(timers \ {id})
  /\ UNCHANGED <<running, counter, writer>>

\* The connecting socket became writable or failed; the watch is destroyed
\* when its dispatch returns.
Connected(w) ==
  /\ w \in connecting
  /\ \/ ConnectDone(w.fd, timers, connecting \ {w}, open)
     \/ ConnectFailed(w.fd, timers, connecting \ {w}, open)
  /\ UNCHANGED <<running, counter, writer>>

-----------------------------------------------------------------------------
(***************************************************************************)
(* The writer.                                                             *)
(***************************************************************************)

\* log_writer_queue, whether there is a connection or not.
Queue(m) ==
  /\ running
  /\ m \notin ToSet(accepted)
  /\ Len(queue) < Fifo
  /\ queue' = Append(queue, m)
  /\ accepted' = Append(accepted, m)
  /\ UNCHANGED <<running, counter, partial, partial_pos, sent, driver>>

\* Mutant: nobody is told that the connection broke.
BrokenSilently ==
  /\ out' = None
  /\ open' = open \ {out}
  /\ counter' = "orphaned"
  /\ UNCHANGED <<running, timers, reconnect_timer, connecting, source_id>>

\* log_writer_broken: the writer is deinitialised, then the driver notified.
Broken ==
  /\ out' = None
  /\ open' = open \ {out}
  /\ counter' = "orphaned"
  /\ StartTimer(timers)
  /\ UNCHANGED <<running, connecting, source_id>>

\* Mutant: partial_pos counts from the last write.
KeepRestart(m, taken, pos) ==
  /\ partial' = IF taken + pos = Size[m] THEN None ELSE m
  /\ partial_pos' = taken
\* What write() has left of the line becomes the partial line.
Keep(m, taken, pos) ==
  /\ partial' = IF taken + pos = Size[m] THEN None ELSE m
  /\ partial_pos' = taken + pos

\* The rest of a partial line is written first.  write() takes some of it, or
\* nothing (EAGAIN).
WritePartial(taken) ==
  /\ out # None
  /\ partial # None
  /\ taken <= Size[partial] - partial_pos
  /\ sent' = sent \o Bytes(partial, partial_pos, partial_pos + taken)
  /\ Keep(partial, taken, partial_pos)
  /\ UNCHANGED <<running, counter, queue, accepted, driver>>

\* The loop of log_writer_flush_log: the next message leaves the queue before
\* its line is written.
WriteNext(taken) ==
  /\ out # None
  /\ partial = None
  /\ queue # <<>>
  /\ taken <= Size[Head(queue)]
  /\ queue' = Tail(queue)
  /\ sent' = sent \o Bytes(Head(queue), 0, taken)
  /\ Keep(Head(queue), taken, 0)
  /\ UNCHANGED <<running, counter, accepted, driver>>

\* The connection is found closed or in error while the writer waits, or when
\* the rest of a partial line is written.
BreakIdle ==
  /\ out # None
  /\ Broken
  /\ UNCHANGED writer

\* write() fails for the next message: it is kept as a partial line.
BreakNext ==
  /\ out # None
  /\ partial = None
  /\ queue # <<>>
  /\ queue' = Tail(queue)
  /\ Keep(Head(queue), 0, 0)
  /\ Broken
  /\ UNCHANGED <<accepted, sent>>

Lengths == UNION {0..Size[m] : m \in Message}

Write == \E taken \in Lengths : WritePartial(taken) \/ WriteNext(taken)

Next ==
  \/ Start \/ Stop
  \/ \E id \in Id : TimerFires(id)
  \/ \E w \in connecting : Connected(w)
  \/ \E m \in Message : Queue(m)
  \/ Write
  \/ BreakIdle \/ BreakNext

Spec == Init /\ [][Next]_vars

\* Timers fire, connect() comes to a result, and deinit is followed by another
\* init.  Of the peer: it accepts again and again, and takes data again and
\* again.
Reached == out = None /\ out' # None
Progress == Write /\ sent' # sent

Fairness ==
  /\ WF_vars(Start)
  /\ \A id \in Id : WF_vars(TimerFires(id))
  /\ WF_vars(\E w \in connecting : Connected(w))
  /\ SF_vars(Next /\ Reached)
  /\ SF_vars(Progress)

FairSpec == Spec /\ Fairness

-----------------------------------------------------------------------------
Flag(P) == IF P THEN 1 ELSE 0

\* A running driver is always waiting for exactly one thing - the timer, the
\* connect, or the connection in use - and holds its handle; one that is not
\* running waits for nothing, so no callback can find it freed.  Stale handles
\* never remove the source of another attempt, and no attempt is left without
\* a successor.
OneActivity ==
  /\ Cardinality(timers) + Cardinality(connecting) + Flag(out # None)
       = Flag(running)
  /\ timers \subseteq {reconnect_timer}
  /\ \A w \in connecting : w.id = source_id

\* The open sockets are those of the watches: none leaks however an attempt or
\* a connection ends, and none is closed under a watch.
SocketsOwned ==
  open = {w.fd : w \in connecting} \cup ({out} \ {None})

\* Every byte of every message accepted is written once and in order, over
\* however many connections: what was written, the rest of the partial line
\* and the queue are together the messages accepted.
InOrder ==
  sent \o (IF partial = None THEN <<>>
           ELSE Bytes(partial, partial_pos, Size[partial]))
       \o FlattenSeq([i \in DOMAIN queue |-> Line(queue[i])])
    = FlattenSeq([i \in DOMAIN accepted |-> Line(accepted[i])])

\* A driver whose peer comes back reaches it: every message accepted is
\* written completely in the end.
Delivered ==
  \A m \in Message :
    m \in ToSet(accepted) ~> <<m, Size[m]>> \in ToSet(sent)

\* The manual promises "statistics about dropped log messages": a full queue
\* of a running driver counts what it drops.
DropsCounted == running /\ Len(queue) = Fifo => counter = "registered"
=============================================================================
