----------------------------- MODULE FlowControl -----------------------------
(***************************************************************************)
(* The log path driven by the main loop: readers that look at the window   *)
(* of their driver before they are dispatched, and writers that are        *)
(* flushed when nothing more urgent is ready.                              *)
(*                                                                         *)
(* One iteration of the GLib main loop first checks every source and then  *)
(* dispatches those that were ready.  All readers of a driver share one    *)
(* window_size, so what a reader has seen in log_reader_fd_check may be    *)
(* gone when log_reader_fetch_log runs; and that function itself looks at  *)
(* the window between the lines of one read() only.                        *)
(***************************************************************************)
EXTENDS LogPath

CONSTANTS
  FetchLimit,  \* log_fetch_limit() of each reader
  SingleRead   \* readers that read() once per dispatch (LR_NOMREAD)

ASSUME FlowControlAssumption ==
  /\ IsFiniteSet(Reader) /\ IsFiniteSet(Driver)
  /\ FetchLimit \in [Reader -> Nat \ {0}]
  /\ SingleRead \subseteq Reader

VARIABLES
  ready,    \* the readers this iteration has still to dispatch
  reading,  \* the reader in log_reader_fetch_log, as a set of at most one
  fetched   \* its msg_count

fcvars == <<vars, ready, reading, fetched>>

FCTypeOK ==
  /\ TypeOK
  /\ ready \subseteq Reader
  /\ reading \subseteq Reader
  /\ fetched \in Nat
  /\ \A r \in reading : fetched <= FetchLimit[r]

FCInit ==
  /\ Init
  /\ ready = {}
  /\ reading = {}
  /\ fetched = 0

\* log_source_free_to_send
FreeToSend(r) == window[DriverOf[r]] > 0

InLoop == call.at = "main" /\ reading = {}

\* Mutant: the check phase does not look at the window.
PollUnchecked(readable) ==
  /\ InLoop
  /\ ready = {}
  /\ ready' = readable
  /\ ready' # {}
  /\ UNCHANGED <<vars, reading, fetched>>

\* The check phase finds input at the readers of readable, among those that
\* are free to send.
Poll(readable) ==
  /\ InLoop
  /\ ready = {}
  /\ ready' = {r \in readable : FreeToSend(r)}
  /\ ready' # {}
  /\ UNCHANGED <<vars, reading, fetched>>

\* log_reader_fd_dispatch: the window is not looked at again.
StartFetch(r) ==
  /\ InLoop
  /\ r \in ready
  /\ ready' = ready \ {r}
  /\ reading' = {r}
  /\ fetched' = 0
  /\ UNCHANGED vars

\* Mutant: a file source takes all lines it has read.
MayContinueAlways(r) == TRUE

\* The next line is in the buffer and the one before left some window, or it
\* comes with another read().
MayContinue(r) == fetched = 0 \/ FreeToSend(r) \/ r \notin SingleRead

FetchLine(r) ==
  /\ r \in reading
  /\ fetched < FetchLimit[r]
  /\ MayContinue(r)
  /\ \E m \in Msg, route \in Route : Fetch(r, m, route)
  /\ fetched' = fetched + 1
  /\ UNCHANGED <<ready, reading>>

\* The fetch limit is reached, or there is no more input.
EndFetch ==
  /\ call.at = "main"
  /\ reading # {}
  /\ reading' = {}
  /\ fetched' = 0
  /\ UNCHANGED <<vars, ready>>

Deliver == Chain /\ UNCHANGED <<ready, reading, fetched>>

\* Writers are more urgent than readers: they have an iteration of their own.
FlushWriter(d) ==
  /\ InLoop
  /\ ready = {}
  /\ Flush(d)
  /\ UNCHANGED <<ready, reading, fetched>>

Loop == Deliver \/ EndFetch \/ \E r \in Reader : StartFetch(r)

FCNext ==
  \/ Loop
  \/ \E readable \in SUBSET Reader : Poll(readable)
  \/ \E r \in Reader : FetchLine(r)
  \/ \E d \in Dest : FlushWriter(d)

FCSpec == FCInit /\ [][FCNext]_fcvars

\* A dispatch returns and the main loop goes on to the next one; a writer
\* whose destination takes data again and again is flushed, because it is
\* dispatched before any reader.
FCFairness == WF_fcvars(Loop) /\ \A d \in Dest : SF_fcvars(FlushWriter(d))

FCFairSpec == FCSpec /\ FCFairness

-----------------------------------------------------------------------------
ReadersOf(d) == {r \in Reader : DriverOf[r] = d}

\* The messages one dispatch of r can queue without regard to the window.
Burst(r) == IF r \in SingleRead THEN 1 ELSE FetchLimit[r]

\* The fetches of one iteration in which no reader of d looks at the window.
Bursts(d) == UNION {{r} \X (1..Burst(r)) : r \in ReadersOf(d)}

\* How far the readers of d can get below an empty window: the last unit of
\* window lets all of them be dispatched.
Overshoot(d) == Cardinality(Bursts(d)) - 1

\* Flow control is not exact, but its error is bounded: the window never falls
\* below what the readers of the driver fetch in one iteration of the loop.
WindowFloor == \A d \in Driver : window[d] >= -Overshoot(d)

\* f[d] units for each driver d.
Units(f) == UNION {{d} \X (1..f[d]) : d \in Driver}

Total(f) == Cardinality(Units(f))

AtMostOnce(s, d) == \A i, j \in DOMAIN s : s[i] = d /\ s[j] = d => i = j

\* The delivery takes a message to d.
Leads(delivery, d) == d \in Range(Members[delivery.group])

\* Flow control is turned on wherever the route goes to d, which is one place.
Exclusive(route, d) ==
  \A i, j \in DOMAIN route :
    Leads(route[i], d) /\ Leads(route[j], d) =>
      i = j /\ route[i].flow /\ AtMostOnce(Members[route[i].group], d)

\* No message comes to d without flow control, or twice.
FedOnce(d) == \A route \in Route : Exclusive(route, d)

\* A message is at the full queue of a writer that has only flow-controlled
\* ones, each from one statement.
FlowControlledDrop ==
  /\ call.at = "group"
  /\ call.dests # <<>>
  /\ Head(call.dests) \notin Terminal
  /\ Refuses(Head(call.dests))
  /\ FedOnce(Head(call.dests))

\* A queue with room for the windows of all sources and for their overshoot
\* never drops a flow-controlled message.
NoDropWhenRoomForOvershoot ==
  FlowControlledDrop =>
    Fifo[Head(call.dests)] <
      Total([d \in Driver |-> InitWindow[d] + Overshoot(d)])

\* What the comment in log_writer_queue says: a full queue "should not happen
\* unless the sum of window_sizes of sources feeding this writer exceeds
\* log_fifo_size or if flow control is not turned on".
NoDropWhenRoomForWindows ==
  FlowControlledDrop => Fifo[Head(call.dests)] < Total(InitWindow)

\* A source driver stopped by flow control is read again.
SourcesResume == \A d \in Driver : window[d] <= 0 ~> window[d] > 0
=============================================================================
