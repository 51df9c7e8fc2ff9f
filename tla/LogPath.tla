------------------------------- MODULE LogPath -------------------------------
(***************************************************************************)
(* The path of a message through syslog-ng 2.0: LogSource -> LogCenter ->  *)
(* LogDestGroup -> LogWriter, and the acknowledgements that travel back.   *)
(*                                                                         *)
(* A message carries a stack of acknowledgement blocks (logmsg.c).  The    *)
(* source, the center and every flow-controlled destination group push a   *)
(* block; whoever hands the message on increments the block on top, and    *)
(* whoever is done with it acknowledges the block on top, whichever        *)
(* component pushed it.  A block whose acknowledgements are complete is    *)
(* popped, and its callback acknowledges the next one.  The callback of    *)
(* the source's block returns one unit of window to the source driver.     *)
(*                                                                         *)
(* The chain log_source_queue -> log_center_queue -> log_dest_group_queue  *)
(* -> log_writer_queue is one uninterrupted call in the program.  Here it  *)
(* is a sequence of steps, one for each call, and the variable call is its *)
(* program counter: no other action is enabled until the chain is back in  *)
(* the main loop.                                                          *)
(***************************************************************************)
EXTENDS Integers, Sequences, FiniteSets, SequencesExt

CONSTANTS
  Msg,         \* LogMessage structures, reused once they are freed
  Reader,      \* LogSource instances
  Driver,      \* source drivers: their LogSourceOptions hold the window
  DriverOf,    \* the driver of each reader
  InitWindow,  \* log_iw_size() of each driver
  Dest,        \* destination drivers
  Terminal,    \* those with no LogWriter: the message is settled in queue()
  Fifo,        \* log_fifo_size() of each destination driver
  Group,       \* destination groups
  Members,     \* the drivers of a group, in the order of the configuration
  Route        \* what the log statements make of a message: see LogCenter

Delivery == [group : Group, flow : BOOLEAN]

ASSUME LogPathAssumption ==
  /\ IsFiniteSet(Msg)
  /\ DriverOf \in [Reader -> Driver]
  /\ InitWindow \in [Driver -> Nat \ {0}]
  /\ Terminal \subseteq Dest
  /\ Fifo \in [Dest -> Nat \ {0}]
  /\ Members \in [Group -> Seq(Dest)]
  /\ Route \subseteq Seq(Delivery)

VARIABLES
  msg,     \* every LogMessage: its reference count and stack of ack blocks
  window,  \* window_size of each source driver
  queue,   \* the output queue of each LogWriter
  call     \* where the call chain started by log_source_queue stands

vars == <<msg, window, queue, call>>

\* by: whose callback it is; a source's block names the source itself.
Block == [by : Reader \cup {"center", "group"}, req : Nat, ack : Nat]

LogMessage == [refs : Int, blocks : Seq(Block)]

Entry == [msg : Msg, flow : BOOLEAN]

InMain == [at |-> "main"]

Call ==
  {InMain} \cup
  [at : {"center", "group"}, msg : Msg, todo : Seq(Delivery),
   dests : Seq(Dest), flow : BOOLEAN]

TypeOK ==
  /\ msg \in [Msg -> LogMessage]
  /\ window \in [Driver -> Int]
  /\ queue \in [Dest -> Seq(Entry)]
  /\ \A d \in Dest : Len(queue[d]) <= Fifo[d]
  /\ call \in Call

-----------------------------------------------------------------------------
(***************************************************************************)
(* Operations of logmsg.c on one message.  The top of the stack is the     *)
(* last element of blocks.                                                 *)
(***************************************************************************)

Ref(lm) == [lm EXCEPT !.refs = @ + 1]

Unref(lm) == [lm EXCEPT !.refs = @ - 1]

BlockStart(lm, by) ==
  [lm EXCEPT !.blocks = Append(@, [by |-> by, req |-> 1, ack |-> 0])]

BlockInc(lm) ==
  IF lm.blocks = <<>> THEN lm
  ELSE [lm EXCEPT !.blocks[Len(lm.blocks)].req = @ + 1]

\* One more acknowledgement completes the block.
Due(b) == b.ack + 1 = b.req

\* The block at which the acknowledgement stops: every block above it is
\* completed and popped by its own callback.  0 when the stack empties.
Stop(bs) ==
  IF \A i \in DOMAIN bs : Due(bs[i]) THEN 0
  ELSE CHOOSE k \in DOMAIN bs :
         ~Due(bs[k]) /\ \A i \in DOMAIN bs : i > k => Due(bs[i])

\* log_msg_ack and the callbacks it runs.  Every callback pops its block and
\* drops the reference the block held; those of the center and of a group
\* acknowledge the next block in turn.
Ack(lm) ==
  LET k == Stop(lm.blocks)
  IN [lm EXCEPT
        !.refs = @ - (Len(lm.blocks) - k),
        !.blocks = [i \in 1..k |->
                      IF i = k THEN [lm.blocks[i] EXCEPT !.ack = @ + 1]
                      ELSE lm.blocks[i]]]

\* The source that pushed the oldest block.
Origin(lm) == lm.blocks[1].by

\* Mutant: the callback of every block credits the source.
AckedOnPop(old, new) == Len(new.blocks) < Len(old.blocks)

\* log_source_msg_ack ran: the oldest block was popped.
Acked(old, new) == old.blocks # <<>> /\ new.blocks = <<>>

\* The message m becomes new; its driver is credited if its source was acked.
Update(m, new) ==
  /\ msg' = [msg EXCEPT ![m] = new]
  /\ window' = IF Acked(msg[m], new)
               THEN [window EXCEPT ![DriverOf[Origin(msg[m])]] = @ + 1]
               ELSE window

-----------------------------------------------------------------------------
Init ==
  /\ msg = [m \in Msg |-> [refs |-> 0, blocks |-> <<>>]]
  /\ window = InitWindow
  /\ queue = [d \in Dest |-> <<>>]
  /\ call = InMain

\* A reader creates a message and queues it: log_source_queue pushes the
\* source's block and takes one unit of window, without looking at what is
\* left of it; log_center_queue references the message, pushes its own block
\* and starts on the deliveries of the log statements that accept it.
Fetch(r, m, route) ==
  /\ call.at = "main"
  /\ msg[m].refs = 0
  /\ msg' = [msg EXCEPT ![m] =
               BlockStart(
                 Ref(BlockStart([refs |-> 1, blocks |-> <<>>], r)), "center")]
  /\ window' = [window EXCEPT ![DriverOf[r]] = @ - 1]
  /\ call' = [at |-> "center", msg |-> m, todo |-> route,
              dests |-> <<>>, flow |-> FALSE]
  /\ UNCHANGED queue

\* Mutant: log_dest_group_queue is called without log_msg_ack_block_inc.
EnterGroupUncounted ==
  /\ call.at = "center"
  /\ call.todo # <<>>
  /\ LET next == Head(call.todo)
         lm   == msg[call.msg]
     IN /\ msg' = [msg EXCEPT ![call.msg] =
                     IF next.flow THEN BlockStart(Ref(Ref(lm)), "group")
                     ELSE Ref(lm)]
        /\ call' = [call EXCEPT !.at = "group", !.todo = Tail(@),
                                !.dests = Members[next.group],
                                !.flow = next.flow]
  /\ UNCHANGED <<window, queue>>

\* The center hands the message to the next destination group.  In a
\* flow-controlled statement it increments the block on top, and the group
\* references the message and pushes a block of its own.
EnterGroup ==
  /\ call.at = "center"
  /\ call.todo # <<>>
  /\ LET next == Head(call.todo)
         lm   == msg[call.msg]
     IN /\ msg' = [msg EXCEPT ![call.msg] =
                     IF next.flow
                     THEN BlockStart(Ref(Ref(BlockInc(lm))), "group")
                     ELSE Ref(lm)]
        /\ call' = [call EXCEPT !.at = "group", !.todo = Tail(@),
                                !.dests = Members[next.group],
                                !.flow = next.flow]
  /\ UNCHANGED <<window, queue>>

\* Mutant: the group forgets the reference for a driver.
GivenUnreferenced(lm) == IF call.flow THEN BlockInc(lm) ELSE lm

\* The message as the group passes it to a driver.
Given(lm) == Ref(IF call.flow THEN BlockInc(lm) ELSE lm)

\* Mutant: the limit is tested one message late.
RefusesLate(d) == d \in Terminal \/ Len(queue[d]) > Fifo[d]

\* The driver settles the message at once: it has no writer, or the queue of
\* its writer is full.
Refuses(d) == d \in Terminal \/ Len(queue[d]) = Fifo[d]

Enqueue ==
  /\ call.at = "group"
  /\ call.dests # <<>>
  /\ ~Refuses(Head(call.dests))
  /\ msg' = [msg EXCEPT ![call.msg] = Given(@)]
  /\ queue' = [queue EXCEPT ![Head(call.dests)] =
                 Append(@, [msg |-> call.msg, flow |-> call.flow])]
  /\ call' = [call EXCEPT !.dests = Tail(@)]
  /\ UNCHANGED window

\* Mutant: a dropped message is only unreferenced.
DropUnacked ==
  /\ call.at = "group"
  /\ call.dests # <<>>
  /\ Refuses(Head(call.dests))
  /\ Update(call.msg, Unref(Given(msg[call.msg])))
  /\ call' = [call EXCEPT !.dests = Tail(@)]
  /\ UNCHANGED queue

\* log_msg_drop acknowledges the message unless the path is not
\* flow-controlled, and drops the reference made for the driver.
Drop ==
  /\ call.at = "group"
  /\ call.dests # <<>>
  /\ Refuses(Head(call.dests))
  /\ LET lm == Given(msg[call.msg])
     IN Update(call.msg, Unref(IF call.flow THEN Ack(lm) ELSE lm))
  /\ call' = [call EXCEPT !.dests = Tail(@)]
  /\ UNCHANGED queue

\* The group has called every driver: its own acknowledgement, and the
\* reference the center made for it.
LeaveGroup ==
  /\ call.at = "group"
  /\ call.dests = <<>>
  /\ LET lm == msg[call.msg]
     IN Update(call.msg, Unref(IF call.flow THEN Ack(lm) ELSE lm))
  /\ call' = [call EXCEPT !.at = "center"]
  /\ UNCHANGED queue

\* The center has been through the log statements: its own acknowledgement.
LeaveCenter ==
  /\ call.at = "center"
  /\ call.todo = <<>>
  /\ Update(call.msg, Ack(msg[call.msg]))
  /\ call' = InMain
  /\ UNCHANGED queue

\* Mutants: the flow-control flag of the queue entry is ignored.
FlushEntry(d, lm) ==
  /\ call.at = "main"
  /\ queue[d] # <<>>
  /\ Update(Head(queue[d]).msg, Unref(lm))
  /\ queue' = [queue EXCEPT ![d] = Tail(@)]
  /\ UNCHANGED call
FlushUnacked(d) == FlushEntry(d, msg[Head(queue[d]).msg])
FlushAlwaysAcks(d) == FlushEntry(d, Ack(msg[Head(queue[d]).msg]))

\* log_writer_flush_log takes the message at the head of the queue: it is
\* acknowledged and released before it is written.
Flush(d) ==
  /\ call.at = "main"
  /\ queue[d] # <<>>
  /\ LET e  == Head(queue[d])
         lm == msg[e.msg]
     IN Update(e.msg, Unref(IF e.flow THEN Ack(lm) ELSE lm))
  /\ queue' = [queue EXCEPT ![d] = Tail(@)]
  /\ UNCHANGED call

Chain == EnterGroup \/ Enqueue \/ Drop \/ LeaveGroup \/ LeaveCenter

Next ==
  \/ \E r \in Reader, m \in Msg, route \in Route : Fetch(r, m, route)
  \/ Chain
  \/ \E d \in Dest : Flush(d)

Spec == Init /\ [][Next]_vars

\* A call chain returns.  Between any two dispatches the main loop polls, and
\* it dispatches writers before readers (LOG_PRIORITY_WRITER is the more
\* urgent), so a writer whose destination takes data again and again is
\* flushed even if the sources never pause.
Fairness == WF_vars(Chain) /\ \A d \in Dest : SF_vars(Flush(d))

FairSpec == Spec /\ Fairness

-----------------------------------------------------------------------------
(***************************************************************************)
(* Safety.                                                                 *)
(***************************************************************************)

\* The messages a driver has accepted and whose acknowledgement it awaits.
Outstanding(d) ==
  {m \in Msg : msg[m].blocks # <<>> /\ DriverOf[Origin(msg[m])] = d}

\* The window of a source driver and the messages it waits for always add up
\* to log_iw_size(): no call of log_msg_ack returns a unit twice, and no
\* message that is dropped, or refused by every destination, keeps one.
WindowConserved ==
  \A d \in Driver : window[d] + Cardinality(Outstanding(d)) = InitWindow[d]

\* The places of some entries in output queues.
PlacesIn(q, entries) ==
  UNION {{d} \X {i \in DOMAIN q[d] : q[d][i] \in entries} : d \in Dest}

\* The places of m in the output queues, all and flow-controlled ones.
Places(m) == PlacesIn(queue, [msg : {m}, flow : BOOLEAN])

FlowPlaces(m) == PlacesIn(queue, [msg : {m}, flow : {TRUE}])

InChain(m) == call.at # "main" /\ call.msg = m

InGroup(m) == call.at = "group" /\ call.msg = m

One(P) == IF P THEN 1 ELSE 0

\* Reference counting: a message is referenced by each of its ack blocks, by
\* each place it has in a queue, and by the group that is dispatching it.  So
\* the reference dropped last is the last use of the message, and the
\* message is freed then.
RefsCounted ==
  \A m \in Msg :
    msg[m].refs = Len(msg[m].blocks) + Cardinality(Places(m)) + One(InGroup(m))

\* The acknowledgements m still needs: one from each flow-controlled writer
\* that holds it, one from the center and one from the flow-controlled group
\* that are dispatching it.
Pending(m) ==
  Cardinality(FlowPlaces(m)) + One(InChain(m)) + One(InGroup(m) /\ call.flow)

\* The acknowledgements that blocks lack beyond one each.
Extra(bs) == UNION {{i} \X ((bs[i].ack + 2)..bs[i].req) : i \in DOMAIN bs}

\* The acknowledgements the stack of blocks waits for.  Completing a block
\* gives one to the block under it.
StackDebt(bs) == IF bs = <<>> THEN 0 ELSE 1 + Cardinality(Extra(bs))

\* Increments and acknowledgements always hit the block on top, often one
\* that another group pushed.  Taken together the stack still waits for
\* exactly the acknowledgements that are pending, so that a source waits for
\* the acknowledgement of a message exactly as long as the message is being
\* dispatched or is in the queue of a flow-controlled writer.
AwaitedIffHeld ==
  \A m \in Msg :
    /\ StackDebt(msg[m].blocks) = Pending(m)
    /\ msg[m].blocks # <<>> <=> InChain(m) \/ FlowPlaces(m) # {}

\* Who pushes the block at a place of the stack.
Pusher(i) ==
  IF i = 1 THEN Reader ELSE IF i = 2 THEN {"center"} ELSE {"group"}

\* A stack of blocks none of which is complete.
Nested(bs) ==
  \A i \in DOMAIN bs : bs[i].by \in Pusher(i) /\ bs[i].ack < bs[i].req

\* The blocks are nested as the calls were: the source's at the bottom, then
\* the center's, which stays until log_center_queue is done with the message,
\* then those of groups.  While a group is calling its drivers, nothing but
\* its own acknowledgement can complete the block under its own.
BlocksNested ==
  \A m \in Msg : LET bs == msg[m].blocks IN
    /\ Nested(bs)
    /\ InChain(m) => Len(bs) >= 2
    /\ InGroup(m) /\ call.flow =>
         Len(bs) >= 3 /\ bs[Len(bs) - 1].ack + 1 < bs[Len(bs) - 1].req

-----------------------------------------------------------------------------
(***************************************************************************)
(* Refinement and liveness.                                                *)
(***************************************************************************)

Ledger == INSTANCE AckLedger WITH
  Window <- InitWindow,
  owed   <- [m \in Msg |-> Pending(m)],
  owner  <- [m \in Msg |-> IF msg[m].blocks = <<>> THEN "nobody"
                            ELSE DriverOf[Origin(msg[m])]],
  credit <- window,
  Nobody <- "nobody"

\* A driver is credited at the step at which the last flow-controlled part of
\* the log path lets go of the message, and at no other.
LedgerSpec == Ledger!Spec

\* Every message a source was charged for is acknowledged to it and freed in
\* the end, whatever its destinations drop.
EventuallySettled ==
  \A m \in Msg : msg[m].refs > 0 ~> msg[m].refs = 0
=============================================================================
