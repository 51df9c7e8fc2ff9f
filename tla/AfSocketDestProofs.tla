-------------------------- MODULE AfSocketDestProofs --------------------------
(***************************************************************************)
(* Theorems about AfSocketDest, for any messages and lengths of lines, any *)
(* length of the queue, and any number of handles and descriptors.         *)
(***************************************************************************)
EXTENDS AfSocketDest, SequenceLemmas

-----------------------------------------------------------------------------
(***************************************************************************)
(* Types.                                                                  *)
(***************************************************************************)

LEMMA StartTimerType ==
  ASSUME TypeOK, NEW live \in SUBSET Id, StartTimer(live)
  PROVE  timers' \subseteq Id /\ reconnect_timer' \in Id
BY DEF StartTimer, FreshId, TypeOK

LEMMA ReconnectType ==
  ASSUME TypeOK, NEW live \in SUBSET Id, Reconnect(live)
  PROVE  /\ timers' \subseteq Id /\ open' \subseteq Socket
         /\ connecting' \subseteq [id : Id, fd : Socket]
         /\ {reconnect_timer', source_id'} \subseteq Id \cup {None}
         /\ out' \in Socket \cup {None}
<1>. USE DEF TypeOK
<1>. PICK fd \in Socket \ open :
       \/ ConnectFailed(fd, live, connecting, open \cup {fd})
       \/ ConnectDone(fd, live, connecting, open \cup {fd})
       \/ ConnectLater(fd, live)
  BY DEF Reconnect
<1>1. CASE ConnectFailed(fd, live, connecting, open \cup {fd})
  BY <1>1, StartTimerType DEF ConnectFailed
<1>2. CASE ConnectDone(fd, live, connecting, open \cup {fd})
  BY <1>2 DEF ConnectDone, Unwatched
<1>3. CASE ConnectLater(fd, live)
  <2>1. PICK id \in FreshId :
          /\ connecting' = connecting \cup {[id |-> id, fd |-> fd]}
          /\ source_id' = id
    BY <1>3 DEF ConnectLater
  <2>2. id \in Id /\ [id |-> id, fd |-> fd] \in [id : Id, fd : Socket]
    BY DEF FreshId
  <2>. QED
    BY <1>3, <2>1, <2>2 DEF ConnectLater
<1>. QED
  BY <1>1, <1>2, <1>3

LEMMA ConnectedType ==
  ASSUME TypeOK, NEW w \in connecting, Connected(w)
  PROVE  /\ timers' \subseteq Id /\ open' \subseteq Socket
         /\ connecting' \subseteq [id : Id, fd : Socket]
         /\ {reconnect_timer', source_id'} \subseteq Id \cup {None}
         /\ out' \in Socket \cup {None}
<1>. USE DEF TypeOK
<1>1. CASE ConnectFailed(w.fd, timers, connecting \ {w}, open)
  BY <1>1, StartTimerType DEF ConnectFailed
<1>2. CASE ConnectDone(w.fd, timers, connecting \ {w}, open)
  BY <1>2 DEF ConnectDone, Unwatched
<1>. QED
  BY <1>1, <1>2 DEF Connected

LEMMA KeepType ==
  ASSUME TypeOK, NEW m \in Message, NEW taken \in Nat, NEW pos \in Nat,
         taken + pos <= Size[m], Keep(m, taken, pos)
  PROVE  /\ partial' \in Message \cup {None}
         /\ partial_pos' \in Nat
         /\ partial' # None => partial' = m /\ partial_pos' < Size[m]
BY AfSocketDestAssumption DEF Keep

LEMMA QueueTail ==
  ASSUME TypeOK, queue # <<>>
  PROVE  /\ Head(queue) \in Message /\ Tail(queue) \in Seq(Message)
         /\ Len(Tail(queue)) <= Fifo
<1>1. queue \in Seq(Message) /\ Len(queue) <= Fifo
  BY Zenon DEF TypeOK
<1>2. /\ Head(queue) \in Message /\ Tail(queue) \in Seq(Message)
      /\ Len(Tail(queue)) = Len(queue) - 1
  BY <1>1, HeadTailProperties
<1>. QED
  BY <1>1, <1>2, AfSocketDestAssumption

LEMMA TypeStep == TypeOK /\ [Next]_vars => TypeOK'
<1>. SUFFICES ASSUME TypeOK, [Next]_vars
              PROVE  TypeOK'
  OBVIOUS
<1>. USE AfSocketDestAssumption
<1>1. CASE Start
  <2>1. timers \in SUBSET Id /\ Reconnect(timers)
    BY <1>1 DEF Start, TypeOK
  <2>2. UNCHANGED writer /\ running' \in BOOLEAN
        /\ counter' \in {"no writer", "registered", "orphaned"}
    BY <1>1 DEF Start, TypeOK
  <2>. QED
    BY <2>1, <2>2, ReconnectType DEF TypeOK, writer
<1>2. CASE Stop
  BY <1>2 DEF Stop, Unwatched, TypeOK, writer
<1>3. ASSUME NEW id \in Id, TimerFires(id)
      PROVE  TypeOK'
  <2>1. timers \ {id} \in SUBSET Id /\ Reconnect(timers \ {id})
    BY <1>3 DEF TimerFires, TypeOK
  <2>2. UNCHANGED <<running, counter, writer>>
    BY <1>3 DEF TimerFires
  <2>. QED
    BY <2>1, <2>2, ReconnectType DEF TypeOK, writer
<1>4. ASSUME NEW w \in connecting, Connected(w)
      PROVE  TypeOK'
  <2>1. UNCHANGED <<running, counter, writer>>
    BY <1>4 DEF Connected
  <2>. QED
    BY <1>4, <2>1, ConnectedType DEF TypeOK, writer
<1>5. ASSUME NEW m \in Message, Queue(m)
      PROVE  TypeOK'
  <2>1. queue \in Seq(Message) /\ accepted \in Seq(Message)
    BY DEF TypeOK
  <2>2. /\ Append(queue, m) \in Seq(Message)
        /\ Append(accepted, m) \in Seq(Message)
        /\ Len(Append(queue, m)) = Len(queue) + 1
    BY <2>1, AppendProperties
  <2>3. Len(queue) \in Nat /\ Len(queue) < Fifo
    BY <1>5, <2>1 DEF Queue
  <2>4. queue' \in Seq(Message) /\ Len(queue') <= Fifo
    BY <1>5, <2>2, <2>3 DEF Queue
  <2>5. accepted' \in Seq(Message)
    BY <1>5, <2>2 DEF Queue
  <2>6. UNCHANGED <<running, counter, partial, partial_pos, driver>>
    BY <1>5 DEF Queue
  <2>. QED
    BY <2>4, <2>5, <2>6 DEF TypeOK, driver
<1>6. CASE Write
  <2>1. PICK taken \in Lengths : WritePartial(taken) \/ WriteNext(taken)
    BY <1>6 DEF Write
  <2>2. taken \in Nat
    BY DEF Lengths
  <2>3. CASE WritePartial(taken)
    <3>1. /\ partial \in Message /\ partial_pos \in Nat
          /\ taken <= Size[partial] - partial_pos
          /\ Keep(partial, taken, partial_pos)
          /\ UNCHANGED <<running, counter, queue, accepted, driver>>
      BY <2>3 DEF WritePartial, TypeOK
    <3>3. taken + partial_pos <= Size[partial]
      BY <2>2, <3>1
    <3>2. /\ partial' \in Message \cup {None} /\ partial_pos' \in Nat
          /\ partial' # None => partial_pos' < Size[partial']
      BY <2>2, <3>1, <3>3, KeepType
    <3>. QED
      BY <3>1, <3>2 DEF TypeOK, driver
  <2>4. CASE WriteNext(taken)
    <3>1. /\ queue # <<>> /\ queue' = Tail(queue)
          /\ taken <= Size[Head(queue)]
          /\ Keep(Head(queue), taken, 0)
          /\ UNCHANGED <<running, counter, accepted, driver>>
      BY <2>4 DEF WriteNext
    <3>2. /\ Head(queue) \in Message
          /\ queue' \in Seq(Message) /\ Len(queue') <= Fifo
      BY <3>1, QueueTail
    <3>3. taken + 0 <= Size[Head(queue)]
      BY <2>2, <3>1
    <3>4. /\ partial' \in Message \cup {None} /\ partial_pos' \in Nat
          /\ partial' # None => partial_pos' < Size[partial']
      BY <2>2, <3>1, <3>2, <3>3, KeepType
    <3>. QED
      BY <3>1, <3>2, <3>4 DEF TypeOK, driver
  <2>. QED
    BY <2>1, <2>3, <2>4
<1>7. ASSUME Broken
      PROVE  /\ running' = running /\ counter' = "orphaned" /\ out' = None
             /\ timers' \subseteq Id /\ open' \subseteq Socket
             /\ connecting' \subseteq [id : Id, fd : Socket]
             /\ {reconnect_timer', source_id'} \subseteq Id \cup {None}
  BY <1>7, StartTimerType DEF Broken, TypeOK
<1>8. CASE BreakIdle
  <2>1. Broken /\ UNCHANGED writer
    BY <1>8 DEF BreakIdle
  <2>. QED
    BY <1>7, <2>1 DEF TypeOK, writer
<1>9. CASE BreakNext
  <2>1. /\ queue # <<>> /\ queue' = Tail(queue)
        /\ Keep(Head(queue), 0, 0)
        /\ Broken /\ accepted' = accepted
    BY <1>9 DEF BreakNext
  <2>2. /\ Head(queue) \in Message
        /\ queue' \in Seq(Message) /\ Len(queue') <= Fifo
    BY <2>1, QueueTail
  <2>3. 0 + 0 <= Size[Head(queue)]
    BY <2>2
  <2>4. /\ partial' \in Message \cup {None} /\ partial_pos' \in Nat
        /\ partial' # None => partial_pos' < Size[partial']
    BY <2>1, <2>2, <2>3, KeepType
  <2>. QED
    BY <1>7, <2>1, <2>2, <2>4 DEF TypeOK
<1>10. CASE UNCHANGED vars
  BY <1>10 DEF vars, writer, driver, TypeOK
<1>. QED
  BY <1>1, <1>2, <1>3, <1>4, <1>5, <1>6, <1>8, <1>9, <1>10 DEF Next

\* The queue of a writer never exceeds log_fifo_size() and a partial line
\* always has bytes left to write (logwriter.c).
THEOREM TypeCorrect == Spec => []TypeOK
<1>1. Init => TypeOK
  <2>1. <<>> \in Seq(Message) /\ Len(<<>>) <= Fifo
    BY AfSocketDestAssumption
  <2>. SUFFICES ASSUME Init
                PROVE  TypeOK
    OBVIOUS
  <2>2. /\ queue \in Seq(Message) /\ Len(queue) <= Fifo
        /\ accepted \in Seq(Message)
    BY <2>1, Zenon DEF Init
  <2>. HIDE <2>1
  <2>. QED
    BY <2>2 DEF Init, TypeOK
<1>. QED
  BY <1>1, TypeStep, PTL DEF Spec

-----------------------------------------------------------------------------
(***************************************************************************)
(* What the driver waits for.  Which of the three it is, and which handle  *)
(* names it, is the inductive invariant: the number alone would allow a    *)
(* timer that nobody can remove, and a connection beside a timer that      *)
(* fires and starts another.                                               *)
(***************************************************************************)

Nothing == timers = {} /\ connecting = {} /\ out = None
AwaitsTimer ==
  /\ reconnect_timer \in Id /\ timers = {reconnect_timer}
  /\ connecting = {} /\ out = None
AwaitsConnect ==
  /\ timers = {} /\ out = None
  /\ \E w \in [id : Id, fd : Socket] : connecting = {w} /\ w.id = source_id
HasConnection == timers = {} /\ connecting = {} /\ out \in Socket

Activity ==
  /\ IF running THEN AwaitsTimer \/ AwaitsConnect \/ HasConnection
                ELSE Nothing
  /\ SocketsOwned

\* The forms of SocketsOwned.
LEMMA OwnedWhenWaiting ==
  ASSUME connecting = {}, out = None
  PROVE  SocketsOwned <=> open = {}
BY DEF SocketsOwned

LEMMA OwnedWhenConnecting ==
  ASSUME NEW w, connecting = {w}, out = None
  PROVE  SocketsOwned <=> open = {w.fd}
BY DEF SocketsOwned

LEMMA OwnedWhenConnected ==
  ASSUME connecting = {}, out \in Socket
  PROVE  SocketsOwned <=> open = {out}
BY AfSocketDestAssumption DEF SocketsOwned

LEMMA OwnedNext ==
  /\ connecting' = {} /\ out' = None /\ open' = {} => SocketsOwned'
  /\ \A w : connecting' = {w} /\ out' = None /\ open' = {w.fd} => SocketsOwned'
  /\ connecting' = {} /\ out' \in Socket /\ open' = {out'} => SocketsOwned'
BY AfSocketDestAssumption DEF SocketsOwned

\* One attempt from nothing leaves exactly one thing to wait for.
LEMMA ReconnectActivity ==
  ASSUME TypeOK, connecting = {}, out = None, open = {}, Reconnect({}), running'
  PROVE  Activity'
<1>. PICK fd \in Socket \ open :
       \/ ConnectFailed(fd, {}, connecting, open \cup {fd})
       \/ ConnectDone(fd, {}, connecting, open \cup {fd})
       \/ ConnectLater(fd, {})
  BY DEF Reconnect
<1>1. CASE ConnectFailed(fd, {}, connecting, open \cup {fd})
  <2>1. AwaitsTimer'
    BY <1>1 DEF ConnectFailed, StartTimer, FreshId, AwaitsTimer
  <2>2. open' = {}
    BY <1>1 DEF ConnectFailed
  <2>. QED
    BY <2>1, <2>2, OwnedNext DEF Activity, AwaitsTimer
<1>2. CASE ConnectDone(fd, {}, connecting, open \cup {fd})
  <2>1. HasConnection'
    BY <1>2 DEF ConnectDone, Unwatched, HasConnection
  <2>2. open' = {out'}
    BY <1>2, AfSocketDestAssumption DEF ConnectDone
  <2>. QED
    BY <2>1, <2>2, OwnedNext DEF Activity, HasConnection
<1>3. CASE ConnectLater(fd, {})
  <2>1. PICK id \in FreshId :
          /\ connecting' = connecting \cup {[id |-> id, fd |-> fd]}
          /\ source_id' = id
    BY <1>3 DEF ConnectLater
  <2>. DEFINE w == [id |-> id, fd |-> fd]
  <2>2. w \in [id : Id, fd : Socket] /\ w.id = source_id' /\ w.fd = fd
    BY <2>1 DEF FreshId
  <2>3. connecting' = {w}
    BY <2>1
  <2>. HIDE DEF w
  <2>4. AwaitsConnect'
    BY <1>3, <2>2, <2>3 DEF ConnectLater, AwaitsConnect
  <2>5. open' = {w.fd}
    BY <1>3, <2>2 DEF ConnectLater
  <2>. QED
    BY <2>3, <2>4, <2>5, OwnedNext DEF Activity, AwaitsConnect
<1>. QED
  BY <1>1, <1>2, <1>3

\* The end of an attempt to connect.
LEMMA ConnectedActivity ==
  ASSUME TypeOK, Activity, NEW w \in connecting, Connected(w)
  PROVE  Activity'
<1>1. running /\ connecting = {w} /\ timers = {} /\ out = None /\ w.fd \in Socket
  BY DEF Activity, Nothing, AwaitsTimer, AwaitsConnect, HasConnection
<1>2. open = {w.fd} /\ connecting \ {w} = {}
  BY <1>1, OwnedWhenConnecting DEF Activity
<1>3. running'
  BY <1>1 DEF Connected
<1>4. CASE ConnectFailed(w.fd, timers, connecting \ {w}, open)
  <2>1. AwaitsTimer'
    BY <1>1, <1>2, <1>4 DEF ConnectFailed, StartTimer, FreshId, AwaitsTimer
  <2>2. open' = {}
    BY <1>2, <1>4 DEF ConnectFailed
  <2>. QED
    BY <1>3, <2>1, <2>2, OwnedNext DEF Activity, AwaitsTimer
<1>5. CASE ConnectDone(w.fd, timers, connecting \ {w}, open)
  <2>1. HasConnection'
    BY <1>1, <1>2, <1>5 DEF ConnectDone, Unwatched, HasConnection
  <2>2. open' = {out'}
    BY <1>1, <1>2, <1>5, AfSocketDestAssumption DEF ConnectDone
  <2>. QED
    BY <1>3, <2>1, <2>2, OwnedNext DEF Activity, HasConnection
<1>. QED
  BY <1>4, <1>5 DEF Connected

\* A connection breaks only while there is one.
LEMMA BrokenActivity ==
  ASSUME TypeOK, Activity, out # None, Broken
  PROVE  Activity'
<1>1. running /\ connecting = {} /\ timers = {} /\ out \in Socket
  BY DEF Activity, Nothing, AwaitsTimer, AwaitsConnect, HasConnection
<1>2. open = {out}
  BY <1>1, OwnedWhenConnected DEF Activity
<1>3. AwaitsTimer'
  BY <1>1 DEF Broken, StartTimer, FreshId, AwaitsTimer
<1>4. open' = {} /\ running'
  BY <1>1, <1>2 DEF Broken
<1>. QED
  BY <1>3, <1>4, OwnedNext DEF Activity, AwaitsTimer

LEMMA SameActivity ==
  ASSUME Activity, UNCHANGED <<running, driver>>
  PROVE  Activity'
BY DEF Activity, driver, Nothing, AwaitsTimer, AwaitsConnect, HasConnection,
       SocketsOwned

LEMMA ActivityStep == TypeOK /\ Activity /\ [Next]_vars => Activity'
<1>. SUFFICES ASSUME TypeOK, Activity, [Next]_vars
              PROVE  Activity'
  OBVIOUS
<1>1. CASE Start
  <2>1. ~running /\ running' /\ Reconnect(timers)
    BY <1>1 DEF Start
  <2>2. Nothing
    BY <2>1 DEF Activity
  <2>3. open = {}
    BY <2>2, OwnedWhenWaiting DEF Activity, Nothing
  <2>. QED
    BY <2>1, <2>2, <2>3, ReconnectActivity DEF Nothing
<1>2. CASE Stop
  <2>1. ~running' /\ out' = None /\ timers' = {}
    BY <1>2 DEF Stop, Activity, AwaitsTimer, AwaitsConnect, HasConnection
  <2>2. running
    BY <1>2 DEF Stop
  <2>3. CASE AwaitsConnect
    <3>1. PICK w \in [id : Id, fd : Socket] :
            connecting = {w} /\ w.id = source_id
      BY <2>3 DEF AwaitsConnect
    <3>2. out = None
      BY <2>3 DEF AwaitsConnect
    <3>3. open = {w.fd}
      BY <3>1, <3>2, OwnedWhenConnecting DEF Activity
    <3>4. Unwatched(connecting) = {}
      BY <3>1 DEF Unwatched
    <3>5. connecting' = {} /\ open' = {}
      BY <1>2, <3>1, <3>3, <3>4 DEF Stop
    <3>. QED
      BY <2>1, <3>5, OwnedNext DEF Activity, Nothing
  <2>4. CASE AwaitsTimer \/ HasConnection
    <3>1. connecting = {}
      BY <2>4 DEF AwaitsTimer, HasConnection
    <3>2. open \subseteq {out}
      BY <2>4, <3>1, OwnedWhenWaiting, OwnedWhenConnected
         DEF Activity, AwaitsTimer, HasConnection
    <3>3. connecting' = {} /\ open' = {}
      BY <1>2, <3>1, <3>2 DEF Stop, Unwatched
    <3>. QED
      BY <2>1, <3>3, OwnedNext DEF Activity, Nothing
  <2>. QED
    BY <2>2, <2>3, <2>4 DEF Activity
<1>3. ASSUME NEW id \in Id, TimerFires(id)
      PROVE  Activity'
  <2>1. running' = running /\ id \in timers /\ Reconnect(timers \ {id})
    BY <1>3 DEF TimerFires
  <2>2. running /\ timers = {id} /\ connecting = {} /\ out = None
    BY <2>1 DEF Activity, Nothing, AwaitsTimer, AwaitsConnect, HasConnection
  <2>3. open = {} /\ timers \ {id} = {}
    BY <2>2, OwnedWhenWaiting DEF Activity
  <2>. QED
    BY <2>1, <2>2, <2>3, ReconnectActivity
<1>4. ASSUME NEW w \in connecting, Connected(w)
      PROVE  Activity'
  BY <1>4, ConnectedActivity
<1>5. ASSUME NEW m \in Message, Queue(m)
      PROVE  Activity'
  BY <1>5, SameActivity DEF Queue
<1>6. CASE Write
  BY <1>6, SameActivity DEF Write, WritePartial, WriteNext
<1>7. CASE BreakIdle
  BY <1>7, BrokenActivity DEF BreakIdle
<1>8. CASE BreakNext
  BY <1>8, BrokenActivity DEF BreakNext
<1>9. CASE UNCHANGED vars
  BY <1>9, SameActivity DEF vars
<1>. QED
  BY <1>1, <1>2, <1>3, <1>4, <1>5, <1>6, <1>7, <1>8, <1>9 DEF Next

LEMMA ActivityInvariant == Spec => []Activity
<1>1. Init => Activity
  BY OwnedWhenWaiting DEF Init, Activity, Nothing
<1>. QED
  BY <1>1, ActivityStep, TypeCorrect, PTL DEF Spec

\* However attempts and connections end, a running driver waits for exactly
\* one thing, whose handle it holds, and a stopped one for nothing
\* (afsocket_dd_start_reconnect_timer, _connected, _notify and _deinit,
\* afsocket.c).
THEOREM WaitsForOneThing == Spec => []OneActivity
<1>1. TypeOK /\ Activity => OneActivity
  <2>. SUFFICES ASSUME TypeOK, Activity
                PROVE  OneActivity
    OBVIOUS
  <2>1. /\ Cardinality({}) = 0
        /\ \A x : Cardinality({x}) = 1
    BY FS_EmptySet, FS_Singleton
  <2>2. CASE ~running
    BY <2>1, <2>2 DEF Activity, Nothing, OneActivity, Flag
  <2>3. CASE running /\ AwaitsTimer
    BY <2>1, <2>3 DEF AwaitsTimer, OneActivity, Flag
  <2>4. CASE running /\ AwaitsConnect
    BY <2>1, <2>4 DEF AwaitsConnect, OneActivity, Flag
  <2>5. CASE running /\ HasConnection
    BY <2>1, <2>5, AfSocketDestAssumption
       DEF HasConnection, OneActivity, Flag
  <2>. QED
    BY <2>2, <2>3, <2>4, <2>5 DEF Activity
<1>. QED
  BY <1>1, TypeCorrect, ActivityInvariant, PTL

\* No descriptor leaks, and none is closed while a watch still has it.
THEOREM NoSocketLeaks == Spec => []SocketsOwned
<1>1. Activity => SocketsOwned
  BY DEF Activity
<1>. QED
  BY <1>1, ActivityInvariant, PTL

-----------------------------------------------------------------------------
(***************************************************************************)
(* The bytes.                                                              *)
(***************************************************************************)

Byte == Message \X Nat

\* What is left to write of the partial line, and the lines of a queue.
Rest == IF partial = None THEN <<>>
        ELSE Bytes(partial, partial_pos, Size[partial])
Lines(q) == [i \in DOMAIN q |-> Line(q[i])]

\* s is the bytes of the line of m after the first a, up to b.
AreBytes(s, m, a, b) ==
  /\ s \in Seq(Byte)
  /\ Len(s) = b - a
  /\ \A i \in 1..(b - a) : s[i] = <<m, a + i>>

LEMMA BytesType ==
  ASSUME NEW m \in Message, NEW a \in Nat, NEW b \in Nat, a <= b
  PROVE  AreBytes(Bytes(m, a, b), m, a, b)
<1>. DEFINE n == b - a
            f == [i \in 1..n |-> <<m, a + i>>]
<1>1. n \in Nat
  OBVIOUS
<1>2. \A i \in 1..n : <<m, a + i>> \in Byte
  BY <1>1 DEF Byte
<1>. HIDE DEF n
<1>3. f \in [1..n -> Byte]
  BY <1>1, <1>2
<1>4. f \in Seq(Byte) /\ Len(f) = n /\ \A i \in 1..n : f[i] = <<m, a + i>>
  <2>1. \A i \in 1..n : f[i] = <<m, a + i>>
    OBVIOUS
  <2>. HIDE DEF f
  <2>2. f \in Seq(Byte) /\ Len(f) = n
    BY <1>1, <1>3
  <2>. QED
    BY <2>1, <2>2
<1>5. f = Bytes(m, a, b)
  BY DEF Bytes, n
<1>. HIDE DEF f
<1>. QED
  BY <1>4, <1>5 DEF n, AreBytes

\* A line that is written in two pieces is the pieces together.
LEMMA BytesSplit ==
  ASSUME NEW m \in Message, NEW a \in Nat, NEW b \in Nat, NEW c \in Nat,
         a <= b, b <= c
  PROVE  Bytes(m, a, b) \o Bytes(m, b, c) = Bytes(m, a, c)
<1>. DEFINE s == Bytes(m, a, b)
            t == Bytes(m, b, c)
            u == Bytes(m, a, c)
<1>1. a <= c
  OBVIOUS
<1>2. AreBytes(s, m, a, b) /\ AreBytes(t, m, b, c) /\ AreBytes(u, m, a, c)
  BY <1>1, BytesType, Zenon
<1>. HIDE DEF s, t, u
<1>3. s \in Seq(Byte) /\ t \in Seq(Byte) /\ u \in Seq(Byte)
  BY <1>2 DEF AreBytes
<1>4. Len(s) = b - a /\ Len(t) = c - b /\ Len(u) = c - a
  BY <1>2 DEF AreBytes
<1>5. s \o t \in Seq(Byte) /\ Len(s \o t) = c - a
  BY <1>3, <1>4
<1>6. ASSUME NEW i \in 1..(c - a)
      PROVE  (s \o t)[i] = u[i]
  <2>1. u[i] = <<m, a + i>>
    BY <1>2 DEF AreBytes
  <2>2. i \in 1..(Len(s) + Len(t))
    BY <1>4
  <2>3. (s \o t)[i] = IF i <= Len(s) THEN s[i] ELSE t[i - Len(s)]
    BY <1>3, <2>2, ConcatProperties
  <2>4. CASE i <= Len(s)
    <3>1. s[i] = <<m, a + i>>
      BY <1>2, <1>4, <2>4 DEF AreBytes
    <3>. QED
      BY <2>1, <2>3, <2>4, <3>1
  <2>5. CASE ~(i <= Len(s))
    <3>. DEFINE j == i - Len(s)
    <3>1. j \in 1..(c - b) /\ b + j = a + i
      BY <1>4, <2>5
    <3>2. (s \o t)[i] = t[j]
      BY <2>3, <2>5
    <3>. HIDE DEF j
    <3>3. t[j] = <<m, b + j>>
      BY <1>2, <3>1 DEF AreBytes
    <3>. QED
      BY <2>1, <3>1, <3>2, <3>3
  <2>. QED
    BY <2>4, <2>5
<1>7. s \o t = u
  <2>. DEFINE v == s \o t
  <2>1. /\ v \in Seq(Byte) /\ Len(v) = Len(u)
        /\ \A i \in 1..Len(v) : v[i] = u[i]
    BY <1>4, <1>5, <1>6
  <2>. HIDE DEF v
  <2>2. v = u
    BY <1>3, <2>1, SeqEqual
  <2>. QED
    BY <2>2 DEF v
<1>. QED
  BY <1>7 DEF s, t, u

LEMMA NoBytes ==
  ASSUME NEW m, NEW a \in Nat
  PROVE  Bytes(m, a, a) = <<>>
BY DEF Bytes

LEMMA LineType ==
  ASSUME NEW m \in Message
  PROVE  Line(m) \in Seq(Byte)
<1>1. 0 \in Nat /\ Size[m] \in Nat /\ 0 <= Size[m]
  BY AfSocketDestAssumption
<1>. QED
  BY <1>1, BytesType DEF Line, AreBytes

\* The lines of the messages of q are the pieces that they stand for.
LineOf == [m \in Message |-> Line(m)]

LEMMA LineOfType ==
  /\ LineOf \in [Message -> Seq(Byte)]
  /\ \A m \in Message : LineOf[m] = Line(m)
BY LineType DEF LineOf

LEMMA LinesAreRendered ==
  ASSUME NEW q \in Seq(Message)
  PROVE  Lines(q) = Rendered(q, LineOf)
<1>1. \A i \in DOMAIN q : q[i] \in Message
  OBVIOUS
<1>. QED
  BY <1>1, LineOfType DEF Lines, Rendered

LEMMA LinesType ==
  ASSUME NEW q \in Seq(Message)
  PROVE  FlattenSeq(Lines(q)) \in Seq(Byte)
<1>1. AreRendered(Rendered(q, LineOf), q, LineOf, Byte)
  BY LineOfType, RenderedType, Zenon
<1>. QED
  BY <1>1, LinesAreRendered, Zenon DEF AreRendered

LEMMA LinesAppend ==
  ASSUME NEW q \in Seq(Message), NEW m \in Message
  PROVE  FlattenSeq(Lines(Append(q, m))) = FlattenSeq(Lines(q)) \o Line(m)
<1>1. Append(q, m) \in Seq(Message)
  OBVIOUS
<1>2. /\ Lines(Append(q, m)) = Rendered(Append(q, m), LineOf)
      /\ Lines(q) = Rendered(q, LineOf)
  BY <1>1, LinesAreRendered, Zenon
<1>3. FlattenSeq(Rendered(Append(q, m), LineOf)) = FlattenSeq(Rendered(q, LineOf)) \o LineOf[m]
  BY LineOfType, RenderedAppend, Zenon
<1>4. LineOf[m] = Line(m)
  BY LineOfType, Zenon
<1>. QED
  BY <1>2, <1>3, <1>4, Zenon

LEMMA LinesTail ==
  ASSUME NEW q \in Seq(Message), q # <<>>
  PROVE  FlattenSeq(Lines(q)) = Line(Head(q)) \o FlattenSeq(Lines(Tail(q)))
<1>1. Tail(q) \in Seq(Message) /\ Head(q) \in Message
  OBVIOUS
<1>2. Lines(q) = Rendered(q, LineOf) /\ Lines(Tail(q)) = Rendered(Tail(q), LineOf)
  BY <1>1, LinesAreRendered, Zenon
<1>3. FlattenSeq(Rendered(q, LineOf))
        = LineOf[Head(q)] \o FlattenSeq(Rendered(Tail(q), LineOf))
  BY LineOfType, RenderedTail, Zenon
<1>4. LineOf[Head(q)] = Line(Head(q))
  BY <1>1, LineOfType, Zenon
<1>. QED
  BY <1>2, <1>3, <1>4, Zenon

-----------------------------------------------------------------------------
(***************************************************************************)
(* The order of the bytes.  The property is inductive once it is known     *)
(* that sent is a sequence of bytes: a write moves bytes from the partial  *)
(* line, or from the head of the queue, to the end of sent.                *)
(***************************************************************************)

Ordered == sent \in Seq(Byte) /\ InOrder

Accepted == FlattenSeq(Lines(accepted))
Waiting == FlattenSeq(Lines(queue))

LEMMA OrderedIs == Ordered <=> sent \in Seq(Byte) /\ sent \o Rest \o Waiting = Accepted
BY DEF Ordered, InOrder, Rest, Waiting, Accepted, Lines

LEMMA RestType ==
  ASSUME TypeOK
  PROVE  Rest \in Seq(Byte)
<1>1. CASE partial = None
  BY <1>1 DEF Rest
<1>2. CASE partial # None
  <2>1. /\ partial \in Message /\ partial_pos \in Nat
        /\ partial_pos < Size[partial]
    BY <1>2 DEF TypeOK
  <2>2. Size[partial] \in Nat /\ partial_pos <= Size[partial]
    BY <2>1, AfSocketDestAssumption
  <2>. QED
    BY <1>2, <2>1, <2>2, BytesType DEF Rest, AreBytes
<1>. QED
  BY <1>1, <1>2

\* What write() took and what is kept of a line are what there was of it.
LEMMA KeepRest ==
  ASSUME NEW m \in Message, NEW taken \in Nat, NEW pos \in Nat,
         taken + pos <= Size[m], Keep(m, taken, pos)
  PROVE  /\ Bytes(m, pos, pos + taken) \in Seq(Byte)
         /\ Rest' \in Seq(Byte)
         /\ Bytes(m, pos, pos + taken) \o Rest' = Bytes(m, pos, Size[m])
<1>. DEFINE end == pos + taken
            size == Size[m]
<1>1. /\ end \in Nat /\ pos <= end /\ end <= size
      /\ size \in Nat /\ m # None /\ size <= size
  BY AfSocketDestAssumption
<1>2. /\ partial' = IF end = size THEN None ELSE m
      /\ partial_pos' = end
  BY DEF Keep
<1>. HIDE DEF end, size
<1>3. Bytes(m, pos, end) \in Seq(Byte) /\ Bytes(m, end, size) \in Seq(Byte)
  BY <1>1, BytesType DEF AreBytes
<1>4. Rest' = Bytes(m, end, size)
  <2>1. CASE end = size
    BY <1>1, <1>2, <2>1, NoBytes DEF Rest
  <2>2. CASE end # size
    BY <1>1, <1>2, <2>2 DEF Rest, size
  <2>. QED
    BY <2>1, <2>2
<1>5. Bytes(m, pos, end) \o Bytes(m, end, size) = Bytes(m, pos, size)
  BY <1>1, BytesSplit
<1>. QED
  BY <1>3, <1>4, <1>5 DEF end, size

\* Bytes move from the front of what waits to the end of what was sent.
Moved(s, a, b, c) == ((s \o a) \o b) \o c = (s \o (a \o b)) \o c

LEMMA MoveOrder ==
  ASSUME NEW s \in Seq(Byte), NEW a \in Seq(Byte), NEW b \in Seq(Byte),
         NEW c \in Seq(Byte)
  PROVE  Moved(s, a, b, c)
<1>1. Associates(s, a, b)
  BY ConcatAssociates, Zenon
<1>. QED
  BY <1>1, Zenon DEF Associates, Moved

\* The next message leaves the queue: write() took some of its line, which may
\* be nothing, and keeps the rest.
LEMMA NextOrder ==
  ASSUME TypeOK, Ordered, partial = None, queue # <<>>, queue' = Tail(queue),
         accepted' = accepted, NEW taken \in Nat, taken <= Size[Head(queue)],
         sent' = sent \o Bytes(Head(queue), 0, taken),
         Keep(Head(queue), taken, 0)
  PROVE  Ordered'
<1>. DEFINE m == Head(queue)
            new == Bytes(m, 0, taken)
            rest == Rest'
            tail == FlattenSeq(Lines(Tail(queue)))
<1>1. m \in Message /\ Tail(queue) \in Seq(Message) /\ queue \in Seq(Message)
  BY QueueTail DEF TypeOK
<1>2. tail \in Seq(Byte) /\ Waiting = Line(m) \o tail
  BY <1>1, LinesType, LinesTail DEF Waiting
<1>3. 0 + taken = taken /\ taken + 0 <= Size[m] /\ 0 \in Nat
  OBVIOUS
<1>4. /\ new \in Seq(Byte) /\ rest \in Seq(Byte)
      /\ new \o rest = Line(m)
  <2>1. /\ Bytes(m, 0, 0 + taken) \in Seq(Byte)
        /\ rest \in Seq(Byte)
        /\ Bytes(m, 0, 0 + taken) \o rest = Bytes(m, 0, Size[m])
    BY <1>1, <1>3, KeepRest
  <2>. QED
    BY <1>3, <2>1 DEF Line
<1>5. Rest = <<>>
  BY DEF Rest
<1>6. sent \in Seq(Byte) /\ (sent \o Rest) \o Waiting = Accepted
  BY OrderedIs
<1>. HIDE DEF rest, tail, new
<1>7. sent \o Rest = sent
  BY <1>5, <1>6, ConcatEmptySeq
<1>8. sent \o (Line(m) \o tail) = Accepted
  BY <1>2, <1>6, <1>7
<1>9. sent \o new \in Seq(Byte)
  BY <1>4, <1>6
<1>10. ((sent \o new) \o rest) \o tail = (sent \o (new \o rest)) \o tail
  <2>1. /\ sent \in Seq(Byte) /\ new \in Seq(Byte)
        /\ rest \in Seq(Byte) /\ tail \in Seq(Byte)
    BY <1>2, <1>4, <1>6, Zenon
  <2>2. Moved(sent, new, rest, tail)
    BY <2>1, MoveOrder, Zenon
  <2>. QED
    BY <2>2, Zenon DEF Moved
<1>11. (sent \o Line(m)) \o tail = sent \o (Line(m) \o tail)
  <2>. DEFINE line == Line(m)
  <2>1. /\ sent \in Seq(Byte) /\ line \in Seq(Byte) /\ tail \in Seq(Byte)
    BY <1>1, <1>2, <1>6, LineType, Zenon
  <2>. HIDE DEF line
  <2>2. Associates(sent, line, tail)
    BY <2>1, ConcatAssociates, Zenon
  <2>. QED
    BY <2>2, Zenon DEF Associates, line
<1>12. ((sent \o new) \o rest) \o tail = Accepted
  BY <1>4, <1>8, <1>10, <1>11, Zenon
<1>13. sent' = sent \o new /\ Rest' = rest /\ Waiting' = tail /\ Accepted' = Accepted
  BY DEF rest, tail, new, Waiting, Accepted
<1>. QED
  BY <1>9, <1>12, <1>13, OrderedIs, Zenon DEF Ordered, InOrder, Rest, Waiting, Accepted, Lines

\* write() took more of the partial line.
LEMMA PartialOrder ==
  ASSUME TypeOK, Ordered, NEW taken \in Nat, WritePartial(taken)
  PROVE  Ordered'
<1>. DEFINE new == Bytes(partial, partial_pos, partial_pos + taken)
            rest == Rest'
            waiting == Waiting
<1>1. /\ partial \in Message /\ partial_pos \in Nat /\ partial # None
      /\ taken <= Size[partial] - partial_pos
      /\ Keep(partial, taken, partial_pos)
  BY DEF WritePartial, TypeOK
<1>2. taken + partial_pos <= Size[partial]
  BY <1>1, AfSocketDestAssumption
<1>3. /\ new \in Seq(Byte) /\ rest \in Seq(Byte)
      /\ new \o rest = Bytes(partial, partial_pos, Size[partial])
  BY <1>1, <1>2, KeepRest
<1>4. Rest = new \o rest
  BY <1>1, <1>3 DEF Rest
<1>5. sent \in Seq(Byte) /\ (sent \o Rest) \o waiting = Accepted
  BY OrderedIs
<1>6. waiting \in Seq(Byte)
  BY LinesType DEF Waiting, TypeOK
<1>7. sent' = sent \o new /\ queue' = queue /\ accepted' = accepted
  BY DEF WritePartial
<1>8. Waiting' = waiting /\ Accepted' = Accepted
  BY <1>7 DEF Waiting, Accepted
<1>. HIDE DEF new, rest, waiting
<1>9. sent' \in Seq(Byte)
  BY <1>3, <1>5, <1>7
<1>10. ((sent \o new) \o rest) \o waiting = (sent \o (new \o rest)) \o waiting
  <2>1. sent \in Seq(Byte) /\ new \in Seq(Byte) /\ rest \in Seq(Byte)
    BY <1>3, <1>5
  <2>2. Moved(sent, new, rest, waiting)
    BY <1>6, <2>1, MoveOrder, Zenon
  <2>. QED
    BY <2>2, Zenon DEF Moved
<1>11. (sent' \o rest) \o waiting = Accepted
  BY <1>4, <1>5, <1>7, <1>10
<1>. QED
  BY <1>8, <1>9, <1>11
     DEF Ordered, InOrder, Rest, Waiting, Accepted, Lines, rest

\* A message is accepted.
LEMMA QueueOrder ==
  ASSUME TypeOK, Ordered, NEW m \in Message, Queue(m)
  PROVE  Ordered'
<1>. DEFINE front == sent \o Rest
            waiting == Waiting
            line == Line(m)
<1>1. queue \in Seq(Message) /\ accepted \in Seq(Message)
  BY DEF TypeOK
<1>2. /\ queue' = Append(queue, m) /\ accepted' = Append(accepted, m)
      /\ UNCHANGED <<sent, partial, partial_pos>>
  BY DEF Queue
<1>3. sent \in Seq(Byte) /\ front \o waiting = Accepted
  BY OrderedIs
<1>4. front \in Seq(Byte)
  BY <1>3, RestType, ConcatProperties
<1>5. waiting \in Seq(Byte) /\ line \in Seq(Byte)
  BY <1>1, LinesType, LineType DEF Waiting
<1>6. Waiting' = waiting \o line /\ Accepted' = Accepted \o line
  BY <1>1, <1>2, LinesAppend DEF Waiting, Accepted
<1>7. sent' = sent /\ Rest' = Rest
  BY <1>2 DEF Rest
<1>8. sent' \o Rest' = front
  BY <1>7
<1>. HIDE DEF front, waiting, line
<1>9. (front \o waiting) \o line = front \o (waiting \o line)
  <2>1. Associates(front, waiting, line)
    BY <1>4, <1>5, ConcatAssociates, Zenon
  <2>. QED
    BY <2>1, Zenon DEF Associates
<1>10. front \o Waiting' = Accepted'
  BY <1>3, <1>6, <1>9
<1>11. sent' \in Seq(Byte) /\ (sent' \o Rest') \o Waiting' = Accepted'
  BY <1>3, <1>7, <1>8, <1>10
<1>. QED
  BY <1>11 DEF Ordered, InOrder, Rest, Waiting, Accepted, Lines

LEMMA SameOrder ==
  ASSUME Ordered, UNCHANGED writer
  PROVE  Ordered'
BY DEF Ordered, InOrder, writer

LEMMA OrderStep == TypeOK /\ Ordered /\ [Next]_vars => Ordered'
<1>. SUFFICES ASSUME TypeOK, Ordered, [Next]_vars
              PROVE  Ordered'
  OBVIOUS
<1>1. CASE Start
  BY <1>1, SameOrder DEF Start
<1>2. CASE Stop
  BY <1>2, SameOrder DEF Stop
<1>3. ASSUME NEW id \in Id, TimerFires(id)
      PROVE  Ordered'
  BY <1>3, SameOrder DEF TimerFires
<1>4. ASSUME NEW w \in connecting, Connected(w)
      PROVE  Ordered'
  BY <1>4, SameOrder DEF Connected
<1>5. ASSUME NEW m \in Message, Queue(m)
      PROVE  Ordered'
  BY <1>5, QueueOrder
<1>6. CASE Write
  <2>1. PICK taken \in Lengths : WritePartial(taken) \/ WriteNext(taken)
    BY <1>6 DEF Write
  <2>2. taken \in Nat
    BY AfSocketDestAssumption DEF Lengths
  <2>3. CASE WritePartial(taken)
    BY <2>2, <2>3, PartialOrder
  <2>4. CASE WriteNext(taken)
    <3>1. /\ partial = None /\ queue # <<>> /\ queue' = Tail(queue)
          /\ accepted' = accepted /\ taken <= Size[Head(queue)]
          /\ sent' = sent \o Bytes(Head(queue), 0, taken)
          /\ Keep(Head(queue), taken, 0)
      BY <2>4 DEF WriteNext
    <3>. QED
      BY <2>2, <3>1, NextOrder
  <2>. QED
    BY <2>1, <2>3, <2>4
<1>7. CASE BreakIdle
  BY <1>7, SameOrder DEF BreakIdle
<1>8. CASE BreakNext
  <2>1. /\ partial = None /\ queue # <<>> /\ queue' = Tail(queue)
        /\ accepted' = accepted /\ sent' = sent
        /\ Keep(Head(queue), 0, 0)
    BY <1>8 DEF BreakNext
  <2>2. 0 \in Nat /\ 0 <= Size[Head(queue)]
    BY <2>1, QueueTail, AfSocketDestAssumption
  <2>3. sent' = sent \o Bytes(Head(queue), 0, 0)
    <3>1. sent \o <<>> = sent
      BY ConcatEmptySeq DEF Ordered
    <3>. QED
      BY <2>1, <2>2, <3>1, NoBytes
  <2>. QED
    BY <2>1, <2>2, <2>3, NextOrder
<1>9. CASE UNCHANGED vars
  BY <1>9, SameOrder DEF vars
<1>. QED
  BY <1>1, <1>2, <1>3, <1>4, <1>5, <1>6, <1>7, <1>8, <1>9 DEF Next

\* Every byte of every accepted message is written once and in order, over
\* however many connections and with lines broken anywhere (log_writer_queue,
\* log_writer_flush_log, logwriter.c).
THEOREM BytesInOrder == Spec => []InOrder
<1>1. Init => Ordered
  <2>. SUFFICES ASSUME Init
                PROVE  Ordered
    OBVIOUS
  <2>1. sent = <<>> /\ Rest = <<>> /\ queue = <<>> /\ accepted = <<>>
    BY DEF Init, Rest
  <2>2. Waiting = Accepted
    BY <2>1 DEF Waiting, Accepted
  <2>3. Waiting \in Seq(Byte)
    <3>1. <<>> \in Seq(Message)
      OBVIOUS
    <3>. QED
      BY <2>1, <3>1, LinesType DEF Waiting
  <2>4. <<>> \in Seq(Byte) /\ <<>> \o <<>> = <<>>
    BY ConcatEmptySeq
  <2>5. <<>> \o Waiting = Waiting
    BY <2>3, ConcatEmptySeq
  <2>6. (sent \o Rest) \o Waiting = Accepted
    BY <2>1, <2>2, <2>4, <2>5
  <2>7. sent \in Seq(Byte)
    BY <2>1, <2>4
  <2>. QED
    BY <2>6, <2>7, OrderedIs
<1>2. Ordered => InOrder
  BY DEF Ordered
<1>. QED
  BY <1>1, <1>2, OrderStep, TypeCorrect, PTL DEF Spec

=============================================================================
