--------------------------- MODULE FlowControlProofs ---------------------------
(***************************************************************************)
(* Theorems about FlowControl.  The main loop refines the log path, so all *)
(* that LogPathProofs shows of it holds under the loop; what is new is the *)
(* floor of the window.                                                    *)
(***************************************************************************)
EXTENDS FlowControl, LogPathProofs, FunctionTheorems

-----------------------------------------------------------------------------
(***************************************************************************)
(* The main loop makes steps of the log path.                              *)
(***************************************************************************)

LEMMA LoopStep == [FCNext]_fcvars => [Next]_vars
<1>. SUFFICES ASSUME [FCNext]_fcvars
              PROVE  [Next]_vars
  OBVIOUS
<1>1. CASE Deliver
  BY <1>1 DEF Deliver, Next
<1>2. CASE EndFetch
  BY <1>2 DEF EndFetch
<1>3. ASSUME NEW r \in Reader, StartFetch(r)
      PROVE  [Next]_vars
  BY <1>3 DEF StartFetch
<1>4. ASSUME NEW readable, Poll(readable)
      PROVE  [Next]_vars
  BY <1>4 DEF Poll
<1>5. ASSUME NEW r \in Reader, FetchLine(r)
      PROVE  [Next]_vars
  BY <1>5 DEF FetchLine, Next
<1>6. ASSUME NEW d \in Dest, FlushWriter(d)
      PROVE  [Next]_vars
  BY <1>6 DEF FlushWriter, Next
<1>7. CASE UNCHANGED fcvars
  BY <1>7 DEF fcvars
<1>. QED
  BY <1>1, <1>2, <1>3, <1>4, <1>5, <1>6, <1>7 DEF FCNext, Loop

\* The order in which the main loop checks and dispatches its sources only
\* restricts the log path: whatever LogPath promises of every order, it keeps.
THEOREM LoopImplementsPath == FCSpec => Spec
<1>1. FCInit => Init
  BY DEF FCInit
<1>. QED
  BY <1>1, LoopStep, PTL DEF FCSpec, Spec

-----------------------------------------------------------------------------
(***************************************************************************)
(* The fetches still to come in this iteration without a look at the       *)
(* window.                                                                 *)
(***************************************************************************)

Ahead(r) ==
  IF r \in ready THEN {r} \X (1..Burst(r))
  ELSE IF r \in reading THEN {r} \X ((fetched + 1)..Burst(r))
  ELSE {}

Left(d) == UNION {Ahead(r) : r \in ReadersOf(d)}

\* One reader is dispatched at a time, and it was taken from the ready ones.
Dispatching ==
  /\ ready \subseteq Reader
  /\ fetched \in Nat
  /\ reading = {} \/ \E r \in Reader : reading = {r} /\ r \notin ready
  /\ \A r \in reading : fetched <= FetchLimit[r]

\* What is left of the fetches fits in the window and the overshoot.
Room ==
  \A d \in Driver :
    window[d] + Cardinality(Bursts(d)) >= 1 + Cardinality(Left(d))

FCInv == IInv /\ Dispatching /\ Room

LEMMA BurstType == \A r \in Reader : Burst(r) \in Nat \ {0}
BY FlowControlAssumption DEF Burst

LEMMA BurstMember ==
  ASSUME NEW d, NEW p
  PROVE  p \in Bursts(d)
           <=> \E r \in ReadersOf(d) : p \in {r} \X (1..Burst(r))
BY Zenon DEF Bursts

LEMMA LeftMember ==
  ASSUME NEW d, NEW p
  PROVE  p \in Left(d) <=> \E r \in ReadersOf(d) : p \in Ahead(r)
BY Zenon DEF Left

LEMMA AheadBurst ==
  ASSUME Dispatching, NEW r \in Reader
  PROVE  Ahead(r) \subseteq {r} \X (1..Burst(r))
<1>1. Burst(r) \in Nat /\ fetched \in Nat
  BY BurstType DEF Dispatching
<1>2. ((fetched + 1)..Burst(r)) \subseteq 1..Burst(r)
  BY <1>1
<1>. QED
  BY <1>2 DEF Ahead

\* Both are finite, and nothing is left but what the bursts allow.
LEMMA LeftBursts ==
  ASSUME Dispatching, NEW d
  PROVE  /\ Left(d) \subseteq Bursts(d)
         /\ IsFiniteSet(Bursts(d)) /\ Cardinality(Bursts(d)) \in Nat
         /\ IsFiniteSet(Left(d)) /\ Cardinality(Left(d)) \in Nat
         /\ Cardinality(Left(d)) <= Cardinality(Bursts(d))
<1>1. Left(d) \subseteq Bursts(d)
  BY AheadBurst, LeftMember, BurstMember DEF ReadersOf
<1>2. IsFiniteSet(Bursts(d))
  <2>. DEFINE burst(r) == {r} \X (1..Burst(r))
              f == [r \in ReadersOf(d) |-> burst(r)]
              U == {burst(r) : r \in ReadersOf(d)}
  <2>1. IsFiniteSet(ReadersOf(d))
    BY FlowControlAssumption, FS_Subset DEF ReadersOf
  <2>2. f \in Surjection(ReadersOf(d), U)
    BY DEF Surjection
  <2>3. ASSUME NEW r \in ReadersOf(d)
        PROVE  IsFiniteSet(burst(r))
    <3>1. Burst(r) \in Nat
      BY BurstType DEF ReadersOf
    <3>2. IsFiniteSet(1..Burst(r))
      BY <3>1, FS_Interval
    <3>. QED
      BY <3>2, FS_Singleton, FS_Product
  <2>4. \A u \in U : IsFiniteSet(u)
    BY <2>3
  <2>5. Bursts(d) = UNION U
    BY DEF Bursts
  <2>. HIDE DEF f, U
  <2>6. IsFiniteSet(U)
    BY <2>1, <2>2, FS_Surjection
  <2>. QED
    BY <2>4, <2>5, <2>6, FS_UNION
<1>. QED
  BY <1>1, <1>2, FS_Subset, FS_CardinalityType

\* A part of the bursts, counted.
LEMMA BurstsPart ==
  ASSUME NEW d, IsFiniteSet(Bursts(d)), NEW S, S \subseteq Bursts(d)
  PROVE  /\ IsFiniteSet(S) /\ Cardinality(S) \in Nat
         /\ Cardinality(S) <= Cardinality(Bursts(d))
         /\ Cardinality(Bursts(d)) \in Nat
         /\ \A p \in Bursts(d) :
              p \notin S => Cardinality(S) <= Cardinality(Bursts(d)) - 1
<1>1. /\ IsFiniteSet(S) /\ Cardinality(S) \in Nat
      /\ Cardinality(S) <= Cardinality(Bursts(d))
      /\ Cardinality(Bursts(d)) \in Nat
      /\ Cardinality(Bursts(d)) = Cardinality(S) => Bursts(d) = S
  BY FS_Subset, FS_CardinalityType
<1>. QED
  BY <1>1

\* No step but the fetch of a message takes window from a driver.
LEMMA UpdateCredits ==
  ASSUME TypeOK, NEW m, NEW new, Update(m, new)
  PROVE  \A d \in Driver : window'[d] >= window[d]
<1>1. window \in [Driver -> Int]
  BY DEF TypeOK
<1>2. PICK o : window' = window \/ window' = [window EXCEPT ![o] = @ + 1]
  BY DEF Update
<1>. QED
  BY <1>1, <1>2

LEMMA PathCredits ==
  ASSUME TypeOK, Chain \/ \E d \in Dest : Flush(d)
  PROVE  \A d \in Driver : window'[d] >= window[d]
<1>0. window \in [Driver -> Int]
  BY DEF TypeOK
<1>1. CASE EnterGroup
  BY <1>0, <1>1 DEF EnterGroup
<1>2. CASE Enqueue
  BY <1>0, <1>2 DEF Enqueue
<1>3. CASE Drop
  BY <1>3, UpdateCredits DEF Drop
<1>4. CASE LeaveGroup
  BY <1>4, UpdateCredits DEF LeaveGroup
<1>5. CASE LeaveCenter
  BY <1>5, UpdateCredits DEF LeaveCenter
<1>6. ASSUME NEW d \in Dest, Flush(d)
      PROVE  \A e \in Driver : window'[e] >= window[e]
  BY <1>6, UpdateCredits DEF Flush
<1>. QED
  BY <1>1, <1>2, <1>3, <1>4, <1>5, <1>6 DEF Chain

\* A step that takes no window and adds no fetch keeps the room.
LEMMA RoomKept ==
  ASSUME TypeOK, Dispatching, Room, window' \in [Driver -> Int],
         \A d \in Driver : window'[d] >= window[d],
         \A d \in Driver : Left(d)' \subseteq Left(d)
  PROVE  Room'
<1>1. SUFFICES ASSUME NEW d \in Driver
               PROVE  window'[d] + Cardinality(Bursts(d))
                        >= 1 + Cardinality(Left(d)')
  BY DEF Room, Bursts, Burst, ReadersOf
<1>2. /\ IsFiniteSet(Left(d)) /\ Cardinality(Left(d)) \in Nat
      /\ Cardinality(Bursts(d)) \in Nat
  BY LeftBursts
<1>3. Cardinality(Left(d)') \in Nat
      /\ Cardinality(Left(d)') <= Cardinality(Left(d))
  BY <1>2, FS_Subset, FS_CardinalityType
<1>4. window[d] \in Int /\ window'[d] \in Int
  BY DEF TypeOK
<1>. QED
  BY <1>2, <1>3, <1>4 DEF Room

LEMMA LeftSame ==
  ASSUME NEW d, \A r \in Reader : Ahead(r)' \subseteq Ahead(r)
  PROVE  Left(d)' \subseteq Left(d)
BY Zenon DEF Left, ReadersOf

LEMMA SameAhead ==
  ASSUME UNCHANGED <<ready, reading, fetched>>
  PROVE  Dispatching' = Dispatching /\ \A d : Left(d)' = Left(d)
BY DEF Dispatching, Left, Ahead, Burst, ReadersOf

\* The check phase lets all readers of a driver through, or none.
LEMMA PollStep ==
  ASSUME FCInv, IInv', NEW readable \in SUBSET Reader, Poll(readable)
  PROVE  Dispatching' /\ Room'
<1>1. /\ reading = {} /\ reading' = {} /\ ready = {}
      /\ fetched' = fetched /\ window' = window
      /\ ready' = {r \in readable : FreeToSend(r)}
  BY DEF Poll, InLoop, vars
<1>2. Dispatching'
  BY <1>1 DEF FCInv, Dispatching
<1>3. ASSUME NEW d \in Driver
      PROVE  window'[d] + Cardinality(Bursts(d)) >= 1 + Cardinality(Left(d)')
  <2>1. IsFiniteSet(Bursts(d)) /\ Cardinality(Bursts(d)) \in Nat
    BY LeftBursts DEF FCInv
  <2>2. window[d] \in Int
    BY <1>3 DEF FCInv, IInv, TypeOK
  <2>3. CASE window[d] > 0
    <3>1. \A r \in Reader : Ahead(r)' \subseteq {r} \X (1..Burst(r))
      BY <1>1 DEF Ahead, Burst
    <3>2. Left(d)' \subseteq Bursts(d)
      BY <3>1 DEF Left, Bursts, ReadersOf
    <3>3. /\ Cardinality(Left(d)') \in Nat
          /\ Cardinality(Left(d)') <= Cardinality(Bursts(d))
      BY <2>1, <3>2, BurstsPart
    <3>. QED
      BY <1>1, <2>1, <2>2, <2>3, <3>3
  <2>4. CASE ~(window[d] > 0)
    <3>1. \A r \in ReadersOf(d) : r \notin ready'
      BY <1>1, <2>4 DEF ReadersOf, FreeToSend
    <3>2. \A r \in ReadersOf(d) : Ahead(r)' = {}
      BY <1>1, <3>1 DEF Ahead
    <3>3. Left(d)' = {}
      BY <3>2 DEF Left, ReadersOf
    <3>4. Left(d)' \subseteq Left(d)
      BY <3>3
    <3>5. Cardinality(Left(d)') = 0 /\ Cardinality(Left(d)) \in Nat
      BY <3>3, LeftBursts, FS_EmptySet DEF FCInv
    <3>. QED
      BY <1>1, <2>1, <2>2, <3>5 DEF FCInv, Room
  <2>. QED
    BY <2>3, <2>4
<1>. QED
  BY <1>2, <1>3 DEF Room, Bursts, Burst, ReadersOf

LEMMA StartFetchStep ==
  ASSUME FCInv, IInv', NEW r \in Reader, StartFetch(r)
  PROVE  Dispatching' /\ Room'
<1>1. /\ reading = {} /\ r \in ready /\ ready' = ready \ {r}
      /\ reading' = {r} /\ fetched' = 0 /\ window' = window
  BY DEF StartFetch, InLoop, vars
<1>2. Dispatching'
  <2>1. fetched' <= FetchLimit[r]
    BY <1>1, FlowControlAssumption
  <2>. QED
    BY <1>1, <2>1 DEF FCInv, Dispatching
<1>3. ASSUME NEW q \in Reader
      PROVE  Ahead(q)' \subseteq Ahead(q)
  <2>1. CASE q = r
    <3>1. fetched' + 1 = 1
      BY <1>1
    <3>2. Ahead(q)' = {q} \X ((fetched' + 1)..Burst(q))
      BY <1>1, <2>1 DEF Ahead, Burst
    <3>3. Ahead(q) = {q} \X (1..Burst(q))
      BY <1>1, <2>1 DEF Ahead
    <3>. QED
      BY <3>1, <3>2, <3>3, Zenon
  <2>2. CASE q # r
    BY <1>1, <2>2 DEF Ahead, Burst
  <2>. QED
    BY <2>1, <2>2
<1>4. \A d : Left(d)' \subseteq Left(d)
  BY <1>3, LeftSame
<1>5. \A d \in Driver : window[d] \in Int
  BY DEF FCInv, IInv, TypeOK
<1>6. Room'
  BY <1>1, <1>4, <1>5, RoomKept DEF FCInv, IInv, TypeOK
<1>. QED
  BY <1>2, <1>6

LEMMA EndFetchStep ==
  ASSUME FCInv, IInv', EndFetch
  PROVE  Dispatching' /\ Room'
<1>1. /\ ready' = ready /\ reading' = {} /\ fetched' = 0
      /\ window' = window
  BY DEF EndFetch, vars
<1>2. Dispatching'
  BY <1>1 DEF FCInv, Dispatching
<1>3. \A q \in Reader : Ahead(q)' \subseteq Ahead(q)
  BY <1>1 DEF Ahead, Burst
<1>4. \A d : Left(d)' \subseteq Left(d)
  BY <1>3, LeftSame
<1>5. \A d \in Driver : window[d] \in Int
  BY DEF FCInv, IInv, TypeOK
<1>6. Room'
  BY <1>1, <1>4, <1>5, RoomKept DEF FCInv, IInv, TypeOK
<1>. QED
  BY <1>2, <1>6

LEMMA PathStep ==
  ASSUME FCInv, IInv', Deliver \/ \E d \in Dest : FlushWriter(d)
  PROVE  Dispatching' /\ Room'
<1>1. /\ Chain \/ \E d \in Dest : Flush(d)
      /\ UNCHANGED <<ready, reading, fetched>>
  BY DEF Deliver, FlushWriter
<1>2. \A d \in Driver : window'[d] >= window[d]
  BY <1>1, PathCredits DEF FCInv, IInv
<1>3. Dispatching' /\ \A d : Left(d)' = Left(d)
  BY <1>1, SameAhead DEF FCInv
<1>4. Room'
  BY <1>2, <1>3, RoomKept DEF FCInv, IInv, TypeOK
<1>. QED
  BY <1>3, <1>4

\* A message is fetched: either it was one of those still to come in this
\* iteration, or the reader has just looked at the window.
LEMMA FetchLineStep ==
  ASSUME FCInv, IInv', NEW r \in Reader, FetchLine(r)
  PROVE  Dispatching' /\ Room'
<1>. DEFINE o == DriverOf[r]
            p == <<r, fetched + 1>>
<1>1. /\ r \in reading /\ reading = {r} /\ r \notin ready
      /\ fetched \in Nat /\ fetched < FetchLimit[r] /\ fetched' = fetched + 1
      /\ ready' = ready /\ reading' = reading
      /\ MayContinue(r)
  BY DEF FetchLine, FCInv, Dispatching
<1>2. o \in Driver /\ FetchLimit[r] \in Nat /\ Burst(r) \in Nat \ {0}
  BY LogPathAssumption, FlowControlAssumption, BurstType
<1>3. /\ window' = [window EXCEPT ![o] = @ - 1]
      /\ window \in [Driver -> Int]
  BY DEF FetchLine, Fetch, FCInv, IInv, TypeOK
<1>4. Dispatching'
  BY <1>1, <1>2 DEF FCInv, Dispatching
<1>5. ASSUME NEW q \in Reader, q # r
      PROVE  Ahead(q)' = Ahead(q)
  BY <1>1, <1>5 DEF Ahead, Burst
<1>6. /\ Ahead(r) = {r} \X ((fetched + 1)..Burst(r))
      /\ Ahead(r)' = {r} \X ((fetched + 2)..Burst(r))
  <2>1. fetched' + 1 = fetched + 2
    BY <1>1
  <2>2. Ahead(r)' = {r} \X ((fetched' + 1)..Burst(r))
    BY <1>1 DEF Ahead, Burst
  <2>. QED
    BY <1>1, <2>1, <2>2 DEF Ahead
<1>7. Ahead(r)' = Ahead(r) \ {p}
  <2>1. (fetched + 2)..Burst(r) = ((fetched + 1)..Burst(r)) \ {fetched + 1}
    BY <1>1, <1>2
  <2>. QED
    BY <1>6, <2>1
<1>8. ASSUME NEW d
      PROVE  Left(d)' \subseteq Left(d)
  BY <1>5, <1>7, LeftSame
<1>9. ASSUME NEW d \in Driver
      PROVE  window'[d] + Cardinality(Bursts(d)) >= 1 + Cardinality(Left(d)')
  <2>. DEFINE b == Cardinality(Bursts(d))
  <2>1. IsFiniteSet(Bursts(d)) /\ Left(d) \subseteq Bursts(d) /\ b \in Nat
        /\ IsFiniteSet(Left(d)) /\ Cardinality(Left(d)) \in Nat
    BY LeftBursts DEF FCInv
  <2>2. Left(d)' \subseteq Left(d) /\ Left(d)' \subseteq Bursts(d)
    BY <1>8, <2>1
  <2>3. Cardinality(Left(d)') \in Nat
        /\ Cardinality(Left(d)') <= Cardinality(Left(d))
    BY <2>1, <2>2, FS_Subset, FS_CardinalityType
  <2>4. window[d] \in Int /\ window[d] + b >= 1 + Cardinality(Left(d))
    BY <1>3 DEF FCInv, Room
  <2>5. CASE d # o
    <3>1. window'[d] = window[d]
      BY <1>3, <2>5
    <3>. QED
      BY <2>1, <2>3, <2>4, <3>1
  <2>6. CASE d = o
    <3>1. window'[d] = window[d] - 1
      BY <1>3, <2>6
    <3>2. r \in ReadersOf(d)
      BY <2>6 DEF ReadersOf
    <3>3. \A x \in Left(d)' : x # p
      <4>1. ASSUME NEW q \in Reader, NEW x \in Ahead(q)'
            PROVE  x # p
        <5>1. CASE q = r
          BY <1>7, <4>1, <5>1
        <5>2. CASE q # r
          BY <1>5, <4>1, <5>2, AheadBurst DEF FCInv
        <5>. QED
          BY <5>1, <5>2
      <4>. QED
        BY <4>1 DEF Left, ReadersOf
    <3>4. CASE fetched < Burst(r)
      <4>1. fetched + 1 \in (fetched + 1)..Burst(r)
        BY <1>1, <1>2, <3>4
      <4>2. p \in Ahead(r)
        BY <1>6, <4>1
      <4>3. p \in Left(d)
        BY <3>2, <4>2, LeftMember
      <4>4. Cardinality(Left(d)') # Cardinality(Left(d))
        BY <2>1, <2>2, <3>3, <4>3, FS_Subset
      <4>. QED
        BY <2>1, <2>3, <2>4, <3>1, <4>4
    <3>5. CASE ~(fetched < Burst(r))
      <4>1. window[d] > 0
        <5>1. Burst(r) # FetchLimit[r] /\ fetched # 0
          BY <1>1, <1>2, <3>5
        <5>2. r \in SingleRead
          BY <5>1 DEF Burst
        <5>. QED
          BY <1>1, <2>6, <5>1, <5>2 DEF MayContinue, FreeToSend
      <4>2. 1 \in 1..Burst(r)
        BY <1>2
      <4>3. <<r, 1>> \in Bursts(d)
        BY <3>2, <4>2, BurstMember
      <4>4. <<r, 1>> \notin Left(d)'
        <5>1. ASSUME NEW q \in Reader, NEW x \in Ahead(q)'
              PROVE  x # <<r, 1>>
          <6>1. CASE q = r
            <7>1. 1 \notin (fetched + 2)..Burst(r)
              BY <1>1, <1>2
            <7>. QED
              BY <1>6, <5>1, <6>1, <7>1
          <6>2. CASE q # r
            BY <1>5, <5>1, <6>2, AheadBurst DEF FCInv
          <6>. QED
            BY <6>1, <6>2
        <5>. QED
          BY <5>1 DEF Left, ReadersOf
      <4>5. Cardinality(Left(d)') <= b - 1
        BY <2>1, <2>2, <4>3, <4>4, BurstsPart
      <4>. QED
        BY <2>1, <2>3, <2>4, <3>1, <4>1, <4>5
    <3>. QED
      BY <3>4, <3>5
  <2>. QED
    BY <2>5, <2>6
<1>. QED
  BY <1>4, <1>9 DEF Room, Bursts, Burst, ReadersOf

LEMMA FCStart == FCInit => FCInv
<1>. SUFFICES ASSUME FCInit
              PROVE  FCInv
  OBVIOUS
<1>1. IInv /\ Dispatching
  BY InitIInv DEF FCInit, Dispatching
<1>2. ASSUME NEW d \in Driver
      PROVE  window[d] + Cardinality(Bursts(d)) >= 1 + Cardinality(Left(d))
  <2>1. Left(d) = {}
    BY DEF FCInit, Left, Ahead
  <2>2. Cardinality(Left(d)) = 0 /\ Cardinality(Bursts(d)) \in Nat
    BY <1>1, <2>1, LeftBursts, FS_EmptySet
  <2>3. window[d] \in Nat \ {0}
    BY LogPathAssumption DEF FCInit, Init
  <2>. QED
    BY <2>2, <2>3
<1>. QED
  BY <1>1, <1>2 DEF FCInv, Room

LEMMA FCNextStep == FCInv /\ [FCNext]_fcvars => FCInv'
<1>. SUFFICES ASSUME FCInv, [FCNext]_fcvars
              PROVE  FCInv'
  OBVIOUS
<1>1. IInv'
  BY LoopStep, NextIInv DEF FCInv
<1>2. CASE UNCHANGED fcvars
  <2>1. Dispatching' /\ \A d : Left(d)' = Left(d)
    BY <1>2, SameAhead DEF fcvars, FCInv
  <2>2. window' = window /\ \A d \in Driver : window[d] \in Int
    BY <1>2 DEF fcvars, vars, FCInv, IInv, TypeOK
  <2>3. Room'
    BY <2>1, <2>2, RoomKept DEF FCInv, IInv, TypeOK
  <2>. QED
    BY <1>1, <2>1, <2>3 DEF FCInv
<1>3. CASE FCNext
  <2>1. Dispatching' /\ Room'
    BY <1>1, <1>3, PollStep, StartFetchStep, EndFetchStep, PathStep,
       FetchLineStep DEF FCNext, Loop
  <2>. QED
    BY <1>1, <2>1 DEF FCInv
<1>. QED
  BY <1>2, <1>3

\* The main loop keeps its invariant.
THEOREM LoopInvariance == FCSpec => []FCInv
BY FCStart, FCNextStep, PTL DEF FCSpec

\* One reader at a time is in log_reader_fetch_log, and it never takes more
\* than log_fetch_limit() messages in one dispatch.
THEOREM LoopTypeCorrect == FCSpec => []FCTypeOK
<1>1. FCInv => FCTypeOK
  BY DEF FCInv, IInv, Dispatching, FCTypeOK
<1>. QED
  BY LoopInvariance, <1>1, PTL

\* Flow control lets a window fall below zero, because the readers of a
\* driver look at it before any of them is dispatched, but never by more than
\* what they can fetch in one iteration, whatever the routes, the windows and
\* the queues.
THEOREM WindowHasFloor == FCSpec => []WindowFloor
<1>1. FCInv => WindowFloor
  <2>. SUFFICES ASSUME FCInv, NEW d \in Driver
                PROVE  window[d] >= -Overshoot(d)
    BY DEF WindowFloor
  <2>1. /\ Cardinality(Left(d)) \in Nat /\ Cardinality(Bursts(d)) \in Nat
        /\ window[d] + Cardinality(Bursts(d)) >= 1 + Cardinality(Left(d))
        /\ window[d] \in Int
    BY LeftBursts DEF FCInv, Room, IInv, TypeOK
  <2>. QED
    BY <2>1 DEF Overshoot
<1>. QED
  BY LoopInvariance, <1>1, PTL

-----------------------------------------------------------------------------
(***************************************************************************)
(* Where FedOnce(d) holds, the queue of d has flow-controlled messages     *)
(* only, each of them once.                                                *)
(***************************************************************************)

Absent(d) == \A i \in DOMAIN queue[d] : queue[d][i].msg # call.msg

OnceQueued(d) ==
  \A i, j \in DOMAIN queue[d] :
    /\ queue[d][i].flow
    /\ queue[d][i].msg = queue[d][j].msg => i = j

\* What is left of the call chain comes to d at most once, with flow control,
\* and has not been there.
OnceTodo(d) ==
  call.at # "main" =>
    /\ Exclusive(call.todo, d)
    /\ \A i \in DOMAIN call.todo : Leads(call.todo[i], d) => Absent(d)

OnceDests(d) ==
  call.at = "group" /\ d \in Range(call.dests) =>
    /\ call.flow
    /\ AtMostOnce(call.dests, d)
    /\ Absent(d)
    /\ \A i \in DOMAIN call.todo : ~Leads(call.todo[i], d)

Once == \A d \in Dest :
          FedOnce(d) => OnceQueued(d) /\ OnceTodo(d) /\ OnceDests(d)

\* A message structure that is free is in no queue.
LEMMA FreeAbsent ==
  ASSUME IInv, NEW m \in Msg, msg[m].refs = 0, call.at = "main",
         NEW d \in Dest, NEW i \in DOMAIN queue[d]
  PROVE  queue[d][i].msg # m
<1>1. queue[d] \in Seq(Entry) /\ queue[d][i] \in Entry
  BY DEF IInv, TypeOK
<1>2. Places(m) = {}
  BY FreeMessage, FS_EmptySet DEF IInv, PlacesFinite
<1>3. queue[d][i] \notin [msg : {m}, flow : BOOLEAN]
  <2>. DEFINE entries == [msg : {m}, flow : BOOLEAN]
  <2>. HIDE DEF entries
  <2>1. queue[d][i] \in entries => <<d, i>> \in PlacesIn(queue, entries)
    BY PlacesInMember
  <2>2. PlacesIn(queue, entries) = {}
    BY <1>2 DEF Places, entries
  <2>. QED
    BY <2>1, <2>2 DEF entries
<1>. QED
  BY <1>1, <1>3 DEF Entry

LEMMA FetchOnce ==
  ASSUME IInv, Once, NEW r \in Reader, NEW m \in Msg, NEW route \in Route,
         Fetch(r, m, route)
  PROVE  Once'
<1>1. /\ call.at = "main" /\ msg[m].refs = 0 /\ queue' = queue
      /\ call'.at = "center" /\ call'.msg = m /\ call'.todo = route
  BY DEF Fetch
<1>2. ASSUME NEW d \in Dest, FedOnce(d)
      PROVE  OnceQueued(d)' /\ OnceTodo(d)' /\ OnceDests(d)'
  <2>1. Absent(d)'
    BY <1>1, FreeAbsent DEF Absent
  <2>2. Exclusive(route, d)
    BY <1>2 DEF FedOnce
  <2>. QED
    BY <1>1, <1>2, <2>1, <2>2
    DEF Once, OnceQueued, OnceTodo, OnceDests, Exclusive, Leads
<1>. QED
  BY <1>2 DEF Once, FedOnce, Exclusive, Leads

LEMMA EnterGroupOnce ==
  ASSUME IInv, Once, EnterGroup
  PROVE  Once'
<1>. DEFINE next == Head(call.todo)
<1>1. /\ call.at = "center" /\ call.todo # <<>> /\ queue' = queue
      /\ call.todo \in Seq(Delivery)
      /\ call.msg \in Msg /\ call.dests \in Seq(Dest)
  BY CallType DEF EnterGroup, IInv
<1>2. /\ call'.at = "group" /\ call'.msg = call.msg
      /\ call'.todo = Tail(call.todo)
      /\ call'.dests = Members[next.group] /\ call'.flow = next.flow
  <2>1. call = [at |-> "center", msg |-> call.msg, todo |-> call.todo,
                dests |-> call.dests, flow |-> call.flow]
    BY <1>1 DEF IInv, TypeOK, Call, InMain
  <2>2. PICK rest : rest = Tail(call.todo)
    OBVIOUS
  <2>3. call' = [call EXCEPT !.at = "group", !.todo = rest,
                             !.dests = Members[next.group],
                             !.flow = next.flow]
    BY <2>2 DEF EnterGroup
  <2>. QED
    BY <2>1, <2>2, <2>3
<1>3. /\ 1 \in DOMAIN call.todo /\ next = call.todo[1]
      /\ \A i \in DOMAIN Tail(call.todo) :
           /\ i + 1 \in DOMAIN call.todo /\ i + 1 # 1
           /\ Tail(call.todo)[i] = call.todo[i + 1]
      /\ \A i, j \in DOMAIN Tail(call.todo) : i + 1 = j + 1 => i = j
  BY <1>1
<1>. HIDE DEF next
<1>4. ASSUME NEW d \in Dest, FedOnce(d)
      PROVE  OnceQueued(d)' /\ OnceTodo(d)' /\ OnceDests(d)'
  <2>1. Exclusive(call.todo, d)
        /\ \A i \in DOMAIN call.todo : Leads(call.todo[i], d) => Absent(d)
    BY <1>1, <1>4 DEF Once, OnceTodo
  <2>2. Absent(d)' = Absent(d)
    BY <1>1, <1>2 DEF Absent
  <2>3. OnceQueued(d)'
    BY <1>1, <1>4 DEF Once, OnceQueued
  <2>4. Exclusive(Tail(call.todo), d)
    <3>. DEFINE t == Tail(call.todo)
    <3>1. /\ \A i \in DOMAIN t : /\ i + 1 \in DOMAIN call.todo
                                /\ t[i] = call.todo[i + 1]
          /\ \A i, j \in DOMAIN t : i + 1 = j + 1 => i = j
      BY <1>3, Zenon
    <3>. HIDE DEF t
    <3>2. Exclusive(t, d)
      BY <2>1, <3>1 DEF Exclusive
    <3>. QED
      BY <3>2, Zenon DEF t
  <2>5. \A i \in DOMAIN Tail(call.todo) :
          Leads(Tail(call.todo)[i], d) => Absent(d)
    BY <1>3, <2>1
  <2>6. OnceTodo(d)'
    BY <1>2, <2>2, <2>4, <2>5 DEF OnceTodo, Exclusive, Leads
  <2>7. d \in Range(Members[next.group]) => Leads(call.todo[1], d)
    BY <1>3 DEF Leads
  <2>8. Leads(call.todo[1], d) =>
          /\ next.flow
          /\ AtMostOnce(Members[next.group], d)
          /\ Absent(d)
          /\ \A i \in DOMAIN Tail(call.todo) : ~Leads(Tail(call.todo)[i], d)
    BY <1>3, <2>1 DEF Exclusive
  <2>9. OnceDests(d)'
    BY <1>2, <2>2, <2>7, <2>8 DEF OnceDests, Leads, AtMostOnce
  <2>. QED
    BY <2>3, <2>6, <2>9
<1>. QED
  BY <1>4 DEF Once, FedOnce, Exclusive, Leads

\* A group is left to call its other drivers.
LEMMA RestOnce ==
  ASSUME IInv, Once, call.at = "group", call.dests # <<>>,
         call' = [call EXCEPT !.dests = Tail(@)]
  PROVE  /\ call.dests \in Seq(Dest) /\ Head(call.dests) \in Dest
         /\ Head(call.dests) \in Range(call.dests)
         /\ call'.at = "group" /\ call'.msg = call.msg
         /\ call'.todo = call.todo /\ call'.flow = call.flow
         /\ call'.dests = Tail(call.dests)
         /\ \A d \in Range(call'.dests) : d \in Range(call.dests)
         /\ \A d : AtMostOnce(call.dests, d) =>
              AtMostOnce(call'.dests, d)
         /\ AtMostOnce(call.dests, Head(call.dests)) =>
              Head(call.dests) \notin Range(call'.dests)
<1>1. /\ call.msg \in Msg /\ call.dests \in Seq(Dest)
      /\ Head(call.dests) \in Dest
      /\ call' = [at |-> "group", msg |-> call.msg, todo |-> call.todo,
                  dests |-> Tail(call.dests), flow |-> call.flow]
  BY CallType, GroupCall DEF IInv
<1>2. /\ 1 \in DOMAIN call.dests /\ Head(call.dests) = call.dests[1]
      /\ \A i \in DOMAIN Tail(call.dests) :
           /\ i + 1 \in DOMAIN call.dests /\ i + 1 # 1
           /\ Tail(call.dests)[i] = call.dests[i + 1]
      /\ \A i, j \in DOMAIN Tail(call.dests) : i + 1 = j + 1 => i = j
  BY <1>1
<1>3. call'.dests = Tail(call.dests)
  BY <1>1
<1>. QED
  BY <1>1, <1>2, <1>3 DEF Range, AtMostOnce

LEMMA EnqueueOnce ==
  ASSUME IInv, Once, Enqueue
  PROVE  Once'
<1>. DEFINE h == Head(call.dests)
            e == [msg |-> call.msg, flow |-> call.flow]
<1>1. /\ call.at = "group" /\ call.dests # <<>>
      /\ call' = [call EXCEPT !.dests = Tail(@)]
      /\ queue' = [queue EXCEPT ![h] = Append(@, e)]
  BY DEF Enqueue
<1>2. /\ h \in Dest /\ h \in Range(call.dests)
      /\ call'.at = "group" /\ call'.msg = call.msg
      /\ call'.todo = call.todo /\ call'.flow = call.flow
      /\ \A d \in Range(call'.dests) : d \in Range(call.dests)
      /\ \A d : AtMostOnce(call.dests, d) => AtMostOnce(call'.dests, d)
      /\ AtMostOnce(call.dests, h) => h \notin Range(call'.dests)
  BY <1>1, RestOnce
<1>3. queue \in [Dest -> Seq(Entry)] /\ e \in Entry
  BY <1>1, CallType DEF IInv, TypeOK, Entry
<1>4. e.msg = call.msg /\ e.flow = call.flow
  OBVIOUS
<1>. HIDE DEF h, e
<1>5. ASSUME NEW d \in Dest, FedOnce(d)
      PROVE  OnceQueued(d)' /\ OnceTodo(d)' /\ OnceDests(d)'
  <2>1. OnceQueued(d) /\ OnceTodo(d) /\ OnceDests(d)
    BY <1>5 DEF Once
  <2>2. CASE d # h
    <3>1. queue'[d] = queue[d]
      BY <1>1, <1>3, <2>2
    <3>2. Absent(d)' = Absent(d)
      BY <1>2, <3>1 DEF Absent
    <3>3. OnceQueued(d)'
      BY <2>1, <3>1 DEF OnceQueued
    <3>4. OnceTodo(d)'
      BY <1>1, <1>2, <2>1, <3>2 DEF OnceTodo, Exclusive, Leads
    <3>5. OnceDests(d)'
      BY <1>1, <1>2, <2>1, <3>2 DEF OnceDests, Leads
    <3>. QED
      BY <3>3, <3>4, <3>5
  <2>3. CASE d = h
    <3>1. /\ call.flow /\ AtMostOnce(call.dests, d) /\ Absent(d)
          /\ \A i \in DOMAIN call.todo : ~Leads(call.todo[i], d)
      BY <1>1, <1>2, <2>1, <2>3 DEF OnceDests
    <3>2. queue'[d] = Append(queue[d], e) /\ queue[d] \in Seq(Entry)
      BY <1>1, <1>2, <1>3, <2>3
    <3>3. \A i \in DOMAIN queue'[d] :
            \/ i \in DOMAIN queue[d] /\ queue'[d][i] = queue[d][i]
            \/ i = Len(queue[d]) + 1 /\ queue'[d][i] = e
      BY <1>3, <3>2
    <3>4. OnceQueued(d)'
      BY <1>4, <2>1, <3>1, <3>3 DEF OnceQueued, Absent
    <3>5. OnceTodo(d)'
      BY <1>1, <1>2, <2>1, <3>1 DEF OnceTodo, Exclusive, Leads
    <3>6. OnceDests(d)'
      BY <1>2, <2>3, <3>1 DEF OnceDests
    <3>. QED
      BY <3>4, <3>5, <3>6
  <2>. QED
    BY <2>2, <2>3
<1>. QED
  BY <1>5 DEF Once, FedOnce, Exclusive, Leads

LEMMA DropOnce ==
  ASSUME IInv, Once, Drop
  PROVE  Once'
<1>1. /\ call.at = "group" /\ call.dests # <<>> /\ queue' = queue
      /\ call' = [call EXCEPT !.dests = Tail(@)]
  BY DEF Drop
<1>2. /\ call'.at = "group" /\ call'.msg = call.msg
      /\ call'.todo = call.todo /\ call'.flow = call.flow
      /\ \A d \in Range(call'.dests) : d \in Range(call.dests)
      /\ \A d : AtMostOnce(call.dests, d) => AtMostOnce(call'.dests, d)
  BY <1>1, RestOnce
<1>3. \A d \in Dest : Absent(d)' = Absent(d)
  BY <1>1, <1>2 DEF Absent
<1>4. ASSUME NEW d \in Dest, FedOnce(d)
      PROVE  OnceQueued(d)' /\ OnceTodo(d)' /\ OnceDests(d)'
  BY <1>1, <1>2, <1>3, <1>4
  DEF Once, OnceQueued, OnceTodo, OnceDests, Exclusive, Leads
<1>. QED
  BY <1>4 DEF Once, FedOnce, Exclusive, Leads

LEMMA LeaveOnce ==
  ASSUME IInv, Once, LeaveGroup \/ LeaveCenter
  PROVE  Once'
<1>1. queue' = queue
  BY DEF LeaveGroup, LeaveCenter
<1>2. CASE LeaveCenter
  <2>1. call'.at = "main"
    BY <1>2 DEF LeaveCenter, InMain
  <2>. QED
    BY <1>1, <2>1 DEF Once, OnceQueued, OnceTodo, OnceDests, FedOnce,
      Exclusive, Leads
<1>3. CASE LeaveGroup
  <2>1. call.at = "group" /\ call' = [call EXCEPT !.at = "center"]
    BY <1>3 DEF LeaveGroup
  <2>2. /\ call'.at = "center" /\ call'.msg = call.msg
        /\ call'.todo = call.todo
    BY <2>1 DEF IInv, TypeOK, Call, InMain
  <2>3. \A d \in Dest : Absent(d)' = Absent(d)
    BY <1>1, <2>2 DEF Absent
  <2>. QED
    BY <1>1, <2>1, <2>2, <2>3 DEF Once, OnceQueued, OnceTodo, OnceDests,
      FedOnce, Exclusive, Leads
<1>. QED
  BY <1>2, <1>3

LEMMA FlushOnce ==
  ASSUME IInv, Once, NEW c \in Dest, Flush(c)
  PROVE  Once'
<1>1. /\ call.at = "main" /\ call' = call /\ queue[c] # <<>>
      /\ queue' = [queue EXCEPT ![c] = Tail(@)]
      /\ queue \in [Dest -> Seq(Entry)]
  BY DEF Flush, IInv, TypeOK
<1>2. ASSUME NEW d \in Dest, FedOnce(d)
      PROVE  OnceQueued(d)' /\ OnceTodo(d)' /\ OnceDests(d)'
  <2>1. OnceQueued(d)
    BY <1>2 DEF Once
  <2>2. OnceQueued(d)'
    <3>1. CASE d # c
      BY <1>1, <2>1, <3>1 DEF OnceQueued
    <3>2. CASE d = c
      <4>1. queue'[d] = Tail(queue[d]) /\ queue[d] \in Seq(Entry)
            /\ queue[d] # <<>>
        BY <1>1, <3>2
      <4>2. \A i \in DOMAIN queue'[d] :
              i + 1 \in DOMAIN queue[d] /\ queue'[d][i] = queue[d][i + 1]
        BY <4>1
      <4>3. \A i, j \in DOMAIN queue'[d] : i + 1 = j + 1 => i = j
        BY <4>1
      <4>. QED
        BY <2>1, <4>2, <4>3 DEF OnceQueued
    <3>. QED
      BY <3>1, <3>2
  <2>. QED
    BY <1>1, <2>2 DEF OnceTodo, OnceDests
<1>. QED
  BY <1>2 DEF Once, FedOnce, Exclusive, Leads

LEMMA OnceStep == IInv /\ Once /\ [Next]_vars => Once'
<1>. SUFFICES ASSUME IInv, Once, [Next]_vars
              PROVE  Once'
  OBVIOUS
<1>1. CASE UNCHANGED vars
  BY <1>1 DEF vars, Once, OnceQueued, OnceTodo, OnceDests, Absent, FedOnce,
    Exclusive, Leads
<1>2. CASE Next
  BY <1>2, FetchOnce, EnterGroupOnce, EnqueueOnce, DropOnce, LeaveOnce,
     FlushOnce DEF Next, Chain
<1>. QED
  BY <1>1, <1>2

-----------------------------------------------------------------------------
(***************************************************************************)
(* Units of window against the messages in a queue.                        *)
(***************************************************************************)

LEMMA UnitsFinite ==
  ASSUME NEW f, \A d \in Driver : f[d] \in Nat
  PROVE  IsFiniteSet(Units(f))
<1>. DEFINE units(d) == {d} \X (1..f[d])
            g == [d \in Driver |-> units(d)]
            U == {units(d) : d \in Driver}
<1>1. g \in Surjection(Driver, U)
  BY DEF Surjection
<1>2. ASSUME NEW d \in Driver
      PROVE  IsFiniteSet(units(d))
  <2>1. IsFiniteSet(1..f[d])
    BY FS_Interval
  <2>. QED
    BY <2>1, FS_Singleton, FS_Product
<1>3. \A u \in U : IsFiniteSet(u)
  BY <1>2
<1>4. Units(f) = UNION U
  BY DEF Units
<1>. HIDE DEF g, U
<1>5. IsFiniteSet(U)
  BY <1>1, FlowControlAssumption, FS_Surjection
<1>. QED
  BY <1>3, <1>4, <1>5, FS_UNION

\* If each driver owns at most f[d] members of W, then W has no more members
\* than there are units.
LEMMA UnitsBound ==
  ASSUME NEW f, \A d \in Driver : f[d] \in Nat,
         NEW W, NEW owner, \A w \in W : owner[w] \in Driver,
         NEW Owned, \A w \in W : w \in Owned[owner[w]],
         \A d \in Driver : /\ IsFiniteSet(Owned[d])
                           /\ Cardinality(Owned[d]) <= f[d]
  PROVE  IsFiniteSet(W) /\ Cardinality(W) <= Total(f)
<1>1. ASSUME NEW d \in Driver
      PROVE  \E g : g \in Injection(Owned[d], 1..f[d])
  <2>1. PICK n \in Nat : n = Cardinality(Owned[d]) /\ n <= f[d]
    BY FS_CardinalityType
  <2>2. ExistsBijection(1..n, Owned[d])
    BY <2>1, FS_CardinalityType
  <2>3. ExistsBijection(Owned[d], 1..n)
    BY <2>2, Fun_ExistsBijSymmetric
  <2>4. PICK g : g \in Bijection(Owned[d], 1..n)
    BY <2>3 DEF ExistsBijection
  <2>5. (1..n) \subseteq 1..f[d]
    BY <2>1
  <2>6. g \in Injection(Owned[d], 1..f[d])
    BY <2>4, <2>5 DEF Bijection, Injection, IsInjective
  <2>. QED
    BY <2>6
<1>. DEFINE number == [d \in Driver |->
                         CHOOSE g : g \in Injection(Owned[d], 1..f[d])]
            h == [w \in W |-> <<owner[w], number[owner[w]][w]>>]
<1>2. \A d \in Driver : number[d] \in Injection(Owned[d], 1..f[d])
  BY <1>1
<1>. HIDE DEF number
<1>3. \A d \in Driver : /\ \A w \in Owned[d] : number[d][w] \in 1..f[d]
                        /\ \A v, w \in Owned[d] :
                             number[d][v] = number[d][w] => v = w
  BY <1>2 DEF Injection, IsInjective
<1>4. \A w \in W : h[w] \in Units(f)
  BY <1>3 DEF Units
<1>5. \A v, w \in W : h[v] = h[w] => v = w
  BY <1>3
<1>6. h \in Injection(W, Units(f))
  BY <1>4, <1>5 DEF Injection, IsInjective
<1>. QED
  BY <1>6, UnitsFinite, FS_Injection DEF Total

\* The messages that the drivers wait for fit in the windows and the
\* overshoot.
LEMMA OutstandingFits ==
  ASSUME FCInv, NEW d \in Driver
  PROVE  /\ IsFiniteSet(Outstanding(d))
         /\ InitWindow[d] + Overshoot(d) \in Nat
         /\ Cardinality(Outstanding(d)) <= InitWindow[d] + Overshoot(d)
<1>1. IsFiniteSet(Outstanding(d)) /\ Cardinality(Outstanding(d)) \in Nat
  BY LogPathAssumption, FS_Subset, FS_CardinalityType DEF Outstanding
<1>2. window[d] + Cardinality(Outstanding(d)) = InitWindow[d]
      /\ window[d] \in Int
  BY DEF FCInv, IInv, WindowConserved, TypeOK
<1>3. /\ Cardinality(Left(d)) \in Nat /\ Cardinality(Bursts(d)) \in Nat
      /\ window[d] + Cardinality(Bursts(d)) >= 1 + Cardinality(Left(d))
  BY LeftBursts DEF FCInv, Room
<1>4. InitWindow[d] \in Nat \ {0}
  BY LogPathAssumption
<1>. QED
  BY <1>1, <1>2, <1>3, <1>4 DEF Overshoot

\* A full queue in which every message is once, and one message more.
LEMMA FullAndOne ==
  ASSUME NEW q \in Seq(Entry), NEW m, NEW W,
         W = {q[i].msg : i \in DOMAIN q} \cup {m},
         \A i, j \in DOMAIN q : q[i].msg = q[j].msg => i = j,
         \A i \in DOMAIN q : q[i].msg # m
  PROVE  Cardinality(W) = Len(q) + 1
<1>. DEFINE n == Len(q)
            H == {q[i].msg : i \in DOMAIN q}
            g == [i \in 1..n |-> q[i].msg]
<1>1. n \in Nat /\ DOMAIN q = 1..n
  OBVIOUS
<1>. HIDE DEF n
<1>2. g \in Bijection(1..n, H)
  <2>1. g \in [1..n -> H]
    BY <1>1
  <2>2. \A i, j \in 1..n : g[i] = g[j] => i = j
    BY <1>1
  <2>3. \A x \in H : \E i \in 1..n : g[i] = x
    BY <1>1
  <2>. QED
    BY <2>1, <2>2, <2>3 DEF Bijection, Injection, IsInjective, Surjection
<1>3. ExistsBijection(1..n, H)
  BY <1>2 DEF ExistsBijection
<1>4. m \notin H
  OBVIOUS
<1>. HIDE DEF H, g
<1>5. IsFiniteSet(H) /\ Cardinality(H) = n
  <2>1. IsFiniteSet(1..n)
    BY <1>1, FS_Interval
  <2>2. IsFiniteSet(H)
    BY <1>3, <2>1, FS_Bijection
  <2>3. Cardinality(H) = n
    BY <1>1, <1>3, FS_CountingElements
  <2>. QED
    BY <2>2, <2>3
<1>6. W = H \cup {m}
  BY DEF H
<1>. QED
  BY <1>4, <1>5, <1>6, FS_AddElement DEF n

LEMMA RoomSuffices ==
  ASSUME FCInv, Debts, Once
  PROVE  NoDropWhenRoomForOvershoot
<1>. SUFFICES ASSUME FlowControlledDrop
              PROVE  Fifo[Head(call.dests)] <
                       Total([d \in Driver |-> InitWindow[d] + Overshoot(d)])
  BY DEF NoDropWhenRoomForOvershoot
<1>. DEFINE c == Head(call.dests)
            f == [d \in Driver |-> InitWindow[d] + Overshoot(d)]
            W == {queue[c][i].msg : i \in DOMAIN queue[c]} \cup {call.msg}
            owner == [m \in Msg |-> DriverOf[Origin(msg[m])]]
            Owned == [d \in Driver |-> Outstanding(d)]
<1>1. /\ call.at = "group" /\ call.dests # <<>> /\ c \notin Terminal
      /\ Refuses(c) /\ FedOnce(c)
  BY DEF FlowControlledDrop
<1>2. IInv
  BY DEF FCInv
<1>3. /\ call.msg \in Msg /\ call.dests \in Seq(Dest) /\ c \in Dest
      /\ c \in Range(call.dests)
  <2>1. call.msg \in Msg /\ call.dests \in Seq(Dest)
    BY <1>1, <1>2, CallType DEF IInv
  <2>2. c \in Dest /\ 1 \in DOMAIN call.dests /\ c = call.dests[1]
    BY <1>1, <2>1
  <2>. QED
    BY <2>1, <2>2 DEF Range
<1>4. /\ queue[c] \in Seq(Entry) /\ Fifo[c] \in Nat
      /\ Len(queue[c]) = Fifo[c]
  BY <1>1, <1>2, <1>3, LogPathAssumption DEF Refuses, IInv, TypeOK
<1>. HIDE DEF c
<1>5. OnceQueued(c) /\ Absent(c)
  BY <1>1, <1>3 DEF Once, OnceDests
<1>6. Cardinality(W) = Fifo[c] + 1
  <2>1. \A i, j \in DOMAIN queue[c] :
          queue[c][i].msg = queue[c][j].msg => i = j
    BY <1>5 DEF OnceQueued
  <2>2. \A i \in DOMAIN queue[c] : queue[c][i].msg # call.msg
    BY <1>5 DEF Absent
  <2>3. W = {queue[c][i].msg : i \in DOMAIN queue[c]} \cup {call.msg}
    OBVIOUS
  <2>. HIDE DEF W
  <2>4. Cardinality(W) = Len(queue[c]) + 1
    BY <1>4, <2>1, <2>2, <2>3, FullAndOne
  <2>. QED
    BY <1>4, <2>4
<1>7. ASSUME NEW m \in W
      PROVE  m \in Msg /\ msg[m].blocks # <<>>
  <2>1. CASE m = call.msg
    <3>1. InChain(m)
      BY <1>1, <2>1 DEF InChain
    <3>. QED
      BY <1>2, <1>3, <2>1, <3>1, AwaitedState DEF AwaitedIffHeld
  <2>2. ASSUME NEW i \in DOMAIN queue[c], m = queue[c][i].msg
        PROVE  m \in Msg /\ msg[m].blocks # <<>>
    <3>1. queue[c][i] \in Entry /\ queue[c][i].flow
      BY <1>4, <1>5 DEF OnceQueued
    <3>2. m \in Msg /\ queue[c][i] \in [msg : {m}, flow : {TRUE}]
      BY <2>2, <3>1 DEF Entry
    <3>3. <<c, i>> \in FlowPlaces(m)
      <4>. DEFINE entries == [msg : {m}, flow : {TRUE}]
      <4>. HIDE DEF entries
      <4>1. queue[c][i] \in entries
        BY <3>2 DEF entries
      <4>2. <<c, i>> \in PlacesIn(queue, entries)
        BY <1>3, <4>1, PlacesInMember
      <4>. QED
        BY <4>2 DEF entries, FlowPlaces
    <3>. QED
      BY <1>2, <3>2, <3>3, AwaitedState DEF AwaitedIffHeld
  <2>. QED
    BY <2>1, <2>2
<1>8. ASSUME NEW m \in W
      PROVE  owner[m] \in Driver /\ m \in Owned[owner[m]]
  <2>1. m \in Msg /\ msg[m].blocks # <<>>
    BY <1>7
  <2>2. msg[m] \in LogMessage /\ Nested(msg[m].blocks)
    BY <1>2, <2>1 DEF IInv, TypeOK, BlocksNested
  <2>3. DriverOf[Origin(msg[m])] \in Driver
    BY <2>1, <2>2, OriginType
  <2>. QED
    BY <2>1, <2>3 DEF Outstanding
<1>9. \A d \in Driver : /\ f[d] \in Nat
                        /\ IsFiniteSet(Owned[d])
                        /\ Cardinality(Owned[d]) <= f[d]
  BY OutstandingFits
<1>10. f = [d \in Driver |-> InitWindow[d] + Overshoot(d)]
  OBVIOUS
<1>. HIDE DEF f, W, owner, Owned
<1>11. IsFiniteSet(W) /\ Cardinality(W) <= Total(f)
  BY <1>8, <1>9, UnitsBound
<1>12. Total(f) \in Nat
  BY <1>9, UnitsFinite, FS_CardinalityType DEF Total
<1>13. Fifo[c] < Total(f)
  BY <1>4, <1>6, <1>11, <1>12
<1>. QED
  BY <1>10, <1>13 DEF c

LEMMA OnceInvariant == FCSpec => []Once
<1>1. FCInit => Once
  BY DEF FCInit, Init, InMain, Once, OnceQueued, OnceTodo, OnceDests
<1>2. IInv /\ Once /\ [FCNext]_fcvars => Once'
  BY LoopStep, OnceStep
<1>3. FCInv => IInv
  BY DEF FCInv
<1>. QED
  BY <1>1, <1>2, <1>3, LoopInvariance, PTL DEF FCSpec

\* What the comment in log_writer_queue should have promised: a writer that
\* gets each message once and with flow control never meets a full queue if
\* log_fifo_size() is at least the sum of the windows and of the overshoots of
\* the source drivers, whatever they, the groups and the log statements are.
THEOREM RoomForOvershootSuffices == FCSpec => []NoDropWhenRoomForOvershoot
<1>1. FCInv /\ Debts /\ Once => NoDropWhenRoomForOvershoot
  BY RoomSuffices
<1>. QED
  BY <1>1, LoopInvariance, OnceInvariant, LoopImplementsPath,
     DebtsInvariant, PTL

=============================================================================
