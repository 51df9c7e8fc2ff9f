---------------------------- MODULE LogReaderProofs ----------------------------
(***************************************************************************)
(* Theorems about LogReader, for any streams, any size of the buffer, any  *)
(* fetch limit and any window; and about what becomes of the lines that it *)
(* hands on (LogMsg), for any lines and any sources.                       *)
(***************************************************************************)
EXTENDS LogReader, LogMsg, SequenceLemmas

-----------------------------------------------------------------------------
(***************************************************************************)
(* Where lines end.                                                        *)
(***************************************************************************)

LEMMA FirstIs ==
  ASSUME NEW S, NEW s \in Seq(S), NEW c
  PROVE  /\ First(s, c) \in 0..Len(s)
         /\ First(s, c) # 0 => s[First(s, c)] = c
         /\ First(s, c) = 0 => \A i \in 1..Len(s) : s[i] # c
         /\ First(s, c) # 0 => \A i \in 1..(First(s, c) - 1) : s[i] # c
<1>. DEFINE I == {i \in 1..Len(s) : s[i] = c}
<1>1. First(s, c) = IF I # {} THEN CHOOSE x \in I : \A y \in I : x <= y ELSE 0
  BY Zenon DEF First, SelectInSeq, Min
<1>2. CASE I = {}
  BY <1>1, <1>2
<1>3. CASE I # {}
  <2>1. \E x \in I : \A y \in I : x <= y
    <3>1. I \subseteq Nat
      OBVIOUS
    <3>. QED
      BY <1>3, <3>1, NatMinimum
  <2>2. First(s, c) \in I /\ \A y \in I : First(s, c) <= y
    <3>. HIDE DEF I
    <3>. QED
      BY <1>1, <1>3, <2>1
  <2>3. First(s, c) \in 1..Len(s) /\ s[First(s, c)] = c
    BY <2>2
  <2>4. ASSUME NEW i \in 1..(First(s, c) - 1), s[i] = c
        PROVE  FALSE
    <3>1. i \in I
      BY <2>3, <2>4
    <3>. QED
      BY <2>2, <2>3, <3>1
  <2>. QED
    BY <2>3, <2>4
<1>. QED
  BY <1>2, <1>3

\* The line that ends first, and the character that ends it.
LEMMA EolIs ==
  ASSUME NEW S, NEW s \in Seq(S)
  PROVE  /\ Eol(s) \in 0..Len(s)
         /\ Eol(s) # 0 => s[Eol(s)] \in Ends
BY FirstIs DEF Eol, Ends

\* Only ends of lines follow what Trim leaves.
LEMMA TrimIs ==
  ASSUME NEW S, NEW s \in Seq(S)
  PROVE  \E k \in 0..Len(s) :
           /\ Trim(s) = SubSeq(s, 1, k)
           /\ \A i \in (k + 1)..Len(s) : s[i] \in Ends
<1>. DEFINE I == {i \in 1..Len(s) : s[i] \notin Ends}
            k == IF I # {} THEN CHOOSE x \in I : \A y \in I : x >= y ELSE 0
<1>1. Trim(s) = SubSeq(s, 1, k)
  BY Zenon DEF Trim, SelectLastInSeq, Max
<1>2. CASE I = {}
  <2>1. k = 0
    BY <1>2
  <2>2. \A i \in (0 + 1)..Len(s) : s[i] \in Ends
    BY <1>2
  <2>. HIDE DEF k
  <2>. QED
    BY <1>1, <2>1, <2>2
<1>3. CASE I # {}
  <2>1. \E x \in I : \A y \in I : x >= y
    <3>. DEFINE J == {Len(s) - x : x \in I}
    <3>1. J \subseteq Nat /\ J # {}
      BY <1>3
    <3>2. PICK j \in J : \A l \in J : j <= l
      BY <3>1, NatMinimum
    <3>3. PICK x \in I : j = Len(s) - x
      OBVIOUS
    <3>4. ASSUME NEW y \in I
          PROVE  x >= y
      <4>1. j <= Len(s) - y
        BY <3>2
      <4>. QED
        BY <3>3, <4>1
    <3>. QED
      BY <3>4
  <2>2. k \in I /\ \A y \in I : k >= y
    <3>. HIDE DEF I
    <3>. QED
      BY <1>3, <2>1
  <2>. HIDE DEF k
  <2>3. ASSUME NEW i \in (k + 1)..Len(s)
        PROVE  s[i] \in Ends
    <3>1. i \in 1..Len(s) /\ ~(k >= i)
      BY <2>2
    <3>. QED
      BY <2>2, <3>1
  <2>4. k \in 0..Len(s)
    BY <2>2
  <2>. QED
    BY <1>1, <2>3, <2>4
<1>. QED
  BY <1>2, <1>3

-----------------------------------------------------------------------------
(***************************************************************************)
(* The buffer.  That there is room to read rests on where the reader       *)
(* stands: only a cut that stopped at the fetch limit, or a reader with    *)
(* complete lines left, can leave the buffer full.                         *)
(***************************************************************************)

\* TypeOK and the types of the histories.
Byte == ToSet(stream)
Typed ==
  /\ TypeOK
  /\ stream \in Seq(Byte) /\ input \in Seq(Byte)
  /\ emitted \in Seq(Seq(Byte))

Room ==
  /\ pc \in {"main", "read"} /\ ~complete => Len(buffer) < MsgSize
  /\ pc = "read" /\ complete =>
       msg_count >= FetchLimit \/ Len(buffer) < MsgSize
  /\ pc = "cut" /\ ~may_read => Len(buffer) < MsgSize
  /\ pc = "cut" /\ Len(buffer) = MsgSize => msg_count < FetchLimit

IInv == Typed /\ Room

LEMMA HandleType ==
  ASSUME Typed, NEW ln \in Seq(Byte), HandleLine(ln)
  PROVE  /\ emitted' \in Seq(Seq(Byte))
         /\ window' \in Int /\ window' <= Window
         /\ may_read' \in BOOLEAN
<1>1. window \in Int /\ window <= Window /\ may_read \in BOOLEAN
  BY DEF Typed, TypeOK
<1>2. emitted \in Seq(Seq(Byte))
  BY DEF Typed
<1>3. CASE ln = <<>>
  BY <1>1, <1>2, <1>3 DEF HandleLine
<1>4. CASE ln # <<>>
  <2>1. emitted' = Append(emitted, ln) /\ window' \in {window - 1, window}
        /\ may_read' = (window' > 0)
    BY <1>4 DEF HandleLine
  <2>2. Append(emitted, ln) \in Seq(Seq(Byte))
    BY <1>2, AppendProperties
  <2>3. window' \in Int /\ window' <= Window
    <3>1. window' = window - 1 \/ window' = window
      BY <2>1
    <3>2. window \in Int /\ window <= Window /\ Window \in Nat
      BY <1>1, LogReaderAssumption
    <3>. QED
      BY <3>1, <3>2
  <2>. QED
    BY <2>1, <2>2, <2>3
<1>. QED
  BY <1>3, <1>4

\* A line of the buffer, and what is left of it.
LEMMA CutType ==
  ASSUME NEW S, NEW s \in Seq(S), Eol(s) # 0
  PROVE  /\ Trim(SubSeq(s, 1, Eol(s) - 1)) \in Seq(S)
         /\ SubSeq(s, Eol(s) + 1, Len(s)) \in Seq(S)
         /\ Len(SubSeq(s, Eol(s) + 1, Len(s))) = Len(s) - Eol(s)
         /\ Eol(s) \in 1..Len(s)
<1>. DEFINE e == Eol(s)
            n == Len(s)
<1>1. e \in 1..n /\ n \in Nat
  BY EolIs
<1>2. \A i \in 1..n : s[i] \in S
  BY ElementOfSeq
<1>. HIDE DEF e, n
<1>3. SubSeq(s, 1, e - 1) \in Seq(S)
  BY <1>1, <1>2, SubSeqProperties
<1>4. Trim(SubSeq(s, 1, e - 1)) \in Seq(S)
  <2>. DEFINE p == SubSeq(s, 1, e - 1)
  <2>. HIDE DEF p
  <2>1. p \in Seq(S)
    BY <1>3 DEF p
  <2>2. PICK k \in 0..Len(p) : Trim(p) = SubSeq(p, 1, k)
    BY <2>1, TrimIs
  <2>3. Len(p) \in Nat /\ \A i \in 1..Len(p) : p[i] \in S
    BY <2>1, ElementOfSeq
  <2>4. k \in Int /\ 1 \in Int /\ \A i \in 1..k : p[i] \in S
    BY <2>3
  <2>5. SubSeq(p, 1, k) \in Seq(S)
    BY <2>4, SubSeqProperties
  <2>. QED
    BY <2>2, <2>5 DEF p
<1>5. /\ SubSeq(s, e + 1, n) \in Seq(S)
      /\ Len(SubSeq(s, e + 1, n)) = n - e
  <2>1. e + 1 \in Int /\ n \in Int /\ \A i \in (e + 1)..n : s[i] \in S
    BY <1>1, <1>2
  <2>2. /\ SubSeq(s, e + 1, n) \in Seq(S)
        /\ Len(SubSeq(s, e + 1, n))
             = IF e + 1 <= n THEN n - (e + 1) + 1 ELSE 0
    BY <2>1, SubSeqProperties
  <2>. QED
    BY <1>1, <2>2
<1>. QED
  BY <1>1, <1>4, <1>5 DEF e, n

LEMMA TypedStep == Typed /\ Room /\ [Next]_vars => Typed'
<1>. SUFFICES ASSUME Typed, Room, [Next]_vars
              PROVE  Typed'
  OBVIOUS
<1>. DEFINE Same == stream' = stream /\ Byte' = Byte
<1>1. /\ buffer \in Seq(Byte) /\ input \in Seq(Byte) /\ stream \in Seq(Byte)
      /\ emitted \in Seq(Seq(Byte))
      /\ Len(buffer) \in Nat /\ Len(buffer) <= MsgSize
  <2>1. /\ buffer \in Seq(Byte) /\ input \in Seq(Byte) /\ stream \in Seq(Byte)
        /\ emitted \in Seq(Seq(Byte))
        /\ Len(buffer) <= MsgSize
    BY DEF Typed, TypeOK, Byte
  <2>. QED
    BY <2>1
<1>2. /\ complete \in BOOLEAN /\ resumed \in BOOLEAN /\ may_read \in BOOLEAN
      /\ msg_count \in 0..FetchLimit
      /\ window \in Int /\ window <= Window
      /\ pc \in {"main", "cut", "read", "closed"}
  BY DEF Typed, TypeOK
<1>3. MsgSize \in Nat \ {0} /\ FetchLimit \in Nat \ {0} /\ Window \in Nat \ {0}
  BY LogReaderAssumption
<1>4. ASSUME UNCHANGED source
      PROVE  Same
  BY <1>4 DEF source, Byte
<1>6. <<>> \in Seq(Byte) /\ Len(<<>>) <= MsgSize
  BY <1>3
<1>7. ASSUME Same,
             buffer' \in Seq(Byte), Len(buffer') <= MsgSize,
             input' \in Seq(Byte), emitted' \in Seq(Seq(Byte)),
             complete' \in BOOLEAN, resumed' \in BOOLEAN, may_read' \in BOOLEAN,
             msg_count' \in 0..FetchLimit, window' \in Int, window' <= Window,
             pc' \in {"main", "cut", "read", "closed"}
      PROVE  Typed'
  BY <1>1, <1>7, Zenon DEF Typed, TypeOK, Byte
<1>. HIDE DEF Same
<1>8. ASSUME NEW lines \in BOOLEAN, Dispatch(lines)
      PROVE  Typed'
  <2>1. UNCHANGED <<source, input, buffer, window, emitted>>
    BY <1>8 DEF Dispatch
  <2>2. /\ resumed' = lines /\ complete' = FALSE /\ msg_count' = 0
        /\ may_read' = TRUE /\ pc' \in {"cut", "read"}
    BY <1>8 DEF Dispatch
  <2>3. 0 \in 0..FetchLimit
    BY <1>3
  <2>. QED
    BY <1>1, <1>2, <1>4, <1>7, <2>1, <2>2, <2>3
<1>9. CASE TakeBuffer
  <2>1. /\ HandleLine(buffer) /\ buffer' = <<>> /\ pc' = AfterCut(<<>>)
        /\ UNCHANGED <<source, input, complete, resumed>>
    BY <1>9 DEF TakeBuffer
  <2>2. msg_count' \in 0..FetchLimit
    <3>1. msg_count < FetchLimit /\ msg_count' = msg_count + 1
      BY <1>9 DEF TakeBuffer, Full, Room
    <3>. QED
      BY <1>2, <1>3, <3>1
  <2>3. pc' \in {"main", "cut", "read", "closed"}
    BY <2>1 DEF AfterCut
  <2>4. /\ emitted' \in Seq(Seq(Byte))
        /\ window' \in Int /\ window' <= Window /\ may_read' \in BOOLEAN
    BY <1>1, <2>1, HandleType
  <2>. QED
    BY <1>1, <1>2, <1>4, <1>6, <1>7, <2>1, <2>2, <2>3, <2>4
<1>10. CASE CutLine
  <2>. DEFINE ln == Trim(SubSeq(buffer, 1, Eol(buffer) - 1))
  <2>1. /\ Eol(buffer) # 0 /\ HandleLine(ln)
        /\ buffer' = SubSeq(buffer, Eol(buffer) + 1, Len(buffer))
        /\ msg_count < FetchLimit /\ msg_count' = msg_count + 1
        /\ UNCHANGED <<source, input, complete, pc, resumed>>
    BY <1>10 DEF CutLine, MoreLines
  <2>2. /\ ln \in Seq(Byte) /\ buffer' \in Seq(Byte)
        /\ Len(buffer') = Len(buffer) - Eol(buffer)
        /\ Eol(buffer) \in 1..Len(buffer)
    BY <1>1, <2>1, CutType
  <2>. HIDE DEF ln
  <2>3. Len(buffer') <= MsgSize
    BY <1>1, <1>3, <2>2
  <2>4. msg_count' \in 0..FetchLimit
    BY <1>2, <1>3, <2>1
  <2>5. /\ emitted' \in Seq(Seq(Byte))
        /\ window' \in Int /\ window' <= Window /\ may_read' \in BOOLEAN
    BY <2>1, <2>2, HandleType
  <2>. QED
    BY <1>1, <1>2, <1>4, <1>7, <2>1, <2>2, <2>3, <2>4, <2>5
<1>11. CASE EndCut
  <2>1. /\ UNCHANGED <<source, input, buffer, local, window, emitted>>
        /\ complete' \in BOOLEAN /\ pc' \in {"main", "read"}
    BY <1>11 DEF EndCut, AfterCut
  <2>. QED
    BY <1>1, <1>2, <1>4, <1>7, <2>1 DEF local
<1>12. ASSUME NEW n \in 1..MsgSize, Read(n)
       PROVE  Typed'
  <2>1. /\ n <= Len(input) /\ n <= MsgSize - Len(buffer)
        /\ buffer' = buffer \o SubSeq(input, 1, n)
        /\ input' = SubSeq(input, n + 1, Len(input))
        /\ complete' = FALSE /\ resumed' = FALSE /\ may_read' = TRUE
        /\ pc' = "cut"
        /\ UNCHANGED <<source, msg_count, window, emitted>>
    BY <1>12 DEF Read
  <2>2. /\ Len(input) \in Nat /\ \A i \in 1..Len(input) : input[i] \in Byte
    BY <1>1, ElementOfSeq
  <2>3. SubSeq(input, 1, n) \in Seq(Byte) /\ Len(SubSeq(input, 1, n)) = n
    <3>1. 1 \in Int /\ n \in Int /\ \A i \in 1..n : input[i] \in Byte
      BY <2>1, <2>2
    <3>. QED
      BY <3>1, SubSeqProperties
  <2>4. SubSeq(input, n + 1, Len(input)) \in Seq(Byte)
    <3>1. /\ n + 1 \in Int /\ Len(input) \in Int
          /\ \A i \in (n + 1)..Len(input) : input[i] \in Byte
      BY <2>1, <2>2
    <3>. QED
      BY <3>1, SubSeqProperties
  <2>5. buffer' \in Seq(Byte) /\ Len(buffer') = Len(buffer) + n
    BY <1>1, <2>1, <2>3, ConcatProperties
  <2>6. Len(buffer') <= MsgSize
    BY <1>1, <1>3, <2>1, <2>5
  <2>. QED
    BY <1>1, <1>2, <1>4, <1>7, <2>1, <2>4, <2>5, <2>6
<1>13. CASE EndFetch
  <2>1. /\ UNCHANGED <<source, input, buffer, complete, local, window, emitted>>
        /\ pc' = "main"
    BY <1>13 DEF EndFetch
  <2>. QED
    BY <1>1, <1>2, <1>4, <1>7, <2>1 DEF local
<1>14. CASE Close
  <2>1. /\ HandleLine(buffer) /\ buffer' = <<>> /\ pc' = "closed"
        /\ complete' = FALSE
        /\ UNCHANGED <<source, input, resumed>>
    BY <1>14 DEF Close
  <2>2. msg_count' \in 0..FetchLimit
    <3>1. msg_count < FetchLimit /\ msg_count' = msg_count + 1
      BY <1>14 DEF Close, Reading
    <3>. QED
      BY <1>2, <1>3, <3>1
  <2>3. /\ emitted' \in Seq(Seq(Byte))
        /\ window' \in Int /\ window' <= Window /\ may_read' \in BOOLEAN
    BY <1>1, <2>1, HandleType
  <2>. QED
    BY <1>1, <1>2, <1>4, <1>6, <1>7, <2>1, <2>2, <2>3
<1>15. CASE Acknowledged
  <2>1. /\ window < Window /\ window' = window + 1
        /\ UNCHANGED <<source, input, buffer, complete, pc, local, emitted>>
    BY <1>15 DEF Acknowledged
  <2>2. window' \in Int /\ window' <= Window
    BY <1>2, <1>3, <2>1
  <2>. QED
    BY <1>1, <1>2, <1>4, <1>7, <2>1, <2>2 DEF local
<1>16. CASE UNCHANGED vars
  BY <1>1, <1>2, <1>4, <1>7, <1>16 DEF vars, local
<1>. QED
  BY <1>8, <1>9, <1>10, <1>11, <1>12, <1>13, <1>14, <1>15, <1>16
     DEF Next, Resume, Wake, Loop

LEMMA RoomStep == Typed /\ Room /\ [Next]_vars => Room'
<1>. SUFFICES ASSUME Typed, Room, [Next]_vars
              PROVE  Room'
  OBVIOUS
<1>1. /\ buffer \in Seq(Byte) /\ Len(buffer) \in Nat /\ Len(buffer) <= MsgSize
      /\ msg_count \in 0..FetchLimit
      /\ MsgSize \in Nat \ {0} /\ FetchLimit \in Nat \ {0}
  <2>1. buffer \in Seq(Byte) /\ Len(buffer) <= MsgSize
    BY DEF Typed, TypeOK, Byte
  <2>2. msg_count \in 0..FetchLimit
    BY DEF Typed, TypeOK
  <2>. QED
    BY <2>1, <2>2, LogReaderAssumption
<1>2. ASSUME NEW lines \in BOOLEAN, Dispatch(lines)
      PROVE  Room'
  BY <1>1, <1>2 DEF Dispatch, Room
<1>3. ASSUME buffer' = <<>>, pc' # "cut"
      PROVE  Room'
  <2>1. Len(buffer') = 0
    BY <1>3
  <2>. QED
    BY <1>1, <1>3, <2>1 DEF Room
<1>4. CASE TakeBuffer
  BY <1>3, <1>4 DEF TakeBuffer, AfterCut
<1>5. CASE CutLine
  <2>1. /\ buffer' = SubSeq(buffer, Eol(buffer) + 1, Len(buffer))
        /\ Eol(buffer) # 0 /\ pc' = "cut"
    BY <1>5 DEF CutLine, MoreLines
  <2>2. Len(buffer') = Len(buffer) - Eol(buffer) /\ Eol(buffer) \in 1..Len(buffer)
    BY <1>1, <2>1, CutType
  <2>3. Len(buffer') < MsgSize
    BY <1>1, <2>2
  <2>4. Len(buffer') # MsgSize
    BY <1>1, <2>2
  <2>. QED
    BY <2>1, <2>3, <2>4 DEF Room
<1>6. CASE EndCut
  <2>1. /\ pc = "cut" /\ buffer' = buffer /\ pc' \in {"main", "read"}
        /\ msg_count' = msg_count
        /\ Eol(buffer) # 0 \/ Len(buffer) # MsgSize
        /\ Eol(buffer) = 0 \/ ~may_read \/ ~(msg_count < FetchLimit)
    BY <1>6 DEF EndCut, AfterCut, Full, MoreLines, local
  <2>2. ~may_read => Len(buffer) < MsgSize
    BY <2>1 DEF Room
  <2>3. Eol(buffer) = 0 => Len(buffer') < MsgSize
    BY <1>1, <2>1
  <2>4. Eol(buffer) # 0 => msg_count' >= FetchLimit \/ Len(buffer') < MsgSize
    BY <1>1, <2>1, <2>2
  <2>5. complete' <=> Eol(buffer) # 0
    BY <1>6, Zenon DEF EndCut
  <2>. QED
    BY <2>1, <2>3, <2>4, <2>5 DEF Room
<1>7. ASSUME NEW n \in 1..MsgSize, Read(n)
      PROVE  Room'
  BY <1>7 DEF Read, Reading, Room
<1>8. CASE EndFetch
  BY <1>8 DEF EndFetch, Room, local
<1>9. CASE Close
  BY <1>3, <1>9 DEF Close
<1>10. CASE Acknowledged
  BY <1>10 DEF Acknowledged, Room, local
<1>11. CASE UNCHANGED vars
  BY <1>11 DEF vars, Room, local
<1>. QED
  BY <1>2, <1>4, <1>5, <1>6, <1>7, <1>8, <1>9, <1>10, <1>11
     DEF Next, Resume, Wake, Loop

LEMMA Initially == Init => Typed /\ Room
<1>. SUFFICES ASSUME Init
              PROVE  Typed /\ Room
  OBVIOUS
<1>1. stream \in Seq(Byte)
  BY LogReaderAssumption DEF Init, Byte
<1>2. /\ <<>> \in Seq(Byte) /\ <<>> \in Seq(Seq(Byte)) /\ Len(<<>>) = 0
      /\ MsgSize \in Nat \ {0} /\ FetchLimit \in Nat \ {0}
      /\ Window \in Nat \ {0}
  BY LogReaderAssumption
<1>3. /\ buffer = <<>> /\ emitted = <<>> /\ input = stream
      /\ complete = FALSE /\ resumed = FALSE /\ may_read = TRUE
      /\ pc = "main" /\ msg_count = 0 /\ window = Window
  BY DEF Init
<1>4. /\ buffer \in Seq(Byte) /\ Len(buffer) < MsgSize /\ Len(buffer) <= MsgSize
      /\ emitted \in Seq(Seq(Byte)) /\ input \in Seq(Byte)
  BY <1>1, <1>2, <1>3
<1>5. msg_count \in 0..FetchLimit /\ window \in Int /\ window <= Window
  BY <1>2, <1>3
<1>6. Typed
  BY <1>1, <1>3, <1>4, <1>5 DEF Typed, TypeOK, Byte
<1>. QED
  BY <1>3, <1>4, <1>6 DEF Room

LEMMA RoomInvariant == Spec => [](Typed /\ Room)
BY Initially, TypedStep, RoomStep, PTL DEF Spec

\* The buffer holds at most log_msg_size() bytes, a dispatch queues at most
\* log_fetch_limit() messages, and the window never exceeds log_iw_size()
\* (log_reader_fetch_log and log_reader_iterate_buf, logreader.c).
THEOREM TypeCorrect == Spec => []TypeOK
<1>1. Typed => TypeOK
  BY DEF Typed
<1>. QED
  BY <1>1, RoomInvariant, PTL

\* Whatever stopped the cut before, log_reader_fetch_log never asks read() for
\* 0 bytes: a healthy source is not taken for one that ended.
THEOREM NeverReadsNothing == Spec => []RoomToRead
<1>1. Typed /\ Room => RoomToRead
  <2>1. Typed => msg_count \in 0..FetchLimit /\ complete \in BOOLEAN
    BY DEF Typed, TypeOK
  <2>. QED
    BY <2>1, LogReaderAssumption DEF Room, RoomToRead, Reading
<1>. QED
  BY <1>1, RoomInvariant, PTL

-----------------------------------------------------------------------------
(***************************************************************************)
(* The payload of a sequence of bytes.                                     *)
(***************************************************************************)

\* What Payload flattens.
Kept(s) == [i \in DOMAIN s |-> IF s[i] \in Ends THEN <<>> ELSE <<s[i]>>]

LEMMA KeptIs ==
  ASSUME NEW S, NEW s \in Seq(S)
  PROVE  /\ Kept(s) \in Seq(Seq(S)) /\ Len(Kept(s)) = Len(s)
         /\ \A i \in 1..Len(s) :
              Kept(s)[i] = IF s[i] \in Ends THEN <<>> ELSE <<s[i]>>
<1>1. DOMAIN s = 1..Len(s) /\ Len(s) \in Nat /\ \A i \in 1..Len(s) : s[i] \in S
  OBVIOUS
<1>2. \A i \in 1..Len(s) :
        Kept(s)[i] = IF s[i] \in Ends THEN <<>> ELSE <<s[i]>>
  BY <1>1 DEF Kept
<1>3. \A i \in 1..Len(s) :
        (IF s[i] \in Ends THEN <<>> ELSE <<s[i]>>) \in Seq(S)
  BY <1>1
<1>4. Kept(s) \in [1..Len(s) -> Seq(S)]
  BY <1>1, <1>3 DEF Kept
<1>5. Kept(s) \in Seq(Seq(S)) /\ Len(Kept(s)) = Len(s)
  BY <1>1, <1>4
<1>. QED
  BY <1>2, <1>5

LEMMA PayloadType ==
  ASSUME NEW S, NEW s \in Seq(S)
  PROVE  Payload(s) \in Seq(S)
BY KeptIs, FlattenType DEF Payload, Kept

LEMMA PayloadConcat ==
  ASSUME NEW S, NEW s \in Seq(S), NEW t \in Seq(S)
  PROVE  Payload(s \o t) = Payload(s) \o Payload(t)
<1>. DEFINE u == s \o t
            k == Kept(s) \o Kept(t)
            ku == Kept(u)
<1>1. /\ u \in Seq(S) /\ Len(u) = Len(s) + Len(t)
      /\ Len(s) \in Nat /\ Len(t) \in Nat
  BY ConcatProperties
<1>2. \A i \in 1..(Len(s) + Len(t)) :
        u[i] = IF i <= Len(s) THEN s[i] ELSE t[i - Len(s)]
  BY ConcatProperties
<1>3. /\ Kept(s) \in Seq(Seq(S)) /\ Len(Kept(s)) = Len(s)
      /\ Kept(t) \in Seq(Seq(S)) /\ Len(Kept(t)) = Len(t)
  BY KeptIs
<1>4. /\ k \in Seq(Seq(S)) /\ Len(k) = Len(s) + Len(t)
      /\ \A i \in 1..(Len(s) + Len(t)) :
           k[i] = IF i <= Len(s) THEN Kept(s)[i] ELSE Kept(t)[i - Len(s)]
  <2>. DEFINE ks == Kept(s)
              kt == Kept(t)
  <2>. HIDE DEF ks, kt
  <2>1. /\ ks \in Seq(Seq(S)) /\ Len(ks) = Len(s)
        /\ kt \in Seq(Seq(S)) /\ Len(kt) = Len(t)
    BY <1>3 DEF ks, kt
  <2>2. /\ ks \o kt \in Seq(Seq(S)) /\ Len(ks \o kt) = Len(ks) + Len(kt)
        /\ \A i \in 1..(Len(ks) + Len(kt)) :
             (ks \o kt)[i] = IF i <= Len(ks) THEN ks[i] ELSE kt[i - Len(ks)]
    BY <2>1, ConcatProperties
  <2>. QED
    BY <2>1, <2>2 DEF ks, kt
<1>. HIDE DEF u, k, ku
<1>5. /\ ku \in Seq(Seq(S)) /\ Len(ku) = Len(s) + Len(t)
      /\ \A i \in 1..(Len(s) + Len(t)) :
           ku[i] = IF u[i] \in Ends THEN <<>> ELSE <<u[i]>>
  <2>1. /\ ku \in Seq(Seq(S)) /\ Len(ku) = Len(u)
        /\ \A i \in 1..Len(u) :
             ku[i] = IF u[i] \in Ends THEN <<>> ELSE <<u[i]>>
    BY <1>1, KeptIs DEF ku
  <2>. QED
    BY <1>1, <2>1
<1>6. ASSUME NEW i \in 1..(Len(s) + Len(t))
      PROVE  ku[i] = k[i]
  <2>1. CASE i <= Len(s)
    <3>1. i \in 1..Len(s)
      BY <1>1, <2>1
    <3>2. Kept(s)[i] = IF s[i] \in Ends THEN <<>> ELSE <<s[i]>>
      BY <3>1, KeptIs
    <3>. QED
      BY <1>2, <1>4, <1>5, <2>1, <3>2
  <2>2. CASE ~(i <= Len(s))
    <3>. DEFINE j == i - Len(s)
    <3>1. j \in 1..Len(t)
      BY <1>1, <2>2
    <3>2. u[i] = t[j] /\ k[i] = Kept(t)[j]
      BY <1>2, <1>4, <2>2
    <3>. HIDE DEF j
    <3>3. Kept(t)[j] = IF t[j] \in Ends THEN <<>> ELSE <<t[j]>>
      BY <3>1, KeptIs
    <3>. QED
      BY <1>5, <3>2, <3>3
  <2>. QED
    BY <2>1, <2>2
<1>7. ku = k
  BY <1>4, <1>5, <1>6, SeqEqual
<1>8. FlattenSeq(k) = FlattenSeq(Kept(s)) \o FlattenSeq(Kept(t))
  BY <1>3, FlattenConcat DEF k
<1>. QED
  BY <1>7, <1>8 DEF Payload, Kept, ku, u

LEMMA NoPayload ==
  ASSUME NEW S, NEW s \in Seq(S), \A i \in 1..Len(s) : s[i] \in Ends
  PROVE  Payload(s) = <<>>
<1>1. /\ Kept(s) \in Seq(Seq(S)) /\ Len(Kept(s)) = Len(s)
      /\ \A i \in 1..Len(Kept(s)) : Kept(s)[i] = <<>>
  BY KeptIs
<1>2. FlattenSeq(Kept(s)) = <<>>
  BY <1>1, FlattenNothing
<1>. QED
  BY <1>2 DEF Payload, Kept

LEMMA PayloadSplit ==
  ASSUME NEW S, NEW s \in Seq(S), NEW n \in 0..Len(s)
  PROVE  /\ SubSeq(s, 1, n) \in Seq(S) /\ SubSeq(s, n + 1, Len(s)) \in Seq(S)
         /\ Payload(s)
              = Payload(SubSeq(s, 1, n)) \o Payload(SubSeq(s, n + 1, Len(s)))
<1>1. Len(s) \in Nat /\ \A i \in 1..Len(s) : s[i] \in S
  BY ElementOfSeq
<1>2. SubSeq(s, 1, n) \in Seq(S)
  <2>1. 1 \in Int /\ n \in Int /\ \A i \in 1..n : s[i] \in S
    BY <1>1
  <2>. QED
    BY <2>1, SubSeqProperties
<1>3. SubSeq(s, n + 1, Len(s)) \in Seq(S)
  <2>1. n + 1 \in Int /\ Len(s) \in Int /\ \A i \in (n + 1)..Len(s) : s[i] \in S
    BY <1>1
  <2>. QED
    BY <2>1, SubSeqProperties
<1>4. SubSeq(s, 1, n) \o SubSeq(s, n + 1, Len(s)) = s
  <2>1. /\ 1 \in 1..(Len(s) + 1) /\ n \in (1 - 1)..Len(s)
        /\ Len(s) \in n..Len(s)
    BY <1>1
  <2>2. SubSeq(s, 1, n) \o SubSeq(s, n + 1, Len(s)) = SubSeq(s, 1, Len(s))
    BY <2>1, ConcatAdjacentSubSeq
  <2>. QED
    BY <2>2, SubSeqFull
<1>5. Payload(SubSeq(s, 1, n) \o SubSeq(s, n + 1, Len(s)))
        = Payload(SubSeq(s, 1, n)) \o Payload(SubSeq(s, n + 1, Len(s)))
  <2>. DEFINE a == SubSeq(s, 1, n)
              b == SubSeq(s, n + 1, Len(s))
  <2>1. a \in Seq(S) /\ b \in Seq(S)
    BY <1>2, <1>3
  <2>. HIDE DEF a, b
  <2>2. Payload(a \o b) = Payload(a) \o Payload(b)
    BY <2>1, PayloadConcat
  <2>. QED
    BY <2>2 DEF a, b
<1>. QED
  BY <1>2, <1>3, <1>4, <1>5

LEMMA PayloadTrim ==
  ASSUME NEW S, NEW s \in Seq(S)
  PROVE  Trim(s) \in Seq(S) /\ Payload(Trim(s)) = Payload(s)
<1>1. PICK k \in 0..Len(s) :
        /\ Trim(s) = SubSeq(s, 1, k)
        /\ \A i \in (k + 1)..Len(s) : s[i] \in Ends
  BY TrimIs
<1>. DEFINE a == SubSeq(s, 1, k)
            b == SubSeq(s, k + 1, Len(s))
<1>2. a \in Seq(S) /\ b \in Seq(S) /\ Payload(s) = Payload(a) \o Payload(b)
  BY PayloadSplit
<1>3. \A i \in 1..Len(b) : b[i] \in Ends
  <2>1. Len(s) \in Nat /\ \A i \in (k + 1)..Len(s) : s[i] \in S
    BY ElementOfSeq
  <2>2. k + 1 \in Int /\ Len(s) \in Int
    BY <2>1
  <2>3. /\ Len(b) = IF k + 1 <= Len(s) THEN Len(s) - (k + 1) + 1 ELSE 0
        /\ \A i \in 1..(Len(s) - (k + 1) + 1) : b[i] = s[(k + 1) + i - 1]
    BY <2>1, <2>2, SubSeqProperties
  <2>. HIDE DEF b
  <2>4. ASSUME NEW i \in 1..Len(b)
        PROVE  b[i] \in Ends
    <3>. DEFINE j == (k + 1) + i - 1
    <3>1. i \in 1..(Len(s) - (k + 1) + 1) /\ j \in (k + 1)..Len(s)
      BY <2>1, <2>3
    <3>2. b[i] = s[j]
      BY <2>3, <3>1
    <3>. HIDE DEF j
    <3>. QED
      BY <1>1, <3>1, <3>2
  <2>. QED
    BY <2>4
<1>. HIDE DEF a, b
<1>4. Payload(b) = <<>>
  BY <1>2, <1>3, NoPayload
<1>5. Payload(a) \in Seq(S)
  BY <1>2, PayloadType
<1>6. Payload(s) = Payload(a)
  BY <1>2, <1>4, <1>5, ConcatEmptySeq
<1>7. Trim(s) = a
  BY <1>1 DEF a
<1>. QED
  BY <1>2, <1>6, <1>7

\* Cutting a line off the buffer loses only ends of lines.
LEMMA PayloadCut ==
  ASSUME NEW S, NEW s \in Seq(S), Eol(s) # 0
  PROVE  Payload(s) = Payload(Trim(SubSeq(s, 1, Eol(s) - 1)))
                        \o Payload(SubSeq(s, Eol(s) + 1, Len(s)))
<1>. DEFINE e == Eol(s)
            d == e - 1
            n == Len(s)
            a == SubSeq(s, 1, e - 1)
            b == SubSeq(s, d + 1, n)
            c == SubSeq(s, e + 1, n)
            h == SubSeq(s, 1, e)
<1>1. e \in 1..n /\ n \in Nat /\ s[e] \in Ends /\ s[e] \in S
  BY EolIs, ElementOfSeq
<1>. HIDE DEF e, n
<1>2. e \in 0..n /\ d \in 0..n /\ d + 1 = e
  BY <1>1
<1>3. h \in Seq(S) /\ c \in Seq(S) /\ Payload(s) = Payload(h) \o Payload(c)
  BY <1>2, PayloadSplit DEF n
<1>4. a \in Seq(S)
  BY <1>2, PayloadSplit DEF n
<1>5. h = a \o <<s[e]>>
  <2>1. 1 \in 1..n /\ e \in 1..n
    BY <1>1
  <2>2. SubSeq(s, 1, e) = SubSeq(s, 1, e - 1) \o <<s[e]>>
    BY <2>1, SubSeqRecursiveSecond DEF n
  <2>. QED
    BY <2>2
<1>. HIDE DEF a, c, h
<1>6. <<s[e]>> \in Seq(S) /\ Payload(<<s[e]>>) = <<>>
  <2>1. /\ <<s[e]>> \in Seq(S) /\ Len(<<s[e]>>) = 1
        /\ <<s[e]>>[1] \in Ends
    BY <1>1
  <2>2. \A i \in 1..Len(<<s[e]>>) : <<s[e]>>[i] \in Ends
    BY <2>1
  <2>. QED
    BY <2>1, <2>2, NoPayload
<1>7. Payload(h) = Payload(a)
  <2>1. Payload(h) = Payload(a) \o Payload(<<s[e]>>)
    BY <1>4, <1>5, <1>6, PayloadConcat
  <2>2. Payload(a) \in Seq(S)
    BY <1>4, PayloadType
  <2>. QED
    BY <1>6, <2>1, <2>2, ConcatEmptySeq
<1>8. Payload(Trim(a)) = Payload(a)
  BY <1>4, PayloadTrim
<1>9. Payload(s) = Payload(Trim(a)) \o Payload(c)
  BY <1>3, <1>7, <1>8
<1>. QED
  BY <1>9 DEF a, c, e, n

-----------------------------------------------------------------------------
(***************************************************************************)
(* No byte is lost.  The property is inductive by itself, given the types. *)
(***************************************************************************)

\* What was queued, whatever it was cut into.
Queued == Payload(FlattenSeq(emitted))

LEMMA HandleQueued ==
  ASSUME Typed, NEW ln \in Seq(Byte), HandleLine(ln)
  PROVE  Queued' = Queued \o Payload(ln)
<1>1. emitted \in Seq(Seq(Byte))
  BY DEF Typed
<1>2. FlattenSeq(emitted) \in Seq(Byte)
  BY <1>1, FlattenType
<1>3. Queued \in Seq(Byte)
  BY <1>2, PayloadType DEF Queued
<1>4. CASE ln = <<>>
  <2>1. emitted' = emitted
    BY <1>4 DEF HandleLine
  <2>2. Payload(ln) = <<>>
    <3>1. \A i \in 1..Len(ln) : ln[i] \in Ends
      BY <1>4
    <3>. QED
      BY <3>1, NoPayload
  <2>3. Queued' = Queued
    BY <2>1 DEF Queued
  <2>. QED
    BY <1>3, <2>2, <2>3, ConcatEmptySeq
<1>5. CASE ln # <<>>
  <2>1. emitted' = Append(emitted, ln)
    BY <1>5 DEF HandleLine
  <2>2. FlattenSeq(Append(emitted, ln)) = FlattenSeq(emitted) \o ln
    BY <1>1, FlattenAppend
  <2>3. Payload(FlattenSeq(emitted) \o ln) = Queued \o Payload(ln)
    BY <1>2, PayloadConcat DEF Queued
  <2>. QED
    BY <2>1, <2>2, <2>3 DEF Queued
<1>. QED
  BY <1>4, <1>5

Conserved == (Queued \o Payload(buffer)) \o Payload(input) = Payload(stream)

\* A part of the buffer is queued, or of the input read: the same bytes,
\* grouped otherwise.
Regrouped(q, a, b, c) ==
  /\ ((q \o a) \o b) \o c = (q \o (a \o b)) \o c
  /\ (q \o (a \o b)) \o c = (q \o a) \o (b \o c)

LEMMA Regroup ==
  ASSUME NEW q \in Seq(Byte), NEW a \in Seq(Byte), NEW b \in Seq(Byte),
         NEW c \in Seq(Byte)
  PROVE  Regrouped(q, a, b, c)
<1>. DEFINE qa == q \o a
            ab == a \o b
<1>1. qa \in Seq(Byte) /\ ab \in Seq(Byte)
  OBVIOUS
<1>2. qa \o b = q \o ab
  <2>1. Associates(q, a, b)
    BY ConcatAssociates, Zenon
  <2>. QED
    BY <2>1, Zenon DEF Associates
<1>. HIDE DEF qa, ab
<1>3. (qa \o b) \o c = qa \o (b \o c)
  <2>1. Associates(qa, b, c)
    BY <1>1, ConcatAssociates, Zenon
  <2>. QED
    BY <2>1, Zenon DEF Associates
<1>4. (qa \o b) \o c = (q \o ab) \o c
  BY <1>2, Zenon
<1>5. (q \o ab) \o c = qa \o (b \o c)
  BY <1>3, <1>4, Zenon
<1>. QED
  BY <1>4, <1>5, Zenon DEF Regrouped, qa, ab

LEMMA ConservedStep == Typed /\ Conserved /\ [Next]_vars => Conserved'
<1>. SUFFICES ASSUME Typed, Conserved, [Next]_vars
              PROVE  Conserved'
  OBVIOUS
<1>1. /\ buffer \in Seq(Byte) /\ input \in Seq(Byte) /\ stream \in Seq(Byte)
      /\ emitted \in Seq(Seq(Byte))
  BY DEF Typed, TypeOK, Byte
<1>. DEFINE q == Queued
            b == Payload(buffer)
            i == Payload(input)
<1>2. q \in Seq(Byte) /\ b \in Seq(Byte) /\ i \in Seq(Byte)
  BY <1>1, FlattenType, PayloadType DEF Queued
<1>3. (q \o b) \o i = Payload(stream)
  BY DEF Conserved
<1>4. ASSUME UNCHANGED <<stream, input, buffer, emitted>>
      PROVE  Conserved'
  BY <1>4 DEF Conserved, Queued
<1>5. ASSUME HandleLine(buffer), buffer' = <<>>, UNCHANGED <<stream, input>>
      PROVE  Conserved'
  <2>1. Queued' = q \o b
    BY <1>1, <1>5, HandleQueued
  <2>2. Payload(buffer') = <<>>
    <3>1. /\ <<>> \in Seq(Byte)
          /\ \A k \in 1..Len(<<>>) : <<>>[k] \in Ends
      OBVIOUS
    <3>. QED
      BY <1>5, <3>1, NoPayload
  <2>3. Payload(input') = i /\ Payload(stream') = Payload(stream)
    BY <1>5
  <2>. HIDE DEF q, b, i
  <2>4. q \o b \in Seq(Byte)
    BY <1>2, ConcatProperties
  <2>5. (q \o b) \o <<>> = q \o b
    BY <2>4, ConcatEmptySeq
  <2>6. (Queued' \o Payload(buffer')) \o Payload(input') = Payload(stream')
    BY <1>3, <2>1, <2>2, <2>3, <2>5
  <2>. QED
    BY <2>6 DEF Conserved
<1>6. CASE CutLine
  <2>. DEFINE ln == Trim(SubSeq(buffer, 1, Eol(buffer) - 1))
              tail == SubSeq(buffer, Eol(buffer) + 1, Len(buffer))
              l == Payload(ln)
              r == Payload(tail)
  <2>1. /\ Eol(buffer) # 0 /\ HandleLine(ln) /\ buffer' = tail
        /\ UNCHANGED <<stream, input>>
    BY <1>6 DEF CutLine, MoreLines, source
  <2>2. ln \in Seq(Byte) /\ tail \in Seq(Byte)
    BY <1>1, <2>1, CutType
  <2>3. b = l \o r
    BY <1>1, <2>1, PayloadCut
  <2>. HIDE DEF ln, tail
  <2>4. Queued' = q \o l
    BY <2>1, <2>2, HandleQueued
  <2>5. l \in Seq(Byte) /\ r \in Seq(Byte)
    BY <2>2, PayloadType
  <2>6. Payload(buffer') = r /\ Payload(input') = i
        /\ Payload(stream') = Payload(stream)
    BY <2>1
  <2>. HIDE DEF q, b, i, l, r
  <2>7. ((q \o l) \o r) \o i = (q \o (l \o r)) \o i
    <3>1. Regrouped(q, l, r, i)
      BY <1>2, <2>5, Regroup
    <3>. QED
      BY <3>1, Zenon DEF Regrouped
  <2>8. (Queued' \o Payload(buffer')) \o Payload(input') = Payload(stream')
    BY <1>3, <2>3, <2>4, <2>6, <2>7, Zenon
  <2>. QED
    BY <2>8 DEF Conserved
<1>7. ASSUME NEW n \in 1..MsgSize, Read(n)
      PROVE  Conserved'
  <2>. DEFINE new == SubSeq(input, 1, n)
              rest == SubSeq(input, n + 1, Len(input))
              p == Payload(new)
              r == Payload(rest)
  <2>1. /\ n <= Len(input)
        /\ buffer' = buffer \o new /\ input' = rest
        /\ UNCHANGED <<stream, emitted>>
    BY <1>7 DEF Read, source
  <2>2. n \in 0..Len(input)
    BY <1>1, <2>1, LogReaderAssumption
  <2>3. /\ new \in Seq(Byte) /\ rest \in Seq(Byte)
        /\ i = p \o r
    BY <1>1, <2>2, PayloadSplit
  <2>. HIDE DEF new, rest
  <2>4. Payload(buffer \o new) = b \o p
    BY <1>1, <2>3, PayloadConcat
  <2>5. p \in Seq(Byte) /\ r \in Seq(Byte)
    BY <2>3, PayloadType
  <2>6. /\ Payload(buffer') = b \o p /\ Payload(input') = r
        /\ Payload(stream') = Payload(stream) /\ Queued' = q
    BY <2>1, <2>4 DEF Queued
  <2>. HIDE DEF q, b, i, p, r
  <2>7. (q \o (b \o p)) \o r = (q \o b) \o (p \o r)
    <3>1. Regrouped(q, b, p, r)
      BY <1>2, <2>5, Regroup
    <3>. QED
      BY <3>1, Zenon DEF Regrouped
  <2>8. (Queued' \o Payload(buffer')) \o Payload(input') = Payload(stream')
    BY <1>3, <2>3, <2>6, <2>7, Zenon
  <2>. QED
    BY <2>8 DEF Conserved
<1>8. ASSUME NEW lines, Dispatch(lines)
      PROVE  Conserved'
  BY <1>4, <1>8 DEF Dispatch, source
<1>9. CASE TakeBuffer
  BY <1>5, <1>9 DEF TakeBuffer, source
<1>10. CASE EndCut
  BY <1>4, <1>10 DEF EndCut, source
<1>11. CASE EndFetch
  BY <1>4, <1>11 DEF EndFetch, source
<1>12. CASE Close
  BY <1>5, <1>12 DEF Close, source
<1>13. CASE Acknowledged
  BY <1>4, <1>13 DEF Acknowledged, source
<1>14. CASE UNCHANGED vars
  BY <1>4, <1>14 DEF vars, source
<1>. QED
  BY <1>6, <1>7, <1>8, <1>9, <1>10, <1>11, <1>12, <1>13, <1>14
     DEF Next, Resume, Wake, Loop

\* Whatever the pieces in which a stream arrives, the fetch limit and the
\* window, every byte of it that does not end a line gets into exactly one
\* message, in order (log_reader_iterate_buf and log_reader_handle_line,
\* logreader.c).
THEOREM NoByteLost == Spec => []BytesConserved
<1>1. Init => Conserved
  <2>. SUFFICES ASSUME Init
                PROVE  Conserved
    OBVIOUS
  <2>1. Typed
    BY Initially
  <2>2. stream \in Seq(Byte)
    BY <2>1 DEF Typed
  <2>3. emitted = <<>> /\ buffer = <<>> /\ input = stream
    BY DEF Init
  <2>4. Payload(<<>>) = <<>>
    <3>1. /\ <<>> \in Seq(Byte)
          /\ \A k \in 1..Len(<<>>) : <<>>[k] \in Ends
      OBVIOUS
    <3>. QED
      BY <3>1, NoPayload
  <2>5. Queued = <<>> /\ Payload(buffer) = <<>>
    BY <2>3, <2>4, FlattenEmpty DEF Queued
  <2>6. <<>> \o <<>> = <<>>
    <3>1. <<>> \in Seq(Byte)
      OBVIOUS
    <3>. QED
      BY <3>1, ConcatEmptySeq
  <2>7. <<>> \o Payload(stream) = Payload(stream)
    BY <2>2, PayloadType, ConcatEmptySeq
  <2>. QED
    BY <2>3, <2>5, <2>6, <2>7 DEF Conserved
<1>2. Conserved => BytesConserved
  BY DEF Conserved, BytesConserved, Queued
<1>. QED
  BY <1>1, <1>2, ConservedStep, RoomInvariant, PTL DEF Spec

-----------------------------------------------------------------------------
(***************************************************************************)
(* The messages of a stream.  Between one start of a message and the next  *)
(* lies a line, or MsgSize bytes of one.                                   *)
(***************************************************************************)

\* The line that p is in ends at e.
EndsAt(s, p, e) ==
  /\ e \in p..(Len(s) + 1)
  /\ e = Len(s) + 1 \/ s[e] = NL
  /\ \A i \in p..(e - 1) : s[i] # NL

LEMMA LineEndIs ==
  ASSUME NEW S, NEW s \in Seq(S), NEW p \in 1..(Len(s) + 1), NEW e, EndsAt(s, p, e)
  PROVE  LineEnd(s, p) = e
<1>. DEFINE I == {i \in p..Len(s) : s[i] = NL} \cup {Len(s) + 1}
<1>1. e \in I /\ \A i \in I : e <= i
  BY DEF EndsAt
<1>2. LineEnd(s, p) = CHOOSE x \in I : \A y \in I : x <= y
  BY Zenon DEF LineEnd, Min
<1>3. I \subseteq Int
  OBVIOUS
<1>. HIDE DEF I
<1>4. \A x \in I : (\A y \in I : x <= y) => x = e
  BY <1>1, <1>3
<1>. QED
  BY <1>1, <1>2, <1>4

LEMMA Multiples ==
  ASSUME NEW a \in Nat, NEW b \in Nat, a < b
  PROVE  b * MsgSize >= a * MsgSize + MsgSize /\ a * MsgSize \in Nat
<1>1. MsgSize \in Nat
  BY LogReaderAssumption
<1>2. PICK c \in Nat : b = a + 1 + c
  <2>1. b - a - 1 \in Nat /\ b = a + 1 + (b - a - 1)
    OBVIOUS
  <2>. QED
    BY <2>1
<1>3. b * MsgSize = a * MsgSize + MsgSize + c * MsgSize
  BY <1>1, <1>2
<1>4. c * MsgSize \in Nat /\ a * MsgSize \in Nat
  BY <1>1
<1>. QED
  BY <1>1, <1>3, <1>4

\* After a newline.
LEMMA StartsLine ==
  ASSUME NEW S, NEW s \in Seq(S), NEW p \in 2..(Len(s) + 1), s[p - 1] = NL
  PROVE  Starts(s, p)
<1>1. 0 \in 0..Len(s) /\ p \in 1..p /\ p = p + 0 * MsgSize
  BY LogReaderAssumption
<1>2. \A i \in p..(p - 1) : s[i] # NL
  OBVIOUS
<1>. QED
  BY <1>1, <1>2 DEF Starts

\* After MsgSize bytes of a line.
LEMMA StartsPiece ==
  ASSUME NEW S, NEW s \in Seq(S), NEW p \in 1..Len(s), Starts(s, p),
         p + MsgSize \in 1..(Len(s) + 1),
         \A i \in p..(p + MsgSize - 1) : s[i] # NL
  PROVE  Starts(s, p + MsgSize)
<1>1. PICK q \in 1..p, n \in 0..Len(s) :
        /\ q = 1 \/ s[q - 1] = NL
        /\ p = q + n * MsgSize
        /\ \A i \in q..(p - 1) : s[i] # NL
  BY DEF Starts
<1>2. MsgSize \in Nat \ {0} /\ Len(s) \in Nat
  BY LogReaderAssumption
<1>3. (n + 1) * MsgSize = n * MsgSize + MsgSize
  BY <1>2
<1>4. n * MsgSize \in Nat /\ n * MsgSize >= n
  <2>1. n * (MsgSize - 1) \in Nat
    BY <1>2
  <2>2. n * MsgSize = n * (MsgSize - 1) + n
    BY <1>2
  <2>. QED
    BY <2>1, <2>2
<1>. DEFINE x == n * MsgSize
<1>5. x \in Nat /\ x >= n /\ p = q + x
  BY <1>1, <1>4
<1>6. p + MsgSize = q + (n + 1) * MsgSize
  BY <1>2, <1>3, <1>5
<1>. HIDE DEF x
<1>7. n + 1 \in 0..Len(s)
  BY <1>2, <1>5
<1>8. \A i \in q..((p + MsgSize) - 1) : s[i] # NL
  BY <1>1, <1>2
<1>9. q \in 1..(p + MsgSize)
  BY <1>2
<1>. QED
  BY <1>1, <1>6, <1>7, <1>8, <1>9 DEF Starts

\* Nowhere in between.
LEMMA StartsNot ==
  ASSUME NEW S, NEW s \in Seq(S), NEW p \in 1..Len(s), Starts(s, p),
         NEW r \in 1..Len(s), p < r, r < p + MsgSize,
         \A i \in p..(r - 1) : s[i] # NL
  PROVE  ~Starts(s, r)
<1>. SUFFICES ASSUME Starts(s, r)
              PROVE  FALSE
  OBVIOUS
<1>1. PICK q \in 1..p, n \in 0..Len(s) :
        /\ q = 1 \/ s[q - 1] = NL
        /\ p = q + n * MsgSize
        /\ \A i \in q..(p - 1) : s[i] # NL
  BY DEF Starts
<1>2. PICK t \in 1..r, m \in 0..Len(s) :
        /\ t = 1 \/ s[t - 1] = NL
        /\ r = t + m * MsgSize
        /\ \A i \in t..(r - 1) : s[i] # NL
  BY DEF Starts
<1>3. q = t
  BY <1>1, <1>2
<1>4. MsgSize \in Nat /\ n \in Nat /\ m \in Nat
  BY LogReaderAssumption
<1>5. CASE m <= n
  <2>1. m * MsgSize <= n * MsgSize /\ n * MsgSize \in Nat /\ m * MsgSize \in Nat
    BY <1>4, <1>5, Multiples
  <2>. QED
    BY <1>1, <1>2, <1>3, <2>1
<1>6. CASE n < m
  <2>1. m * MsgSize >= n * MsgSize + MsgSize /\ n * MsgSize \in Nat
    BY <1>4, <1>6, Multiples
  <2>2. m * MsgSize \in Nat
    BY <1>4
  <2>. QED
    BY <1>1, <1>2, <1>3, <1>4, <2>1, <2>2
<1>. QED
  BY <1>4, <1>5, <1>6

-----------------------------------------------------------------------------
(***************************************************************************)
(* What has been cut so far.                                               *)
(***************************************************************************)

Before(s, p) == {q \in MessageStarts(s) : q < p}

\* The messages in m are the first ones of the stream.
AreFirst(m, s) ==
  \A k \in DOMAIN m : \E p \in MessageStarts(s) :
    Cardinality(Before(s, p)) = k - 1 /\ m[k] = Piece(s, p)

\* The stream is cut up to p, and the messages before p are those in m.
CutUpTo(s, p, m) ==
  /\ p \in 1..(Len(s) + 1) /\ (p <= Len(s) => Starts(s, p))
  /\ Cardinality(Before(s, p)) = Len(m)
  /\ AreFirst(m, s)

LEMMA BeforeFinite ==
  ASSUME NEW S, NEW s \in Seq(S), NEW p
  PROVE  IsFiniteSet(Before(s, p)) /\ Cardinality(Before(s, p)) \in Nat
<1>1. Before(s, p) \subseteq 1..Len(s)
  BY DEF Before, MessageStarts
<1>2. IsFiniteSet(1..Len(s))
  BY FS_Interval
<1>. QED
  BY <1>1, <1>2, FS_Subset, FS_CardinalityType

\* Only the message that starts at p lies between p and r.
LEMMA BeforeNext ==
  ASSUME NEW S, NEW s \in Seq(S), NEW p \in 1..Len(s), Starts(s, p),
         NEW r \in 1..(Len(s) + 1), p < r,
         \A i \in (p + 1)..(r - 1) : ~Starts(s, i)
  PROVE  Before(s, r) = IF Piece(s, p) = <<>> THEN Before(s, p)
                        ELSE Before(s, p) \cup {p}
<1>1. \A i \in MessageStarts(s) : i < r => i < p \/ i = p
  BY DEF MessageStarts
<1>2. \A i \in MessageStarts(s) : i \in Int
  BY DEF MessageStarts
<1>3. p \in MessageStarts(s) <=> Piece(s, p) # <<>>
  BY DEF MessageStarts
<1>. QED
  BY <1>1, <1>2, <1>3 DEF Before

\* What handling the piece at p adds to the messages in m.
WithPiece(m, s, p) == IF Piece(s, p) = <<>> THEN m ELSE Append(m, Piece(s, p))

LEMMA CutOn ==
  ASSUME NEW S, NEW s \in Seq(S), NEW T, NEW m \in Seq(T),
         NEW p \in 1..Len(s), CutUpTo(s, p, m), Piece(s, p) \in T,
         NEW r \in 1..(Len(s) + 1), p < r, r <= Len(s) => Starts(s, r),
         \A i \in (p + 1)..(r - 1) : ~Starts(s, i)
  PROVE  CutUpTo(s, r, WithPiece(m, s, p))
<1>1. Starts(s, p) /\ Cardinality(Before(s, p)) = Len(m) /\ AreFirst(m, s)
  BY DEF CutUpTo
<1>2. Before(s, r) = IF Piece(s, p) = <<>> THEN Before(s, p)
                     ELSE Before(s, p) \cup {p}
  BY <1>1, BeforeNext
<1>3. CASE Piece(s, p) = <<>>
  BY <1>1, <1>2, <1>3 DEF CutUpTo, WithPiece
<1>4. CASE Piece(s, p) # <<>>
  <2>. DEFINE n == Append(m, Piece(s, p))
  <2>1. p \notin Before(s, p) /\ p \in MessageStarts(s)
    BY <1>1, <1>4 DEF Before, MessageStarts
  <2>2. Cardinality(Before(s, r)) = Cardinality(Before(s, p)) + 1
    BY <1>2, <1>4, <2>1, BeforeFinite, FS_AddElement
  <2>3. /\ Len(n) = Len(m) + 1 /\ DOMAIN n = DOMAIN m \cup {Len(m) + 1}
        /\ n[Len(m) + 1] = Piece(s, p) /\ \A k \in DOMAIN m : n[k] = m[k]
        /\ Len(m) \in Nat
    OBVIOUS
  <2>. HIDE DEF n
  <2>4. ASSUME NEW k \in DOMAIN n
        PROVE  \E q \in MessageStarts(s) :
                 Cardinality(Before(s, q)) = k - 1 /\ n[k] = Piece(s, q)
    <3>1. CASE k \in DOMAIN m
      BY <1>1, <2>3, <3>1 DEF AreFirst
    <3>2. CASE k = Len(m) + 1
      BY <1>1, <2>1, <2>3, <3>2
    <3>. QED
      BY <2>3, <3>1, <3>2
  <2>5. AreFirst(n, s)
    BY <2>4 DEF AreFirst
  <2>6. CutUpTo(s, r, n)
    BY <1>1, <2>2, <2>3, <2>5 DEF CutUpTo
  <2>. QED
    BY <1>4, <2>6 DEF WithPiece, n
<1>. QED
  BY <1>3, <1>4

\* MsgSize bytes of a line are the piece at p.
LEMMA FullPiece ==
  ASSUME NEW S, NEW s \in Seq(S), NEW p \in 1..Len(s), Starts(s, p),
         p + MsgSize \in 1..(Len(s) + 1),
         \A i \in p..(p + MsgSize - 1) : s[i] # NL
  PROVE  /\ Piece(s, p) = SubSeq(s, p, p + MsgSize - 1)
         /\ Starts(s, p + MsgSize)
         /\ \A i \in (p + 1)..(p + MsgSize - 1) : ~Starts(s, i)
<1>1. MsgSize \in Nat \ {0}
  BY LogReaderAssumption
<1>2. \E e : EndsAt(s, p, e)
  <2>. DEFINE I == {i \in p..(Len(s) + 1) : i = Len(s) + 1 \/ s[i] = NL}
  <2>1. I \subseteq Nat /\ Len(s) + 1 \in I
    OBVIOUS
  <2>2. PICK e \in I : \A i \in I : e <= i
    BY <2>1, NatMinimum
  <2>3. EndsAt(s, p, e)
    BY <2>2 DEF EndsAt
  <2>. QED
    BY <2>3
<1>3. PICK e : EndsAt(s, p, e)
  BY <1>2
<1>4. e - p >= MsgSize
  BY <1>1, <1>3 DEF EndsAt
<1>5. LineEnd(s, p) = e
  BY <1>3, LineEndIs
<1>6. Piece(s, p) = SubSeq(s, p, p + MsgSize - 1)
  BY <1>4, <1>5 DEF Piece
<1>7. Starts(s, p + MsgSize)
  BY StartsPiece
<1>8. \A i \in (p + 1)..(p + MsgSize - 1) : ~Starts(s, i)
  BY <1>1, StartsNot
<1>. QED
  BY <1>6, <1>7, <1>8

\* The rest of a line that is shorter is.
LEMMA ShortPiece ==
  ASSUME NEW S, NEW s \in Seq(S), NEW p \in 1..Len(s), Starts(s, p),
         NEW e \in p..Len(s), e - p < MsgSize, s[e] = NL,
         \A i \in p..(e - 1) : s[i] # NL
  PROVE  /\ Piece(s, p) = Trim(SubSeq(s, p, e - 1))
         /\ Starts(s, e + 1)
         /\ \A i \in (p + 1)..e : ~Starts(s, i)
<1>1. MsgSize \in Nat \ {0}
  BY LogReaderAssumption
<1>2. LineEnd(s, p) = e
  <2>1. EndsAt(s, p, e)
    BY DEF EndsAt
  <2>. QED
    BY <2>1, LineEndIs
<1>3. Piece(s, p) = Trim(SubSeq(s, p, e - 1))
  BY <1>1, <1>2 DEF Piece
<1>4. Starts(s, e + 1)
  BY StartsLine
<1>5. \A i \in (p + 1)..e : ~Starts(s, i)
  BY <1>1, StartsNot
<1>. QED
  BY <1>3, <1>4, <1>5

-----------------------------------------------------------------------------
(***************************************************************************)
(* The reader stands where a message starts, with the messages before it.  *)
(***************************************************************************)

At == Len(stream) - (Len(buffer) + Len(input))

\* What has been read and not been cut, and what has not been read, is the
\* rest of the stream.
Placed ==
  /\ At \in Nat
  /\ \A i \in 1..Len(buffer) : stream[At + i] = buffer[i]
  /\ \A i \in 1..Len(input) : stream[At + Len(buffer) + i] = input[i]

CutSoFar == Placed /\ CutUpTo(stream, At + 1, emitted)

Cutting ==
  First(stream, NUL) = 0 => IF pc = "closed" THEN CutAsWhole ELSE CutSoFar

\* What is left of s without its first n elements.
IsRest(t, s, n) ==
  /\ t \in Seq(Byte) /\ Len(t) = Len(s) - n
  /\ \A i \in 1..Len(t) : t[i] = s[n + i]

\* A piece that is handled.
LEMMA HandledPiece ==
  ASSUME Typed, CutSoFar, NEW n \in 1..Len(buffer),
         NEW ln \in Seq(Byte), ln = Piece(stream, At + 1), HandleLine(ln),
         At + n + 1 <= Len(stream) => Starts(stream, At + n + 1),
         \A i \in (At + 2)..(At + n) : ~Starts(stream, i),
         stream' = stream, input' = input, IsRest(buffer', buffer, n)
  PROVE  CutSoFar'
<1>1. /\ stream \in Seq(Byte) /\ buffer \in Seq(Byte) /\ input \in Seq(Byte)
      /\ emitted \in Seq(Seq(Byte))
      /\ Len(stream) \in Nat /\ Len(buffer) \in Nat /\ Len(input) \in Nat
  BY DEF Typed, TypeOK, Byte
<1>2. At \in Nat /\ At + Len(buffer) + Len(input) = Len(stream)
  BY <1>1 DEF CutSoFar, Placed, At
<1>3. /\ buffer' \in Seq(Byte) /\ Len(buffer') = Len(buffer) - n
      /\ \A i \in 1..Len(buffer') : buffer'[i] = buffer[n + i]
  BY DEF IsRest
<1>4. At' = At + n
  <2>1. At' = Len(stream) - (Len(buffer') + Len(input))
    BY DEF At
  <2>2. Len(buffer') = Len(buffer) - n /\ n \in Int
    BY <1>3
  <2>3. Len(stream) \in Int /\ Len(buffer) \in Int /\ Len(input) \in Int
    BY <1>1
  <2>4. At = Len(stream) - (Len(buffer) + Len(input))
    BY DEF At
  <2>. QED
    BY <2>1, <2>2, <2>3, <2>4
<1>5. Placed'
  <2>1. \A i \in 1..Len(buffer') : stream[(At + n) + i] = buffer'[i]
    <3>. TAKE i \in 1..Len(buffer')
    <3>1. n + i \in 1..Len(buffer) /\ At + (n + i) = (At + n) + i
      BY <1>1, <1>2, <1>3
    <3>. QED
      BY <1>3, <3>1 DEF CutSoFar, Placed
  <2>2. \A i \in 1..Len(input) : stream[(At + n) + Len(buffer') + i] = input[i]
    <3>. TAKE i \in 1..Len(input)
    <3>1. (At + n) + Len(buffer') + i = At + Len(buffer) + i
      <4>1. /\ Len(buffer') = Len(buffer) - n /\ n \in Int
            /\ Len(buffer) \in Int /\ At \in Int /\ i \in Int
        BY <1>1, <1>2, <1>3
      <4>. QED
        BY <4>1
    <3>. QED
      BY <3>1 DEF CutSoFar, Placed
  <2>3. At + n \in Nat
    BY <1>2
  <2>. QED
    BY <1>4, <2>1, <2>2, <2>3 DEF Placed
<1>. DEFINE p == At + 1
            r == At + n + 1
<1>6. /\ p \in 1..Len(stream) /\ r \in 1..(Len(stream) + 1) /\ p < r
      /\ p + 1 = At + 2 /\ r - 1 = At + n
  BY <1>1, <1>2
<1>7. CutUpTo(stream, p, emitted)
  BY DEF CutSoFar
<1>8. emitted' = WithPiece(emitted, stream, p)
  BY DEF HandleLine, WithPiece
<1>9. /\ r <= Len(stream) => Starts(stream, r)
      /\ \A i \in (p + 1)..(r - 1) : ~Starts(stream, i)
  BY <1>6
<1>10. Piece(stream, p) \in Seq(Byte)
  OBVIOUS
<1>. HIDE DEF p, r
<1>11. CutUpTo(stream, r, emitted')
  BY <1>1, <1>6, <1>7, <1>8, <1>9, <1>10, CutOn
<1>12. r = At' + 1
  BY <1>2, <1>4 DEF r
<1>. QED
  BY <1>5, <1>11, <1>12 DEF CutSoFar

\* The rest of a stream without NUL has none.
LEMMA NoNul ==
  ASSUME Typed, CutSoFar, First(stream, NUL) = 0
  PROVE  /\ First(buffer, NUL) = 0 /\ Eol(buffer) = First(buffer, NL)
         /\ At \in Nat /\ At + Len(buffer) <= Len(stream)
<1>1. stream \in Seq(Byte) /\ buffer \in Seq(Byte) /\ input \in Seq(Byte)
  BY DEF Typed, TypeOK, Byte
<1>2. \A i \in 1..Len(stream) : stream[i] # NUL
  BY <1>1, FirstIs
<1>3. At \in Nat /\ At + Len(buffer) <= Len(stream)
  BY <1>1 DEF CutSoFar, Placed, At
<1>4. First(buffer, NUL) = 0
  <2>. SUFFICES ASSUME First(buffer, NUL) # 0
                PROVE  FALSE
    OBVIOUS
  <2>1. First(buffer, NUL) \in 1..Len(buffer) /\ buffer[First(buffer, NUL)] = NUL
    BY <1>1, FirstIs
  <2>2. At + First(buffer, NUL) \in 1..Len(stream)
    BY <1>1, <1>3, <2>1
  <2>. QED
    BY <1>2, <2>1, <2>2 DEF CutSoFar, Placed
<1>. QED
  BY <1>3, <1>4 DEF Eol

LEMMA TakeBufferCuts ==
  ASSUME Typed, Cutting, TakeBuffer
  PROVE  Cutting'
<1>. SUFFICES ASSUME First(stream, NUL) = 0
              PROVE  CutSoFar'
  BY DEF Cutting, TakeBuffer, source, AfterCut
<1>1. CutSoFar
  BY DEF Cutting, TakeBuffer
<1>2. stream \in Seq(Byte) /\ buffer \in Seq(Byte) /\ input \in Seq(Byte)
  BY DEF Typed, TypeOK, Byte
<1>3. MsgSize \in Nat \ {0}
  BY LogReaderAssumption
<1>4. /\ Len(buffer) = MsgSize /\ First(buffer, NL) = 0
      /\ At \in Nat /\ At + MsgSize <= Len(stream)
  BY <1>1, NoNul DEF TakeBuffer, Full
<1>5. \A i \in 1..MsgSize : stream[At + i] = buffer[i] /\ buffer[i] # NL
  BY <1>1, <1>2, <1>4, FirstIs DEF CutSoFar, Placed
<1>. DEFINE p == At + 1
<1>6. p \in 1..Len(stream) /\ Starts(stream, p) /\ p + MsgSize \in 1..(Len(stream) + 1)
  BY <1>1, <1>2, <1>3, <1>4 DEF CutSoFar, CutUpTo
<1>7. \A i \in p..(p + MsgSize - 1) : stream[i] # NL
  <2>. TAKE i \in p..(p + MsgSize - 1)
  <2>1. i - At \in 1..MsgSize /\ At + (i - At) = i
    BY <1>3, <1>4
  <2>. QED
    BY <1>5, <2>1
<1>. HIDE DEF p
<1>8. /\ Piece(stream, p) = SubSeq(stream, p, p + MsgSize - 1)
      /\ Starts(stream, p + MsgSize)
      /\ \A i \in (p + 1)..(p + MsgSize - 1) : ~Starts(stream, i)
  BY <1>2, <1>6, <1>7, FullPiece
<1>9. buffer = SubSeq(stream, p, p + MsgSize - 1)
  <2>. DEFINE t == SubSeq(stream, p, p + MsgSize - 1)
  <2>1. /\ t \in Seq(Byte) /\ Len(t) = MsgSize
        /\ \A i \in 1..MsgSize : t[i] = stream[p + i - 1]
    BY <1>2, <1>3, <1>6
  <2>2. \A i \in 1..MsgSize : p + i - 1 = At + i
    BY <1>4 DEF p
  <2>. HIDE DEF t
  <2>3. \A i \in 1..MsgSize : t[i] = buffer[i]
    BY <1>5, <2>1, <2>2
  <2>4. t = buffer
    BY <1>2, <1>4, <2>1, <2>3
  <2>. QED
    BY <2>4 DEF t
<1>10. IsRest(buffer', buffer, MsgSize)
  BY <1>2, <1>3, <1>4 DEF TakeBuffer, IsRest
<1>11. MsgSize \in 1..Len(buffer) /\ buffer = Piece(stream, At + 1)
  BY <1>3, <1>4, <1>8, <1>9 DEF p
<1>12. /\ Starts(stream, At + MsgSize + 1)
       /\ \A i \in (At + 2)..(At + MsgSize) : ~Starts(stream, i)
  <2>1. p + MsgSize = At + MsgSize + 1 /\ p + 1 = At + 2
        /\ p + MsgSize - 1 = At + MsgSize
    BY <1>3, <1>4 DEF p
  <2>. QED
    BY <1>8, <2>1
<1>13. HandleLine(buffer) /\ stream' = stream /\ input' = input
  BY DEF TakeBuffer, source
<1>. QED
  BY <1>1, <1>2, <1>10, <1>11, <1>12, <1>13, HandledPiece

LEMMA CutLineCuts ==
  ASSUME Typed, Cutting, CutLine
  PROVE  Cutting'
<1>. SUFFICES ASSUME First(stream, NUL) = 0
              PROVE  CutSoFar'
  BY DEF Cutting, CutLine, source
<1>. DEFINE e == First(buffer, NL)
            ln == Trim(SubSeq(buffer, 1, e - 1))
<1>1. CutSoFar
  BY DEF Cutting, CutLine
<1>2. stream \in Seq(Byte) /\ buffer \in Seq(Byte) /\ input \in Seq(Byte)
      /\ Len(buffer) <= MsgSize
  BY DEF Typed, TypeOK, Byte
<1>3. MsgSize \in Nat \ {0}
  BY LogReaderAssumption
<1>4. Eol(buffer) = e /\ At \in Nat /\ At + Len(buffer) <= Len(stream)
  BY <1>1, NoNul
<1>5. /\ e # 0 /\ HandleLine(ln) /\ stream' = stream /\ input' = input
      /\ buffer' = SubSeq(buffer, e + 1, Len(buffer))
  BY <1>4 DEF CutLine, MoreLines, source
<1>6. /\ e \in 1..Len(buffer) /\ buffer[e] = NL
      /\ \A i \in 1..(e - 1) : buffer[i] # NL
  BY <1>2, <1>5, FirstIs
<1>7. ln \in Seq(Byte)
  BY <1>2, <1>4, <1>5, CutType
<1>. HIDE DEF e
<1>8. IsRest(buffer', buffer, e)
  BY <1>2, <1>5, <1>6 DEF IsRest
<1>9. \A i \in 1..e : stream[At + i] = buffer[i]
  BY <1>1, <1>6 DEF CutSoFar, Placed
<1>. DEFINE p == At + 1
            f == At + e
<1>10. /\ p \in 1..Len(stream) /\ Starts(stream, p) /\ f \in p..Len(stream)
      /\ f - p < MsgSize
  BY <1>1, <1>2, <1>3, <1>4, <1>6 DEF CutSoFar, CutUpTo
<1>11. stream[f] = NL
  BY <1>6, <1>9
<1>12. \A i \in p..(f - 1) : stream[i] # NL
  <2>. TAKE i \in p..(f - 1)
  <2>1. i - At \in 1..(e - 1) /\ At + (i - At) = i /\ i - At \in 1..e
    BY <1>4, <1>6
  <2>. QED
    BY <1>6, <1>9, <2>1
<1>. HIDE DEF p, f
<1>13. /\ Piece(stream, p) = Trim(SubSeq(stream, p, f - 1))
       /\ Starts(stream, f + 1)
       /\ \A i \in (p + 1)..f : ~Starts(stream, i)
  BY <1>2, <1>10, <1>11, <1>12, ShortPiece
<1>14. SubSeq(buffer, 1, e - 1) = SubSeq(stream, p, f - 1)
  <2>. DEFINE t == SubSeq(stream, p, f - 1)
              u == SubSeq(buffer, 1, e - 1)
              w == f - 1
  <2>0. w = p + (e - 1) - 1 /\ e - 1 \in Nat /\ \A i \in Int : p + i - 1 = At + i
    BY <1>4, <1>6 DEF p, f
  <2>1. /\ t \in Seq(Byte) /\ Len(t) = e - 1
        /\ \A i \in 1..(e - 1) : t[i] = stream[p + i - 1]
    <3>1. p \in 1..Len(stream) /\ w \in (p - 1)..Len(stream) /\ w - p + 1 = e - 1
      <4>1. e \in Int /\ f \in Int /\ p \in Int
        BY <1>6, <1>10
      <4>. QED
        BY <1>10, <2>0, <4>1
    <3>. HIDE DEF w
    <3>2. /\ SubSeq(stream, p, w) \in Seq(Byte) /\ Len(SubSeq(stream, p, w)) = w - p + 1
          /\ \A i \in 1..(w - p + 1) : SubSeq(stream, p, w)[i] = stream[p + i - 1]
      <4>1. p \in 1..Len(stream) /\ w \in (p - 1)..Len(stream)
        BY <3>1
      <4>. QED
        BY <1>2, <4>1
    <3>. QED
      BY <3>1, <3>2 DEF w
  <2>2. /\ u \in Seq(Byte) /\ Len(u) = e - 1
        /\ \A i \in 1..(e - 1) : u[i] = buffer[i]
    BY <1>2, <1>6
  <2>. HIDE DEF t, u
  <2>3. \A i \in 1..(e - 1) : t[i] = u[i]
    <3>. TAKE i \in 1..(e - 1)
    <3>1. i \in 1..e /\ p + i - 1 = At + i
      BY <1>6, <2>0
    <3>. QED
      BY <1>9, <2>1, <2>2, <3>1
  <2>4. t = u
    BY <2>1, <2>2, <2>3
  <2>. QED
    BY <2>4 DEF t, u
<1>15. ln = Piece(stream, At + 1)
  BY <1>13, <1>14 DEF p
<1>16. /\ Starts(stream, At + e + 1)
       /\ \A i \in (At + 2)..(At + e) : ~Starts(stream, i)
  <2>1. f + 1 = At + e + 1 /\ p + 1 = At + 2 /\ f = At + e
    BY <1>4, <1>6 DEF p, f
  <2>. QED
    BY <1>13, <2>1
<1>. HIDE DEF ln
<1>. QED
  BY <1>1, <1>5, <1>6, <1>7, <1>15, <1>16, <1>8, HandledPiece

LEMMA ReadCuts ==
  ASSUME Typed, Cutting, NEW n \in 1..MsgSize, Read(n)
  PROVE  Cutting'
<1>. SUFFICES ASSUME First(stream, NUL) = 0
              PROVE  CutSoFar'
  BY DEF Cutting, Read, source
<1>. DEFINE t == SubSeq(input, 1, n)
            u == SubSeq(input, n + 1, Len(input))
<1>1. CutSoFar
  BY DEF Cutting, Read, Reading
<1>2. /\ stream \in Seq(Byte) /\ buffer \in Seq(Byte) /\ input \in Seq(Byte)
      /\ Len(stream) \in Int /\ Len(buffer) \in Nat /\ Len(input) \in Nat
  BY DEF Typed, TypeOK, Byte
<1>3. /\ n \in Nat /\ n <= Len(input) /\ stream' = stream /\ emitted' = emitted
      /\ buffer' = buffer \o t /\ input' = u
  BY LogReaderAssumption DEF Read, source
<1>4. /\ t \in Seq(Byte) /\ Len(t) = n /\ \A i \in 1..n : t[i] = input[i]
  BY <1>2, <1>3
<1>5. /\ u \in Seq(Byte) /\ Len(u) = Len(input) - n
      /\ \A i \in 1..(Len(input) - n) : u[i] = input[n + i]
  BY <1>2, <1>3
<1>. HIDE DEF t, u
<1>6. /\ buffer' \in Seq(Byte) /\ Len(buffer') = Len(buffer) + n
      /\ \A i \in 1..(Len(buffer) + n) :
           buffer'[i] = IF i <= Len(buffer) THEN buffer[i] ELSE t[i - Len(buffer)]
  <2>1. /\ buffer \o t \in Seq(Byte) /\ Len(buffer \o t) = Len(buffer) + Len(t)
        /\ \A i \in 1..(Len(buffer) + Len(t)) :
             (buffer \o t)[i] = IF i <= Len(buffer) THEN buffer[i]
                                ELSE t[i - Len(buffer)]
    BY <1>2, <1>4, ConcatProperties
  <2>. QED
    BY <1>3, <1>4, <2>1
<1>7. At' = At
  <2>1. At' = Len(stream) - (Len(buffer') + Len(u))
    BY <1>3 DEF At
  <2>2. At = Len(stream) - (Len(buffer) + Len(input))
    BY DEF At
  <2>3. Len(buffer') = Len(buffer) + n /\ Len(u) = Len(input) - n
    BY <1>5, <1>6
  <2>4. /\ Len(stream) \in Int /\ Len(buffer) \in Int /\ Len(input) \in Int
        /\ n \in Int
    BY <1>2, <1>3
  <2>. QED
    BY <2>1, <2>2, <2>3, <2>4
<1>8. Placed
  BY <1>1 DEF CutSoFar
<1>9. \A i \in 1..Len(buffer') : stream[At + i] = buffer'[i]
  <2>. TAKE i \in 1..Len(buffer')
  <2>1. CASE i <= Len(buffer)
    <3>1. i \in 1..Len(buffer) /\ i \in 1..(Len(buffer) + n)
      BY <1>2, <1>3, <1>6, <2>1
    <3>2. stream[At + i] = buffer[i]
      BY <1>8, <3>1, Zenon DEF Placed
    <3>3. buffer'[i] = buffer[i]
      BY <1>6, <2>1, <3>1, Zenon
    <3>. QED
      BY <3>2, <3>3, Zenon
  <2>2. CASE ~(i <= Len(buffer))
    <3>1. /\ i - Len(buffer) \in 1..n /\ i - Len(buffer) \in 1..Len(input)
          /\ i \in 1..(Len(buffer) + n)
      BY <1>2, <1>3, <1>6, <2>2
    <3>2. At + Len(buffer) + (i - Len(buffer)) = At + i
      BY <1>2, <1>8, <3>1 DEF Placed
    <3>3. buffer'[i] = input[i - Len(buffer)]
      BY <1>4, <1>6, <2>2, <3>1
    <3>4. stream[At + Len(buffer) + (i - Len(buffer))] = input[i - Len(buffer)]
      BY <1>8, <3>1 DEF Placed
    <3>. QED
      BY <3>2, <3>3, <3>4
  <2>. QED
    BY <2>1, <2>2
<1>10. \A i \in 1..Len(u) : stream[At + Len(buffer') + i] = u[i]
  <2>. TAKE i \in 1..Len(u)
  <2>1. /\ n + i \in 1..Len(input) /\ i \in 1..(Len(input) - n)
        /\ At \in Nat /\ i \in Nat
    BY <1>2, <1>3, <1>5, <1>8 DEF Placed
  <2>2. Len(buffer') = Len(buffer) + n
    BY <1>6
  <2>3. At + Len(buffer') + i = At + Len(buffer) + (n + i)
    BY <1>2, <1>3, <2>1, <2>2
  <2>4. stream[At + Len(buffer) + (n + i)] = input[n + i]
    BY <1>8, <2>1 DEF Placed
  <2>. QED
    BY <1>5, <2>1, <2>3, <2>4
<1>11. Placed'
  BY <1>3, <1>7, <1>8, <1>9, <1>10 DEF Placed
<1>. QED
  BY <1>1, <1>3, <1>7, <1>11 DEF CutSoFar

\* All but the last message.
LEMMA CloseCuts ==
  ASSUME Typed, Cutting, Close
  PROVE  Cutting'
<1>. SUFFICES ASSUME First(stream, NUL) = 0
              PROVE  CutAsWhole'
  BY DEF Cutting, Close, source
<1>1. AreFirst(emitted, stream) /\ emitted \in Seq(Seq(Byte)) /\ buffer \in Seq(Byte)
  BY DEF Cutting, CutSoFar, CutUpTo, Close, Reading, Typed, TypeOK, Byte
<1>. DEFINE cut == IF emitted # <<>> THEN Front(emitted) ELSE emitted
<1>2. AreFirst(cut', stream)
  <2>1. CASE buffer = <<>>
    <3>1. cut' = cut
      BY <2>1 DEF Close, HandleLine
    <3>2. DOMAIN cut \subseteq DOMAIN emitted /\ \A k \in DOMAIN cut : cut[k] = emitted[k]
      BY <1>1 DEF Front
    <3>. HIDE DEF cut
    <3>3. AreFirst(cut, stream)
      BY <1>1, <3>2 DEF AreFirst
    <3>. QED
      BY <3>1, <3>3
  <2>2. CASE buffer # <<>>
    <3>1. emitted' = Append(emitted, buffer)
      BY <2>2 DEF Close, HandleLine
    <3>2. emitted' # <<>> /\ Front(emitted') = emitted
      BY <1>1, <3>1 DEF Front
    <3>3. cut' = emitted
      BY <3>2
    <3>. QED
      BY <1>1, <3>3
  <2>. QED
    BY <2>1, <2>2
<1>3. pc' = "closed" /\ stream' = stream
  BY DEF Close, source
<1>. QED
  BY <1>2, <1>3, Zenon DEF CutAsWhole, AreFirst, Before

LEMMA CuttingStep == Typed /\ Cutting /\ [Next]_vars => Cutting'
<1>. SUFFICES ASSUME Typed, Cutting, [Next]_vars
              PROVE  Cutting'
  OBVIOUS
<1>1. ASSUME UNCHANGED <<stream, input, buffer, emitted>>,
             pc' = "closed" <=> pc = "closed"
      PROVE  Cutting'
  BY <1>1 DEF Cutting, CutSoFar, Placed, At, CutAsWhole
<1>2. ASSUME NEW lines, Dispatch(lines)
      PROVE  Cutting'
  BY <1>1, <1>2 DEF Dispatch, source
<1>3. CASE EndCut
  BY <1>1, <1>3 DEF EndCut, source, AfterCut
<1>4. CASE EndFetch
  BY <1>1, <1>4 DEF EndFetch, source
<1>5. CASE Acknowledged
  BY <1>1, <1>5 DEF Acknowledged, source
<1>6. CASE UNCHANGED vars
  BY <1>1, <1>6 DEF vars, source
<1>. QED
  BY <1>2, <1>3, <1>4, <1>5, <1>6, TakeBufferCuts, CutLineCuts, ReadCuts, CloseCuts
     DEF Next, Resume, Wake, Loop

\* Whatever the pieces in which a stream without NUL arrives, the fetch limit, the
\* window and the acknowledgements, log_reader_iterate_buf cuts it into the
\* messages it is cut into at once; only the one that closing queues may differ.
THEOREM CutsAsWhole == Spec => []CutAsWhole
<1>1. Init => Cutting
  <2>. SUFFICES ASSUME Init
                PROVE  Cutting
    OBVIOUS
  <2>1. /\ stream \in Seq(Byte) /\ input = stream /\ buffer = <<>> /\ emitted = <<>>
        /\ pc = "main" /\ Len(stream) \in Nat
    BY LogReaderAssumption DEF Init, Byte
  <2>2. At = 0
    <3>1. Len(buffer) = 0 /\ Len(input) = Len(stream)
      BY <2>1
    <3>. QED
      BY <2>1, <3>1 DEF At
  <2>3. Placed
    BY <2>1, <2>2 DEF Placed
  <2>4. 1 <= Len(stream) => Starts(stream, 1)
    <3>1. 1 \in 1..1 /\ 0 \in 0..Len(stream) /\ 1 = 1 + 0 * MsgSize
      BY <2>1, LogReaderAssumption
    <3>2. \A i \in 1..(1 - 1) : stream[i] # NL
      OBVIOUS
    <3>. QED
      BY <3>1, <3>2 DEF Starts
  <2>5. Before(stream, 1) = {}
    BY DEF Before, MessageStarts
  <2>6. CutUpTo(stream, 1, emitted)
    <3>1. 1 \in 1..(Len(stream) + 1)
      BY <2>1
    <3>2. Cardinality(Before(stream, 1)) = Len(emitted)
      BY <2>1, <2>5, FS_EmptySet
    <3>3. AreFirst(emitted, stream)
      BY <2>1 DEF AreFirst
    <3>. QED
      BY <2>4, <3>1, <3>2, <3>3 DEF CutUpTo
  <2>. QED
    BY <2>1, <2>2, <2>3, <2>6 DEF Cutting, CutSoFar
<1>2. Cutting => CutAsWhole
  <2>. SUFFICES ASSUME First(stream, NUL) = 0, CutSoFar, pc # "closed"
                PROVE  CutAsWhole
    BY DEF Cutting, CutAsWhole
  <2>1. AreFirst(emitted, stream)
    BY DEF CutSoFar, CutUpTo
  <2>. QED
    BY <2>1, Zenon DEF CutAsWhole, AreFirst, Before
<1>. QED
  BY <1>1, <1>2, CuttingStep, RoomInvariant, PTL DEF Spec


-----------------------------------------------------------------------------
(***************************************************************************)
(* Runs of tokens.                                                         *)
(***************************************************************************)

\* The first token outside a set, and the first inside one.
OutOf(s, C) == SelectInSeq(s, LAMBDA t : t \notin C)
Into(s, C) == SelectInSeq(s, LAMBDA t : t \in C)

\* i is the least index of s in I, or 0 if I is empty.
Least(i, I) == IF I = {} THEN i = 0 ELSE i \in I /\ \A j \in I : i <= j

LEMMA LeastIs ==
  ASSUME NEW s, Len(s) \in Nat, NEW I, I \subseteq 1..Len(s)
  PROVE  Least(IF I # {} THEN Min(I) ELSE 0, I)
<1>1. CASE I = {}
  BY <1>1, Zenon DEF Least
<1>2. CASE I # {}
  <2>1. \E x \in I : \A y \in I : x <= y
    <3>1. I \subseteq Nat
      OBVIOUS
    <3>. QED
      BY <1>2, <3>1, NatMinimum
  <2>2. Min(I) \in I /\ \A y \in I : Min(I) <= y
    BY <2>1, Zenon DEF Min
  <2>. QED
    BY <1>2, <2>2, Zenon DEF Least
<1>. QED
  BY <1>1, <1>2

LEMMA OutOfIs ==
  ASSUME NEW s \in Seq(Token), NEW C
  PROVE  Least(OutOf(s, C), {i \in 1..Len(s) : s[i] \notin C})
<1>. DEFINE I == {i \in 1..Len(s) : s[i] \notin C}
<1>1. OutOf(s, C) = IF I # {} THEN Min(I) ELSE 0
  BY Zenon DEF OutOf, SelectInSeq
<1>2. Len(s) \in Nat /\ I \subseteq 1..Len(s)
  OBVIOUS
<1>. HIDE DEF I
<1>3. Least(IF I # {} THEN Min(I) ELSE 0, I)
  BY <1>2, LeastIs
<1>. QED
  BY <1>1, <1>3, Zenon DEF I

LEMMA IntoIs ==
  ASSUME NEW s \in Seq(Token), NEW C
  PROVE  Least(Into(s, C), {i \in 1..Len(s) : s[i] \in C})
<1>. DEFINE I == {i \in 1..Len(s) : s[i] \in C}
<1>1. Into(s, C) = IF I # {} THEN Min(I) ELSE 0
  BY Zenon DEF Into, SelectInSeq
<1>2. Len(s) \in Nat /\ I \subseteq 1..Len(s)
  OBVIOUS
<1>. HIDE DEF I
<1>3. Least(IF I # {} THEN Min(I) ELSE 0, I)
  BY <1>2, LeastIs
<1>. QED
  BY <1>1, <1>3, Zenon DEF I

\* A part of a sequence of tokens is one.
LEMMA PartType ==
  ASSUME NEW s \in Seq(Token), NEW i \in Int, NEW j \in Int, i >= 1, j <= Len(s)
  PROVE  SubSeq(s, i, j) \in Seq(Token)
OBVIOUS

LEMMA AfterType ==
  ASSUME NEW s \in Seq(Token), NEW C
  PROVE  After(s, C) \in Seq(Token)
<1>. DEFINE i == OutOf(s, C)
<1>1. i \in 0..Len(s)
  BY OutOfIs DEF Least
<1>2. After(s, C) = IF i = 0 THEN <<>> ELSE SubSeq(s, i, Len(s))
  BY Zenon DEF After, OutOf
<1>. HIDE DEF i
<1>3. Len(s) \in Nat
  OBVIOUS
<1>4. CASE i = 0
  BY <1>2, <1>4
<1>5. CASE i # 0
  <2>1. i \in Nat /\ i >= 1 /\ Len(s) \in Int /\ Len(s) <= Len(s)
    BY <1>1, <1>3, <1>5
  <2>. QED
    BY <1>2, <1>5, <2>1, PartType
<1>. QED
  BY <1>4, <1>5

LEMMA UpToIs ==
  ASSUME NEW s \in Seq(Token), NEW Stop
  PROVE  UpTo(s, Stop) = IF Into(s, Stop) = 0 THEN s
                         ELSE SubSeq(s, 1, Into(s, Stop) - 1)
BY Zenon DEF UpTo, Into

LEMMA UpToType ==
  ASSUME NEW s \in Seq(Token), NEW Stop
  PROVE  /\ UpTo(s, Stop) \in Seq(Token)
         /\ Len(UpTo(s, Stop)) <= Len(s)
         /\ From(s, Stop) \in Seq(Token)
<1>. DEFINE i == Into(s, Stop)
            u == UpTo(s, Stop)
<1>1. i \in 0..Len(s)
  BY IntoIs DEF Least
<1>2. u = IF i = 0 THEN s ELSE SubSeq(s, 1, i - 1)
  BY UpToIs, Zenon
<1>. HIDE DEF i, u
<1>3. u \in Seq(Token) /\ Len(u) <= Len(s)
  <2>1. CASE i = 0
    BY <1>2, <2>1
  <2>2. CASE i # 0
    BY <1>1, <1>2, <2>2
  <2>. QED
    BY <2>1, <2>2
<1>4. From(s, Stop) \in Seq(Token)
  <2>1. From(s, Stop) = SubSeq(s, Len(u) + 1, Len(s))
    BY Zenon DEF From, u
  <2>2. Len(u) + 1 \in Nat /\ Len(u) + 1 >= 1 /\ Len(s) \in Int /\ Len(s) <= Len(s)
    BY <1>3
  <2>. QED
    BY <2>1, <2>2, PartType
<1>. QED
  BY <1>3, <1>4 DEF u

\* What does not begin with a token of a set is not shortened.
LEMMA NothingSkipped ==
  ASSUME NEW s \in Seq(Token), NEW C, s # <<>> => s[1] \notin C
  PROVE  After(s, C) = s
<1>. DEFINE i == OutOf(s, C)
<1>1. After(s, C) = IF i = 0 THEN <<>> ELSE SubSeq(s, i, Len(s))
  BY Zenon DEF After, OutOf
<1>2. Least(i, {j \in 1..Len(s) : s[j] \notin C})
  BY OutOfIs
<1>. HIDE DEF i
<1>3. CASE s = <<>>
  BY <1>1, <1>2, <1>3 DEF Least
<1>4. CASE s # <<>>
  <2>1. 1 \in {j \in 1..Len(s) : s[j] \notin C}
    BY <1>4
  <2>2. i = 1
    BY <1>2, <2>1 DEF Least
  <2>. QED
    BY <1>1, <2>2
<1>. QED
  BY <1>3, <1>4

\* One token of the set before it is skipped.
LEMMA OneSkipped ==
  ASSUME NEW s \in Seq(Token), NEW c \in Token, NEW C, c \in C,
         s # <<>> => s[1] \notin C
  PROVE  After(<<c>> \o s, C) = s
<1>. DEFINE r == <<c>> \o s
            i == OutOf(r, C)
<1>1. r \in Seq(Token) /\ Len(r) = Len(s) + 1 /\ r[1] = c
      /\ \A j \in 1..Len(s) : r[j + 1] = s[j]
  OBVIOUS
<1>. HIDE DEF r
<1>2. Least(i, {j \in 1..Len(r) : r[j] \notin C})
  BY <1>1, OutOfIs
<1>3. After(r, C) = IF i = 0 THEN <<>> ELSE SubSeq(r, i, Len(r))
  BY Zenon DEF After, OutOf
<1>. HIDE DEF i
<1>4. CASE s = <<>>
  <2>1. {j \in 1..Len(r) : r[j] \notin C} = {}
    BY <1>1, <1>4
  <2>. QED
    BY <1>2, <1>3, <1>4, <2>1 DEF Least, r
<1>5. CASE s # <<>>
  <2>1. /\ 2 \in {j \in 1..Len(r) : r[j] \notin C}
        /\ 1 \notin {j \in 1..Len(r) : r[j] \notin C}
    BY <1>1, <1>5
  <2>2. i = 2
    BY <1>1, <1>2, <2>1 DEF Least
  <2>3. SubSeq(r, 2, Len(r)) = s
    BY <1>1
  <2>4. After(r, C) = s
    BY <1>3, <2>2, <2>3
  <2>. QED
    BY <2>4 DEF r
<1>. QED
  BY <1>4, <1>5

\* A run ends where the first token of the set comes.
LEMMA RunEnds ==
  ASSUME NEW a \in Seq(Token), NEW b \in Seq(Token), NEW Stop,
         \A i \in DOMAIN a : a[i] \notin Stop,
         b # <<>>, b[1] \in Stop
  PROVE  UpTo(a \o b, Stop) = a /\ From(a \o b, Stop) = b
<1>. DEFINE s == a \o b
            i == Into(s, Stop)
            u == UpTo(s, Stop)
<1>1. /\ s \in Seq(Token) /\ Len(s) = Len(a) + Len(b)
      /\ \A j \in 1..Len(a) : s[j] = a[j]
      /\ s[Len(a) + 1] = b[1]
      /\ \A j \in 1..Len(b) : s[Len(a) + j] = b[j]
  OBVIOUS
<1>. HIDE DEF s
<1>2. Least(i, {j \in 1..Len(s) : s[j] \in Stop})
  BY <1>1, IntoIs
<1>3. u = IF i = 0 THEN s ELSE SubSeq(s, 1, i - 1)
  BY <1>1, UpToIs, Zenon
<1>. HIDE DEF i, u
<1>4. Len(a) + 1 \in {j \in 1..Len(s) : s[j] \in Stop}
  BY <1>1
<1>5. ASSUME NEW j \in {k \in 1..Len(s) : s[k] \in Stop}, j <= Len(a)
      PROVE  FALSE
  <2>1. j \in 1..Len(a) /\ j \in DOMAIN a /\ s[j] \in Stop
    BY <1>5
  <2>2. s[j] = a[j]
    BY <1>1, <2>1, Zenon
  <2>. QED
    BY <2>1, <2>2, Zenon
<1>6. i = Len(a) + 1
  <2>1. /\ i \in {k \in 1..Len(s) : s[k] \in Stop}
        /\ i <= Len(a) + 1
    BY <1>2, <1>4, Zenon DEF Least
  <2>2. ~(i <= Len(a))
    BY <1>5, <2>1, Zenon
  <2>. QED
    BY <1>1, <2>1, <2>2
<1>7. u = a
  BY <1>1, <1>3, <1>6
<1>8. From(s, Stop) = SubSeq(s, Len(a) + 1, Len(s))
  BY <1>7, Zenon DEF From, u
<1>9. SubSeq(s, Len(a) + 1, Len(s)) = b
  BY <1>1
<1>. QED
  BY <1>7, <1>8, <1>9 DEF s, u

-----------------------------------------------------------------------------
(***************************************************************************)
(* What the parser makes of a line is a message.                           *)
(***************************************************************************)

LogMessage ==
  [pri : Token, date : Token, host : Seq(Token), program : Seq(Token), msg : Seq(Token)]

LEMMA TailType ==
  ASSUME NEW s \in Seq(Token), s # <<>>
  PROVE  Tail(s) \in Seq(Token) /\ s[1] \in Token /\ Len(s) >= 1
OBVIOUS

LEMMA TrimmedType ==
  ASSUME NEW s \in Seq(Token)
  PROVE  Trimmed(s) \in Seq(Token)
<1>. DEFINE I == {i \in 1..Len(s) : s[i] # "nl"}
            i == SelectLastInSeq(s, LAMBDA t : t # "nl")
<1>1. i = IF I # {} THEN Max(I) ELSE 0
  BY Zenon DEF SelectLastInSeq
<1>2. Trimmed(s) = SubSeq(s, 1, i)
  BY Zenon DEF Trimmed
<1>3. I \subseteq 1..Len(s) /\ Len(s) \in Nat
  OBVIOUS
<1>. HIDE DEF I, i
<1>4. CASE I = {}
  BY <1>1, <1>2, <1>4
<1>5. CASE I # {}
  <2>1. Max(I) \in I
    BY <1>3, <1>5, LastMember
  <2>2. Max(I) \in 1..Len(s)
    BY <1>3, <2>1
  <2>3. i = Max(I)
    BY <1>1, <1>5, Zenon
  <2>. QED
    BY <1>2, <1>3, <2>2, <2>3, PartType
<1>. QED
  BY <1>4, <1>5

LEMMA BlankedType ==
  ASSUME NEW s \in Seq(Token)
  PROVE  Blanked(s) \in Seq(Token)
<1>. DEFINE b == [i \in DOMAIN s |-> IF s[i] = "nl" THEN "sp" ELSE s[i]]
<1>1. "sp" \in Token
  BY LogMsgAssumption
<1>2. DOMAIN s = 1..Len(s) /\ Len(s) \in Nat /\ \A i \in 1..Len(s) : s[i] \in Token
  OBVIOUS
<1>3. b \in [1..Len(s) -> Token]
  BY <1>1, <1>2
<1>. HIDE DEF b
<1>4. b \in Seq(Token)
  BY <1>2, <1>3
<1>. QED
  BY <1>4, Zenon DEF Blanked, b

LEMMA PriorityType ==
  ASSUME NEW s \in Seq(Token), NEW kernel \in BOOLEAN
  PROVE  /\ Priority(s, kernel).pri \in Number \cup {"bad"}
         /\ Priority(s, kernel).rest \in Seq(Token)
<1>1. CASE s # <<>> /\ s[1] = "<"
  <2>. DEFINE number == UpTo(Tail(s), {">"})
              rest == From(Tail(s), {">"})
              p == Priority(s, kernel)
  <2>1. p = IF \E i \in DOMAIN number : number[i] \notin Number
            THEN [pri |-> "bad", rest |-> <<>>]
            ELSE [pri |-> IF number = <<>> THEN "0" ELSE number[1],
                  rest |-> IF rest = <<>> THEN <<>> ELSE Tail(rest)]
    BY <1>1, Zenon DEF Priority
  <2>2. number \in Seq(Token) /\ rest \in Seq(Token)
    BY <1>1, TailType, UpToType
  <2>. HIDE DEF number, rest, p
  <2>3. CASE \E i \in DOMAIN number : number[i] \notin Number
    <3>1. p = [pri |-> "bad", rest |-> <<>>]
      BY <2>1, <2>3, Zenon
    <3>. QED
      BY <3>1 DEF p
  <2>4. CASE \A i \in DOMAIN number : number[i] \in Number
    <3>1. p = [pri |-> IF number = <<>> THEN "0" ELSE number[1],
               rest |-> IF rest = <<>> THEN <<>> ELSE Tail(rest)]
      BY <2>1, <2>4, Zenon
    <3>2. number # <<>> => number[1] \in Number
      BY <2>2, <2>4
    <3>3. (IF rest = <<>> THEN <<>> ELSE Tail(rest)) \in Seq(Token)
      BY <2>2, TailType
    <3>4. "0" \in Number
      BY LogMsgAssumption
    <3>. QED
      BY <3>1, <3>2, <3>3, <3>4 DEF p
  <2>. QED
    BY <2>3, <2>4 DEF p
<1>2. CASE ~(s # <<>> /\ s[1] = "<")
  BY <1>2, LogMsgAssumption DEF Priority
<1>. QED
  BY <1>1, <1>2

LEMMA AfterDateType ==
  ASSUME NEW s \in Seq(Token), s # <<>>
  PROVE  AfterDate(s) \in Seq(Token)
<1>1. AfterDate(s) \in {From(s, {"sp"}), After(SubSeq(s, 3, Len(s)), Number), Tail(s)}
  BY Zenon DEF AfterDate
<1>2. From(s, {"sp"}) \in Seq(Token)
  BY UpToType
<1>3. SubSeq(s, 3, Len(s)) \in Seq(Token)
  OBVIOUS
<1>4. After(SubSeq(s, 3, Len(s)), Number) \in Seq(Token)
  BY <1>3, AfterType
<1>. QED
  BY <1>1, <1>2, <1>4, TailType

LEMMA AixType ==
  ASSUME NEW s \in Seq(Token)
  PROVE  AixForwarded(s).host \in Seq(Token) /\ AixForwarded(s).rest \in Seq(Token)
<1>. DEFINE n == Len(aix_fwd_string) + 1
            rest == SubSeq(s, n, Len(s))
<1>1. n \in Nat /\ n >= 1
  BY DEF aix_fwd_string
<1>2. Len(s) \in Int /\ Len(s) <= Len(s)
  OBVIOUS
<1>. HIDE DEF n
<1>3. rest \in Seq(Token)
  BY <1>1, <1>2, PartType
<1>. HIDE DEF rest
<1>4. From(rest, {":"}) \in Seq(Token) /\ UpTo(rest, {":"}) \in Seq(Token)
  BY <1>3, UpToType
<1>5. After(From(rest, {":"}), {"sp", ":"}) \in Seq(Token)
  BY <1>4, AfterType
<1>6. AixForwarded(s) \in
        {[host |-> UpTo(rest, {":"}), rest |-> After(From(rest, {":"}), {"sp", ":"})],
         [host |-> <<>>, rest |-> s]}
  BY Zenon DEF AixForwarded, rest, n
<1>7. <<>> \in Seq(Token)
  OBVIOUS
<1>. DEFINE a == AixForwarded(s)
<1>. HIDE DEF a
<1>8. a.host \in Seq(Token) /\ a.rest \in Seq(Token)
  <2>1. CASE a = [host |-> UpTo(rest, {":"}), rest |-> After(From(rest, {":"}), {"sp", ":"})]
    BY <1>4, <1>5, <2>1
  <2>2. CASE a = [host |-> <<>>, rest |-> s]
    BY <1>7, <2>2
  <2>. QED
    BY <1>6, <2>1, <2>2, Zenon DEF a
<1>. QED
  BY <1>8, Zenon DEF a

LEMMA HostNameType ==
  ASSUME NEW s \in Seq(Token), NEW check_hostname \in BOOLEAN
  PROVE  /\ HostName(s, check_hostname).host \in Seq(Token)
         /\ HostName(s, check_hostname).rest \in Seq(Token)
<1>. DEFINE stop == HostStop(check_hostname)
            h == HostName(s, check_hostname)
<1>1. UpTo(s, stop) \in Seq(Token) /\ From(s, stop) \in Seq(Token)
  BY UpToType
<1>2. h \in {[host |-> UpTo(s, stop), rest |-> From(s, stop)], [host |-> <<>>, rest |-> s]}
  BY Zenon DEF HostName
<1>3. <<>> \in Seq(Token)
  OBVIOUS
<1>. HIDE DEF h, stop
<1>4. h.host \in Seq(Token) /\ h.rest \in Seq(Token)
  <2>1. CASE h = [host |-> UpTo(s, stop), rest |-> From(s, stop)]
    BY <1>1, <2>1
  <2>2. CASE h = [host |-> <<>>, rest |-> s]
    BY <1>3, <2>2
  <2>. QED
    BY <1>2, <2>1, <2>2, Zenon
<1>. QED
  BY <1>4, Zenon DEF h

LEMMA ProgramType ==
  ASSUME NEW s \in Seq(Token)
  PROVE  Program(s) \in Seq(Token)
<1>1. Program(s) \in {<<>>, UpTo(s, {"sp", "[", ":"})}
  BY Zenon DEF Program
<1>2. <<>> \in Seq(Token)
  OBVIOUS
<1>. QED
  BY <1>1, <1>2, UpToType, Zenon

LEMMA ParseHostType ==
  ASSUME NEW m \in LogMessage, NEW s \in Seq(Token), NEW check_hostname \in BOOLEAN
  PROVE  /\ ParseHost(m, s, check_hostname) \in LogMessage
         /\ ParseHost(m, s, check_hostname).pri = m.pri
<1>. DEFINE aix == AixForwarded(SpaceSkipped(s))
            named == HostName(aix.rest, check_hostname)
            rest == SpaceSkipped(named.rest)
            p == ParseHost(m, s, check_hostname)
<1>1. p \in {[m EXCEPT !.host = aix.host, !.msg = Blanked(aix.rest)],
             [m EXCEPT !.host = IF named.host # <<>> THEN named.host ELSE aix.host,
                       !.program = Program(rest), !.msg = Blanked(rest)]}
  BY Zenon DEF ParseHost
<1>2. aix.host \in Seq(Token) /\ aix.rest \in Seq(Token)
  BY AfterType, AixType DEF SpaceSkipped
<1>3. Blanked(aix.rest) \in Seq(Token)
  BY <1>2, BlankedType
<1>. HIDE DEF aix
<1>4. named.host \in Seq(Token) /\ named.rest \in Seq(Token)
  BY <1>2, HostNameType
<1>. HIDE DEF named
<1>5. rest \in Seq(Token)
  BY <1>4, AfterType DEF SpaceSkipped
<1>. HIDE DEF rest, p
<1>6. Blanked(rest) \in Seq(Token) /\ Program(rest) \in Seq(Token)
  BY <1>5, BlankedType, ProgramType
<1>. DEFINE host == IF named.host # <<>> THEN named.host ELSE aix.host
<1>7. host \in Seq(Token)
  BY <1>2, <1>4
<1>. HIDE DEF host
<1>8. p \in {[m EXCEPT !.host = aix.host, !.msg = Blanked(aix.rest)],
             [m EXCEPT !.host = host, !.program = Program(rest), !.msg = Blanked(rest)]}
  BY <1>1, Zenon DEF host
<1>9. p \in LogMessage /\ p.pri = m.pri
  BY <1>2, <1>3, <1>6, <1>7, <1>8 DEF LogMessage
<1>. QED
  BY <1>9, Zenon DEF p

LEMMA ParseLineType ==
  ASSUME NEW s \in Seq(Token), NEW h \in Hop
  PROVE  ParseLine(s, h) \in LogMessage /\ ParseLine(s, h).pri \in Number
<1>. DEFINE t == Trimmed(s)
            p == Priority(t, h.kernel)
            rest == After(p.rest, {"sp"})
            m == [NoMessage EXCEPT !.pri = p.pri]
            dated == [m EXCEPT !.date = rest[1]]
<1>0. /\ h.kernel \in BOOLEAN /\ h.check_hostname \in BOOLEAN
  BY LogMsgAssumption DEF SourceOptions
<1>1. t \in Seq(Token)
  BY TrimmedType
<1>2. /\ NoMessage \in LogMessage
      /\ NoMessage.pri = "0"
  BY LogMsgAssumption DEF LogMessage, NoMessage
<1>. HIDE DEF t
<1>3. p.pri \in Number \cup {"bad"} /\ p.rest \in Seq(Token)
  BY <1>0, <1>1, PriorityType
<1>. HIDE DEF p
<1>4. rest \in Seq(Token)
  BY <1>3, AfterType
<1>5. Number \subseteq Token /\ {"0", "43"} \subseteq Number
  BY LogMsgAssumption
<1>6. p.pri # "bad" => m \in LogMessage /\ m.pri = p.pri
  BY <1>2, <1>3, <1>5 DEF LogMessage
<1>. HIDE DEF rest, m
<1>. DEFINE x == ParseLine(s, h)
<1>7. CASE h.noparse
  <2>1. x = [NoMessage EXCEPT !.msg = t]
    BY <1>7, Zenon DEF ParseLine, t
  <2>. HIDE DEF x
  <2>2. x \in LogMessage /\ x.pri \in Number
    BY <1>1, <1>2, <1>5, <2>1 DEF LogMessage
  <2>. QED
    BY <2>2, Zenon DEF x
<1>8. CASE ~h.noparse /\ p.pri = "bad"
  <2>. DEFINE why == <<"unparseable_log_message", ":", "sp">> \o t
  <2>1. x = [NoMessage EXCEPT !.pri = "43", !.msg = why]
    BY <1>8, Zenon DEF ParseLine, t, p
  <2>2. why \in Seq(Token)
    BY <1>1, LogMsgAssumption
  <2>. HIDE DEF x, why
  <2>3. "43" \in Token /\ "43" \in Number
    BY <1>5
  <2>4. x \in LogMessage /\ x.pri \in Number
    BY <1>2, <2>1, <2>2, <2>3 DEF LogMessage
  <2>. QED
    BY <2>4, Zenon DEF x
<1>9. CASE ~h.noparse /\ p.pri # "bad" /\ rest # <<>> /\ rest[1] \in Date
  <2>1. x = ParseHost(dated, AfterDate(rest), h.check_hostname)
    BY <1>9, Zenon DEF ParseLine, t, p, rest, m
  <2>2. dated \in LogMessage /\ dated.pri = p.pri
    <3>1. rest[1] \in Token
      BY <1>4, <1>9, TailType
    <3>. QED
      BY <1>6, <1>9, <3>1 DEF LogMessage
  <2>3. AfterDate(rest) \in Seq(Token)
    BY <1>4, <1>9, AfterDateType
  <2>. HIDE DEF dated
  <2>4. x \in LogMessage /\ x.pri = p.pri
    BY <1>0, <2>1, <2>2, <2>3, ParseHostType
  <2>. QED
    BY <1>3, <1>9, <2>4
<1>10. CASE ~h.noparse /\ p.pri # "bad" /\ ~(rest # <<>> /\ rest[1] \in Date)
  <2>. DEFINE program == IF m.pri \in KernPri THEN <<"kernel">> ELSE Program(rest)
  <2>1. x = [m EXCEPT !.program = program, !.msg = Blanked(rest)]
    BY <1>10, Zenon DEF ParseLine, t, p, rest, m
  <2>2. program \in Seq(Token) /\ Blanked(rest) \in Seq(Token)
    <3>1. "kernel" \in Token /\ <<"kernel">> \in Seq(Token)
      BY LogMsgAssumption
    <3>2. Program(rest) \in Seq(Token) /\ Blanked(rest) \in Seq(Token)
      BY <1>4, ProgramType, BlankedType, Zenon
    <3>. QED
      BY <3>1, <3>2, Zenon
  <2>. HIDE DEF x, program
  <2>3. x \in LogMessage /\ x.pri = p.pri
    BY <1>6, <1>10, <2>1, <2>2 DEF LogMessage
  <2>. QED
    BY <1>3, <1>10, <2>3 DEF x
<1>. QED
  BY <1>7, <1>8, <1>9, <1>10

-----------------------------------------------------------------------------
(***************************************************************************)
(* What a relay writes, the next one reads.                                *)
(***************************************************************************)

\* The end of the line is not part of the message.
LEMMA EndTrimmed ==
  ASSUME NEW s \in Seq(Token), s # <<>>, s[Len(s)] # "nl"
  PROVE  Trimmed(s \o <<"nl">>) = s
<1>. DEFINE r == s \o <<"nl">>
            I == {i \in 1..Len(r) : r[i] # "nl"}
            i == SelectLastInSeq(r, LAMBDA t : t # "nl")
<1>0. "nl" \in Token
  BY LogMsgAssumption
<1>1. /\ r \in Seq(Token) /\ Len(r) = Len(s) + 1 /\ Len(s) \in Nat /\ Len(s) >= 1
      /\ r[Len(r)] = "nl"
      /\ \A j \in 1..Len(s) : r[j] = s[j]
  BY <1>0
<1>. HIDE DEF r
<1>2. i = IF I # {} THEN Max(I) ELSE 0
  BY Zenon DEF SelectLastInSeq
<1>3. Trimmed(r) = SubSeq(r, 1, i)
  BY Zenon DEF Trimmed
<1>4. I \subseteq 1..Len(r) /\ Len(r) \in Nat
  BY <1>1
<1>5. Len(s) \in I /\ Len(r) \notin I
  BY <1>1
<1>. HIDE DEF I, i
<1>6. Max(I) \in I /\ Max(I) >= Len(s)
  <2>1. I # {}
    BY <1>5
  <2>. QED
    BY <1>4, <1>5, <2>1, LastMember
<1>7. i = Len(s)
  <2>1. i = Max(I)
    BY <1>2, <1>5
  <2>2. Max(I) \in 1..Len(r) /\ Max(I) # Len(r)
    BY <1>4, <1>5, <1>6
  <2>. QED
    BY <1>1, <1>6, <2>1, <2>2
<1>8. SubSeq(r, 1, Len(s)) = s
  BY <1>1
<1>. QED
  BY <1>3, <1>7, <1>8 DEF r

\* Only the ends of lines are blanked.
LEMMA NothingBlanked ==
  ASSUME NEW s \in Seq(Token), \A i \in DOMAIN s : s[i] # "nl"
  PROVE  Blanked(s) = s
<1>. DEFINE b == [i \in DOMAIN s |-> IF s[i] = "nl" THEN "sp" ELSE s[i]]
<1>1. /\ DOMAIN s = 1..Len(s) /\ s = [i \in 1..Len(s) |-> s[i]]
  OBVIOUS
<1>2. b = [i \in 1..Len(s) |-> s[i]]
  BY <1>1
<1>. HIDE DEF b
<1>3. b = s
  BY <1>1, <1>2, Zenon
<1>. QED
  BY <1>3, Zenon DEF Blanked, b

\* Something before a sequence is its first token, and is gone with Tail.
LEMMA ConsProperties ==
  ASSUME NEW c \in Token, NEW s \in Seq(Token)
  PROVE  /\ <<c>> \o s \in Seq(Token) /\ <<c>> \o s # <<>>
         /\ (<<c>> \o s)[1] = c /\ Tail(<<c>> \o s) = s
         /\ s # <<>> => (<<c>> \o s)[2] = s[1]
         /\ s # <<>> => (<<c>> \o s)[Len(<<c>> \o s)] = s[Len(s)]
         /\ s = <<>> => (<<c>> \o s)[Len(<<c>> \o s)] = c
OBVIOUS

LEMMA LastOfConcat ==
  ASSUME NEW r \in Seq(Token), NEW s \in Seq(Token), s # <<>>
  PROVE  r \o s # <<>> /\ (r \o s)[Len(r \o s)] = s[Len(s)]
OBVIOUS

\* The priority.
LEMMA PriorityRead ==
  ASSUME NEW pri \in Number, NEW r \in Seq(Token), NEW kernel
  PROVE  Priority(<<"<">> \o (<<pri>> \o (<<">">> \o r)), kernel) = [pri |-> pri, rest |-> r]
<1>. DEFINE c == <<">">> \o r
            b == <<pri>> \o c
            a == <<"<">> \o b
            number == UpTo(Tail(a), {">"})
            rest == From(Tail(a), {">"})
<1>1. /\ "<" \in Token /\ ">" \in Token /\ pri \in Token /\ pri # ">"
  BY LogMsgAssumption
<1>2. /\ c \in Seq(Token) /\ c # <<>> /\ c[1] = ">" /\ Tail(c) = r
  BY <1>1, ConsProperties
<1>. HIDE DEF c
<1>3. b \in Seq(Token)
  BY <1>1, <1>2, ConsProperties
<1>4. number = <<pri>> /\ rest = c
  <2>1. Tail(a) = b
    BY <1>1, <1>3, ConsProperties
  <2>2. <<pri>> \in Seq(Token) /\ \A i \in DOMAIN <<pri>> : <<pri>>[i] \notin {">"}
    BY <1>1
  <2>3. UpTo(<<pri>> \o c, {">"}) = <<pri>> /\ From(<<pri>> \o c, {">"}) = c
    BY <1>2, <2>2, RunEnds
  <2>. QED
    BY <2>1, <2>3, Zenon
<1>5. a # <<>> /\ a[1] = "<"
  BY <1>1, <1>3, ConsProperties
<1>. HIDE DEF a, b
<1>6. Priority(a, kernel) =
        IF \E i \in DOMAIN number : number[i] \notin Number
        THEN [pri |-> "bad", rest |-> <<>>]
        ELSE [pri |-> IF number = <<>> THEN "0" ELSE number[1],
              rest |-> IF rest = <<>> THEN <<>> ELSE Tail(rest)]
  BY <1>5, Zenon DEF Priority
<1>. HIDE DEF number, rest
<1>7. /\ ~ \E i \in DOMAIN number : number[i] \notin Number
      /\ number # <<>> /\ number[1] = pri
  BY <1>4
<1>8. Priority(a, kernel) = [pri |-> pri, rest |-> r]
  BY <1>2, <1>4, <1>6, <1>7, Zenon
<1>. QED
  BY <1>8, Zenon DEF a, b, c

\* The date, without a fraction.
LEMMA DateRead ==
  ASSUME NEW r \in Seq(Token)
  PROVE  AfterDate(<<"bsd">> \o (<<"sp">> \o r)) = <<"sp">> \o r
<1>. DEFINE b == <<"sp">> \o r
            a == <<"bsd">> \o b
<1>1. "bsd" \in Token /\ "sp" \in Token
  BY LogMsgAssumption
<1>2. b \in Seq(Token) /\ b # <<>> /\ b[1] = "sp"
  BY <1>1, ConsProperties
<1>. HIDE DEF b
<1>3. a[1] = "bsd" /\ a[2] = "sp" /\ Tail(a) = b
  BY <1>1, <1>2, ConsProperties
<1>. HIDE DEF a
<1>4. a[1] # "iso" /\ a[2] # "."
  BY <1>3
<1>5. AfterDate(a) = Tail(a)
  BY <1>4, Zenon DEF AfterDate
<1>. QED
  BY <1>3, <1>5, Zenon DEF a, b

\* The host and the message, which the next hop can tell apart.
Apart(host, text, check_hostname) ==
  /\ host \in Seq(Token) /\ host # <<>>
  /\ text \in Seq(Token)
  /\ \A i \in DOMAIN host : host[i] \notin HostStop(check_hostname)
  /\ HostFits(host) /\ host \notin BadHostname
  /\ text # <<>> => text[1] # "sp"
  /\ \A i \in DOMAIN text : text[i] # "nl"
  /\ ~IsRepeat(host \o (<<"sp">> \o text))
  /\ ~IsPrefix(aix_fwd_string, host \o (<<"sp">> \o text))

IsRead(m, host, text, check_hostname) ==
  ParseHost(m, <<"sp">> \o (host \o (<<"sp">> \o text)), check_hostname)
    = [m EXCEPT !.host = host, !.program = Program(text), !.msg = text]

LEMMA HostRead ==
  ASSUME NEW m, NEW host, NEW text, NEW check_hostname \in BOOLEAN,
         Apart(host, text, check_hostname)
  PROVE  IsRead(m, host, text, check_hostname)
<1>0. /\ host \in Seq(Token) /\ host # <<>>
      /\ text \in Seq(Token)
      /\ \A i \in DOMAIN host : host[i] \notin HostStop(check_hostname)
      /\ HostFits(host) /\ host \notin BadHostname
      /\ text # <<>> => text[1] # "sp"
      /\ \A i \in DOMAIN text : text[i] # "nl"
      /\ ~IsRepeat(host \o (<<"sp">> \o text))
      /\ ~IsPrefix(aix_fwd_string, host \o (<<"sp">> \o text))
  BY Zenon DEF Apart
<1>. DEFINE c == <<"sp">> \o text
            b == host \o c
            stop == HostStop(check_hostname)
            aix == AixForwarded(SpaceSkipped(<<"sp">> \o b))
            named == HostName(aix.rest, check_hostname)
            rest == SpaceSkipped(named.rest)
<1>1. "sp" \in Token /\ "sp" \in stop
  BY LogMsgAssumption DEF HostStop
<1>2. c \in Seq(Token) /\ c # <<>> /\ c[1] = "sp"
  BY <1>0, <1>1, ConsProperties
<1>3. SpaceSkipped(c) = text
  <2>1. "sp" \in {"sp"} /\ (text # <<>> => text[1] \notin {"sp"})
    BY <1>0
  <2>. QED
    BY <1>0, <1>1, <2>1, OneSkipped, Zenon DEF SpaceSkipped
<1>. HIDE DEF c
<1>4. b \in Seq(Token) /\ b # <<>> /\ b[1] # "sp"
  <2>1. b \in Seq(Token) /\ b # <<>> /\ b[1] = host[1] /\ 1 \in DOMAIN host
    BY <1>0, <1>2
  <2>. QED
    BY <1>0, <1>1, <2>1
<1>5. UpTo(b, stop) = host /\ From(b, stop) = c
  BY <1>0, <1>1, <1>2, RunEnds
<1>6. ~IsRepeat(b) /\ ~IsPrefix(aix_fwd_string, b)
  BY <1>0, Zenon DEF b, c
<1>. HIDE DEF b, stop
<1>7. SpaceSkipped(<<"sp">> \o b) = b
  <2>1. "sp" \in {"sp"} /\ (b # <<>> => b[1] \notin {"sp"})
    BY <1>4
  <2>. QED
    BY <1>1, <1>4, <2>1, OneSkipped DEF SpaceSkipped
<1>8. aix = [host |-> <<>>, rest |-> b]
  BY <1>6, <1>7, Zenon DEF AixForwarded
<1>9. aix.rest = b
  BY <1>8
<1>10. named = [host |-> host, rest |-> c]
  <2>1. HostName(b, check_hostname) =
          IF /\ From(b, stop) # <<>> /\ From(b, stop)[1] = "sp"
             /\ HostFits(UpTo(b, stop)) /\ UpTo(b, stop) \notin BadHostname
          THEN [host |-> UpTo(b, stop), rest |-> From(b, stop)] ELSE [host |-> <<>>, rest |-> b]
    BY Zenon DEF HostName, stop
  <2>. QED
    BY <1>0, <1>2, <1>5, <1>9, <2>1, Zenon
<1>11. named.host = host /\ named.rest = c
  BY <1>10
<1>12. Blanked(text) = text
  BY <1>0, NothingBlanked
<1>. HIDE DEF aix, named
<1>13. rest = text
  BY <1>3, <1>11, Zenon
<1>14. ParseHost(m, <<"sp">> \o b, check_hostname) =
         IF IsRepeat(aix.rest) THEN [m EXCEPT !.host = aix.host, !.msg = Blanked(aix.rest)]
         ELSE [m EXCEPT !.host = IF named.host # <<>> THEN named.host ELSE aix.host,
                        !.program = Program(rest), !.msg = Blanked(rest)]
  BY Zenon DEF ParseHost, aix, named
<1>. HIDE DEF rest
<1>15. ParseHost(m, <<"sp">> \o b, check_hostname) =
         [m EXCEPT !.host = IF named.host # <<>> THEN named.host ELSE aix.host,
                   !.program = Program(rest), !.msg = Blanked(rest)]
  BY <1>6, <1>9, <1>14, Zenon
<1>16. (IF named.host # <<>> THEN named.host ELSE aix.host) = host
  BY <1>0, <1>11
<1>17. ParseHost(m, <<"sp">> \o b, check_hostname) =
         [m EXCEPT !.host = host, !.program = Program(text), !.msg = text]
  BY <1>12, <1>13, <1>15, <1>16, Zenon
<1>. QED
  BY <1>17, Zenon DEF IsRead, b, c

\* The line of a relay, one token before the other.
LEMMA FormattedIs ==
  ASSUME NEW pri \in Token, NEW host \in Seq(Token), NEW text \in Seq(Token)
  PROVE  <<"<", pri, ">", "bsd", "sp">> \o host \o <<"sp">> \o text
           = <<"<">> \o (<<pri>> \o (<<">">> \o (<<"bsd">> \o (<<"sp">> \o
               (host \o (<<"sp">> \o text))))))
<1>. DEFINE c == <<"sp">> \o text
            b == host \o c
            five == <<"<", pri, ">", "bsd", "sp">>
<1>1. /\ "<" \in Token /\ ">" \in Token /\ "bsd" \in Token /\ "sp" \in Token
  BY LogMsgAssumption
<1>2. five \in Seq(Token) /\ <<"sp">> \in Seq(Token) /\ c \in Seq(Token)
  BY <1>1
<1>. HIDE DEF five
<1>3. five \o host \o <<"sp">> \o text = five \o b
  <2>1. five \o host \in Seq(Token)
    BY <1>2
  <2>2. (five \o host \o <<"sp">>) \o text = (five \o host) \o c
    BY <1>2, <2>1, ConcatAssociative
  <2>. HIDE DEF c
  <2>3. (five \o host) \o c = five \o b
    BY <1>2, ConcatAssociative
  <2>. QED
    BY <2>2, <2>3, Zenon
<1>4. b \in Seq(Token)
  BY <1>2
<1>. HIDE DEF b
<1>5. five \o b = <<"<">> \o (<<pri>> \o (<<">">> \o (<<"bsd">> \o (<<"sp">> \o b))))
  BY <1>1, <1>4 DEF five
<1>. QED
  BY <1>3, <1>5, Zenon DEF b, c, five

\* A message as it comes off the next hop.
LEMMA Reparse ==
  ASSUME NEW m \in LogMessage, m.pri \in Number, m.host # <<>>,
         NEW h \in Hop, Distinct(m, h)
  PROVE  /\ ParseLine(FormatLog(m), h).pri = m.pri
         /\ ParseLine(FormatLog(m), h).host = m.host
         /\ ParseLine(FormatLog(m), h).msg = m.msg
<1>. DEFINE pri == m.pri
            host == m.host
            text == m.msg
            c == <<"sp">> \o text
            b == host \o c
            d == <<"bsd">> \o (<<"sp">> \o b)
            t == <<"<">> \o (<<pri>> \o (<<">">> \o d))
            x == ParseLine(FormatLog(m), h)
<1>1. /\ pri \in Token /\ host \in Seq(Token) /\ text \in Seq(Token)
      /\ pri \in Number /\ host # <<>>
  BY DEF LogMessage
<1>2. /\ "<" \in Token /\ ">" \in Token /\ "bsd" \in Token /\ "sp" \in Token /\ "nl" \in Token
      /\ pri # "bad"
      /\ h.check_hostname \in BOOLEAN
  BY LogMsgAssumption DEF SourceOptions
<1>3. /\ ~h.noparse
      /\ \A i \in DOMAIN host : host[i] \notin HostStop(h.check_hostname)
      /\ HostFits(host) /\ host \notin BadHostname
      /\ text # <<>> => text[1] # "sp"
      /\ \A i \in DOMAIN text : text[i] # "nl"
      /\ ~IsRepeat(host \o <<"sp">> \o text)
      /\ ~IsPrefix(aix_fwd_string, host \o <<"sp">> \o text)
  BY Zenon DEF Distinct
<1>4. host \o <<"sp">> \o text = b
  <2>1. <<"sp">> \in Seq(Token)
    BY <1>2
  <2>2. Associates(host, <<"sp">>, text)
    BY <1>1, <2>1, ConcatAssociates, Zenon
  <2>. QED
    BY <2>2, Zenon DEF Associates
<1>5. c \in Seq(Token) /\ b \in Seq(Token) /\ d \in Seq(Token) /\ d # <<>> /\ d[1] = "bsd"
  BY <1>1, <1>2
<1>6. FormatLog(m) = t \o <<"nl">>
  BY <1>1, FormattedIs, Zenon DEF FormatLog
<1>7. t \in Seq(Token) /\ t # <<>> /\ t[Len(t)] # "nl"
  <2>. DEFINE t1 == <<"sp">> \o b
              t3 == <<">">> \o d
              t4 == <<pri>> \o t3
              last == c[Len(c)]
  <2>0. c # <<>>
    BY <1>1
  <2>1. b # <<>> /\ b[Len(b)] = last
    BY <1>1, <1>5, <2>0, LastOfConcat
  <2>. HIDE DEF b, last
  <2>3. t1 \in Seq(Token) /\ t1 # <<>> /\ t1[Len(t1)] = last
    BY <1>2, <1>5, <2>1, ConsProperties
  <2>. HIDE DEF t1
  <2>4. d \in Seq(Token) /\ d # <<>> /\ d[Len(d)] = last
    BY <1>2, <2>3, ConsProperties DEF t1
  <2>. HIDE DEF d
  <2>5. t3 \in Seq(Token) /\ t3 # <<>> /\ t3[Len(t3)] = last
    BY <1>2, <2>4, ConsProperties
  <2>. HIDE DEF t3
  <2>6. t4 \in Seq(Token) /\ t4 # <<>> /\ t4[Len(t4)] = last
    BY <1>1, <2>5, ConsProperties
  <2>. HIDE DEF t4
  <2>7. t \in Seq(Token) /\ t # <<>> /\ t[Len(t)] = last
    BY <1>2, <2>6, ConsProperties DEF t3, t4
  <2>. HIDE DEF t
  <2>8. last = IF text = <<>> THEN "sp" ELSE text[Len(text)]
    BY <1>1 DEF last
  <2>9. text # <<>> => Len(text) \in DOMAIN text
    BY <1>1
  <2>. QED
    BY <1>3, <2>7, <2>8, <2>9
<1>8. Trimmed(FormatLog(m)) = t
  BY <1>6, <1>7, EndTrimmed
<1>9. Priority(t, h.kernel) = [pri |-> pri, rest |-> d]
  BY <1>5, PriorityRead
<1>. HIDE DEF t
<1>10. After(d, {"sp"}) = d
  BY <1>5, NothingSkipped
<1>11. AfterDate(d) = <<"sp">> \o b
  BY <1>5, DateRead
<1>. HIDE DEF d
<1>. DEFINE p == Priority(Trimmed(FormatLog(m)), h.kernel)
            m0 == [[NoMessage EXCEPT !.pri = pri] EXCEPT !.date = "bsd"]
<1>12. p.pri = pri /\ p.rest = d
  BY <1>8, <1>9
<1>13. x = ParseHost([[NoMessage EXCEPT !.pri = p.pri] EXCEPT !.date = After(p.rest, {"sp"})[1]],
                     AfterDate(After(p.rest, {"sp"})), h.check_hostname)
  <2>. DEFINE rest == After(p.rest, {"sp"})
  <2>1. rest # <<>> /\ rest[1] \in Date /\ p.pri # "bad" /\ ~h.noparse
    BY <1>2, <1>3, <1>5, <1>10, <1>12 DEF Date
  <2>. QED
    BY <2>1, Zenon DEF ParseLine
<1>. HIDE DEF p
<1>14. x = ParseHost(m0, <<"sp">> \o b, h.check_hostname)
  BY <1>5, <1>10, <1>11, <1>12, <1>13, Zenon
<1>15. ~IsRepeat(b) /\ ~IsPrefix(aix_fwd_string, b)
  BY <1>3, <1>4, Zenon
<1>. HIDE DEF pri, host, text, m0
<1>16. ParseHost(m0, <<"sp">> \o b, h.check_hostname)
         = [m0 EXCEPT !.host = host, !.program = Program(text), !.msg = text]
  <2>1. Apart(host, text, h.check_hostname)
    BY <1>1, <1>3, <1>15, Zenon DEF Apart
  <2>2. IsRead(m0, host, text, h.check_hostname)
    BY <1>2, <2>1, HostRead, Zenon
  <2>. QED
    BY <2>2, Zenon DEF IsRead
<1>. HIDE DEF x, b
<1>17. x = [m0 EXCEPT !.host = host, !.program = Program(text), !.msg = text]
  BY <1>14, <1>16, Zenon
<1>18. x.pri = pri /\ x.host = host /\ x.msg = text
  BY <1>17 DEF NoMessage, m0
<1>. QED
  BY <1>18, Zenon DEF x, pri, host, text

-----------------------------------------------------------------------------
(***************************************************************************)
(* The host.                                                               *)
(***************************************************************************)

\* What begins with a token of the set adds nothing to a run that it ends.
LEMMA UpToConcat ==
  ASSUME NEW r \in Seq(Token), NEW e \in Seq(Token), NEW Stop, e # <<>>, e[1] \in Stop
  PROVE  UpTo(r \o e, Stop) = UpTo(r, Stop)
<1>. DEFINE s == r \o e
            i == Into(r, Stop)
            j == Into(s, Stop)
<1>1. /\ s \in Seq(Token) /\ Len(s) = Len(r) + Len(e) /\ Len(r) \in Nat
      /\ \A k \in 1..Len(r) : s[k] = r[k]
  OBVIOUS
<1>. HIDE DEF s
<1>2. Least(i, {k \in 1..Len(r) : r[k] \in Stop})
  BY IntoIs
<1>3. Least(j, {k \in 1..Len(s) : s[k] \in Stop})
  BY <1>1, IntoIs
<1>4. /\ UpTo(r, Stop) = IF i = 0 THEN r ELSE SubSeq(r, 1, i - 1)
      /\ UpTo(s, Stop) = IF j = 0 THEN s ELSE SubSeq(s, 1, j - 1)
  BY <1>1, UpToIs, Zenon
<1>. HIDE DEF i, j
<1>5. CASE {k \in 1..Len(r) : r[k] \in Stop} = {}
  <2>1. \A k \in DOMAIN r : r[k] \notin Stop
    BY <1>5
  <2>2. UpTo(s, Stop) = r
    BY <2>1, RunEnds DEF s
  <2>3. i = 0
    BY <1>2, <1>5, Zenon DEF Least
  <2>. QED
    BY <1>4, <2>2, <2>3 DEF s
<1>6. CASE {k \in 1..Len(r) : r[k] \in Stop} # {}
  <2>1. i \in 1..Len(r) /\ r[i] \in Stop /\ \A k \in 1..Len(r) : r[k] \in Stop => i <= k
    BY <1>2, <1>6 DEF Least
  <2>2. i \in {k \in 1..Len(s) : s[k] \in Stop}
    BY <1>1, <2>1
  <2>3. j \in 1..Len(s) /\ s[j] \in Stop /\ j <= i
    BY <1>3, <2>2 DEF Least
  <2>4. j = i
    <3>1. j \in 1..Len(r) /\ r[j] \in Stop
      BY <1>1, <2>1, <2>3
    <3>. QED
      BY <2>1, <2>3, <3>1
  <2>5. SubSeq(s, 1, i - 1) = SubSeq(r, 1, i - 1)
    <3>. DEFINE a == SubSeq(r, 1, i - 1)
                b == SubSeq(s, 1, i - 1)
    <3>1. i - 1 \in Nat /\ i - 1 <= Len(r) /\ i - 1 <= Len(s)
      BY <1>1, <2>1, <2>3, <2>4
    <3>2. a \in Seq(Token) /\ Len(a) = i - 1 /\ \A k \in 1..(i - 1) : a[k] = r[k]
      BY <3>1
    <3>3. b \in Seq(Token) /\ Len(b) = i - 1 /\ \A k \in 1..(i - 1) : b[k] = s[k]
      BY <1>1, <3>1
    <3>. HIDE DEF a, b
    <3>4. \A k \in 1..Len(b) : b[k] = a[k]
      BY <1>1, <3>1, <3>2, <3>3
    <3>5. b = a
      BY <3>2, <3>3, <3>4, SeqEqual
    <3>. QED
      BY <3>5, Zenon DEF a, b
  <2>. QED
    <3>1. i # 0 /\ j # 0
      BY <2>1, <2>4
    <3>2. UpTo(s, Stop) = UpTo(r, Stop)
      BY <1>4, <2>4, <2>5, <3>1, Zenon
    <3>. QED
      BY <3>2, Zenon DEF s
<1>. QED
  BY <1>5, <1>6

\* The end of two sequences from somewhere in the first on.
LEMMA SubSeqConcat ==
  ASSUME NEW r \in Seq(Token), NEW e \in Seq(Token), NEW i \in 1..Len(r)
  PROVE  /\ SubSeq(r, i, Len(r)) \in Seq(Token) /\ SubSeq(r, i, Len(r)) # <<>>
         /\ SubSeq(r \o e, i, Len(r \o e)) = SubSeq(r, i, Len(r)) \o e
<1>. DEFINE s == r \o e
            a == SubSeq(r, i, Len(r))
            b == SubSeq(s, i, Len(s))
<1>1. /\ s \in Seq(Token) /\ Len(s) = Len(r) + Len(e) /\ Len(r) \in Nat /\ Len(e) \in Nat
      /\ \A k \in 1..Len(r) : s[k] = r[k]
      /\ \A k \in 1..Len(e) : s[Len(r) + k] = e[k]
  OBVIOUS
<1>. HIDE DEF s
<1>2. /\ a \in Seq(Token) /\ Len(a) = Len(r) - i + 1
      /\ \A k \in 1..Len(a) : a[k] = r[i + k - 1]
  OBVIOUS
<1>3. /\ b \in Seq(Token) /\ Len(b) = Len(s) - i + 1
      /\ \A k \in 1..Len(b) : b[k] = s[i + k - 1]
  BY <1>1
<1>. HIDE DEF a, b
<1>. DEFINE c == a \o e
<1>4. /\ c \in Seq(Token) /\ Len(c) = Len(a) + Len(e)
      /\ \A k \in 1..Len(a) + Len(e) : c[k] = IF k <= Len(a) THEN a[k] ELSE e[k - Len(a)]
  BY <1>2, ConcatProperties
<1>. HIDE DEF c
<1>5. Len(a) \in Nat /\ Len(a) = Len(r) - i + 1 /\ Len(c) = Len(b)
  <2>1. i \in Int /\ Len(r) \in Int /\ i >= 1 /\ i <= Len(r) /\ Len(e) \in Int
    OBVIOUS
  <2>2. /\ Len(a) = Len(r) - i + 1 /\ Len(b) = Len(s) - i + 1
        /\ Len(s) = Len(r) + Len(e) /\ Len(c) = Len(a) + Len(e)
    BY <1>1, <1>2, <1>3, <1>4, Zenon
  <2>. HIDE DEF b
  <2>. QED
    BY <2>1, <2>2
<1>6. \A k \in 1..Len(b) : b[k] = c[k]
  <2>. TAKE k \in 1..Len(b)
  <2>0. k \in 1..Len(a) + Len(e) /\ b[k] = s[i + k - 1]
    BY <1>3, <1>4, <1>5
  <2>1. CASE k <= Len(a)
    <3>1. i + k - 1 \in 1..Len(r) /\ k \in 1..Len(a)
      BY <1>5, <2>0, <2>1
    <3>. QED
      BY <1>1, <1>2, <1>4, <2>0, <2>1, <3>1, Zenon
  <2>2. CASE ~(k <= Len(a))
    <3>1. /\ k - Len(a) \in 1..Len(e)
          /\ i + k - 1 = Len(r) + (k - Len(a))
      BY <1>1, <1>5, <2>0, <2>2
    <3>. QED
      BY <1>1, <1>4, <2>0, <2>2, <3>1, Zenon
  <2>. QED
    BY <2>1, <2>2
<1>7. b = c
  BY <1>3, <1>4, <1>5, <1>6, SeqEqual
<1>8. a # <<>>
  BY <1>2
<1>. QED
  BY <1>2, <1>7, <1>8, Zenon DEF a, b, c, s

\* What has no token of the set comes after what is from the first of them on.
LEMMA FromConcat ==
  ASSUME NEW r \in Seq(Token), NEW e \in Seq(Token), NEW Stop,
         \A k \in DOMAIN e : e[k] \notin Stop
  PROVE  /\ From(r, Stop) \in Seq(Token)
         /\ From(r \o e, Stop) = IF From(r, Stop) = <<>> THEN <<>> ELSE From(r, Stop) \o e
<1>. DEFINE s == r \o e
            i == Into(r, Stop)
            j == Into(s, Stop)
<1>1. /\ s \in Seq(Token) /\ Len(s) = Len(r) + Len(e) /\ Len(r) \in Nat /\ Len(e) \in Nat
      /\ \A k \in 1..Len(r) : s[k] = r[k]
      /\ \A k \in 1..Len(e) : s[Len(r) + k] = e[k]
  OBVIOUS
<1>. HIDE DEF s
<1>2. Least(i, {k \in 1..Len(r) : r[k] \in Stop})
  BY IntoIs
<1>3. Least(j, {k \in 1..Len(s) : s[k] \in Stop})
  BY <1>1, IntoIs
<1>4. /\ UpTo(r, Stop) = IF i = 0 THEN r ELSE SubSeq(r, 1, i - 1)
      /\ UpTo(s, Stop) = IF j = 0 THEN s ELSE SubSeq(s, 1, j - 1)
      /\ From(r, Stop) = SubSeq(r, Len(UpTo(r, Stop)) + 1, Len(r))
      /\ From(s, Stop) = SubSeq(s, Len(UpTo(s, Stop)) + 1, Len(s))
  BY <1>1, UpToIs, Zenon DEF From
<1>5. \A k \in 1..Len(s) : s[k] \in Stop => k \in 1..Len(r) /\ r[k] \in Stop
  <2>. SUFFICES ASSUME NEW k \in 1..Len(s), s[k] \in Stop, k \notin 1..Len(r)
                PROVE  FALSE
    BY <1>1
  <2>1. k - Len(r) \in 1..Len(e) /\ k - Len(r) \in DOMAIN e
    BY <1>1
  <2>2. s[Len(r) + (k - Len(r))] = e[k - Len(r)]
    BY <1>1, <2>1
  <2>. QED
    BY <1>1, <2>1, <2>2
<1>. HIDE DEF i, j
<1>6. CASE {k \in 1..Len(r) : r[k] \in Stop} = {}
  <2>1. {k \in 1..Len(s) : s[k] \in Stop} = {}
    BY <1>5, <1>6
  <2>2. i = 0 /\ j = 0
    BY <1>2, <1>3, <1>6, <2>1, Zenon DEF Least
  <2>3. From(r, Stop) = <<>> /\ From(s, Stop) = <<>>
    BY <1>1, <1>4, <2>2
  <2>. QED
    BY <2>3 DEF s
<1>7. CASE {k \in 1..Len(r) : r[k] \in Stop} # {}
  <2>1. i \in 1..Len(r) /\ r[i] \in Stop /\ \A k \in 1..Len(r) : r[k] \in Stop => i <= k
    BY <1>2, <1>7 DEF Least
  <2>2. i \in {k \in 1..Len(s) : s[k] \in Stop}
    BY <1>1, <2>1
  <2>3. j \in 1..Len(s) /\ s[j] \in Stop /\ j <= i
    BY <1>3, <2>2 DEF Least
  <2>4. j = i
    BY <1>5, <2>1, <2>3
  <2>5. Len(UpTo(r, Stop)) = i - 1 /\ Len(UpTo(s, Stop)) = i - 1
    <3>1. UpTo(r, Stop) = SubSeq(r, 1, i - 1) /\ UpTo(s, Stop) = SubSeq(s, 1, i - 1)
      <4>1. i # 0 /\ j # 0
        BY <2>1, <2>4
      <4>. QED
        BY <1>4, <2>4, <4>1, Zenon
    <3>2. Len(SubSeq(r, 1, i - 1)) = i - 1 /\ Len(SubSeq(s, 1, i - 1)) = i - 1
      BY <1>1, <2>1
    <3>. QED
      BY <3>1, <3>2, Zenon
  <2>6. From(r, Stop) = SubSeq(r, i, Len(r)) /\ From(s, Stop) = SubSeq(s, i, Len(s))
    <3>1. (i - 1) + 1 = i
      BY <2>1
    <3>. QED
      BY <1>4, <2>5, <3>1, Zenon
  <2>7. /\ SubSeq(r, i, Len(r)) \in Seq(Token) /\ SubSeq(r, i, Len(r)) # <<>>
        /\ SubSeq(s, i, Len(s)) = SubSeq(r, i, Len(r)) \o e
    <3>1. i \in 1..Len(r)
      BY <2>1
    <3>. QED
      BY <3>1, SubSeqConcat, Zenon DEF s
  <2>. QED
    BY <2>6, <2>7, Zenon DEF s
<1>. QED
  BY <1>6, <1>7

\* A host that is appended does not change what $HOST is.
LEMMA MacroHostKept ==
  ASSUME NEW host \in Seq(Token), host # <<>>, NEW from \in Seq(Token),
         \A i \in DOMAIN from : from[i] # "@"
  PROVE  MacroHost(Chain(host, from)) = MacroHost(host)
<1>. DEFINE e == <<"/">> \o from
            behind == From(host, {"@"})
            all == From(host \o e, {"@"})
<1>1. "/" \in Token
  BY LogMsgAssumption
<1>2. Chain(host, from) = host \o e
  <2>1. <<"/">> \in Seq(Token)
    BY <1>1
  <2>2. Associates(host, <<"/">>, from)
    BY <2>1, ConcatAssociates, Zenon
  <2>3. Chain(host, from) = (host \o <<"/">>) \o from
    BY Zenon DEF Chain
  <2>. QED
    BY <2>2, <2>3, Zenon DEF Associates
<1>3. e \in Seq(Token) /\ e # <<>> /\ e[1] = "/" /\ e[1] \in {"/"}
      /\ \A i \in DOMAIN e : e[i] \notin {"@"}
  BY <1>1
<1>. HIDE DEF e
<1>4. behind \in Seq(Token) /\ all = IF behind = <<>> THEN <<>> ELSE behind \o e
  BY <1>3, FromConcat, Zenon
<1>5. /\ MacroHost(host) = UpTo(IF behind = <<>> THEN host ELSE Tail(behind), {"/"})
      /\ MacroHost(host \o e) = UpTo(IF all = <<>> THEN host \o e ELSE Tail(all), {"/"})
  BY Zenon DEF MacroHost
<1>. HIDE DEF behind, all
<1>6. CASE behind = <<>>
  <2>1. UpTo(host \o e, {"/"}) = UpTo(host, {"/"})
    BY <1>3, UpToConcat, Zenon
  <2>. QED
    BY <1>2, <1>4, <1>5, <1>6, <2>1, Zenon
<1>7. CASE behind # <<>>
  <2>1. Tail(behind) \in Seq(Token) /\ behind \o e # <<>>
        /\ Tail(behind \o e) = Tail(behind) \o e
    BY <1>3, <1>4, <1>7
  <2>2. UpTo(Tail(behind) \o e, {"/"}) = UpTo(Tail(behind), {"/"})
    BY <1>3, <2>1, UpToConcat, Zenon
  <2>. QED
    BY <1>2, <1>4, <1>5, <1>7, <2>1, <2>2, Zenon
<1>. QED
  BY <1>6, <1>7

-----------------------------------------------------------------------------
(***************************************************************************)
(* The host in lower case.                                                 *)
(***************************************************************************)

LEMMA LoweredType ==
  ASSUME NEW s \in Seq(Token)
  PROVE  /\ Lowered(s) \in Seq(Token) /\ Len(Lowered(s)) = Len(s)
         /\ \A k \in 1..Len(s) : Lowered(s)[k] = Lower[s[k]]
<1>1. \A t \in Token : Lower[t] \in Token
  BY LogMsgAssumption
<1>. QED
  BY <1>1 DEF Lowered

LEMMA LoweredTwice ==
  ASSUME NEW s \in Seq(Token)
  PROVE  Lowered(Lowered(s)) = Lowered(s)
<1>. DEFINE l == Lowered(s)
            ll == Lowered(l)
<1>1. l \in Seq(Token) /\ Len(l) = Len(s) /\ \A k \in 1..Len(s) : l[k] = Lower[s[k]]
  BY LoweredType, Zenon
<1>. HIDE DEF l
<1>2. ll \in Seq(Token) /\ Len(ll) = Len(l) /\ \A k \in 1..Len(l) : ll[k] = Lower[l[k]]
  BY <1>1, LoweredType, Zenon
<1>. HIDE DEF ll
<1>3. \A t \in Token : Lower[Lower[t]] = Lower[t]
  BY LogMsgAssumption, Zenon
<1>4. \A k \in 1..Len(s) : s[k] \in Token
  OBVIOUS
<1>5. ASSUME NEW k \in 1..Len(s)
      PROVE  ll[k] = l[k]
  <2>1. k \in 1..Len(l) /\ s[k] \in Token
    BY <1>1, <1>4, Zenon
  <2>2. l[k] = Lower[s[k]] /\ ll[k] = Lower[l[k]] /\ Lower[Lower[s[k]]] = Lower[s[k]]
    BY <1>1, <1>2, <1>3, <2>1, Zenon
  <2>. QED
    BY <2>2, Zenon
<1>6. ll = l
  BY <1>1, <1>2, <1>5, SeqEqual
<1>. QED
  BY <1>6, Zenon DEF l, ll

LEMMA LoweredPart ==
  ASSUME NEW s \in Seq(Token), NEW i \in Nat, NEW j \in Nat, i >= 1, j <= Len(s)
  PROVE  SubSeq(Lowered(s), i, j) = Lowered(SubSeq(s, i, j))
<1>. DEFINE l == Lowered(s)
            a == SubSeq(s, i, j)
            b == SubSeq(l, i, j)
            c == Lowered(a)
<1>1. l \in Seq(Token) /\ Len(l) = Len(s) /\ \A k \in 1..Len(s) : l[k] = Lower[s[k]]
  BY LoweredType, Zenon
<1>. HIDE DEF l
<1>2. /\ a \in Seq(Token) /\ Len(a) = IF i <= j THEN j - i + 1 ELSE 0
      /\ \A k \in 1..Len(a) : a[k] = s[i + k - 1]
  OBVIOUS
<1>3. /\ b \in Seq(Token) /\ Len(b) = IF i <= j THEN j - i + 1 ELSE 0
      /\ \A k \in 1..Len(b) : b[k] = l[i + k - 1]
  BY <1>1
<1>. HIDE DEF a, b
<1>4. c \in Seq(Token) /\ Len(c) = Len(a) /\ \A k \in 1..Len(a) : c[k] = Lower[a[k]]
  BY <1>2, LoweredType, Zenon
<1>. HIDE DEF c
<1>5. ASSUME NEW k \in 1..Len(b)
      PROVE  i + k - 1 \in 1..Len(s) /\ k \in 1..Len(a)
  <2>1. Len(s) \in Nat /\ Len(b) = IF i <= j THEN j - i + 1 ELSE 0
    BY <1>3
  <2>2. k \in Int /\ 1 <= k /\ k <= Len(b) /\ i <= j
    BY <2>1
  <2>. QED
    BY <1>2, <2>1, <2>2
<1>6. ASSUME NEW k \in 1..Len(b)
      PROVE  b[k] = c[k]
  <2>1. i + k - 1 \in 1..Len(s) /\ k \in 1..Len(a)
    BY <1>5, Zenon
  <2>2. b[k] = l[i + k - 1] /\ c[k] = Lower[a[k]] /\ a[k] = s[i + k - 1]
    BY <1>2, <1>3, <1>4, <2>1, Zenon
  <2>3. l[i + k - 1] = Lower[s[i + k - 1]]
    BY <1>1, <2>1, Zenon
  <2>. QED
    BY <2>2, <2>3, Zenon
<1>7. b = c
  BY <1>2, <1>3, <1>4, <1>6, SeqEqual
<1>. QED
  BY <1>7, Zenon DEF a, b, c, l

\* Its @ and its / stay, so it is cut where the host is.
LEMMA LoweredRuns ==
  ASSUME NEW s \in Seq(Token), NEW c \in {"@", "/"}
  PROVE  /\ UpTo(Lowered(s), {c}) = Lowered(UpTo(s, {c}))
         /\ From(Lowered(s), {c}) = Lowered(From(s, {c}))
<1>. DEFINE l == Lowered(s)
            i == Into(s, {c})
            j == Into(l, {c})
            u == UpTo(s, {c})
<1>1. l \in Seq(Token) /\ Len(l) = Len(s) /\ \A k \in 1..Len(s) : l[k] = Lower[s[k]]
  BY LoweredType, Zenon
<1>2. \A k \in 1..Len(s) : s[k] \in Token
  OBVIOUS
<1>3. \A t \in Token : Lower[t] = c <=> t = c
  BY LogMsgAssumption, Zenon
<1>4. Len(s) \in Nat
  OBVIOUS
<1>. HIDE DEF l
<1>5. {k \in 1..Len(l) : l[k] \in {c}} = {k \in 1..Len(s) : s[k] \in {c}}
  <2>1. \A k \in 1..Len(s) : l[k] = c <=> s[k] = c
    BY <1>1, <1>2, <1>3, Zenon
  <2>. QED
    BY <1>1, <2>1
<1>6. Least(i, {k \in 1..Len(s) : s[k] \in {c}})
  BY IntoIs, Zenon
<1>7. Least(j, {k \in 1..Len(s) : s[k] \in {c}})
  <2>1. Least(j, {k \in 1..Len(l) : l[k] \in {c}})
    BY <1>1, IntoIs, Zenon
  <2>. QED
    BY <1>5, <2>1, Zenon
<1>8. /\ u = IF i = 0 THEN s ELSE SubSeq(s, 1, i - 1)
      /\ UpTo(l, {c}) = IF j = 0 THEN l ELSE SubSeq(l, 1, j - 1)
  BY <1>1, UpToIs, Zenon
<1>9. u \in Seq(Token) /\ Len(u) \in Nat /\ Len(u) <= Len(s)
  <2>1. u \in Seq(Token) /\ Len(u) <= Len(s)
    BY UpToType, Zenon
  <2>. HIDE DEF u
  <2>. QED
    BY <2>1
<1>. HIDE DEF i, j
<1>10. j = i /\ i \in 0..Len(s)
  BY <1>4, <1>6, <1>7 DEF Least
<1>11. UpTo(l, {c}) = Lowered(u)
  <2>1. CASE i = 0
    BY <1>8, <1>10, <2>1, Zenon DEF l
  <2>2. CASE i # 0
    <3>1. i - 1 \in Nat /\ 1 \in Nat /\ 1 >= 1 /\ i - 1 <= Len(s)
      BY <1>4, <1>10, <2>2
    <3>2. SubSeq(l, 1, i - 1) = Lowered(SubSeq(s, 1, i - 1))
      BY <3>1, LoweredPart, Zenon DEF l
    <3>. QED
      BY <1>8, <1>10, <2>2, <3>2, Zenon
  <2>. QED
    BY <2>1, <2>2
<1>12. From(l, {c}) = Lowered(From(s, {c}))
  <2>1. Len(Lowered(u)) = Len(u)
    BY <1>9, LoweredType, Zenon
  <2>2. /\ From(l, {c}) = SubSeq(l, Len(u) + 1, Len(s))
        /\ From(s, {c}) = SubSeq(s, Len(u) + 1, Len(s))
    BY <1>1, <1>11, <2>1, Zenon DEF From, u
  <2>. HIDE DEF u
  <2>3. Len(u) + 1 \in Nat /\ Len(u) + 1 >= 1 /\ Len(s) <= Len(s)
    BY <1>4, <1>9
  <2>4. SubSeq(l, Len(u) + 1, Len(s)) = Lowered(SubSeq(s, Len(u) + 1, Len(s)))
    BY <1>4, <2>3, LoweredPart, Zenon DEF l
  <2>. QED
    BY <2>2, <2>4, Zenon
<1>. QED
  BY <1>11, <1>12, Zenon DEF l, u

\* $HOST of it is $HOST of the host in lower case.
LEMMA MacroHostLowered ==
  ASSUME NEW host \in Seq(Token)
  PROVE  /\ MacroHost(host) \in Seq(Token)
         /\ MacroHost(Lowered(host)) = Lowered(MacroHost(host))
<1>. DEFINE behind == From(host, {"@"})
            lower == From(Lowered(host), {"@"})
            inner == IF behind = <<>> THEN host ELSE Tail(behind)
            low == IF lower = <<>> THEN Lowered(host) ELSE Tail(lower)
<1>1. /\ MacroHost(host) = UpTo(inner, {"/"})
      /\ MacroHost(Lowered(host)) = UpTo(low, {"/"})
  BY Zenon DEF MacroHost
<1>2. "@" \in {"@", "/"} /\ "/" \in {"@", "/"}
  OBVIOUS
<1>3. behind \in Seq(Token) /\ lower = Lowered(behind)
  BY <1>2, UpToType, LoweredRuns, Zenon
<1>4. Lowered(host) \in Seq(Token)
  BY LoweredType, Zenon
<1>. HIDE DEF behind, lower
<1>5. lower \in Seq(Token) /\ Len(lower) = Len(behind)
  BY <1>3, LoweredType, Zenon
<1>6. inner \in Seq(Token) /\ low = Lowered(inner)
  <2>1. CASE behind = <<>>
    <3>1. lower = <<>>
      BY <1>5, <2>1
    <3>. QED
      BY <2>1, <3>1, Zenon
  <2>2. CASE behind # <<>>
    <3>1. lower # <<>>
      BY <1>3, <1>5, <2>2
    <3>2. Tail(behind) = SubSeq(behind, 2, Len(behind)) /\ Tail(behind) \in Seq(Token)
      BY <1>3, <2>2
    <3>3. Tail(lower) = SubSeq(lower, 2, Len(behind))
      BY <1>5, <3>1
    <3>4. Len(behind) \in Nat /\ 2 \in Nat /\ 2 >= 1 /\ Len(behind) <= Len(behind)
      BY <1>3
    <3>5. SubSeq(Lowered(behind), 2, Len(behind)) = Lowered(SubSeq(behind, 2, Len(behind)))
      BY <1>3, <3>4, LoweredPart, Zenon
    <3>. QED
      BY <1>3, <2>2, <3>1, <3>2, <3>3, <3>5, Zenon
  <2>. QED
    BY <2>1, <2>2
<1>. HIDE DEF inner, low
<1>7. UpTo(inner, {"/"}) \in Seq(Token) /\ UpTo(Lowered(inner), {"/"}) = Lowered(UpTo(inner, {"/"}))
  BY <1>2, <1>6, UpToType, LoweredRuns, Zenon
<1>. QED
  BY <1>1, <1>6, <1>7, Zenon

\* The source group names a host, which $HOST keeps if it is kept or appended to.
LEMMA HostNamedIs ==
  ASSUME NEW host \in Seq(Token), NEW h \in Hop
  PROVE  /\ HostNamed(host, h) \in Seq(Token) /\ HostNamed(host, h) # <<>>
         /\ host # <<>> /\ (h.keep_hostname \/ (Appends(h) /\ ~h.local)) =>
              MacroHost(HostNamed(host, h)) = MacroHost(host)
<1>. DEFINE from == h.host_from
            grouped == <<"group", "@">> \o from
            named == HostNamed(host, h)
<1>1. /\ from \in Seq(Token) /\ from # <<>>
      /\ "group" \in Token /\ "@" \in Token /\ "/" \in Token
  BY LogMsgAssumption DEF SourceOptions
<1>2. grouped \in Seq(Token) /\ grouped # <<>>
  BY <1>1
<1>3. Chain(host, from) \in Seq(Token) /\ Chain(host, from) # <<>>
  BY <1>1 DEF Chain
<1>. HIDE DEF grouped
<1>4. named = IF h.keep_hostname /\ host # <<>> THEN host
              ELSE IF ~h.chain_hostnames THEN from
              ELSE IF h.local /\ ~h.noparse THEN grouped
              ELSE Chain(host, from)
  BY Zenon DEF HostNamed, grouped
<1>. HIDE DEF named, from
<1>5. named \in Seq(Token) /\ named # <<>>
  BY <1>1, <1>2, <1>3, <1>4
<1>6. ASSUME host # <<>>, h.keep_hostname \/ (Appends(h) /\ ~h.local)
      PROVE  MacroHost(named) = MacroHost(host)
  <2>1. CASE h.keep_hostname
    BY <1>4, <1>6, <2>1, Zenon
  <2>2. CASE ~h.keep_hostname
    <3>1. h.chain_hostnames /\ ~h.local /\ \A i \in DOMAIN from : from[i] # "@"
      BY <1>6, <2>2, Zenon DEF Appends, from
    <3>2. named = Chain(host, from)
      BY <1>4, <2>2, <3>1, Zenon
    <3>. QED
      BY <1>1, <1>6, <3>1, <3>2, MacroHostKept, Zenon
  <2>. QED
    BY <2>1, <2>2
<1>. QED
  BY <1>5, <1>6, Zenon DEF named

\* What $HOST is behind a source, of what it was before.
HostAfter(host, low) == IF low THEN Lowered(host) ELSE host

\* The source group writes the host and nothing else, and always one.
LEMMA RewrittenProperties ==
  ASSUME NEW m \in LogMessage, NEW h \in Hop
  PROVE  /\ Rewritten(m, h) \in LogMessage
         /\ Rewritten(m, h).pri = m.pri /\ Rewritten(m, h).msg = m.msg
         /\ Rewritten(m, h).host # <<>>
         /\ m.host # <<>> /\ (h.keep_hostname \/ (Appends(h) /\ ~h.local)) =>
              MacroHost(Rewritten(m, h).host)
                = HostAfter(MacroHost(m.host), h.normalize_hostnames)
<1>. DEFINE r == Rewritten(m, h)
            named == HostNamed(m.host, h)
            host == IF h.normalize_hostnames THEN Lowered(named) ELSE named
<1>1. m.host \in Seq(Token)
  BY DEF LogMessage
<1>2. /\ named \in Seq(Token) /\ named # <<>>
      /\ m.host # <<>> /\ (h.keep_hostname \/ (Appends(h) /\ ~h.local)) =>
           MacroHost(named) = MacroHost(m.host)
  BY <1>1, HostNamedIs, Zenon
<1>3. r = [m EXCEPT !.host = host]
  BY Zenon DEF Rewritten
<1>. HIDE DEF named
<1>4. Lowered(named) \in Seq(Token) /\ Lowered(named) # <<>>
  <2>1. Lowered(named) \in Seq(Token) /\ Len(Lowered(named)) = Len(named)
    BY <1>2, LoweredType, Zenon
  <2>. QED
    BY <1>2, <2>1
<1>5. host \in Seq(Token) /\ host # <<>>
  BY <1>2, <1>4
<1>6. MacroHost(host) = HostAfter(MacroHost(named), h.normalize_hostnames)
  BY <1>2, MacroHostLowered, Zenon DEF HostAfter
<1>. HIDE DEF host, r
<1>7. r \in LogMessage /\ r.pri = m.pri /\ r.msg = m.msg /\ r.host = host
  BY <1>3, <1>5 DEF LogMessage
<1>. QED
  BY <1>2, <1>5, <1>6, <1>7, Zenon DEF r

-----------------------------------------------------------------------------
\* On the wire is what the last relay wrote of its message, which has a host.
RelayInv ==
  /\ line \in Seq(Token) /\ msg \in LogMessage /\ hop \in Nat
  /\ first \in LogMessage /\ lowered \in BOOLEAN
  /\ hop > 0 => line = FormatLog(msg) /\ msg.pri \in Number /\ msg.host # <<>>
  /\ hop = 0 => ~lowered
  /\ RelayKeepsMessage

LEMMA KeepsMessageIs ==
  RelayKeepsMessage <=>
    (plain => /\ msg.msg = first.msg /\ msg.pri = first.pri
              /\ chained => MacroHost(msg.host) = HostAfter(MacroHost(first.host), lowered))
BY Zenon DEF RelayKeepsMessage, HostAfter

LEMMA KeepsMessageNext ==
  RelayKeepsMessage' <=>
    (plain' => /\ msg'.msg = first'.msg /\ msg'.pri = first'.pri
               /\ chained' => MacroHost(msg'.host) = HostAfter(MacroHost(first'.host), lowered'))
BY Zenon DEF RelayKeepsMessage, HostAfter

\* One relay in lower case is as good as two.
LEMMA HostAfterTwice ==
  ASSUME NEW host \in Seq(Token), NEW a \in BOOLEAN, NEW b \in BOOLEAN
  PROVE  HostAfter(HostAfter(host, a), b) = HostAfter(host, a \/ b)
BY LoweredTwice, Zenon DEF HostAfter

LEMMA FormatType ==
  ASSUME NEW m \in LogMessage
  PROVE  FormatLog(m) \in Seq(Token)
<1>1. /\ "<" \in Token /\ ">" \in Token /\ "bsd" \in Token /\ "sp" \in Token /\ "nl" \in Token
      /\ m.pri \in Token /\ m.host \in Seq(Token) /\ m.msg \in Seq(Token)
  BY LogMsgAssumption DEF LogMessage
<1>. DEFINE five == <<"<", m.pri, ">", "bsd", "sp">>
<1>2. five \in Seq(Token) /\ <<"sp">> \in Seq(Token) /\ <<"nl">> \in Seq(Token)
  BY <1>1
<1>. HIDE DEF five
<1>3. five \o m.host \o <<"sp">> \o m.msg \o <<"nl">> \in Seq(Token)
  BY <1>1, <1>2, ConcatProperties
<1>. QED
  BY <1>3, Zenon DEF FormatLog, five

LEMMA RelayStep ==
  ASSUME RelayInv, NEW h \in Hop, Relay(h)
  PROVE  RelayInv'
<1>. DEFINE m == ParseLine(line, h)
            normal == h.normalize_hostnames
<1>1. m \in LogMessage /\ m.pri \in Number
  BY ParseLineType DEF RelayInv
<1>2. msg' = Rewritten(m, h) /\ line' = FormatLog(msg') /\ hop' = hop + 1
  BY Zenon DEF Relay
<1>3. hop \in Nat /\ first \in LogMessage /\ lowered \in BOOLEAN /\ (hop = 0 => ~lowered)
  BY DEF RelayInv
<1>4. /\ msg' \in LogMessage /\ msg'.pri = m.pri /\ msg'.msg = m.msg /\ msg'.host # <<>>
      /\ m.host # <<>> /\ (h.keep_hostname \/ (Appends(h) /\ ~h.local)) =>
           MacroHost(msg'.host) = HostAfter(MacroHost(m.host), normal)
  BY <1>1, <1>2, RewrittenProperties, Zenon
<1>5. line' \in Seq(Token)
  BY <1>2, <1>4, FormatType
<1>6. hop' \in Nat /\ hop' # 0
  BY <1>2, <1>3
<1>7. /\ first' = IF hop = 0 THEN msg' ELSE first
      /\ lowered' = (lowered \/ (hop # 0 /\ normal))
  BY Zenon DEF Relay
<1>8. first' \in LogMessage
  BY <1>3, <1>4, <1>7, Zenon
<1>9. lowered' \in BOOLEAN
  BY <1>3, <1>7
<1>10. normal \in BOOLEAN
  BY LogMsgAssumption DEF SourceOptions
<1>. HIDE DEF normal
<1>11. RelayKeepsMessage'
  <2>1. CASE hop = 0
    <3>1. first' = msg' /\ ~lowered'
      BY <1>3, <1>7, <2>1, Zenon
    <3>2. MacroHost(msg'.host) = HostAfter(MacroHost(first'.host), lowered')
      BY <3>1, Zenon DEF HostAfter
    <3>. QED
      BY <3>1, <3>2, KeepsMessageNext, Zenon
  <2>2. CASE hop # 0
    <3>1. /\ line = FormatLog(msg) /\ msg.pri \in Number /\ msg.host # <<>>
          /\ msg \in LogMessage
      BY <1>3, <2>2 DEF RelayInv
    <3>2. /\ first' = first /\ ~h.local
          /\ plain' => plain /\ Distinct(msg, h)
          /\ chained' => chained /\ (h.keep_hostname \/ Appends(h))
          /\ lowered' = (lowered \/ normal)
      BY <1>7, <2>2 DEF Relay
    <3>. SUFFICES ASSUME plain'
                  PROVE  /\ msg'.msg = first'.msg /\ msg'.pri = first'.pri
                         /\ chained' => MacroHost(msg'.host)
                                          = HostAfter(MacroHost(first'.host), lowered')
      BY KeepsMessageNext, Zenon
    <3>3. plain /\ Distinct(msg, h)
      BY <3>2
    <3>4. m.pri = msg.pri /\ m.host = msg.host /\ m.msg = msg.msg
      BY <3>1, <3>3, Reparse, Zenon
    <3>5. /\ msg.msg = first.msg /\ msg.pri = first.pri
          /\ chained => MacroHost(msg.host) = HostAfter(MacroHost(first.host), lowered)
      BY <3>3, KeepsMessageIs, Zenon DEF RelayInv
    <3>. HIDE DEF m
    <3>6. chained' => MacroHost(msg'.host) = HostAfter(MacroHost(m.host), normal)
      BY <1>4, <3>1, <3>2, <3>4, Zenon
    <3>7. MacroHost(first.host) \in Seq(Token)
      <4>1. first.host \in Seq(Token)
        BY <1>3 DEF LogMessage
      <4>. QED
        BY <4>1, MacroHostLowered, Zenon
    <3>8. HostAfter(HostAfter(MacroHost(first.host), lowered), normal)
            = HostAfter(MacroHost(first.host), lowered \/ normal)
      BY <1>3, <1>10, <3>7, HostAfterTwice, Zenon
    <3>. QED
      BY <1>4, <3>2, <3>4, <3>5, <3>6, <3>8, Zenon
  <2>. QED
    BY <2>1, <2>2
<1>. QED
  BY <1>1, <1>2, <1>4, <1>5, <1>6, <1>8, <1>9, <1>11, Zenon DEF RelayInv

\* Behind any number of relays, of any options, a message is the one the first of
\* them sent if each host that was sent is one that the next relay takes for one,
\* which one longer than the parser's buffer is not; and $HOST is the first one's
\* if each relay kept the host or appended to it, in lower case if one normalized it.
THEOREM RelaysKeepTheMessage == LogMsgSpec => []RelayKeepsMessage
<1>1. LogMsgInit => RelayInv
  <2>. SUFFICES ASSUME LogMsgInit
                PROVE  RelayInv
    OBVIOUS
  <2>1. /\ line \in Seq(Token) /\ hop = 0 /\ msg = first /\ msg = NoMessage
       /\ lowered = FALSE
    BY LogMsgAssumption DEF LogMsgInit
  <2>2. NoMessage \in LogMessage
    BY LogMsgAssumption DEF NoMessage, LogMessage
  <2>3. RelayKeepsMessage
    BY <2>1, Zenon DEF RelayKeepsMessage
  <2>4. hop \in Nat /\ (hop > 0 => line = FormatLog(msg) /\ msg.pri \in Number /\ msg.host # <<>>)
    BY <2>1
  <2>5. (hop = 0 => ~lowered) /\ lowered \in BOOLEAN
    BY <2>1
  <2>6. msg \in LogMessage /\ first \in LogMessage
    BY <2>1, <2>2, Zenon
  <2>. QED
    BY <2>1, <2>3, <2>4, <2>5, <2>6, Zenon DEF RelayInv
<1>2. RelayInv /\ [LogMsgNext]_log_msg_vars => RelayInv'
  <2>. SUFFICES ASSUME RelayInv, [LogMsgNext]_log_msg_vars
                PROVE  RelayInv'
    OBVIOUS
  <2>1. CASE LogMsgNext
    BY <2>1, RelayStep, Zenon DEF LogMsgNext
  <2>2. CASE UNCHANGED log_msg_vars
    BY <2>2, Zenon DEF RelayInv, RelayKeepsMessage, log_msg_vars
  <2>. QED
    BY <2>1, <2>2
<1>3. RelayInv => RelayKeepsMessage
  BY DEF RelayInv
<1>. QED
  BY <1>1, <1>2, <1>3, PTL DEF LogMsgSpec
=============================================================================
