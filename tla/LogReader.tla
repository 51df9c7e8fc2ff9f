------------------------------ MODULE LogReader ------------------------------
(***************************************************************************)
(* How log_reader_fetch_log cuts the bytes of a stream into messages       *)
(* (logreader.c).  The stream arrives in pieces of any length; what has    *)
(* been read and not yet been cut stays in a buffer of MsgSize bytes.  A   *)
(* dispatch is bounded by the fetch limit, and cutting stops when the      *)
(* window of the source is used up.                                        *)
(*                                                                         *)
(* A dispatch is one call in the program; here it is a sequence of steps,  *)
(* and pc says where it stands.  Only acknowledgements that come with the  *)
(* queueing of a message, because a destination dropped it, happen within. *)
(*                                                                         *)
(* Packets, padded records and followed files are left out: they end a     *)
(* message without looking for a line, or differ in when they are polled.  *)
(***************************************************************************)
EXTENDS Integers, Sequences, SequencesExt, FiniteSetsExt

CONSTANTS
  Stream,      \* the streams considered
  MsgSize,     \* log_msg_size()
  FetchLimit,  \* log_fetch_limit()
  Window       \* log_iw_size()

ASSUME LogReaderAssumption ==
  /\ MsgSize \in Nat \ {0}
  /\ FetchLimit \in Nat \ {0}
  /\ Window \in Nat \ {0}
  /\ \A s \in Stream : s \in Seq(ToSet(s))

NUL == "NUL"
NL == "NL"
CR == "CR"
Ends == {NUL, NL, CR}

VARIABLES
  stream,     \* the whole stream
  nomread,    \* LR_NOMREAD: read() once per dispatch
  input,      \* what read() has not returned yet
  buffer,
  complete,   \* LR_COMPLETE_LINE
  pc,         \* main loop, cutting, reading, or closed
  resumed,    \* the dispatch began with what was in the buffer
  msg_count,
  may_read,
  window,
  emitted     \* the messages queued

local == <<resumed, msg_count, may_read>>
source == <<stream, nomread>>
vars == <<source, input, buffer, complete, pc, local, window, emitted>>

TypeOK ==
  /\ buffer \in Seq(ToSet(stream)) /\ Len(buffer) <= MsgSize
  /\ complete \in BOOLEAN /\ resumed \in BOOLEAN /\ may_read \in BOOLEAN
  /\ pc \in {"main", "cut", "read", "closed"}
  /\ msg_count \in 0..FetchLimit
  /\ window \in Int /\ window <= Window

Init ==
  /\ stream \in Stream /\ nomread \in BOOLEAN
  /\ input = stream
  /\ buffer = <<>> /\ complete = FALSE
  /\ pc = "main"
  /\ resumed = FALSE /\ msg_count = 0 /\ may_read = TRUE
  /\ window = Window
  /\ emitted = <<>>

-----------------------------------------------------------------------------
First(s, c) == SelectInSeq(s, LAMBDA b : b = c)

\* Mutant: the last end of a line in the buffer is taken.
EolLast(s) == SelectLastInSeq(s, LAMBDA b : b \in {NUL, NL})

\* Where the first line of the buffer ends; 0 if it does not.  A NUL is
\* searched for first, in the whole buffer.
Eol(s) == IF First(s, NUL) # 0 THEN First(s, NUL) ELSE First(s, NL)

\* Without the ends of line it is followed by.
Trim(s) == SubSeq(s, 1, SelectLastInSeq(s, LAMBDA b : b \notin Ends))

\* Mutant: a full buffer is not a reason to end a message.
FullNever == FALSE

Full == Eol(buffer) = 0 /\ Len(buffer) = MsgSize

\* log_reader_handle_line, for a line that is not empty.  The message takes a
\* unit of window, which is back already if every destination dropped it.
HandleLine(line) ==
  IF line = <<>> THEN UNCHANGED <<emitted, window, may_read>>
  ELSE /\ emitted' = Append(emitted, line)
       /\ window' \in {window - 1, window}
       /\ may_read' = (window' > 0)

\* Where fetch_log goes on when log_reader_iterate_buf returns.
AfterCut(rest) ==
  IF nomread \/ (resumed /\ rest # <<>>) THEN "main" ELSE "read"

-----------------------------------------------------------------------------
\* The dispatch of a reader that is free to send: it has complete lines left,
\* or its descriptor became readable.
Dispatch(lines) ==
  /\ pc = "main"
  /\ window > 0
  /\ complete = lines
  /\ resumed' = lines
  /\ complete' = FALSE
  /\ msg_count' = 0
  /\ may_read' = TRUE
  /\ pc' = IF lines THEN "cut" ELSE "read"
  /\ UNCHANGED <<source, input, buffer, window, emitted>>

Resume == Dispatch(TRUE)
Wake == Dispatch(FALSE)

\* The buffer is full and holds no end of line.
TakeBuffer ==
  /\ pc = "cut"
  /\ Full
  /\ HandleLine(buffer)
  /\ buffer' = <<>>
  /\ msg_count' = msg_count + 1
  /\ pc' = AfterCut(<<>>)
  /\ UNCHANGED <<source, input, complete, resumed>>

MoreLines == Eol(buffer) # 0 /\ may_read /\ msg_count < FetchLimit

\* One line of the loop of log_reader_iterate_buf.
CutLine ==
  /\ pc = "cut"
  /\ MoreLines
  /\ HandleLine(Trim(SubSeq(buffer, 1, Eol(buffer) - 1)))
  /\ buffer' = SubSeq(buffer, Eol(buffer) + 1, Len(buffer))
  /\ msg_count' = msg_count + 1
  /\ UNCHANGED <<source, input, complete, pc, resumed>>

\* Mutant: complete lines that are left are not taken note of.
EndCutForgets ==
  /\ pc = "cut"
  /\ ~Full /\ ~MoreLines
  /\ pc' = AfterCut(buffer)
  /\ UNCHANGED <<source, input, buffer, complete, local, window, emitted>>

EndCut ==
  /\ pc = "cut"
  /\ ~Full /\ ~MoreLines
  /\ complete' = (Eol(buffer) # 0)
  /\ pc' = AfterCut(buffer)
  /\ UNCHANGED <<source, input, buffer, local, window, emitted>>

Reading == pc = "read" /\ msg_count < FetchLimit

\* Mutant: read() goes to the beginning of the buffer.
ReadOver(n) ==
  /\ Reading
  /\ n <= Len(input) /\ n <= MsgSize
  /\ buffer' = SubSeq(input, 1, n)
  /\ input' = SubSeq(input, n + 1, Len(input))
  /\ complete' = FALSE
  /\ resumed' = FALSE
  /\ may_read' = TRUE
  /\ pc' = "cut"
  /\ UNCHANGED <<source, msg_count, window, emitted>>

\* read() returns n bytes.  The window is not looked at.
Read(n) ==
  /\ Reading
  /\ n <= Len(input) /\ n <= MsgSize - Len(buffer)
  /\ buffer' = buffer \o SubSeq(input, 1, n)
  /\ input' = SubSeq(input, n + 1, Len(input))
  /\ complete' = FALSE
  /\ resumed' = FALSE
  /\ may_read' = TRUE
  /\ pc' = "cut"
  /\ UNCHANGED <<source, msg_count, window, emitted>>

\* The fetch limit is reached, or there is no more input for now.
EndFetch ==
  /\ pc = "read"
  /\ pc' = "main"
  /\ UNCHANGED <<source, input, buffer, complete, local, window, emitted>>

\* read() returns 0 or an error: what is in the buffer becomes one message,
\* whatever it is, and the source is closed.  Asked for 0 bytes, read()
\* returns 0 as well.
Close ==
  /\ Reading
  /\ HandleLine(buffer)
  /\ buffer' = <<>>
  /\ complete' = FALSE
  /\ msg_count' = msg_count + 1
  /\ pc' = "closed"
  /\ UNCHANGED <<source, input, resumed>>

\* A message queued before is acknowledged.
Acknowledged ==
  /\ pc \in {"main", "closed"}
  /\ window < Window
  /\ window' = window + 1
  /\ UNCHANGED <<source, input, buffer, complete, pc, local, emitted>>

Loop == TakeBuffer \/ CutLine \/ EndCut \/ EndFetch

Next ==
  \/ Resume \/ Wake
  \/ Loop
  \/ \E n \in 1..MsgSize : Read(n)
  \/ Close
  \/ Acknowledged

Spec == Init /\ [][Next]_vars

\* A dispatch returns, a reader whose prepare function says that it is ready
\* is dispatched, and messages are acknowledged.  No more input need come.
Fairness == WF_vars(Loop) /\ WF_vars(Resume) /\ WF_vars(Acknowledged)

FairSpec == Spec /\ Fairness

-----------------------------------------------------------------------------
\* read() is never asked for 0 bytes, which it would answer as at the end of
\* the stream, and a healthy source would be closed.
RoomToRead == Reading => Len(buffer) < MsgSize

\* A sequence of bytes without the ends of lines.
Payload(s) ==
  FlattenSeq([i \in DOMAIN s |-> IF s[i] \in Ends THEN <<>> ELSE <<s[i]>>])

\* Whatever the pieces, the limit and the window, and however NUL and NL are
\* mixed: every byte of the stream but the ends of lines gets into exactly one
\* message, in order.
BytesConserved ==
  Payload(FlattenSeq(emitted)) \o Payload(buffer) \o Payload(input)
    = Payload(stream)

\* The stream cut at once.  A message starts where a line does, and again after
\* every MsgSize bytes of it;
Starts(s, p) ==
  \E q \in 1..p, n \in 0..Len(s) :
    /\ q = 1 \/ s[q - 1] = NL
    /\ p = q + n * MsgSize
    /\ \A i \in q..(p - 1) : s[i] # NL

\* and it ends with the line, or after MsgSize bytes.
LineEnd(s, p) == Min({i \in p..Len(s) : s[i] = NL} \cup {Len(s) + 1})

Piece(s, p) ==
  IF LineEnd(s, p) - p >= MsgSize THEN SubSeq(s, p, p + MsgSize - 1)
  ELSE Trim(SubSeq(s, p, LineEnd(s, p) - 1))

\* Where the messages of the stream start; what is empty is none.
MessageStarts(s) == {p \in 1..Len(s) : Starts(s, p) /\ Piece(s, p) # <<>>}

\* A stream without NUL is cut into the same messages however it arrives.
\* Only the last message of a closed source can be another: closing takes the
\* buffer as it is, with complete lines the window had kept back.
CutAsWhole ==
  First(stream, NUL) = 0 =>
    LET cut == IF pc = "closed" /\ emitted # <<>> THEN Front(emitted) ELSE emitted
    IN  \A k \in DOMAIN cut : \E p \in MessageStarts(stream) :
          /\ Cardinality({q \in MessageStarts(stream) : q < p}) = k - 1
          /\ cut[k] = Piece(stream, p)

\* A complete line never waits for more input to arrive.
LineNotStuck == Eol(buffer) # 0 ~> Eol(buffer) = 0
=============================================================================
