------------------------------ MODULE AfFileDest ------------------------------
(***************************************************************************)
(* A file destination (affile_dd_* and affile_dw_*, affile.c): one writer  *)
(* per file name that the template gives, opened by the first message for  *)
(* it, reaped when idle, and handed from one configuration to the next.    *)
(*                                                                         *)
(* Time is kept as ages: seconds since the last message and since the last *)
(* attempt to open.  The writer itself (logwriter.c) is modelled as in     *)
(* AfSocketDest, with lines of two bytes.                                  *)
(***************************************************************************)
EXTENDS Integers, Sequences, SequencesExt

CONSTANTS
  File,        \* the names the template can give
  NoFile,      \* the hash has no writer for the name
  NoPartial,
  FileFifo,    \* log_fifo_size()
  TimeReap, TimeReopen,
  MaxMessages, \* bound: messages sent to the driver
  MaxReloads   \* bound: reloads of the configuration

MaxAge == IF TimeReap > TimeReopen THEN TimeReap ELSE TimeReopen + 1

\* struct _AFFileDestWriter, and of its LogWriter the queue and the partial line.
DestWriter ==
  [writer : BOOLEAN, open : BOOLEAN, queue : Seq(1..MaxMessages),
   partial : 1..MaxMessages \cup {NoPartial}, pos : 0..1,
   idle : 0..MaxAge, opened : 0..MaxAge]

ASSUME AfFileDestAssumption ==
  /\ FileFifo \in Nat \ {0}
  /\ TimeReap \in Nat \ {0} /\ TimeReopen \in Nat
  /\ MaxMessages \in Nat /\ MaxReloads \in Nat
  /\ NoPartial \notin Nat /\ NoFile \notin DestWriter

VARIABLES
  optional,   \* the option: a file that cannot be opened is no error
  expand,     \* the template has macros (no AFFILE_NO_EXPAND)
  dw,         \* the AFFileDestWriter of each file
  reap_timer, \* seconds until affile_dd_reap is called
  crashed,    \* a NULL pointer was followed
  content,    \* history: the bytes written to each file
  expected,   \* history: the bytes of all messages the file's writers took
  sent_to_dd, \* the number of messages sent
  reloads

dd_vars == <<optional, expand, dw, reap_timer, crashed, content, expected, sent_to_dd, reloads>>

Period == IF TimeReap > 1 THEN TimeReap \div 2 ELSE 1

AfFileDestTypeOK ==
  /\ optional \in BOOLEAN /\ expand \in BOOLEAN /\ crashed \in BOOLEAN
  /\ dw \in [File -> DestWriter \cup {NoFile}]
  /\ \A f \in File : dw[f] # NoFile =>
       /\ dw[f].open => dw[f].writer
       /\ Len(dw[f].queue) <= FileFifo
  /\ reap_timer \in 0..Period
  /\ sent_to_dd \in 0..MaxMessages /\ reloads \in 0..MaxReloads

\* affile_dd_init, which starts the timer; nothing is open yet.
AfFileDestInit ==
  /\ optional \in BOOLEAN /\ expand \in BOOLEAN
  /\ dw = [f \in File |-> NoFile]
  /\ reap_timer = Period
  /\ crashed = FALSE
  /\ content = [f \in File |-> <<>>] /\ expected = [f \in File |-> <<>>]
  /\ sent_to_dd = 0 /\ reloads = 0

FileLine(m) == <<<<m, 1>>, <<m, 2>>>>

-----------------------------------------------------------------------------
\* affile_dw_new: no LogWriter, and so no pipe_next, until a file was opened.
NewWriter ==
  [writer |-> FALSE, open |-> FALSE, queue |-> <<>>,
   partial |-> NoPartial, pos |-> 0, idle |-> 0, opened |-> 0]

\* affile_dw_init: the LogWriter is made when the file is first opened, and kept.
DwInit(w, ok) ==
  [w EXCEPT !.opened = 0, !.writer = @ \/ ok, !.open = ok]

\* affile_dd_queue up to affile_dw_queue.  A new writer whose file cannot be
\* opened is kept only if that is no error.
NewForMessage(f, ok) ==
  IF ok \/ optional THEN DwInit(NewWriter, ok) ELSE NoFile

\* affile_dw_queue: opening is tried again for a writer that never had a file.
ForMessage(f, ok) ==
  LET w == [dw[f] EXCEPT !.idle = 0]
  IN  IF ~w.writer /\ w.opened > TimeReopen THEN DwInit(w, ok) ELSE w

\* log_writer_queue.
Accepts(w) == w # NoFile /\ w.writer /\ Len(w.queue) < FileFifo

QueueMessage(f) ==
  /\ ~crashed
  /\ sent_to_dd < MaxMessages
  /\ ~expand => \A g \in File \ {f} : dw[g] = NoFile
  /\ sent_to_dd' = sent_to_dd + 1
  /\ \E ok \in BOOLEAN :
       LET w == IF dw[f] = NoFile THEN NewForMessage(f, ok) ELSE ForMessage(f, ok)
       IN  IF Accepts(w)
           THEN /\ dw' = [dw EXCEPT ![f] = [w EXCEPT !.queue = Append(@, sent_to_dd')]]
                /\ expected' = [expected EXCEPT ![f] = @ \o FileLine(sent_to_dd')]
           ELSE /\ dw' = [dw EXCEPT ![f] = w]
                /\ UNCHANGED expected
  /\ UNCHANGED <<optional, expand, reap_timer, crashed, content, reloads>>

-----------------------------------------------------------------------------
(***************************************************************************)
(* log_writer_flush_log.  The line written is what is left of a partial    *)
(* one, or that of the next message, which then leaves the queue.          *)
(***************************************************************************)
HasOutput(f) ==
  /\ ~crashed
  /\ dw[f] # NoFile /\ dw[f].open
  /\ dw[f].partial # NoPartial \/ dw[f].queue # <<>>

\* The writer with the line to write as its partial one.
WithLine(w) ==
  IF w.partial # NoPartial THEN w
  ELSE [w EXCEPT !.partial = Head(w.queue), !.pos = 0, !.queue = Tail(w.queue)]

\* Mutant: a line that is held back starts again.
TakenAgain(w, n) ==
  IF w.pos + n = 2 THEN [w EXCEPT !.partial = NoPartial, !.pos = 0]
                   ELSE [w EXCEPT !.pos = 0]

Taken(w, n) ==
  IF w.pos + n = 2 THEN [w EXCEPT !.partial = NoPartial, !.pos = 0]
                   ELSE [w EXCEPT !.pos = @ + n]

FileWrite(f, n) ==
  /\ HasOutput(f)
  /\ LET w == WithLine(dw[f])
     IN  /\ w.pos + n <= 2
         /\ dw' = [dw EXCEPT ![f] = Taken(w, n)]
         /\ content' = [content EXCEPT ![f] =
              @ \o SubSeq(FileLine(w.partial), w.pos + 1, w.pos + n)]
  /\ UNCHANGED <<optional, expand, reap_timer, crashed, expected, sent_to_dd, reloads>>

\* A write error: log_writer_broken closes the file and tells the
\* AFFileDestWriter, which has no notify handler.
FileWriteError(f) ==
  /\ HasOutput(f)
  /\ dw' = [dw EXCEPT ![f] = [WithLine(@) EXCEPT !.open = FALSE]]
  /\ UNCHANGED <<optional, expand, reap_timer, crashed, content, expected, sent_to_dd, reloads>>

-----------------------------------------------------------------------------
Older(age) == IF age < MaxAge THEN age + 1 ELSE age

\* A second passes; the main loop comes round at least once in it.
Second ==
  /\ ~crashed
  /\ reap_timer > 0
  /\ reap_timer' = reap_timer - 1
  /\ dw' = [f \in File |->
       IF dw[f] = NoFile THEN NoFile
       ELSE [dw[f] EXCEPT !.idle = Older(@), !.opened = Older(@)]]
  /\ UNCHANGED <<optional, expand, crashed, content, expected, sent_to_dd, reloads>>

Idle(f) == dw[f] # NoFile /\ dw[f].idle >= TimeReap

\* Mutant: only a file that is open is reaped.
ReapableOpen(f) == Idle(f) /\ dw[f].open /\ dw[f].queue = <<>>

\* affile_dw_reapable looks at the queue only, through a pointer to a LogWriter
\* that need not be there.
Reapable(f) == Idle(f) /\ dw[f].writer /\ dw[f].queue = <<>>

\* affile_dw_free: the rest of a partial line goes with the writer.
Unwritten(w) == IF w.partial = NoPartial THEN 0 ELSE 2 - w.pos

Reap ==
  /\ ~crashed
  /\ reap_timer = 0
  /\ reap_timer' = Period
  /\ IF expand /\ \E f \in File : Idle(f) /\ ~dw[f].writer
     THEN crashed' = TRUE /\ UNCHANGED <<dw, expected>>
     ELSE /\ dw' = [f \in File |-> IF expand /\ Reapable(f) THEN NoFile ELSE dw[f]]
          /\ expected' = [f \in File |->
               IF expand /\ Reapable(f)
               THEN SubSeq(expected[f], 1, Len(expected[f]) - Unwritten(dw[f]))
               ELSE expected[f]]
          /\ UNCHANGED crashed
  /\ UNCHANGED <<optional, expand, content, sent_to_dd, reloads>>

\* affile_dd_deinit and the affile_dd_init of the next configuration: it takes
\* the writers over and opens their files again, whether or not that succeeds.
ReloadDest ==
  /\ ~crashed
  /\ reloads < MaxReloads
  /\ reloads' = reloads + 1
  /\ reap_timer' = Period
  /\ \E ok \in [File -> BOOLEAN] :
       dw' = [f \in File |-> IF dw[f] = NoFile THEN NoFile ELSE DwInit(dw[f], ok[f])]
  /\ UNCHANGED <<optional, expand, crashed, content, expected, sent_to_dd>>

AfFileDestNext ==
  \/ \E f \in File : QueueMessage(f)
  \/ \E f \in File, n \in 0..2 : FileWrite(f, n)
  \/ \E f \in File : FileWriteError(f)
  \/ Second \/ Reap \/ ReloadDest

AfFileDestFairness ==
  /\ WF_dd_vars(Second) /\ WF_dd_vars(Reap)

AfFileDestSpec == AfFileDestInit /\ [][AfFileDestNext]_dd_vars /\ AfFileDestFairness

-----------------------------------------------------------------------------
\* A file holds the lines of the messages its writers took, each once and in
\* order: what was written, the partial line and the queue are together all of
\* them - over write errors, reloads and new writers for the same file - but for
\* the rest of a line whose writer was reaped.
FileInOrder ==
  \A f \in File :
    content[f] \o (IF dw[f] = NoFile THEN <<>>
       ELSE (IF dw[f].partial = NoPartial THEN <<>>
             ELSE SubSeq(FileLine(dw[f].partial), dw[f].pos + 1, 2))
            \o FlattenSeq([i \in DOMAIN dw[f].queue |-> FileLine(dw[f].queue[i])]))
      = expected[f]

\* "The time to wait in seconds before an idle destination file is closed"
\* (time_reap): a file with nothing in its queue that no message comes for is
\* closed in the end, also when its file broke or could not be opened again, so
\* that a later message opens it anew.
IdleClosed ==
  \A f \in File :
    (expand /\ dw[f] # NoFile /\ dw[f].queue = <<>>)
      ~> (crashed \/ dw[f] = NoFile \/ dw[f].idle = 0)
=============================================================================
