-------------------------------- MODULE AfInter --------------------------------
(***************************************************************************)
(* The internal() source (afinter.c): the queue of syslog-ng's own         *)
(* messages (messages.c) and the timer of MARK messages, which every       *)
(* message through the log center sets back (afinter_postpone_mark).  The  *)
(* time of the next MARK is a static variable: it is kept over a reload,   *)
(* the mark_freq() of the watch and of the center is not.                  *)
(***************************************************************************)
EXTENDS Integers

CONSTANTS
  MarkFreq,       \* the values of mark_freq() in the configurations
  MaxSeconds,     \* bound: the clock
  MaxInternal,    \* bound: internal messages
  MaxMarkReloads  \* bound

VARIABLES
  second,             \* the clock
  next_mark_target,
  mark_freq,
  internal_msg_queue, \* its length
  loop_at,            \* "prepare", "check" or "dispatch" of the watch
  sent_internal,      \* internal messages made so far
  mark_reloads

afinter_vars == <<second, next_mark_target, mark_freq, internal_msg_queue, loop_at,
                  sent_internal, mark_reloads>>

AfInterTypeOK ==
  /\ second \in 0 .. MaxSeconds
  /\ next_mark_target \in -1 .. MaxSeconds + 10
  /\ internal_msg_queue \in 0 .. MaxInternal
  /\ loop_at \in {"prepare", "check", "dispatch"}

AfInterInit ==
  /\ second = 0 /\ next_mark_target = -1 /\ mark_freq \in MarkFreq
  /\ internal_msg_queue = 0 /\ loop_at = "prepare"
  /\ sent_internal = 0 /\ mark_reloads = 0

-----------------------------------------------------------------------------
\* Mutant: messages do not set the timer back.
PostponedNot(target) == target
\* afinter_postpone_mark, of log_center_queue, for the mark_freq() in force.
Postponed(target) == IF mark_freq > 0 THEN second + mark_freq ELSE target

Due == next_mark_target # -1 /\ next_mark_target <= second

\* A message goes to the center, the source it came from does not matter.
ThroughCenter ==
  /\ next_mark_target' = Postponed(next_mark_target)

Clock ==
  /\ second < MaxSeconds /\ second' = second + 1
  /\ UNCHANGED <<next_mark_target, mark_freq, internal_msg_queue, loop_at, sent_internal,
                 mark_reloads>>

\* msg_send_internal_message, from any part of the program.
InternalMessage ==
  /\ sent_internal < MaxInternal
  /\ sent_internal' = sent_internal + 1
  /\ internal_msg_queue' = internal_msg_queue + 1
  /\ UNCHANGED <<second, next_mark_target, mark_freq, loop_at, mark_reloads>>

\* The message of another source.
OtherSource ==
  /\ loop_at = "dispatch"
  /\ ThroughCenter
  /\ UNCHANGED <<second, mark_freq, internal_msg_queue, loop_at, sent_internal,
                 mark_reloads>>

Prepare ==
  /\ loop_at = "prepare"
  /\ loop_at' = "check"
  /\ next_mark_target' = IF mark_freq > 0 /\ next_mark_target = -1
                         THEN second + mark_freq ELSE next_mark_target
  /\ UNCHANGED <<second, mark_freq, internal_msg_queue, sent_internal, mark_reloads>>

Check ==
  /\ loop_at = "check"
  /\ loop_at' = IF Due \/ internal_msg_queue > 0 THEN "dispatch" ELSE "prepare"
  /\ UNCHANGED <<second, next_mark_target, mark_freq, internal_msg_queue, sent_internal,
                 mark_reloads>>

\* A MARK goes before the queue.
DispatchMark ==
  /\ loop_at = "dispatch" /\ Due
  /\ loop_at' = "prepare"
  /\ ThroughCenter
  /\ UNCHANGED <<second, mark_freq, internal_msg_queue, sent_internal, mark_reloads>>

DispatchInternal ==
  /\ loop_at = "dispatch" /\ ~Due
  /\ loop_at' = "prepare"
  /\ IF internal_msg_queue > 0
     THEN internal_msg_queue' = internal_msg_queue - 1 /\ ThroughCenter
     ELSE UNCHANGED <<internal_msg_queue, next_mark_target>>
  /\ UNCHANGED <<second, mark_freq, sent_internal, mark_reloads>>

\* afinter_sd_deinit and afinter_sd_init by a reload, outside the iteration.
MarkReload(freq) ==
  /\ mark_reloads < MaxMarkReloads /\ loop_at = "prepare"
  /\ mark_freq' = freq /\ mark_reloads' = mark_reloads + 1
  /\ UNCHANGED <<second, next_mark_target, internal_msg_queue, loop_at, sent_internal>>

AfInterWatch == Prepare \/ Check \/ DispatchMark \/ DispatchInternal

AfInterNext ==
  \/ AfInterWatch \/ Clock \/ InternalMessage \/ OtherSource
  \/ \E freq \in MarkFreq : MarkReload(freq)

\* The main loop goes on; messages of other sources come or do not.
AfInterFairness == WF_afinter_vars(AfInterWatch)

AfInterSpec == AfInterInit /\ [][AfInterNext]_afinter_vars /\ AfInterFairness

-----------------------------------------------------------------------------
\* MARKs go first, yet syslog-ng's own messages leave in the end - unless a
\* reload turned MARKs off with a target set: once it has passed, each dispatch
\* sends a MARK and none ever takes a message from the queue.
InternalLeaves ==
  internal_msg_queue > 0 ~>
    (internal_msg_queue = 0 \/ (mark_freq = 0 /\ next_mark_target # -1))
=============================================================================
