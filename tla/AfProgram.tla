------------------------------- MODULE AfProgram -------------------------------
(***************************************************************************)
(* A program destination (afprog.c), the table of children (children.c)    *)
(* and the signals of the main loop (main_loop_run, main.c).  The program  *)
(* may exit at any time: the driver learns of it from SIGCHLD or from the  *)
(* write that fails, whichever comes first, and starts it again.           *)
(*                                                                         *)
(* A reload may fail after the driver of the new configuration started its *)
(* program: that driver is left as it is, is never stopped, and goes on    *)
(* starting its program again, beside the one of the old configuration.    *)
(* That a message may then crash the process is the subject of Reload: the *)
(* first one of such a configuration does, so its writers get none.        *)
(*                                                                         *)
(* A process id is given again once its process was waited for.            *)
(***************************************************************************)
EXTENDS Integers, FiniteSets

CONSTANTS
  Pid,
  NoPid,         \* the -1 of self->pid
  MaxHups,       \* bound: SIGHUPs
  MaxExits       \* bound: how often a program exits

ASSUME AfProgramAssumption == NoPid \notin Pid

VARIABLES
  child,         \* "none", "running", "termed" (after SIGTERM) or "zombie"
  child_hash,    \* the pids with an exit callback
  dd_pid,        \* self->pid of the driver of the configuration in use
  left,          \* the children of drivers of configurations that failed
  pipe_to,       \* the process at the other end of the writer's pipe, or NoPid
  pending,       \* a message is in the writer's queue
  sig_hup_received, sig_child_received,
  loop,          \* where main_loop_run is
  hups, exits,
  reverts,       \* history: reloads that failed
  start_failed,  \* history: the last init could not start the program
  mislaid        \* history: the entry of a running child was removed

program_vars == <<child, child_hash, dd_pid, left, pipe_to, pending, sig_hup_received,
                  sig_child_received, loop, hups, exits, reverts, start_failed, mislaid>>
signal_vars == <<sig_hup_received, sig_child_received, hups, exits>>
driver_vars == <<dd_pid, pipe_to, start_failed>>
children_vars == <<child, child_hash, left, reverts, driver_vars>>

AfProgramTypeOK ==
  /\ child \in [Pid -> {"none", "running", "termed", "zombie"}]
  /\ child_hash \subseteq Pid /\ left \subseteq Pid /\ reverts \in Nat
  /\ dd_pid \in Pid \cup {NoPid} /\ pipe_to \in Pid \cup {NoPid}
  /\ loop \in {"poll", "hup", "child", "wait", "waited"}

\* The driver was initialised.
AfProgramInit ==
  \E p \in Pid :
    /\ child = [q \in Pid |-> IF q = p THEN "running" ELSE "none"]
    /\ child_hash = {p} /\ dd_pid = p /\ pipe_to = p
    /\ left = {} /\ reverts = 0
    /\ pending = FALSE
    /\ sig_hup_received = FALSE /\ sig_child_received = FALSE
    /\ loop = "poll" /\ hups = 0 /\ exits = 0
    /\ start_failed = FALSE /\ mislaid = FALSE

-----------------------------------------------------------------------------
\* Mutant: the old program is left running.
TermedNot(c, p) == c

\* kill(pid, SIGTERM), of afprogram_dd_deinit; a dead process does not mind.
Termed(c, p) ==
  [q \in Pid |-> IF q = p /\ c[q] = "running" THEN "termed" ELSE c[q]]

Terminated(p) == Termed(child, p)

\* The child that fork() makes; NoPid if it or pipe() fails.
Forkable(c) == {p \in Pid : c[p] = "none"} \cup {NoPid}
Forked(c, p) == [q \in Pid |-> IF q = p THEN "running" ELSE c[q]]
\* child_manager_register.
Registered(table, p) == table \cup ({p} \ {NoPid})

\* afprogram_dd_init.
StartProgram(c, p) ==
  /\ child' = Forked(c, p)
  /\ dd_pid' = p /\ pipe_to' = p
  /\ start_failed' = (p = NoPid)

-----------------------------------------------------------------------------
(***************************************************************************)
(* The environment: the program exits, which raises SIGCHLD; messages and  *)
(* SIGHUPs come.                                                           *)
(***************************************************************************)
ProgramExits(p) ==
  /\ child[p] \in {"running", "termed"}
  /\ exits < MaxExits
  /\ exits' = exits + 1
  /\ child' = [child EXCEPT ![p] = "zombie"]
  /\ sig_child_received' = TRUE
  /\ UNCHANGED <<child_hash, left, reverts, driver_vars, pending, sig_hup_received, loop, hups,
                 mislaid>>

QueueForProgram ==
  /\ ~pending
  /\ pending' = TRUE
  /\ UNCHANGED <<children_vars, signal_vars, loop, mislaid>>

Hup ==
  /\ hups < MaxHups
  /\ hups' = hups + 1
  /\ sig_hup_received' = TRUE
  /\ UNCHANGED <<children_vars, pending, sig_child_received, exits, loop, mislaid>>

-----------------------------------------------------------------------------
(***************************************************************************)
(* g_main_context_iteration: the writer's watch, if it has a message.      *)
(***************************************************************************)
\* A pipe stays closed when another driver's child gets the pid of its reader.
Readable(p) == child[p] \in {"running", "termed"} /\ p \notin left

NothingToWrite ==
  /\ loop = "poll"
  /\ ~(pending /\ pipe_to # NoPid)
  /\ loop' = "hup"
  /\ UNCHANGED <<children_vars, signal_vars, pending, mislaid>>

WriteToProgram ==
  /\ loop = "poll"
  /\ pending /\ pipe_to # NoPid /\ Readable(pipe_to)
  /\ pending' = FALSE
  /\ loop' = "hup"
  /\ UNCHANGED <<children_vars, signal_vars, mislaid>>

\* Mutant: a write error stops the program for good.
WriteErrorStops ==
  /\ loop = "poll"
  /\ pending /\ pipe_to # NoPid /\ ~Readable(pipe_to)
  /\ child' = Terminated(dd_pid)
  /\ dd_pid' = NoPid /\ pipe_to' = NoPid
  /\ loop' = "hup"
  /\ UNCHANGED <<child_hash, left, reverts, signal_vars, pending, start_failed, mislaid>>

\* EPIPE: afprogram_dd_notify, which stops and starts the driver.
WriteError ==
  /\ loop = "poll"
  /\ pending /\ pipe_to # NoPid /\ ~Readable(pipe_to)
  /\ \E p \in Forkable(Terminated(dd_pid)) :
       /\ StartProgram(Terminated(dd_pid), p)
       /\ child_hash' = Registered(child_hash, p)
  /\ loop' = "hup"
  /\ UNCHANGED <<left, reverts, signal_vars, pending, mislaid>>

-----------------------------------------------------------------------------
(***************************************************************************)
(* Then the flags that the signal handlers set.                            *)
(***************************************************************************)
NoHup ==
  /\ loop = "hup" /\ ~sig_hup_received
  /\ loop' = "child"
  /\ UNCHANGED <<children_vars, signal_vars, pending, mislaid>>

\* The flag is cleared after cfg_reload_config.
HupHandled ==
  /\ loop = "hup" /\ sig_hup_received
  /\ sig_hup_received' = FALSE
  /\ loop' = "child"
  /\ UNCHANGED <<sig_child_received, hups, exits, mislaid>>

\* The file cannot be opened or parsed: nothing is stopped.
HupRefused == HupHandled /\ UNCHANGED <<children_vars, pending>>

\* A configuration with a driver for the same program.  The writer goes with the
\* old driver, and what is queued in it.
HupReload ==
  /\ HupHandled
  /\ \E p \in Forkable(Terminated(dd_pid)) \ {NoPid} :
       /\ StartProgram(Terminated(dd_pid), p)
       /\ child_hash' = Registered(child_hash, p)
  /\ pending' = FALSE
  /\ UNCHANGED <<left, reverts>>

\* A configuration that cannot be initialised, whose driver started its program
\* (q) before something else failed, or did not; the old driver is initialised
\* again, with its writer, unless that fails as well.
HupReverted ==
  /\ HupHandled
  /\ \E q \in Forkable(Terminated(dd_pid)) :
       LET c == Forked(Terminated(dd_pid), q)
       IN  /\ \E p \in Forkable(c) :
                /\ StartProgram(c, p)
                /\ child_hash' = Registered(Registered(child_hash, q), p)
           /\ left' = Registered(left, q)
  /\ reverts' = reverts + 1
  /\ UNCHANGED pending

NoChild ==
  /\ loop = "child" /\ ~sig_child_received
  /\ loop' = "poll"
  /\ UNCHANGED <<children_vars, signal_vars, pending, mislaid>>

Children ==
  /\ loop = "child" /\ sig_child_received
  /\ loop' = "wait"
  /\ UNCHANGED <<children_vars, signal_vars, pending, mislaid>>

\* The children but for p, which waitpid() returned.
Waitable(p) == loop = "wait" /\ child[p] = "zombie"
Without(p) == [child EXCEPT ![p] = "none"]

\* A driver that no longer has p, or has no entry, is not told.
ReapOther(p) ==
  /\ Waitable(p)
  /\ p \notin child_hash \/ p \notin left \cup {dd_pid}
  /\ child' = Without(p)
  /\ child_hash' = child_hash \ {p}
  /\ left' = left \ {p}
  /\ UNCHANGED <<reverts, driver_vars, signal_vars, pending, loop, mislaid>>

\* child_manager_sigchild removes the entry of p after the callback, which
\* registered q.  Where q has the same pid, that entry is the one removed, or not:
\* g_hash_table_insert kept the key in the entry that it freed.
EntryRemoved(p, q) ==
  /\ \/ child_hash' = Registered(child_hash, q) \ {p}
     \/ p = q /\ child_hash' = Registered(child_hash, q)
  /\ mislaid' = (mislaid \/ p = q)

\* The driver's: afprogram_dd_exit starts the program again.
ReapProgram(p) ==
  /\ Waitable(p) /\ p \in child_hash /\ p = dd_pid /\ p \notin left
  /\ \E q \in Forkable(Without(p)) : StartProgram(Without(p), q) /\ EntryRemoved(p, q)
  /\ UNCHANGED <<left, reverts, signal_vars, pending, loop>>

\* The same for a driver of a configuration that failed.
ReapLeft(p) ==
  /\ Waitable(p) /\ p \in child_hash /\ p \in left
  /\ \E q \in Forkable(Without(p)) :
       /\ child' = Forked(Without(p), q)
       /\ left' = Registered(left \ {p}, q)
       /\ EntryRemoved(p, q)
  /\ UNCHANGED <<reverts, driver_vars, signal_vars, pending, loop>>

\* waitpid() returned 0 or -1.
Waited ==
  /\ loop = "wait"
  /\ \A p \in Pid : child[p] # "zombie"
  /\ loop' = "waited"
  /\ UNCHANGED <<children_vars, signal_vars, pending, mislaid>>

\* The flag is cleared whether or not a child exited since.
ChildrenDone ==
  /\ loop = "waited"
  /\ sig_child_received' = FALSE
  /\ loop' = "poll"
  /\ UNCHANGED <<children_vars, sig_hup_received, hups, exits, pending, mislaid>>

MainLoop ==
  \/ NothingToWrite \/ WriteToProgram \/ WriteError
  \/ NoHup \/ HupRefused \/ HupReload \/ HupReverted
  \/ NoChild \/ Children \/ Waited \/ ChildrenDone
  \/ \E p \in Pid : ReapOther(p) \/ ReapProgram(p) \/ ReapLeft(p)

AfProgramNext ==
  \/ MainLoop
  \/ \E p \in Pid : ProgramExits(p)
  \/ QueueForProgram \/ Hup

\* The main loop goes on.
AfProgramFairness == WF_program_vars(MainLoop)

AfProgramSpec == AfProgramInit /\ [][AfProgramNext]_program_vars /\ AfProgramFairness

-----------------------------------------------------------------------------
\* Whatever order exits, write errors, SIGHUPs and SIGCHLDs come in: a program
\* that runs and was not told to stop is the one the driver writes to, or one of
\* a configuration that failed, of which there are no more than reloads that
\* failed; and every child is in the table until it was waited for, unless a new
\* one had the pid of the one just waited for, whose entry is then removed.
OneProgram ==
  /\ \A p \in Pid : child[p] = "running" => p \in left \/ (p = dd_pid /\ p = pipe_to)
  /\ Cardinality(left) <= reverts
  /\ ~mislaid => \A p \in Pid : child[p] # "none" => p \in child_hash

\* A message is written in the end, though the program exits several times and
\* SIGCHLDs are lost, unless it could not be started or a reload dropped it.
WrittenToProgram ==
  pending ~> (~pending \/ start_failed)
=============================================================================
