-------------------------------- MODULE Stats --------------------------------
(***************************************************************************)
(* The statistics counters (stats.c): one reference-counted entry per name,*)
(* used by the groups, which unregister it when they are deinitialised,    *)
(* and by the log writers, which orphan it, so that its value lasts over a *)
(* reload.  What is still orphaned after a SIGHUP is freed (main.c).       *)
(*                                                                         *)
(* An instance is a user in one generation of the configuration: a reload  *)
(* makes a new one.                                                        *)
(***************************************************************************)
EXTENDS Integers, FiniteSets

CONSTANTS
  Group,          \* log groups, each with a counter of its own
  Writer,         \* log writers that count what they drop
  SharingWriter,  \* those of pipe() destinations, with LWOF_SHARE_STATS
  CounterOf(_),   \* the name of the counter of a user
  NoCounter,
  MaxGenerations  \* bound: configurations

\* A StatsCounter.
Counter == [ref_cnt : Nat \ {0}, orphaned : BOOLEAN, shared : BOOLEAN]

ASSUME StatsAssumption ==
  /\ IsFiniteSet(Group) /\ IsFiniteSet(Writer)
  /\ SharingWriter \subseteq Writer
  /\ NoCounter \notin Counter
  /\ MaxGenerations \in Nat \ {0}

VARIABLES
  counters,   \* the entries: references and whether orphaned, shared
  pointer,    \* of each instance: NULL, to a live entry, or to a freed one
  generation, \* the generation running
  made,       \* the last generation made
  reload,     \* where a reload is, in which generation, with which users to visit
  asserted    \* the assertion in stats_cleanup_orphans failed

stats_vars == <<counters, pointer, generation, made, reload, asserted>>

User == Group \cup Writer
CounterName == {CounterOf(u) : u \in User}
Instance == (1..MaxGenerations) \X User

Holders(name) ==
  {i \in Instance : pointer[i] = "live" /\ CounterOf(i[2]) = name}

StatsTypeOK ==
  /\ counters \in [CounterName -> Counter \cup {NoCounter}]
  /\ pointer \in [Instance -> {"null", "live", "freed"}]
  /\ generation \in 1..MaxGenerations /\ made \in generation..MaxGenerations
  /\ reload.todo \subseteq User /\ reload.in \in 1..made

StatsInit ==
  /\ counters = [name \in CounterName |-> NoCounter]
  /\ pointer = [i \in Instance |-> "null"]
  /\ generation = 1 /\ made = 1
  /\ reload = [phase |-> "init", todo |-> User, in |-> 1]
  /\ asserted = FALSE

-----------------------------------------------------------------------------
\* stats_register_counter.  An orphaned entry is taken over, whoever asks.
Register(i, shared) ==
  LET name == CounterOf(i[2])
      sc   == counters[name]
  IN  IF sc = NoCounter
      THEN /\ counters' = [counters EXCEPT ![name] =
                [ref_cnt |-> 1, orphaned |-> FALSE, shared |-> shared]]
           /\ pointer' = [pointer EXCEPT ![i] = "live"]
      ELSE IF ~sc.orphaned /\ ~(shared /\ sc.shared)
      THEN pointer' = [pointer EXCEPT ![i] = "null"] /\ UNCHANGED counters
      ELSE /\ counters' = [counters EXCEPT ![name] =
                [ref_cnt  |-> IF sc.orphaned THEN sc.ref_cnt ELSE sc.ref_cnt + 1,
                 orphaned |-> FALSE,
                 shared   |-> sc.shared]]
           /\ pointer' = [pointer EXCEPT ![i] = "live"]

\* An entry without its last reference is freed under whoever points to it.
Freed(name) ==
  [i \in Instance |-> IF i \in Holders(name) THEN "freed" ELSE pointer[i]]

\* stats_unregister_counter, which gives back the entry sc: it refuses an
\* entry that is not the caller's.
Release(i, sc) ==
  LET name == CounterOf(i[2])
  IN  IF pointer[i] # "live" THEN UNCHANGED <<counters, pointer>>
      ELSE IF sc.ref_cnt = 1
      THEN /\ counters' = [counters EXCEPT ![name] = NoCounter]
           /\ pointer' = [Freed(name) EXCEPT ![i] = "null"]
      ELSE /\ counters' = [counters EXCEPT ![name] = [sc EXCEPT !.ref_cnt = @ - 1]]
           /\ pointer' = [pointer EXCEPT ![i] = "null"]

Unregister(i) == Release(i, counters[CounterOf(i[2])])

\* Mutant: an entry that is orphaned already gets a reference all the same.
AnotherRef(sc) == [sc EXCEPT !.ref_cnt = @ + 1, !.orphaned = TRUE]

\* stats_orphan_counter: the entry itself holds the reference of the orphan.
OrphanRef(sc) ==
  IF sc.orphaned THEN sc
  ELSE [sc EXCEPT !.ref_cnt = @ + 1, !.orphaned = TRUE]

Orphan(i) ==
  IF pointer[i] # "live" THEN UNCHANGED <<counters, pointer>>
  ELSE Release(i, OrphanRef(counters[CounterOf(i[2])]))

-----------------------------------------------------------------------------
Idling == reload.phase = "idle" /\ ~asserted

\* log_writer_broken, or a file reaped: log_writer_deinit.
WriterDeinit(w) ==
  /\ Idling
  /\ pointer[<<generation, w>>] = "live"
  /\ Orphan(<<generation, w>>)
  /\ UNCHANGED <<generation, made, reload, asserted>>

\* The driver opens again: log_writer_init.
WriterInit(w) ==
  /\ Idling
  /\ pointer[<<generation, w>>] = "null"
  /\ Register(<<generation, w>>, w \in SharingWriter)
  /\ UNCHANGED <<generation, made, reload, asserted>>

\* cfg_reload_config after the new file was parsed.
StartReload ==
  /\ Idling
  /\ made < MaxGenerations
  /\ made' = made + 1
  /\ reload' = [phase |-> "deinit", todo |-> User, in |-> generation]
  /\ UNCHANGED <<counters, pointer, generation, asserted>>

\* The groups unregister, the writers orphan, in any order.
DeinitUser(u) ==
  /\ reload.phase = "deinit" /\ u \in reload.todo
  /\ IF u \in Group THEN Unregister(<<generation, u>>) ELSE Orphan(<<generation, u>>)
  /\ reload' = [reload EXCEPT !.todo = @ \ {u}]
  /\ UNCHANGED <<generation, made, asserted>>

Deinitialised ==
  /\ reload.phase = "deinit" /\ reload.todo = {}
  /\ reload' = [phase |-> "init", todo |-> User, in |-> made]
  /\ UNCHANGED <<counters, pointer, generation, made, asserted>>

\* A user may be missing in the new configuration, and a writer is not always
\* initialised: it was kept by its driver, or its file cannot be opened.
InitUser(u) ==
  /\ reload.phase = "init" /\ u \in reload.todo
  /\ \/ /\ pointer[<<reload.in, u>>] = "null"
        /\ Register(<<reload.in, u>>, u \in SharingWriter)
     \/ UNCHANGED <<counters, pointer>>
  /\ reload' = [reload EXCEPT !.todo = @ \ {u}]
  /\ UNCHANGED <<generation, made, asserted>>

\* A driver of the new configuration fails: those before it stay as they are,
\* and the generation that runs is initialised again.
Revert ==
  /\ reload.phase = "init" /\ reload.todo # {} /\ reload.in # generation
  /\ reload' = [phase |-> "init", todo |-> User, in |-> generation]
  /\ UNCHANGED <<counters, pointer, generation, made, asserted>>

Initialised ==
  /\ reload.phase = "init" /\ reload.todo = {}
  /\ generation' = reload.in
  /\ reload' = [reload EXCEPT !.phase = IF made = 1 THEN "idle" ELSE "cleanup"]
  /\ UNCHANGED <<counters, pointer, made, asserted>>

\* SIGHUP with a file that cannot be parsed: nothing is deinitialised, but
\* main_loop_run goes on to the cleanup.
ParseFailed ==
  /\ Idling
  /\ reload' = [reload EXCEPT !.phase = "cleanup"]
  /\ UNCHANGED <<counters, pointer, generation, made, asserted>>

\* stats_cleanup_orphans.
Orphans == {name \in CounterName : counters[name] # NoCounter /\ counters[name].orphaned}

CleanupOrphans ==
  /\ reload.phase = "cleanup"
  /\ reload' = [reload EXCEPT !.phase = "idle"]
  /\ IF \E name \in Orphans : counters[name].ref_cnt # 1
     THEN asserted' = TRUE /\ UNCHANGED <<counters, pointer>>
     ELSE /\ counters' = [name \in CounterName |->
                IF name \in Orphans THEN NoCounter ELSE counters[name]]
          /\ pointer' = [i \in Instance |->
                IF pointer[i] = "live" /\ CounterOf(i[2]) \in Orphans THEN "freed"
                ELSE pointer[i]]
          /\ UNCHANGED asserted
  /\ UNCHANGED <<generation, made>>

StatsNext ==
  \/ \E w \in Writer : WriterDeinit(w) \/ WriterInit(w)
  \/ StartReload \/ Deinitialised \/ Revert \/ Initialised
  \/ ParseFailed \/ CleanupOrphans
  \/ \E u \in User : DeinitUser(u) \/ InitUser(u)

StatsSpec == StatsInit /\ [][StatsNext]_stats_vars

-----------------------------------------------------------------------------
\* Through any order of registering, sharing, orphaning and taking over, over
\* reloads that succeed and fail: an entry has one reference for each instance
\* that counts in it and one more if orphaned, and nothing points to a freed one.
CountersReferenced ==
  /\ \A name \in CounterName : counters[name] # NoCounter =>
       counters[name].ref_cnt =
         Cardinality(Holders(name)) + (IF counters[name].orphaned THEN 1 ELSE 0)
  /\ \A name \in CounterName : counters[name] = NoCounter => Holders(name) = {}
  /\ \A i \in Instance : pointer[i] # "freed"

\* The assertion of stats_cleanup_orphans: an orphaned counter has no users.
OrphansUnused == ~asserted
=============================================================================
