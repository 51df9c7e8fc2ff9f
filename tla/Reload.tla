------------------------------- MODULE Reload -------------------------------
(***************************************************************************)
(* Configurations over the life of the process: start, reload on SIGHUP    *)
(* (cfg.c), a reload that fails and is reverted, shutdown and crash, with  *)
(* what is handed on in the PersistentConfig.                              *)
(*                                                                         *)
(* Every group has one driver: a file source, which hands on its position, *)
(* or a file destination, which hands on its writer with what is queued in *)
(* it.  Every source is routed to every destination of its configuration.  *)
(* An instance is a driver in one generation of the configuration.  That a *)
(* file may be missing is the subject of AfFileSource and AfFileDest.      *)
(***************************************************************************)
EXTENDS Integers, FiniteSets, Functions

CONSTANTS
  SourceDriver, DestDriver, \* as named by their groups
  PersistKey(_),            \* the name under which a driver persists its value
  Config,                   \* the configurations: sets of drivers
  PersistedWriter,          \* the writers that come to be made
  NoWriter,
  MaxPos,                   \* bound: lines of a file
  MaxGenerationsMade,       \* bound: configurations of one process
  MaxLoads                  \* bound: configurations of all processes, one after the other

ASSUME ReloadAssumption ==
  /\ MaxPos \in Nat /\ MaxGenerationsMade \in Nat \ {0} /\ MaxLoads \in Nat
  /\ NoWriter \notin PersistedWriter /\ PersistedWriter \cap Nat = {}
  /\ SourceDriver \cap DestDriver = {}
  /\ \A s \in SourceDriver, d \in DestDriver : PersistKey(s) # PersistKey(d)
  /\ Config \subseteq SUBSET (SourceDriver \cup DestDriver)

VARIABLES
  config,     \* of each generation made
  active,     \* the generation that cfg points to
  step,       \* where start, reload or exit is, and the drivers still to visit
  on,         \* the instances between init and deinit
  pos,        \* of each source instance: lines read
  writer,     \* of each destination instance
  persist,    \* the PersistentConfig at hand: a function from keys to entries
  leftover,   \* the PersistentConfig loaded at start, kept until exit
  saved,      \* the file it is saved in
  counter,    \* of each driver's group: the generation whose counter is registered
  center,     \* the generation whose log center is initialised, or 0
  fresh,      \* writers not yet made
  freed,      \* writers freed
  reverted,   \* whether this process went back to an old configuration: "no",
              \* "done", or "failed" when that could not be initialised again
  read,       \* history: the furthest line of each file made a message
  displaced,  \* history: keys whose position is not that of the last reader
  fault,      \* history: the generation that followed a NULL pointer, or 0
  loads

position_vars == <<pos, read, displaced>>
writer_vars == <<writer, fresh, freed>>
stat_vars == <<counter, center>>
process_vars == <<config, active, reverted, fault, loads>>
reload_vars == <<position_vars, writer_vars, stat_vars, process_vars, step, on,
                 persist, leftover, saved>>

AnyDriver == SourceDriver \cup DestDriver
Gen == 1..MaxGenerationsMade
SourceKey == {PersistKey(s) : s \in SourceDriver}
Empty == [k \in {} |-> 0]

ReloadTypeOK ==
  /\ active \in DOMAIN config /\ DOMAIN config \subseteq Gen
  /\ on \subseteq Gen \X AnyDriver
  /\ \A i \in on : i[1] \in DOMAIN config /\ i[2] \in config[i[1]]
  /\ pos \in [Gen \X SourceDriver -> 0..MaxPos]
  /\ writer \in [Gen \X DestDriver -> PersistedWriter \cup {NoWriter}]
  /\ \A k \in SourceKey : k \in DOMAIN saved => saved[k] \in 0..MaxPos
  /\ fresh \cap freed = {}
  /\ counter \in [AnyDriver -> {0} \cup Gen] /\ center \in {0} \cup Gen

ReloadInit ==
  /\ config = [g \in {1} |-> {}] /\ active = 1
  /\ step = [phase |-> "stopped", todo |-> {}]
  /\ on = {}
  /\ pos = [i \in Gen \X SourceDriver |-> 0]
  /\ writer = [i \in Gen \X DestDriver |-> NoWriter]
  /\ persist = Empty /\ leftover = Empty /\ saved = Empty
  /\ counter = [d \in AnyDriver |-> 0] /\ center = 0
  /\ fresh = PersistedWriter /\ freed = {}
  /\ reverted = "no"
  /\ read = [k \in SourceKey |-> 0] /\ displaced = {}
  /\ fault = 0 /\ loads = 0

Phase(p) == step.phase = p

\* Keys that several drivers of a configuration persist under.
Shared(c) == {PersistKey(d) : d \in {e \in c : \E f \in c \ {e} : PersistKey(f) = PersistKey(e)}}

KeysOf(c) == {PersistKey(d) : d \in c}

-----------------------------------------------------------------------------
(***************************************************************************)
(* PersistentConfig.                                                       *)
(***************************************************************************)
\* Mutant: fetching leaves the entry.
WithoutNone(p, key) == p

\* persist_config_fetch: the entry leaves the table.
Without(p, key) == Restrict(p, DOMAIN p \ {key})

\* persist_config_add: a second value for a key is destroyed.
With(p, key, value) ==
  [k \in DOMAIN p \cup {key} |-> IF k \in DOMAIN p THEN p[k] ELSE value]

WritersIn(p) == {p[k] : k \in DOMAIN p} \cap PersistedWriter

-----------------------------------------------------------------------------
(***************************************************************************)
(* The init and deinit of one group and its driver.                        *)
(***************************************************************************)
\* affile_sd_init and affile_dd_init: the value persisted is taken.
TakeUp(i) ==
  LET key == PersistKey(i[2])
  IN  /\ persist' = Without(persist, key)
      /\ IF i[2] \in SourceDriver
         THEN /\ pos' = [pos EXCEPT ![i] = IF key \in DOMAIN persist THEN persist[key] ELSE 0]
              /\ UNCHANGED writer
         ELSE /\ writer' = [writer EXCEPT ![i] =
                   IF key \in DOMAIN persist THEN persist[key] ELSE NoWriter]
              /\ UNCHANGED pos

\* affile_sd_deinit and affile_dd_deinit: the value is handed on, or destroyed
\* where another driver or a value left from the start was before it.
HandOn(i) ==
  LET key == PersistKey(i[2])
  IN  IF i \notin on THEN UNCHANGED <<persist, pos, writer, freed>>
      ELSE IF i[2] \in SourceDriver
      THEN /\ persist' = With(persist, key, pos[i])
           /\ pos' = [pos EXCEPT ![i] = 0]
           /\ UNCHANGED <<writer, freed>>
      ELSE /\ IF writer[i] = NoWriter THEN UNCHANGED persist
              ELSE persist' = With(persist, key, writer[i])
           /\ freed' = IF key \in DOMAIN persist THEN freed \cup ({writer[i]} \ {NoWriter})
                       ELSE freed
           /\ writer' = [writer EXCEPT ![i] = NoWriter]
           /\ UNCHANGED pos

\* log_source_group_init, log_dest_group_init: a counter that an instance of
\* another generation still has is not given again.
InitComponent(g, d) ==
  /\ TakeUp(<<g, d>>)
  /\ on' = on \cup {<<g, d>>}
  /\ counter' = [counter EXCEPT ![d] = IF @ = 0 THEN g ELSE @]

\* log_source_group_deinit, log_dest_group_deinit.
DeinitComponent(g, d) ==
  /\ HandOn(<<g, d>>)
  /\ on' = on \ {<<g, d>>}
  /\ counter' = [counter EXCEPT ![d] = IF @ = g THEN 0 ELSE @]

\* Sources come before destinations, in any order.
NextComponent(d) ==
  /\ d \in step.todo
  /\ d \in DestDriver => step.todo \cap SourceDriver = {}

Visit(phase, d) ==
  /\ Phase(phase)
  /\ NextComponent(d)
  /\ step' = [step EXCEPT !.todo = @ \ {d}]

GoTo(phase, todo) == step' = [phase |-> phase, todo |-> todo]

\* persist_config_free destroys what no driver took up.
FreePersist ==
  /\ persist' = Empty
  /\ freed' = freed \cup WritersIn(persist)
  /\ displaced' = displaced \cup (SourceKey \cap DOMAIN persist)

Registered(g) == center' = IF center = 0 THEN g ELSE center

-----------------------------------------------------------------------------
(***************************************************************************)
(* Start (main).                                                           *)
(***************************************************************************)
\* persist_config_load.
Start(c) ==
  /\ Phase("stopped")
  /\ loads < MaxLoads
  /\ loads' = loads + 1
  /\ config' = [g \in {1} |-> c] /\ active' = 1
  /\ reverted' = "no" /\ fault' = 0
  /\ persist' = saved
  /\ displaced' = displaced \cup (SourceKey \cap Shared(c))
  /\ GoTo("starting", c)
  /\ UNCHANGED <<on, pos, read, writer_vars, stat_vars, leftover, saved>>

StartComponent(d) ==
  /\ Visit("starting", d)
  /\ InitComponent(1, d)
  /\ UNCHANGED <<read, displaced, fresh, freed, center, process_vars, leftover, saved>>

Started ==
  /\ Phase("starting") /\ step.todo = {}
  /\ Registered(1)
  /\ leftover' = persist /\ persist' = Empty
  /\ displaced' = displaced \cup DOMAIN persist
  /\ GoTo("running", {})
  /\ UNCHANGED <<pos, read, writer_vars, counter, process_vars, on, saved>>

\* What the memory of the process held is gone.
ProcessGone ==
  /\ on' = {} /\ pos' = [i \in Gen \X SourceDriver |-> 0]
  /\ writer' = [i \in Gen \X DestDriver |-> NoWriter]
  /\ fresh' = PersistedWriter /\ freed' = {}
  /\ counter' = [d \in AnyDriver |-> 0] /\ center' = 0
  /\ persist' = Empty /\ leftover' = Empty
  /\ GoTo("stopped", {})

\* A driver cannot be initialised (a socket, say): main returns.
StartFails ==
  /\ Phase("starting")
  /\ ProcessGone
  /\ UNCHANGED <<config, active, reverted, fault, loads, read, displaced, saved>>

-----------------------------------------------------------------------------
(***************************************************************************)
(* Reload (cfg_reload_config), with a file that can be parsed.             *)
(***************************************************************************)
StartReload(c) ==
  /\ Phase("running")
  /\ Cardinality(DOMAIN config) < MaxGenerationsMade
  /\ loads < MaxLoads
  /\ loads' = loads + 1
  /\ config' = [g \in 1..(Cardinality(DOMAIN config) + 1) |->
                  IF g \in DOMAIN config THEN config[g] ELSE c]
  /\ displaced' = displaced \cup (SourceKey \cap Shared(c))
  /\ GoTo("deinit", config[active])
  /\ UNCHANGED <<active, reverted, fault, pos, read, writer_vars, stat_vars,
                 on, persist, leftover, saved>>

Newest == Cardinality(DOMAIN config)

DeinitDriver(d) ==
  /\ Visit("deinit", d)
  /\ DeinitComponent(active, d)
  /\ UNCHANGED <<read, displaced, fresh, center, process_vars, leftover, saved>>

\* Mutant: the new configuration is initialised before all of the old one stopped.
DeinitialisedEarly ==
  /\ Phase("deinit")
  /\ center' = IF center = active THEN 0 ELSE center
  /\ GoTo("init", config[Newest])
  /\ UNCHANGED <<position_vars, writer_vars, counter, process_vars, on, persist, leftover, saved>>

Deinitialised ==
  /\ Phase("deinit") /\ step.todo = {}
  /\ center' = IF center = active THEN 0 ELSE center
  /\ GoTo("init", config[Newest])
  /\ UNCHANGED <<position_vars, writer_vars, counter, process_vars, on, persist, leftover, saved>>

InitDriver(d) ==
  /\ Visit("init", d)
  /\ InitComponent(Newest, d)
  /\ UNCHANGED <<read, displaced, fresh, freed, center, process_vars, leftover, saved>>

\* "New configuration initialized".
Reloaded ==
  /\ Phase("init") /\ step.todo = {}
  /\ Registered(Newest)
  /\ active' = Newest
  /\ FreePersist
  /\ GoTo("running", {})
  /\ UNCHANGED <<config, reverted, fault, loads, pos, read, writer, fresh, counter,
                 on, leftover, saved>>

\* A further driver of the new configuration fails: what was initialised stays
\* so, with the positions it took up.
InitFails ==
  /\ Phase("init")
  /\ reverted' = "done"
  /\ displaced' = displaced \cup
       {PersistKey(i[2]) : i \in {j \in on : j[1] = Newest /\ j[2] \in SourceDriver}}
  /\ GoTo("revert", config[active])
  /\ UNCHANGED <<config, active, fault, loads, pos, read, writer_vars, stat_vars,
                 on, persist, leftover, saved>>

RevertDriver(d) ==
  /\ Visit("revert", d)
  /\ InitComponent(active, d)
  /\ UNCHANGED <<read, displaced, fresh, freed, center, process_vars, leftover, saved>>

\* The result of cfg_init(cfg, persist) is not looked at.
Reverted ==
  /\ Phase("revert")
  /\ \/ step.todo = {} /\ Registered(active) /\ UNCHANGED reverted
     \/ reverted' = "failed" /\ UNCHANGED center
  /\ FreePersist
  /\ GoTo("running", {})
  /\ UNCHANGED <<config, active, fault, loads, pos, read, writer, fresh, counter,
                 on, leftover, saved>>

-----------------------------------------------------------------------------
(***************************************************************************)
(* A message, from the reader of a source to the writers.  Every group and *)
(* the center count it through a pointer, NULL where the counter was not   *)
(* registered for them.                                                    *)
(***************************************************************************)
Route(g) == {<<g, d>> : d \in config[g] \cap DestDriver}

Countable(i) ==
  /\ center = i[1]
  /\ \A j \in Route(i[1]) \cup {i} : counter[j[2]] = i[1]

Message(i) ==
  /\ Phase("running")
  /\ i \in on /\ i[2] \in SourceDriver /\ pos[i] < MaxPos
  /\ Countable(i)
  /\ pos' = [pos EXCEPT ![i] = @ + 1]
  /\ read' = [read EXCEPT ![PersistKey(i[2])] = IF @ < pos'[i] THEN pos'[i] ELSE @]
  /\ LET opened == {j \in Route(i[1]) : writer[j] = NoWriter}
     IN  \E new \in Injection(opened, fresh) :
           /\ writer' = [j \in DOMAIN writer |-> IF j \in opened THEN new[j] ELSE writer[j]]
           /\ fresh' = fresh \ {new[j] : j \in opened}
  /\ UNCHANGED <<displaced, freed, stat_vars, process_vars, step, on, persist, leftover, saved>>

Gone ==
  displaced \cup {PersistKey(i[2]) : i \in {j \in on : j[2] \in SourceDriver}}

MessageFaults(i) ==
  /\ Phase("running")
  /\ i \in on /\ i[2] \in SourceDriver /\ pos[i] < MaxPos
  /\ ~Countable(i)
  /\ fault' = i[1]
  /\ displaced' = Gone
  /\ ProcessGone
  /\ UNCHANGED <<config, active, reverted, loads, read, saved>>

Crash ==
  /\ Phase("running")
  /\ displaced' = Gone
  /\ ProcessGone
  /\ UNCHANGED <<config, active, reverted, fault, loads, read, saved>>

-----------------------------------------------------------------------------
(***************************************************************************)
(* Shutdown (main): cfg_deinit into the PersistentConfig loaded at start.  *)
(***************************************************************************)
StartExit ==
  /\ Phase("running")
  /\ persist' = leftover
  /\ GoTo("exiting", config[active])
  /\ UNCHANGED <<position_vars, writer_vars, stat_vars, process_vars, on, leftover, saved>>

ExitDriver(d) ==
  /\ Visit("exiting", d)
  /\ DeinitComponent(active, d)
  /\ UNCHANGED <<read, displaced, fresh, center, process_vars, leftover, saved>>

\* persist_config_save: a value loaded at start and not taken up is not saved.
Survivors == Restrict(persist, (SourceKey \cap DOMAIN persist) \ DOMAIN leftover)

Exited ==
  /\ Phase("exiting") /\ step.todo = {}
  /\ saved' = Survivors
  /\ ProcessGone
  /\ UNCHANGED <<process_vars, read, displaced>>

ReloadNext ==
  \/ \E c \in Config : Start(c) \/ StartReload(c)
  \/ \E d \in AnyDriver :
       \/ StartComponent(d) \/ DeinitDriver(d) \/ InitDriver(d)
       \/ RevertDriver(d) \/ ExitDriver(d)
  \/ Started \/ StartFails \/ Deinitialised \/ Reloaded \/ InitFails \/ Reverted
  \/ \E i \in on : Message(i) \/ MessageFaults(i)
  \/ Crash \/ StartExit \/ Exited

ReloadSpec == ReloadInit /\ [][ReloadNext]_reload_vars

-----------------------------------------------------------------------------
\* Over reloads, also those that fail, and restarts a source reads on where the
\* last reader of its file stopped, except for a position that the failed
\* configuration had taken, that nothing took up, or that was never handed on.
PositionKept ==
  \A i \in on : i[2] \in SourceDriver /\ PersistKey(i[2]) \notin displaced
                 => pos[i] = read[PersistKey(i[2])]

\* A writer, with the messages queued in it, has one owner - a driver or the
\* PersistentConfig - until it is freed, and none after that.
WritersOwned ==
  \A w \in PersistedWriter :
    Cardinality({i \in DOMAIN writer : writer[i] = w})
      + Cardinality({k \in DOMAIN persist : persist[k] = w})
      = IF w \in fresh \cup freed THEN 0 ELSE 1

HeldUnder(w) ==
  {k \in DOMAIN persist : persist[k] = w}
    \cup {PersistKey(i[2]) : i \in {j \in DOMAIN writer : writer[j] = w}}

\* A reload that succeeds frees no writer, and so loses nothing queued, unless
\* the new configuration has no destination for it, or two had one name.
WritersKept ==
  [][\A w \in freed' \ freed : \A k \in HeldUnder(w) :
       \/ k \notin KeysOf(config[Newest])
       \/ k \in Shared(config[active])
       \/ reverted' # "no"]_reload_vars

\* No message meets a counter that is not registered, and the drivers running
\* are those of the active configuration, unless a reload failed before.
OneConfiguration ==
  reverted = "no" =>
    /\ fault = 0
    /\ Phase("running") => on = {active} \X config[active]

\* cfg_reload_config says of a configuration that fails: "reverting to old
\* config".  When that was initialised again, its sources can log.
OldConfigurationWorks == reverted = "done" => fault # active
=============================================================================
