----------------------------- MODULE ReloadProofs -----------------------------
(***************************************************************************)
(* Theorems about configurations: over the life of the process, for any    *)
(* drivers, configurations, writers and numbers of reloads and restarts    *)
(* (Reload), and as they are parsed, for any names, kinds of drivers, texts *)
(* and depth of the stack (CfgGrammar, from GroupText on).                 *)
(***************************************************************************)
EXTENDS Reload, CfgGrammar, SequenceLemmas

-----------------------------------------------------------------------------
(***************************************************************************)
(* The invariants, from the configurations to what depends on them.  The   *)
(* instances that a reload or a start is about are those of generation     *)
(* Cur.                                                                    *)
(***************************************************************************)

Cur == IF Phase("init") THEN Newest ELSE active

Steps == {"stopped", "starting", "running", "deinit", "init", "revert", "exiting"}

ConfigOK ==
  /\ Newest \in Gen /\ config \in [1..Newest -> SUBSET AnyDriver]
  /\ active \in 1..Newest

StepOK ==
  /\ step \in [phase : Steps, todo : SUBSET AnyDriver]
  /\ step.todo \subseteq config[Cur]
  /\ Phase("starting") => active = 1
  /\ Phase("deinit") \/ Phase("init") \/ Phase("revert") => active # Newest

\* Which instances are initialised, whatever failed before.
OnOK ==
  /\ \A i \in on : i \in (1..Newest) \X AnyDriver /\ i[2] \in config[i[1]]
  /\ Phase("stopped") => on = {}
  /\ Phase("starting") \/ Phase("init") \/ Phase("revert") =>
       \A d \in step.todo : <<Cur, d>> \notin on
  /\ Phase("deinit") \/ Phase("exiting") =>
       \A i \in on : i[1] = active => i[2] \in step.todo
  /\ Phase("deinit") => \A i \in on : i[1] # Newest
  /\ Phase("init") => \A i \in on : i[1] # active

IsPositions(p) == \A k \in DOMAIN p : k \in SourceKey /\ p[k] \in 0..MaxPos

\* The tables of persistent values.
PersistOK ==
  /\ \A k \in DOMAIN persist : IF k \in SourceKey THEN persist[k] \in 0..MaxPos
                               ELSE persist[k] \in PersistedWriter
  /\ IsPositions(leftover) /\ IsPositions(saved)
  /\ Phase("stopped") \/ Phase("running") => persist = Empty
  /\ Phase("starting") => IsPositions(persist)

DataOK ==
  /\ pos \in [Gen \X SourceDriver -> 0..MaxPos]
  /\ writer \in [Gen \X DestDriver -> PersistedWriter \cup {NoWriter}]
  /\ fresh \subseteq PersistedWriter /\ freed \subseteq PersistedWriter
  /\ read \in [SourceKey -> 0..MaxPos]

Base == ConfigOK /\ StepOK /\ OnOK /\ PersistOK /\ DataOK

-----------------------------------------------------------------------------
\* The drivers of generation Cur between init and deinit, if no reload failed.
Live ==
  IF Phase("stopped") THEN {}
  ELSE IF Phase("starting") \/ Phase("init") THEN config[Cur] \ step.todo
  ELSE IF Phase("running") THEN config[Cur]
  ELSE step.todo

\* Until a reload fails nothing else is initialised, and the counters of just
\* these drivers are registered, for them.
Registration ==
  /\ on = {Cur} \X Live
  /\ counter = [d \in AnyDriver |-> IF d \in Live THEN Cur ELSE 0]
  /\ center = IF Phase("running") \/ Phase("deinit") \/ Phase("exiting")
              THEN active ELSE 0

CountersOK ==
  /\ reverted = "no" => fault = 0
  /\ Phase("revert") => reverted # "no"
  /\ reverted = "no" \/ Phase("stopped") => Registration

-----------------------------------------------------------------------------
Owners(w) == {i \in DOMAIN writer : writer[i] = w}
Keys(w) == {k \in DOMAIN persist : persist[k] = w}

\* A writer that is not free has one owner: an instance or the PersistentConfig.
Owned(w) ==
  /\ w \notin fresh \cap freed
  /\ IF w \in fresh \cup freed THEN Owners(w) = {} /\ Keys(w) = {}
     ELSE \/ Keys(w) = {} /\ \E i \in Gen \X DestDriver : Owners(w) = {i}
          \/ Owners(w) = {} /\ \E k \in DOMAIN persist : Keys(w) = {k}

\* An instance that is not initialised has neither a writer nor the counter.
WritersOK ==
  /\ counter \in [AnyDriver -> Nat]
  /\ \A d \in AnyDriver : counter[d] # 0 => <<counter[d], d>> \in on
  /\ \A i \in Gen \X DestDriver : i \notin on => writer[i] = NoWriter
  /\ \A w \in PersistedWriter : Owned(w)

-----------------------------------------------------------------------------
\* The sources that read the file of a position.
Readers(k) == {i \in on : i[2] \in SourceDriver /\ PersistKey(i[2]) = k}
ValueIn(p, k) == IF k \in DOMAIN p THEN p[k] ELSE 0

\* Where the position of a file is: with the one reader, handed on, or saved.
Located(k) ==
  /\ \A i \in Readers(k) : i[1] = Cur /\ pos[i] = read[k]
  /\ k \in DOMAIN persist => persist[k] = read[k] /\ Readers(k) = {}
  /\ Phase("stopped") \/ Phase("starting") => ValueIn(saved, k) = read[k]
  /\ ~Phase("stopped") /\ Readers(k) = {} /\ k \notin DOMAIN persist =>
       read[k] = 0 /\ ValueIn(saved, k) = 0

\* The two kinds of keys whose position may be lost at once.
Known ==
  /\ \A g \in 1..Newest : SourceKey \cap Shared(config[g]) \subseteq displaced
  /\ DOMAIN leftover \subseteq displaced

PositionsOK == Known /\ \A k \in SourceKey \ displaced : Located(k)

-----------------------------------------------------------------------------
(***************************************************************************)
(* What every state satisfies, whatever fails.                             *)
(***************************************************************************)

LEMMA NewestOfRange ==
  ASSUME NEW n \in Nat, DOMAIN config = 1..n
  PROVE  Newest = n
BY FS_Interval DEF Newest

LEMMA InitBase == ReloadInit => Base
<1> SUFFICES ASSUME ReloadInit PROVE Base  OBVIOUS
<1> USE ReloadAssumption DEF ReloadInit
<1>1. DOMAIN config = 1..1  OBVIOUS
<1>2. Newest = 1  BY <1>1, NewestOfRange
<1>3. ConfigOK  BY <1>1, <1>2 DEF ConfigOK, Gen
<1>4. StepOK  BY <1>2 DEF StepOK, Steps, Phase, Cur
<1>5. OnOK  BY <1>2 DEF OnOK, Phase
<1>6. PersistOK  BY DEF PersistOK, IsPositions, Empty, Phase
<1>7. DataOK  BY DEF DataOK
<1> QED  BY <1>3, <1>4, <1>5, <1>6, <1>7 DEF Base

\* The configurations change at start and reload only.
LEMMA SameConfig ==
  ASSUME Base, UNCHANGED config, active' \in 1..Newest
  PROVE  ConfigOK' /\ Newest' = Newest
<1>1. Newest' = Newest  BY DEF Newest
<1> QED  BY <1>1 DEF Base, ConfigOK

\* An instance that takes up its value leaves the tables well typed.
LEMMA InitTyped ==
  ASSUME Base, NEW g \in 1..Newest, NEW d \in config[g], InitComponent(g, d),
         UNCHANGED <<leftover, saved, read, fresh, freed>>,
         step'.phase = step.phase,
         Phase("starting") \/ Phase("init") \/ Phase("revert")
  PROVE  PersistOK' /\ DataOK'
<1> DEFINE key == PersistKey(d)
<1> USE ReloadAssumption
<1>0. <<g, d>> \in Gen \X AnyDriver /\ <<g, d>>[2] = d  BY DEF Base, ConfigOK, Gen
<1>1. DOMAIN persist' \subseteq DOMAIN persist /\ \A k \in DOMAIN persist' : persist'[k] = persist[k]
  BY <1>0 DEF InitComponent, TakeUp, Without, Restrict
<1>2. PersistOK'
  BY <1>1 DEF Base, PersistOK, IsPositions, Phase
<1>3. CASE d \in SourceDriver
  <2>1. key \in SourceKey  BY <1>3 DEF SourceKey
  <2>2. (IF key \in DOMAIN persist THEN persist[key] ELSE 0) \in 0..MaxPos
    BY <2>1 DEF Base, PersistOK
  <2>3. pos' = [pos EXCEPT ![<<g, d>>] = IF key \in DOMAIN persist THEN persist[key] ELSE 0] /\ UNCHANGED writer
    BY <1>0, <1>3 DEF InitComponent, TakeUp
  <2> HIDE DEF key
  <2>4. pos' \in [Gen \X SourceDriver -> 0..MaxPos]  BY <2>2, <2>3 DEF Base, DataOK
  <2> QED  BY <1>2, <2>3, <2>4 DEF Base, DataOK
<1>4. CASE d \notin SourceDriver
  <2>1. d \in DestDriver /\ key \notin SourceKey  BY <1>0, <1>4 DEF SourceKey, AnyDriver
  <2>2. (IF key \in DOMAIN persist THEN persist[key] ELSE NoWriter) \in PersistedWriter \cup {NoWriter}
    BY <2>1 DEF Base, PersistOK
  <2>3. writer' = [writer EXCEPT ![<<g, d>>] = IF key \in DOMAIN persist THEN persist[key] ELSE NoWriter] /\ UNCHANGED pos
    BY <1>0, <1>4 DEF InitComponent, TakeUp
  <2> HIDE DEF key
  <2>4. writer' \in [Gen \X DestDriver -> PersistedWriter \cup {NoWriter}]  BY <2>2, <2>3 DEF Base, DataOK
  <2> QED  BY <1>2, <2>3, <2>4 DEF Base, DataOK
<1> QED  BY <1>3, <1>4

\* So does one that hands its value on.
LEMMA DeinitTyped ==
  ASSUME Base, NEW d \in AnyDriver, DeinitComponent(active, d),
         UNCHANGED <<leftover, saved, read, fresh>>,
         step'.phase = step.phase, Phase("deinit") \/ Phase("exiting")
  PROVE  PersistOK' /\ DataOK'
<1> DEFINE key == PersistKey(d)  i == <<active, d>>
<1> USE ReloadAssumption
<1>0. i \in Gen \X AnyDriver /\ i[2] = d  BY DEF Base, ConfigOK, Gen
<1>1. CASE i \notin on
  BY <1>1 DEF DeinitComponent, HandOn, Base, PersistOK, DataOK, Phase
<1>2. CASE i \in on /\ d \in SourceDriver
  <2>1. key \in SourceKey /\ i \in Gen \X SourceDriver  BY <1>0, <1>2 DEF SourceKey
  <2>2. persist' = With(persist, key, pos[i]) /\ pos' = [pos EXCEPT ![i] = 0] /\ UNCHANGED <<writer, freed>>
    BY <1>0, <1>2 DEF DeinitComponent, HandOn
  <2> HIDE DEF key, i
  <2>3. pos[i] \in 0..MaxPos /\ 0 \in 0..MaxPos  BY <2>1 DEF Base, DataOK
  <2>4. PersistOK'  BY <2>1, <2>2, <2>3 DEF Base, PersistOK, With, Phase, IsPositions
  <2>5. pos' \in [Gen \X SourceDriver -> 0..MaxPos]  BY <2>2, <2>3 DEF Base, DataOK
  <2>6. DataOK'  BY <2>2, <2>5 DEF Base, DataOK
  <2> QED  BY <2>4, <2>6
<1>3. CASE i \in on /\ d \notin SourceDriver
  <2>1. key \notin SourceKey /\ i \in Gen \X DestDriver  BY <1>0, <1>3 DEF SourceKey, AnyDriver
  <2>2. /\ IF writer[i] = NoWriter THEN UNCHANGED persist ELSE persist' = With(persist, key, writer[i])
        /\ freed' \subseteq freed \cup ({writer[i]} \ {NoWriter})
        /\ writer' = [writer EXCEPT ![i] = NoWriter] /\ UNCHANGED pos
    BY <1>0, <1>3 DEF DeinitComponent, HandOn
  <2> HIDE DEF key, i
  <2>3. writer[i] \in PersistedWriter \cup {NoWriter}  BY <2>1 DEF Base, DataOK
  <2>4. PersistOK'  BY <2>1, <2>2, <2>3 DEF Base, PersistOK, With, Phase, IsPositions
  <2>5. DataOK'  BY <2>2, <2>3 DEF Base, DataOK
  <2> QED  BY <2>4, <2>5
<1> QED  BY <1>1, <1>2, <1>3

\* Nothing is left of the memory of a process.
LEMMA GoneTyped ==
  ASSUME Base, ProcessGone, UNCHANGED <<config, active, read>>,
         IsPositions(saved')
  PROVE  Base'
<1> USE ReloadAssumption
<1>1. ConfigOK' /\ Newest' = Newest  BY SameConfig DEF Base, ConfigOK
<1>2. StepOK'  BY DEF ProcessGone, GoTo, StepOK, Steps, Phase
<1>3. OnOK'  BY DEF ProcessGone, GoTo, OnOK, Phase
<1>4. PersistOK'  BY DEF ProcessGone, GoTo, PersistOK, IsPositions, Empty, Phase
<1>5. pos' \in [Gen \X SourceDriver -> 0..MaxPos]  BY DEF ProcessGone
<1>6. DataOK'  BY <1>5 DEF ProcessGone, Base, DataOK
<1> QED  BY <1>1, <1>2, <1>3, <1>4, <1>6 DEF Base

LEMMA BaseStep == Base /\ [ReloadNext]_reload_vars => Base'
<1> SUFFICES ASSUME Base, [ReloadNext]_reload_vars PROVE Base'  OBVIOUS
<1> USE ReloadAssumption
<1> DEFINE Vars == <<config, active, step, on, persist, leftover, saved, pos, writer, fresh, freed, read>>
<1>1. ASSUME NEW c \in Config, Start(c) PROVE Base'
  <2>0. DOMAIN config' = 1..1 /\ config'[1] = c /\ c \subseteq AnyDriver
    BY <1>1 DEF Start, AnyDriver
  <2>1. Newest' = 1
    <3>1. DOMAIN config' = {1}  BY <2>0
    <3> QED  BY <3>1, FS_Singleton, Zenon DEF Newest
  <2>2. ConfigOK'  BY <1>1, <2>0, <2>1 DEF Start, ConfigOK, Gen
  <2>3. StepOK'  BY <1>1, <2>0, <2>1 DEF Start, GoTo, StepOK, Steps, Phase, Cur
  <2>4. OnOK'  BY <1>1, <2>0, <2>1 DEF Start, GoTo, Base, OnOK, Phase, Cur
  <2>5. PersistOK'  BY <1>1 DEF Start, GoTo, Base, PersistOK, IsPositions, Phase
  <2>6. DataOK'  BY <1>1 DEF Start, Base, DataOK, writer_vars
  <2> QED  BY <2>2, <2>3, <2>4, <2>5, <2>6 DEF Base
<1>2. ASSUME NEW c \in Config, StartReload(c) PROVE Base'
  <2>0. Newest \in Nat /\ Newest < MaxGenerationsMade /\ DOMAIN config = 1..Newest
    BY <1>2 DEF StartReload, Newest, Base, ConfigOK, Gen
  <2>1. /\ config' = [g \in 1..(Newest + 1) |-> IF g \in DOMAIN config THEN config[g] ELSE c]
        /\ DOMAIN config' = 1..(Newest + 1)
    BY <1>2 DEF StartReload, Newest
  <2>2. Newest' = Newest + 1  BY <2>0, <2>1, FS_Interval DEF Newest
  <2>3. ConfigOK'  BY <1>2, <2>0, <2>1, <2>2 DEF StartReload, Base, ConfigOK, Gen, AnyDriver
  <2>4. \A g \in 1..Newest : config'[g] = config[g]  BY <2>0, <2>1
  <2>5. StepOK'
    BY <1>2, <2>0, <2>2, <2>3, <2>4 DEF StartReload, GoTo, Base, ConfigOK, StepOK, Steps, Phase, Cur
  <2>6. OnOK'
    BY <1>2, <2>0, <2>2, <2>4 DEF StartReload, GoTo, Base, ConfigOK, OnOK, Phase, Cur
  <2>7. PersistOK'  BY <1>2 DEF StartReload, GoTo, Base, PersistOK, IsPositions, Phase
  <2>8. DataOK'  BY <1>2 DEF StartReload, Base, DataOK, writer_vars
  <2> QED  BY <2>3, <2>5, <2>6, <2>7, <2>8 DEF Base
<1>3. ASSUME NEW d \in AnyDriver, StartComponent(d) \/ InitDriver(d) \/ RevertDriver(d) PROVE Base'
  <2>0. UNCHANGED <<config, active, leftover, saved, read, fresh, freed>>
    BY <1>3 DEF StartComponent, InitDriver, RevertDriver, process_vars
  <2>1. ConfigOK' /\ Newest' = Newest  BY <2>0, SameConfig DEF Base, ConfigOK
  <2>2. /\ Phase("starting") \/ Phase("init") \/ Phase("revert")
        /\ d \in step.todo /\ step' = [step EXCEPT !.todo = @ \ {d}]
        /\ InitComponent(Cur, d)
    BY <1>3 DEF StartComponent, InitDriver, RevertDriver, Visit, NextComponent, Cur, Phase, Base, StepOK
  <2>3. step'.phase = step.phase /\ step'.todo = step.todo \ {d} /\ Cur' = Cur
    BY <2>0, <2>1, <2>2 DEF Cur, Phase, Base, StepOK
  <2>4. StepOK'  BY <2>0, <2>1, <2>2, <2>3 DEF Base, StepOK, Phase
  <2>5. Cur \in 1..Newest /\ d \in config[Cur]  BY <2>2 DEF Base, StepOK, ConfigOK, Gen, Cur
  <2>6. on' = on \cup {<<Cur, d>>}  BY <2>2 DEF InitComponent
  <2>7. OnOK'
    BY <2>0, <2>1, <2>2, <2>3, <2>5, <2>6 DEF Base, OnOK, Phase, Cur, StepOK
  <2>8. PersistOK' /\ DataOK'  BY <2>0, <2>2, <2>3, <2>5, InitTyped
  <2> QED  BY <2>1, <2>4, <2>7, <2>8 DEF Base
<1>4. ASSUME NEW d \in AnyDriver, DeinitDriver(d) \/ ExitDriver(d) PROVE Base'
  <2>0. UNCHANGED <<config, active, leftover, saved, read, fresh>>
    BY <1>4 DEF DeinitDriver, ExitDriver, process_vars
  <2>1. ConfigOK' /\ Newest' = Newest  BY <2>0, SameConfig DEF Base, ConfigOK
  <2>2. /\ Phase("deinit") \/ Phase("exiting")
        /\ d \in step.todo /\ step' = [step EXCEPT !.todo = @ \ {d}]
        /\ DeinitComponent(active, d)
    BY <1>4 DEF DeinitDriver, ExitDriver, Visit, NextComponent, Phase
  <2>3. step'.phase = step.phase /\ step'.todo = step.todo \ {d} /\ Cur' = Cur /\ Cur = active
    BY <2>0, <2>1, <2>2 DEF Cur, Phase, Base, StepOK
  <2>4. StepOK'  BY <2>0, <2>1, <2>2, <2>3 DEF Base, StepOK, Phase
  <2>6. on' = on \ {<<active, d>>}  BY <2>2 DEF DeinitComponent
  <2>7. OnOK'
    BY <2>0, <2>1, <2>2, <2>3, <2>6 DEF Base, OnOK, Phase, StepOK
  <2>8. PersistOK' /\ DataOK'  BY <2>0, <2>2, <2>3, DeinitTyped
  <2> QED  BY <2>1, <2>4, <2>7, <2>8 DEF Base
<1>5. CASE Started
  <2>1. ConfigOK' /\ Newest' = Newest  BY <1>5, SameConfig DEF Started, process_vars, Base, ConfigOK
  <2>2. StepOK' /\ OnOK'
    BY <1>5, <2>1 DEF Started, GoTo, Base, StepOK, OnOK, Steps, Phase, Cur, process_vars
  <2>3. PersistOK'  BY <1>5 DEF Started, GoTo, Base, PersistOK, IsPositions, Empty, Phase
  <2>4. DataOK'  BY <1>5 DEF Started, Base, DataOK, writer_vars
  <2> QED  BY <2>1, <2>2, <2>3, <2>4 DEF Base
<1>6. CASE StartFails
  BY <1>6, GoneTyped DEF StartFails, Base, PersistOK, IsPositions
<1>7. CASE Deinitialised
  <2>1. ConfigOK' /\ Newest' = Newest  BY <1>7, SameConfig DEF Deinitialised, process_vars, Base, ConfigOK
  <2>0. \A i \in on : i[1] # active /\ i[1] # Newest
    BY <1>7 DEF Deinitialised, Base, OnOK, Phase
  <2>2. StepOK'
    <3>1. config[Newest] \subseteq AnyDriver  BY DEF Base, ConfigOK, Gen
    <3>2. step' = [phase |-> "init", todo |-> config[Newest]] /\ UNCHANGED <<config, active>>
      BY <1>7 DEF Deinitialised, GoTo, process_vars
    <3>3. active # Newest  BY <1>7 DEF Deinitialised, Base, StepOK, Phase
    <3> QED  BY <2>1, <3>1, <3>2, <3>3 DEF StepOK, Steps, Phase, Cur
  <2>5. OnOK'
    BY <1>7, <2>0, <2>1 DEF Deinitialised, GoTo, Base, OnOK, Phase, Cur, process_vars
  <2>3. PersistOK'  BY <1>7 DEF Deinitialised, GoTo, Base, PersistOK, IsPositions, Phase
  <2>4. DataOK'  BY <1>7 DEF Deinitialised, Base, DataOK, writer_vars, position_vars
  <2> QED  BY <2>1, <2>2, <2>3, <2>4, <2>5 DEF Base
<1>8. CASE Reloaded \/ Reverted
  <2>0. /\ UNCHANGED <<config, on, leftover, saved, pos, writer, fresh, read>> /\ active' \in {active, Newest}
        /\ step' = [phase |-> "running", todo |-> {}] /\ FreePersist
    BY <1>8 DEF Reloaded, Reverted, GoTo
  <2>1. ConfigOK' /\ Newest' = Newest  BY <2>0, SameConfig DEF Base, ConfigOK
  <2>2. StepOK' /\ OnOK'
    BY <2>0, <2>1 DEF Base, StepOK, OnOK, Steps, Phase, Cur
  <2>3. PersistOK'  BY <2>0 DEF FreePersist, Base, PersistOK, IsPositions, Phase, Empty
  <2>4. DataOK'  BY <2>0 DEF FreePersist, WritersIn, Base, DataOK
  <2> QED  BY <2>1, <2>2, <2>3, <2>4 DEF Base
<1>9. CASE InitFails
  <2>1. ConfigOK' /\ Newest' = Newest  BY <1>9, SameConfig DEF InitFails, Base, ConfigOK
  <2>2. StepOK' /\ OnOK'
    BY <1>9, <2>1 DEF InitFails, GoTo, Base, ConfigOK, StepOK, OnOK, Steps, Phase, Cur
  <2>3. PersistOK'  BY <1>9 DEF InitFails, GoTo, Base, PersistOK, IsPositions, Phase
  <2>4. DataOK'  BY <1>9 DEF InitFails, Base, DataOK, writer_vars
  <2> QED  BY <2>1, <2>2, <2>3, <2>4 DEF Base
<1>10. ASSUME NEW i \in on, Message(i) PROVE Base'
  <2>1. ConfigOK' /\ Newest' = Newest  BY <1>10, SameConfig DEF Message, process_vars, Base, ConfigOK
  <2>2. StepOK' /\ OnOK' /\ PersistOK'
    BY <1>10, <2>1 DEF Message, Base, StepOK, OnOK, PersistOK, IsPositions, Phase, Cur, process_vars
  <2>3. i \in Gen \X SourceDriver /\ pos[i] + 1 \in 0..MaxPos
    BY <1>10 DEF Message, Base, ConfigOK, OnOK, DataOK, Gen
  <2>4. pos' = [pos EXCEPT ![i] = @ + 1]
    BY <1>10 DEF Message
  <2>5. pos' \in [Gen \X SourceDriver -> 0..MaxPos] /\ pos'[i] \in 0..MaxPos
    BY <2>3, <2>4 DEF Base, DataOK
  <2>6. read' \in [SourceKey -> 0..MaxPos]
    BY <1>10, <2>3, <2>5 DEF Message, Base, DataOK
  <2>7. writer' \in [Gen \X DestDriver -> PersistedWriter \cup {NoWriter}]
    <3>1. PICK new \in Injection({j \in Route(i[1]) : writer[j] = NoWriter}, fresh) :
            writer' = [j \in DOMAIN writer |->
                         IF j \in {l \in Route(i[1]) : writer[l] = NoWriter} THEN new[j] ELSE writer[j]]
      BY <1>10, Zenon DEF Message
    <3>2. new \in [{j \in Route(i[1]) : writer[j] = NoWriter} -> fresh]  BY DEF Injection, IsInjective
    <3> QED  BY <3>1, <3>2 DEF Base, DataOK
  <2>8. fresh' \subseteq fresh /\ freed' = freed  BY <1>10 DEF Message
  <2>9. DataOK'  BY <2>5, <2>6, <2>7, <2>8 DEF Base, DataOK
  <2> QED  BY <2>1, <2>2, <2>9 DEF Base
<1>11. ASSUME NEW i \in on, MessageFaults(i) PROVE Base'
  BY <1>11, GoneTyped DEF MessageFaults, Base, PersistOK, IsPositions
<1>12. CASE Crash
  BY <1>12, GoneTyped DEF Crash, Base, PersistOK, IsPositions
<1>13. CASE StartExit
  <2>1. ConfigOK' /\ Newest' = Newest  BY <1>13, SameConfig DEF StartExit, process_vars, Base, ConfigOK
  <2>2. StepOK' /\ OnOK'
    BY <1>13, <2>1 DEF StartExit, GoTo, Base, ConfigOK, StepOK, OnOK, Steps, Phase, Cur, process_vars
  <2>3. PersistOK'  BY <1>13 DEF StartExit, GoTo, Base, PersistOK, IsPositions, Phase
  <2>4. DataOK'  BY <1>13 DEF StartExit, Base, DataOK, writer_vars, position_vars
  <2> QED  BY <2>1, <2>2, <2>3, <2>4 DEF Base
<1>14. CASE Exited
  <2>1. IsPositions(saved')
    BY <1>14 DEF Exited, Survivors, Restrict, IsPositions, Base, PersistOK
  <2> QED  BY <1>14, <2>1, GoneTyped DEF Exited, process_vars
<1>15. CASE UNCHANGED reload_vars
  BY <1>15 DEF reload_vars, position_vars, writer_vars, process_vars, Base, ConfigOK, StepOK, OnOK,
     PersistOK, DataOK, IsPositions, Newest, Phase, Cur
<1> QED
  BY <1>1, <1>2, <1>3, <1>4, <1>5, <1>6, <1>7, <1>8, <1>9, <1>10, <1>11, <1>12, <1>13, <1>14, <1>15
  DEF ReloadNext

-----------------------------------------------------------------------------
(***************************************************************************)
(* One configuration and its counters.                                     *)
(***************************************************************************)

LEMMA InitCounters == ReloadInit => CountersOK
<1> SUFFICES ASSUME ReloadInit PROVE CountersOK  OBVIOUS
<1>1. Phase("stopped") /\ Live = {}  BY DEF ReloadInit, Phase, Live
<1> QED  BY <1>1 DEF ReloadInit, CountersOK, Registration, Phase

LEMMA NothingRegistered ==
  ASSUME ProcessGone PROVE Phase("stopped")' /\ Registration'
<1>1. step' = [phase |-> "stopped", todo |-> {}]  BY DEF ProcessGone, GoTo
<1>2. Phase("stopped")'  BY <1>1 DEF Phase
<1>3. Live' = {}  BY <1>2 DEF Live
<1>4. ~(Phase("running") \/ Phase("deinit") \/ Phase("exiting"))'  BY <1>1 DEF Phase
<1> QED  BY <1>2, <1>3, <1>4 DEF ProcessGone, Registration

LEMMA CountersStep ==
  Base /\ Base' /\ CountersOK /\ [ReloadNext]_reload_vars => CountersOK'
<1> SUFFICES ASSUME Base, Base', CountersOK, [ReloadNext]_reload_vars PROVE CountersOK'  OBVIOUS
<1> DEFINE Whole == Phase("running") \/ Phase("deinit") \/ Phase("exiting")
<1>1. ASSUME NEW c \in Config, Start(c) PROVE CountersOK'
  <2>1. Registration /\ Live = {} /\ ~Whole  BY <1>1 DEF Start, CountersOK, Live, Phase
  <2>2. /\ step' = [phase |-> "starting", todo |-> c] /\ config'[1] = c /\ active' = 1
        /\ reverted' = "no" /\ fault' = 0 /\ UNCHANGED <<on, counter, center>>
    BY <1>1 DEF Start, GoTo, stat_vars
  <2>3. Live' = {} /\ Cur' = 1 /\ ~Whole' /\ ~Phase("revert")'  BY <2>2 DEF Live, Cur, Phase
  <2> QED  BY <2>1, <2>2, <2>3 DEF Registration, CountersOK
<1>2. ASSUME NEW c \in Config, StartReload(c) PROVE CountersOK'
  <2>1. /\ step.phase = "running" /\ step' = [phase |-> "deinit", todo |-> config[active]]
        /\ UNCHANGED <<active, reverted, fault, on, counter, center>>
    BY <1>2 DEF StartReload, GoTo, stat_vars, Phase
  <2>2. Live' = Live /\ Cur' = Cur /\ Whole /\ Whole' /\ ~Phase("revert")' /\ ~Phase("stopped")'
    BY <2>1 DEF Live, Cur, Phase
  <2> QED  BY <2>1, <2>2 DEF Registration, CountersOK
<1>3. ASSUME NEW d \in AnyDriver, StartComponent(d) \/ InitDriver(d) \/ RevertDriver(d) PROVE CountersOK'
  <2>1. UNCHANGED <<config, active, reverted, fault, center>>
    BY <1>3 DEF StartComponent, InitDriver, RevertDriver, process_vars
  <2>2. /\ Phase("starting") \/ Phase("init") \/ Phase("revert")
        /\ d \in step.todo /\ step' = [step EXCEPT !.todo = @ \ {d}]
        /\ InitComponent(Cur, d)
    BY <1>3 DEF StartComponent, InitDriver, RevertDriver, Visit, NextComponent, Cur, Phase, Base, StepOK
  <2>3. step'.phase = step.phase /\ step'.todo = step.todo \ {d} /\ Cur' = Cur
    BY <2>1, <2>2 DEF Cur, Phase, Base, StepOK, Newest
  <2>4. CASE reverted # "no"
    BY <2>1, <2>2, <2>3, <2>4 DEF CountersOK, Phase
  <2>5. CASE reverted = "no"
    <3>1. Registration /\ fault = 0 /\ ~Phase("revert")  BY <2>5 DEF CountersOK
    <3>2. Live = config[Cur] \ step.todo /\ Live' = config[Cur] \ (step.todo \ {d})
      BY <2>1, <2>2, <2>3, <3>1 DEF Live, Phase
    <3>3. d \in config[Cur]  BY <2>2 DEF Base, StepOK
    <3>4. Live' = Live \cup {d} /\ d \notin Live  BY <2>2, <3>2, <3>3
    <3>5. on' = on \cup {<<Cur, d>>} /\ counter' = [counter EXCEPT ![d] = IF @ = 0 THEN Cur ELSE @]
      BY <2>2 DEF InitComponent
    <3>6. on' = {Cur'} \X Live'  BY <2>3, <3>1, <3>4, <3>5 DEF Registration
    <3>7. counter' = [e \in AnyDriver |-> IF e \in Live' THEN Cur' ELSE 0]
      BY <2>3, <3>1, <3>4, <3>5 DEF Registration
    <3>8. center' = IF Whole' THEN active' ELSE 0
      BY <2>1, <2>3, <3>1 DEF Registration, Phase
    <3>9. Registration'  BY <3>6, <3>7, <3>8 DEF Registration
    <3> QED  BY <2>1, <2>3, <3>1, <3>9 DEF CountersOK, Phase
  <2> QED  BY <2>4, <2>5
<1>4. ASSUME NEW d \in AnyDriver, DeinitDriver(d) \/ ExitDriver(d) PROVE CountersOK'
  <2>1. UNCHANGED <<config, active, reverted, fault, center>>
    BY <1>4 DEF DeinitDriver, ExitDriver, process_vars
  <2>2. /\ Phase("deinit") \/ Phase("exiting")
        /\ d \in step.todo /\ step' = [step EXCEPT !.todo = @ \ {d}]
        /\ DeinitComponent(active, d)
    BY <1>4 DEF DeinitDriver, ExitDriver, Visit, NextComponent, Phase
  <2>3. step'.phase = step.phase /\ step'.todo = step.todo \ {d} /\ Cur' = Cur /\ Cur = active
    BY <2>1, <2>2 DEF Cur, Phase, Base, StepOK
  <2>4. CASE reverted # "no"
    BY <2>1, <2>2, <2>3, <2>4 DEF CountersOK, Phase
  <2>5. CASE reverted = "no"
    <3>1. Registration /\ fault = 0  BY <2>5 DEF CountersOK
    <3>2. Live = step.todo /\ Live' = Live \ {d}  BY <2>2, <2>3 DEF Live, Phase
    <3>3. on' = on \ {<<active, d>>} /\ counter' = [counter EXCEPT ![d] = IF @ = active THEN 0 ELSE @]
      BY <2>2 DEF DeinitComponent
    <3>4. on' = {Cur'} \X Live'  BY <2>3, <3>1, <3>2, <3>3 DEF Registration
    <3>5. counter' = [e \in AnyDriver |-> IF e \in Live' THEN Cur' ELSE 0]
      BY <2>2, <2>3, <3>1, <3>2, <3>3 DEF Registration
    <3>6. center' = IF Whole' THEN active' ELSE 0
      BY <2>1, <2>3, <3>1 DEF Registration, Phase
    <3>7. Registration'  BY <3>4, <3>5, <3>6 DEF Registration
    <3> QED  BY <2>1, <2>2, <2>3, <3>1, <3>7 DEF CountersOK, Phase
  <2> QED  BY <2>4, <2>5
<1>5. CASE Started \/ Reloaded
  <2>1. /\ (Phase("starting") \/ Phase("init")) /\ step.todo = {}
        /\ step' = [phase |-> "running", todo |-> {}] /\ Registered(Cur)
        /\ UNCHANGED <<config, reverted, fault, on, counter>> /\ active' = Cur
    BY <1>5 DEF Started, Reloaded, GoTo, process_vars, Cur, Phase, Base, StepOK
  <2>2. Cur' = Cur /\ Live' = Live /\ Whole' /\ ~Whole /\ ~Phase("revert")' /\ ~Phase("stopped")'
    BY <2>1 DEF Cur, Live, Phase
  <2> QED  BY <2>1, <2>2 DEF CountersOK, Registration, Registered
<1>6. CASE StartFails \/ Crash \/ Exited
  <2>1. ProcessGone /\ UNCHANGED <<reverted, fault>>  BY <1>6 DEF StartFails, Crash, Exited, process_vars
  <2> QED  BY <2>1, NothingRegistered DEF CountersOK, Phase
<1>7. CASE Deinitialised
  <2>1. /\ step.phase = "deinit" /\ step.todo = {} /\ step' = [phase |-> "init", todo |-> config[Newest]]
        /\ UNCHANGED <<config, active, reverted, fault, on, counter>>
        /\ center' = IF center = active THEN 0 ELSE center
    BY <1>7 DEF Deinitialised, GoTo, process_vars, Phase
  <2>2. Live = {} /\ Live' = {} /\ Whole /\ ~Whole' /\ ~Phase("revert")' /\ ~Phase("stopped")'
    BY <2>1 DEF Live, Phase, Cur, Newest
  <2> QED  BY <2>1, <2>2 DEF CountersOK, Registration
<1>8. CASE InitFails \/ Reverted
  <2>1. reverted' # "no" /\ ~Phase("stopped")'
    BY <1>8 DEF InitFails, Reverted, GoTo, Phase, CountersOK
  <2> QED  BY <2>1 DEF CountersOK
<1>9. ASSUME NEW i \in on, Message(i) PROVE CountersOK'
  BY <1>9 DEF Message, stat_vars, process_vars, CountersOK, Registration, Live, Cur, Phase, Newest
<1>10. ASSUME NEW i \in on, MessageFaults(i) PROVE CountersOK'
  <2>1. ASSUME reverted = "no" PROVE FALSE
    <3>1. Registration /\ step.phase = "running" /\ Live = config[active] /\ Cur = active
      BY <1>10, <2>1 DEF MessageFaults, CountersOK, Live, Phase, Cur
    <3>2. i \in {active} \X config[active] /\ center = active
      BY <3>1 DEF Registration, Phase
    <3>3. \A d \in config[active] : d \in AnyDriver  BY DEF Base, ConfigOK
    <3>4. \A d \in config[active] : counter[d] = active  BY <3>1, <3>3 DEF Registration
    <3>5. Countable(i)  BY <3>2, <3>4 DEF Countable, Route
    <3> QED  BY <1>10, <3>5 DEF MessageFaults
  <2>2. ProcessGone /\ reverted' = reverted  BY <1>10 DEF MessageFaults
  <2> QED  BY <2>1, <2>2, NothingRegistered DEF CountersOK, Phase
<1>11. CASE StartExit
  <2>1. /\ step.phase = "running" /\ step' = [phase |-> "exiting", todo |-> config[active]]
        /\ UNCHANGED <<config, active, reverted, fault, on, counter, center>>
    BY <1>11 DEF StartExit, GoTo, stat_vars, process_vars, Phase
  <2>2. Live' = Live /\ Cur' = Cur /\ Whole /\ Whole' /\ ~Phase("revert")' /\ ~Phase("stopped")'
    BY <2>1 DEF Live, Cur, Phase
  <2> QED  BY <2>1, <2>2 DEF Registration, CountersOK
<1>12. CASE UNCHANGED reload_vars
  BY <1>12 DEF reload_vars, stat_vars, process_vars, CountersOK, Registration, Live, Cur, Phase, Newest
<1> QED
  BY <1>1, <1>2, <1>3, <1>4, <1>5, <1>6, <1>7, <1>8, <1>9, <1>10, <1>11, <1>12
  DEF ReloadNext

\* No step brings anything else than these states.
LEMMA BaseHolds == ReloadSpec => []Base
BY InitBase, BaseStep, PTL DEF ReloadSpec

\* No message meets a counter that is not registered, and the drivers running
\* are those of the active configuration, unless a reload failed before
\* (cfg_reload_config, stats_register_counter).
THEOREM RunsOneConfiguration == ReloadSpec => []OneConfiguration
<1>1. ReloadSpec => [](Base /\ CountersOK)
  BY InitBase, BaseStep, InitCounters, CountersStep, PTL DEF ReloadSpec
<1>2. CountersOK => OneConfiguration
  BY DEF CountersOK, Registration, OneConfiguration, Live, Cur, Phase
<1> QED  BY <1>1, <1>2, PTL

-----------------------------------------------------------------------------
(***************************************************************************)
(* The owners of the writers.                                              *)
(***************************************************************************)

LEMMA OwnedSame ==
  ASSUME NEW w, Owned(w), Owners(w)' = Owners(w), Keys(w)' = Keys(w),
         w \in fresh' <=> w \in fresh, w \in freed' <=> w \in freed
  PROVE  Owned(w)'
BY DEF Owned, Keys

\* Positions are not writers.
LEMMA NoKeys ==
  ASSUME NEW w \in PersistedWriter, IsPositions(persist) PROVE Keys(w) = {}
BY ReloadAssumption DEF Keys, IsPositions

LEMMA TakeUpOwned ==
  ASSUME Base, NEW i \in Gen \X AnyDriver, writer[i] = NoWriter \/ i[2] \in SourceDriver,
         TakeUp(i), UNCHANGED <<fresh, freed>>,
         NEW w \in PersistedWriter, Owned(w)
  PROVE  Owned(w)'
<1> DEFINE key == PersistKey(i[2])
<1> USE ReloadAssumption
<1>1. /\ DOMAIN persist' = DOMAIN persist \ {key}
      /\ \A k \in DOMAIN persist' : persist'[k] = persist[k]
  BY DEF TakeUp, Without, Restrict
<1>2. CASE i[2] \in SourceDriver
  <2>1. key \in SourceKey /\ UNCHANGED writer  BY <1>2 DEF SourceKey, TakeUp
  <2>2. key \in DOMAIN persist => persist[key] # w  BY <2>1 DEF Base, PersistOK
  <2> HIDE DEF key
  <2>3. Keys(w)' = Keys(w)  BY <1>1, <2>2 DEF Keys
  <2>4. Owners(w)' = Owners(w)  BY <2>1 DEF Owners
  <2> QED  BY <2>3, <2>4, OwnedSame
<1>3. CASE i[2] \notin SourceDriver
  <2>1. i \in Gen \X DestDriver /\ writer[i] = NoWriter  BY <1>3 DEF AnyDriver
  <2>2. writer' = [writer EXCEPT ![i] = IF key \in DOMAIN persist THEN persist[key] ELSE NoWriter]
    BY <1>3 DEF TakeUp
  <2>3. DOMAIN writer = Gen \X DestDriver  BY DEF Base, DataOK
  <2> HIDE DEF key
  <2>4. CASE key \in DOMAIN persist /\ persist[key] = w
    <3>1. key \in Keys(w)  BY <2>4 DEF Keys
    <3>2. w \notin fresh \cup freed /\ Owners(w) = {} /\ Keys(w) = {key}  BY <3>1 DEF Owned
    <3>3. Owners(w)' = {i}  BY <2>1, <2>2, <2>3, <2>4, <3>2 DEF Owners
    <3>4. Keys(w)' = {}  BY <1>1, <3>2 DEF Keys
    <3> QED  BY <2>1, <3>2, <3>3, <3>4 DEF Owned
  <2>5. CASE ~(key \in DOMAIN persist /\ persist[key] = w)
    <3>1. Owners(w)' = Owners(w)  BY <2>1, <2>2, <2>3, <2>5 DEF Owners
    <3>2. Keys(w)' = Keys(w)  BY <1>1, <2>5 DEF Keys
    <3> QED  BY <3>1, <3>2, OwnedSame
  <2> QED  BY <2>4, <2>5
<1> QED  BY <1>2, <1>3

LEMMA HandOnOwned ==
  ASSUME Base, NEW i \in Gen \X AnyDriver, HandOn(i), UNCHANGED fresh,
         NEW w \in PersistedWriter, Owned(w)
  PROVE  Owned(w)'
<1> DEFINE key == PersistKey(i[2])
<1> USE ReloadAssumption
<1>1. CASE i \notin on
  BY <1>1, OwnedSame DEF HandOn, Owners, Keys
<1>2. CASE i \in on /\ i[2] \in SourceDriver
  <2>1. /\ persist' = With(persist, key, pos[i]) /\ UNCHANGED <<writer, freed>>
        /\ pos[i] \in Nat
    BY <1>2 DEF HandOn, Base, DataOK
  <2> HIDE DEF key
  <2>2. Keys(w)' = Keys(w)  BY <2>1 DEF Keys, With
  <2>3. Owners(w)' = Owners(w)  BY <2>1 DEF Owners
  <2> QED  BY <2>1, <2>2, <2>3, OwnedSame
<1>3. CASE i \in on /\ i[2] \notin SourceDriver
  <2>1. i \in Gen \X DestDriver  BY <1>3 DEF AnyDriver
  <2>2. /\ IF writer[i] = NoWriter THEN UNCHANGED persist ELSE persist' = With(persist, key, writer[i])
        /\ freed' = IF key \in DOMAIN persist THEN freed \cup ({writer[i]} \ {NoWriter}) ELSE freed
        /\ writer' = [writer EXCEPT ![i] = NoWriter]
    BY <1>3 DEF HandOn
  <2>3. DOMAIN writer = Gen \X DestDriver  BY DEF Base, DataOK
  <2> HIDE DEF key
  <2>4. CASE writer[i] # w
    <3>1. Owners(w)' = Owners(w)  BY <2>1, <2>2, <2>3, <2>4 DEF Owners
    <3>2. Keys(w)' = Keys(w)  BY <2>2, <2>4 DEF Keys, With
    <3>3. w \in freed' <=> w \in freed  BY <2>2, <2>4
    <3> QED  BY <3>1, <3>2, <3>3, OwnedSame
  <2>5. CASE writer[i] = w
    <3>1. i \in Owners(w) /\ w # NoWriter  BY <2>1, <2>3, <2>5 DEF Owners
    <3>2. w \notin fresh \cup freed /\ Owners(w) = {i} /\ Keys(w) = {}  BY <3>1 DEF Owned
    <3>3. Owners(w)' = {}  BY <2>1, <2>2, <2>3, <3>1, <3>2 DEF Owners
    <3>4. persist' = With(persist, key, w)  BY <2>2, <2>5, <3>1
    <3>5. CASE key \in DOMAIN persist
      <4>1. Keys(w)' = {}  BY <3>2, <3>4, <3>5 DEF Keys, With
      <4>2. w \in freed' /\ w \notin fresh'  BY <2>2, <2>5, <3>1, <3>2, <3>5
      <4> QED  BY <3>3, <4>1, <4>2 DEF Owned
    <3>6. CASE key \notin DOMAIN persist
      <4>1. Keys(w)' = {key} /\ key \in DOMAIN persist'  BY <3>2, <3>4, <3>6 DEF Keys, With
      <4>2. w \notin fresh' \cup freed'  BY <2>2, <3>2, <3>6
      <4> QED  BY <3>3, <4>1, <4>2 DEF Owned
    <3> QED  BY <3>5, <3>6
  <2> QED  BY <2>4, <2>5
<1> QED  BY <1>1, <1>2, <1>3

LEMMA FreePersistOwned ==
  ASSUME FreePersist, UNCHANGED <<writer, fresh>>,
         NEW w \in PersistedWriter, Owned(w)
  PROVE  Owned(w)'
<1>1. Owners(w)' = Owners(w) /\ Keys(w)' = {}  BY DEF FreePersist, Owners, Keys, Empty
<1>2. freed' = freed \cup WritersIn(persist)  BY DEF FreePersist
<1>3. w \in WritersIn(persist) <=> Keys(w) # {}  BY DEF WritersIn, Keys
<1>4. CASE Keys(w) = {}
  BY <1>1, <1>2, <1>3, <1>4, OwnedSame
<1>5. CASE Keys(w) # {}
  <2>1. Owners(w) = {} /\ w \in freed' /\ w \notin fresh'  BY <1>2, <1>3, <1>5 DEF Owned
  <2> QED  BY <1>1, <2>1 DEF Owned
<1> QED  BY <1>4, <1>5

LEMMA GoneOwned == ProcessGone => WritersOK'
<1> SUFFICES ASSUME ProcessGone PROVE WritersOK'  OBVIOUS
<1>1. \A w \in PersistedWriter : Owners(w)' = {} /\ Keys(w)' = {}
  BY ReloadAssumption DEF ProcessGone, Owners, Keys, Empty
<1>2. fresh' = PersistedWriter /\ freed' = {}  BY DEF ProcessGone
<1>3. \A w \in PersistedWriter : Owned(w)'  BY <1>1, <1>2 DEF Owned
<1>4. /\ counter' = [d \in AnyDriver |-> 0] /\ on' = {}
      /\ writer' = [i \in Gen \X DestDriver |-> NoWriter]
  BY DEF ProcessGone
<1> QED  BY <1>3, <1>4 DEF WritersOK

LEMMA InitWriters == ReloadInit => WritersOK
<1> SUFFICES ASSUME ReloadInit PROVE WritersOK  OBVIOUS
<1>1. \A w \in PersistedWriter : Owners(w) = {} /\ Keys(w) = {}
  BY ReloadAssumption DEF ReloadInit, Owners, Keys, Empty
<1>2. fresh = PersistedWriter /\ freed = {}  BY DEF ReloadInit
<1>3. \A w \in PersistedWriter : Owned(w)  BY <1>1, <1>2 DEF Owned
<1>4. /\ counter = [d \in AnyDriver |-> 0] /\ on = {}
      /\ writer = [i \in Gen \X DestDriver |-> NoWriter]
  BY DEF ReloadInit
<1> QED  BY <1>3, <1>4 DEF WritersOK

\* A message takes its new writers from the fresh ones.
LEMMA MessageWriters ==
  ASSUME Base, WritersOK, NEW i \in on, Message(i)
  PROVE  WritersOK'
<1> DEFINE opened == {j \in Route(i[1]) : writer[j] = NoWriter}
<1> USE ReloadAssumption
<1>1. PICK new \in Injection(opened, fresh) :
        /\ writer' = [j \in DOMAIN writer |-> IF j \in opened THEN new[j] ELSE writer[j]]
        /\ fresh' = fresh \ {new[j] : j \in opened}
  BY Zenon DEF Message
<1>2. /\ new \in [opened -> fresh]
      /\ \A a, b \in opened : new[a] = new[b] => a = b
  BY DEF Injection, IsInjective
<1>3. UNCHANGED <<counter, on, freed, persist>>  BY DEF Message, stat_vars
<1>4. DOMAIN writer = Gen \X DestDriver  BY DEF Base, DataOK
<1>5. \A j \in Route(i[1]) : j \in Gen \X DestDriver /\ j \in on
  <2> SUFFICES ASSUME NEW j \in Route(i[1]) PROVE j \in Gen \X DestDriver /\ j \in on
    OBVIOUS
  <2>1. i[1] \in Gen /\ i[1] # 0  BY DEF Base, ConfigOK, OnOK, Gen
  <2>2. j = <<i[1], j[2]>> /\ j[2] \in DestDriver  BY DEF Route
  <2>3. counter[j[2]] = i[1]  BY DEF Message, Countable
  <2> QED  BY <2>1, <2>2, <2>3 DEF WritersOK, AnyDriver
<1>6. opened \subseteq Gen \X DestDriver /\ opened \subseteq on  BY <1>5
<1>7. \A j \in opened : writer[j] = NoWriter  OBVIOUS
<1> HIDE DEF opened
<1>8. ASSUME NEW w \in PersistedWriter PROVE Owned(w)'
  <2>1. Owned(w) /\ Keys(w)' = Keys(w)  BY <1>3 DEF WritersOK, Keys
  <2>2. CASE \E j \in opened : new[j] = w
    <3>1. PICK j \in opened : new[j] = w  BY <2>2
    <3>2. w \in fresh  BY <1>2, <3>1
    <3>3. Owners(w) = {} /\ Keys(w) = {}  BY <2>1, <3>2 DEF Owned
    <3>4. Owners(w)' = {j}  BY <1>1, <1>2, <1>4, <1>6, <3>1, <3>3 DEF Owners
    <3>5. w \notin fresh' /\ j \in Gen \X DestDriver  BY <1>1, <1>6, <3>1
    <3>6. w \notin freed'  BY <1>3, <2>1, <3>2 DEF Owned
    <3> QED  BY <2>1, <3>3, <3>4, <3>5, <3>6 DEF Owned
  <2>3. CASE ~\E j \in opened : new[j] = w
    <3>1. Owners(w)' = Owners(w)  BY <1>1, <1>4, <1>7, <2>3 DEF Owners
    <3>2. (w \in fresh' <=> w \in fresh) /\ (w \in freed' <=> w \in freed)  BY <1>1, <1>3, <2>3
    <3> QED  BY <2>1, <3>1, <3>2, OwnedSame
  <2> QED  BY <2>2, <2>3
<1>9. \A j \in Gen \X DestDriver : j \notin on' => writer'[j] = NoWriter
  BY <1>1, <1>3, <1>4, <1>6 DEF WritersOK
<1> QED  BY <1>3, <1>8, <1>9 DEF WritersOK

LEMMA WritersStep ==
  Base /\ Base' /\ WritersOK /\ [ReloadNext]_reload_vars => WritersOK'
<1> SUFFICES ASSUME Base, Base', WritersOK, [ReloadNext]_reload_vars PROVE WritersOK'  OBVIOUS
<1> USE ReloadAssumption
<1>0. \A w \in PersistedWriter : Owned(w)  BY DEF WritersOK
<1>1. ASSUME NEW d \in AnyDriver, StartComponent(d) \/ InitDriver(d) \/ RevertDriver(d) PROVE WritersOK'
  <2>1. /\ Phase("starting") \/ Phase("init") \/ Phase("revert")
        /\ d \in step.todo /\ InitComponent(Cur, d) /\ UNCHANGED <<fresh, freed>>
    BY <1>1 DEF StartComponent, InitDriver, RevertDriver, Visit, NextComponent, Cur, Phase, Base, StepOK
  <2>2. <<Cur, d>> \notin on /\ Cur \in Gen /\ Cur # 0 /\ Cur \in Nat
    BY <2>1 DEF Base, OnOK, ConfigOK, Gen, Cur
  <2> DEFINE i == <<Cur, d>>
  <2>3. i \in Gen \X AnyDriver /\ i[2] = d  BY <2>2
  <2>4. writer[i] = NoWriter \/ i[2] \in SourceDriver  BY <2>2, <2>3 DEF WritersOK, AnyDriver
  <2>5. TakeUp(i) /\ on' = on \cup {i} /\ counter' = [counter EXCEPT ![d] = IF @ = 0 THEN Cur ELSE @]
    BY <2>1 DEF InitComponent
  <2>6. \A w \in PersistedWriter : Owned(w)'  BY <1>0, <2>1, <2>3, <2>4, <2>5, TakeUpOwned
  <2>7. counter' \in [AnyDriver -> Nat] /\ \A e \in AnyDriver : counter'[e] # 0 => <<counter'[e], e>> \in on'
    BY <2>2, <2>5 DEF WritersOK
  <2> HIDE DEF i
  <2>8. \A j \in Gen \X DestDriver : j \notin on' => writer'[j] = writer[j]
    BY <2>5 DEF TakeUp, Base, DataOK
  <2> QED  BY <2>5, <2>6, <2>7, <2>8 DEF WritersOK
<1>2. ASSUME NEW d \in AnyDriver, DeinitDriver(d) \/ ExitDriver(d) PROVE WritersOK'
  <2>1. DeinitComponent(active, d) /\ UNCHANGED fresh
    BY <1>2 DEF DeinitDriver, ExitDriver
  <2> DEFINE i == <<active, d>>
  <2>3. i \in Gen \X AnyDriver /\ active # 0  BY DEF Base, ConfigOK, Gen
  <2>5. HandOn(i) /\ on' = on \ {i} /\ counter' = [counter EXCEPT ![d] = IF @ = active THEN 0 ELSE @]
    BY <2>1 DEF DeinitComponent
  <2>6. \A w \in PersistedWriter : Owned(w)'  BY <1>0, <2>1, <2>3, <2>5, HandOnOwned
  <2>7. counter' \in [AnyDriver -> Nat] /\ \A e \in AnyDriver : counter'[e] # 0 => <<counter'[e], e>> \in on'
    BY <2>3, <2>5 DEF WritersOK
  <2>8. i \in Gen \X DestDriver => i[2] \notin SourceDriver  OBVIOUS
  <2> HIDE DEF i
  <2>9. \A j \in Gen \X DestDriver : j \notin on' => writer'[j] = NoWriter
    BY <2>5, <2>8 DEF HandOn, Base, DataOK, WritersOK
  <2> QED  BY <2>6, <2>7, <2>9 DEF WritersOK
<1>3. CASE Reloaded \/ Reverted
  <2>1. FreePersist /\ UNCHANGED <<counter, on, writer, fresh>>
    BY <1>3 DEF Reloaded, Reverted
  <2>2. \A w \in PersistedWriter : Owned(w)'  BY <1>0, <2>1, FreePersistOwned
  <2> QED  BY <2>1, <2>2 DEF WritersOK
<1>4. CASE \/ \E c \in Config : Start(c) \/ StartReload(c)
           \/ Started \/ StartExit \/ Deinitialised \/ InitFails \/ UNCHANGED reload_vars
  <2>1. UNCHANGED <<counter, on, writer, fresh, freed>>
    BY <1>4 DEF Start, StartReload, Started, StartExit, Deinitialised, InitFails, reload_vars,
       stat_vars, writer_vars
  <2>2. persist' = persist \/ (IsPositions(persist) /\ IsPositions(persist)')
    BY <1>4 DEF Start, StartReload, Started, StartExit, Deinitialised, InitFails, reload_vars,
       Base, PersistOK, IsPositions, Empty, Phase
  <2>3. \A w \in PersistedWriter : Keys(w)' = Keys(w)
    <3>1. CASE persist' = persist
      BY <3>1 DEF Keys
    <3>2. CASE IsPositions(persist) /\ IsPositions(persist)'
      BY <3>2 DEF Keys, IsPositions
    <3> QED  BY <2>2, <3>1, <3>2
  <2>4. \A w \in PersistedWriter : Owners(w)' = Owners(w)  BY <2>1 DEF Owners
  <2>5. \A w \in PersistedWriter : Owned(w)'  BY <1>0, <2>1, <2>3, <2>4, OwnedSame
  <2> QED  BY <2>1, <2>5 DEF WritersOK
<1>5. CASE StartFails \/ Crash \/ Exited
  BY <1>5, GoneOwned DEF StartFails, Crash, Exited
<1>6. ASSUME NEW i \in on, MessageFaults(i) PROVE WritersOK'
  BY <1>6, GoneOwned DEF MessageFaults
<1>7. ASSUME NEW i \in on, Message(i) PROVE WritersOK'
  BY <1>7, MessageWriters
<1> QED
  BY <1>1, <1>2, <1>3, <1>4, <1>5, <1>6, <1>7 DEF ReloadNext

LEMMA OwnedOnce ==
  ASSUME NEW w \in PersistedWriter, Owned(w)
  PROVE  Cardinality({i \in DOMAIN writer : writer[i] = w})
           + Cardinality({k \in DOMAIN persist : persist[k] = w})
           = IF w \in fresh \cup freed THEN 0 ELSE 1
<1>1. Cardinality({}) = 0  BY FS_EmptySet
<1>2. \A x : Cardinality({x}) = 1  BY FS_Singleton
<1>3. CASE w \in fresh \cup freed
  BY <1>1, <1>3 DEF Owned, Owners, Keys
<1>4. CASE w \notin fresh \cup freed
  <2>1. \/ Keys(w) = {} /\ \E i : Owners(w) = {i}
        \/ Owners(w) = {} /\ \E k : Keys(w) = {k}
    BY <1>4 DEF Owned
  <2>2. \/ Cardinality(Keys(w)) = 0 /\ Cardinality(Owners(w)) = 1
        \/ Cardinality(Owners(w)) = 0 /\ Cardinality(Keys(w)) = 1
    BY <1>1, <1>2, <2>1, Zenon
  <2> QED  BY <1>4, <2>2 DEF Owners, Keys
<1> QED  BY <1>3, <1>4

\* A writer, with the messages queued in it, has one owner - a driver or the
\* PersistentConfig - until it is freed, and none after that (affile_dd_init,
\* affile_dd_deinit, persist_config_add, persist_config_free).
THEOREM WritersHaveOneOwner == ReloadSpec => []WritersOwned
<1>1. ReloadSpec => [](Base /\ WritersOK)
  BY InitBase, BaseStep, InitWriters, WritersStep, PTL DEF ReloadSpec
<1>2. WritersOK => WritersOwned
  BY OwnedOnce DEF WritersOK, WritersOwned
<1> QED  BY <1>1, <1>2, PTL

-----------------------------------------------------------------------------
(***************************************************************************)
(* The positions of the sources.                                           *)
(***************************************************************************)

LEMMA InitPositions == ReloadInit => PositionsOK
<1> SUFFICES ASSUME ReloadInit PROVE PositionsOK  OBVIOUS
<1>1. Base  BY InitBase
<1>2. 1..Newest = {1} /\ config[1] = {}
  <2>1. DOMAIN config = {1} /\ config[1] = {}  BY DEF ReloadInit
  <2> QED  BY <1>1, <2>1 DEF Base, ConfigOK
<1>3. Shared({}) = {}  BY DEF Shared
<1>4. Known  BY <1>2, <1>3 DEF Known, ReloadInit, Empty
<1>5. ASSUME NEW k \in SourceKey PROVE Located(k)
  BY DEF ReloadInit, Located, Readers, ValueIn, Empty, Phase
<1> QED  BY <1>4, <1>5 DEF PositionsOK

\* Where no two drivers of a configuration share a key, a file has one reader.
LEMMA OneReader ==
  ASSUME Base, PositionsOK, NEW k \in SourceKey \ displaced, NEW i \in Readers(k),
         NEW d \in config[Cur], PersistKey(d) = k
  PROVE  i = <<Cur, d>>
<1>1. i \in on /\ PersistKey(i[2]) = k /\ i[1] = Cur  BY DEF Readers, PositionsOK, Located
<1>2. i = <<i[1], i[2]>> /\ i[2] \in config[Cur] /\ Cur \in 1..Newest
  BY <1>1 DEF Base, OnOK, ConfigOK, Gen, Cur
<1>3. k \notin Shared(config[Cur])  BY <1>2 DEF PositionsOK, Known
<1>4. i[2] = d  BY <1>1, <1>2, <1>3 DEF Shared
<1> QED  BY <1>1, <1>2, <1>4

\* A driver that is visited takes up the position of its file.
LEMMA TakeUpLocated ==
  ASSUME Base, PositionsOK, NEW d \in config[Cur], <<Cur, d>> \notin on,
         InitComponent(Cur, d), Cur' = Cur, step'.phase = step.phase, ~Phase("stopped"),
         UNCHANGED <<read, saved, displaced>>,
         NEW k \in SourceKey \ displaced
  PROVE  Located(k)'
<1> DEFINE key == PersistKey(d)  i == <<Cur, d>>
<1> USE ReloadAssumption
<1>0. Located(k)  BY DEF PositionsOK
<1>1. /\ DOMAIN persist' = DOMAIN persist \ {key}
      /\ \A l \in DOMAIN persist' : persist'[l] = persist[l]
      /\ on' = on \cup {i} /\ i \notin on
  BY DEF InitComponent, TakeUp, Without, Restrict
<1>2. i \in Gen \X AnyDriver /\ i[1] = Cur /\ i[2] = d /\ d \in AnyDriver
  BY DEF Base, ConfigOK, Gen, Cur
<1>3. /\ d \in SourceDriver => pos' = [pos EXCEPT ![i] = IF key \in DOMAIN persist THEN persist[key] ELSE 0]
      /\ d \notin SourceDriver => UNCHANGED pos
  BY <1>2 DEF InitComponent, TakeUp
<1>4. CASE d \in SourceDriver /\ key = k
  <2>1. Readers(k) = {}
    <3> SUFFICES ASSUME NEW j \in Readers(k) PROVE FALSE  OBVIOUS
    <3>1. j = i  BY <1>4, OneReader
    <3> QED  BY <1>1, <3>1 DEF Readers
  <2>2. Readers(k)' = {i}
    <3> HIDE DEF i
    <3> QED  BY <1>1, <1>2, <1>4, <2>1 DEF Readers
  <2>3. pos'[i] = IF k \in DOMAIN persist THEN persist[k] ELSE 0
    BY <1>2, <1>3, <1>4 DEF Base, DataOK
  <2>4. pos'[i] = read[k]  BY <1>0, <2>1, <2>3 DEF Located
  <2>5. k \notin DOMAIN persist'  BY <1>1, <1>4
  <2>6. Phase("starting")' => ValueIn(saved, k)' = read'[k]  BY <1>0 DEF Located, Phase, ValueIn
  <2>7. ~Phase("stopped")'  BY DEF Phase
  <2> HIDE DEF i, key
  <2> QED  BY <1>2, <2>2, <2>4, <2>5, <2>6, <2>7 DEF Located
<1>5. CASE d \notin SourceDriver \/ key # k
  <2> HIDE DEF i
  <2>1. Readers(k)' = Readers(k)  BY <1>1, <1>2, <1>5 DEF Readers
  <2>2. key # k
    <3>1. CASE d \in SourceDriver
      BY <1>5, <3>1
    <3>2. CASE d \notin SourceDriver
      BY <1>2, <3>2 DEF SourceKey, AnyDriver
    <3> QED  BY <3>1, <3>2
  <2>3. \A j \in Readers(k) : pos'[j] = pos[j]
    <3> SUFFICES ASSUME NEW j \in Readers(k) PROVE pos'[j] = pos[j]  OBVIOUS
    <3>1. j # i /\ j \in Gen \X SourceDriver
      BY <1>1 DEF Readers, Base, OnOK, ConfigOK, Gen
    <3> QED  BY <1>3, <3>1 DEF Base, DataOK
  <2>4. (k \in DOMAIN persist' <=> k \in DOMAIN persist) /\ (k \in DOMAIN persist => persist'[k] = persist[k])
    BY <1>1, <2>2
  <2> HIDE DEF key
  <2> QED  BY <1>0, <2>1, <2>3, <2>4 DEF Located, Phase, ValueIn
<1> QED  BY <1>4, <1>5

\* A driver that stops hands on the position of its file.
LEMMA HandOnLocated ==
  ASSUME Base, PositionsOK, NEW d \in config[active], Cur = active, Cur' = active,
         DeinitComponent(active, d), step'.phase = step.phase,
         Phase("deinit") \/ Phase("exiting"),
         UNCHANGED <<read, saved, displaced>>,
         NEW k \in SourceKey \ displaced
  PROVE  Located(k)'
<1> DEFINE key == PersistKey(d)  i == <<active, d>>
<1> USE ReloadAssumption
<1>0. Located(k)  BY DEF PositionsOK
<1>1. HandOn(i) /\ on' = on \ {i}  BY DEF DeinitComponent
<1>2. i \in Gen \X AnyDriver /\ i[1] = active /\ i[2] = d /\ d \in AnyDriver
  BY DEF Base, ConfigOK, Gen
<1>3. ~(Phase("stopped") \/ Phase("starting")) /\ ~(Phase("stopped") \/ Phase("starting"))'
  BY DEF Phase
<1>4. CASE i \in on /\ d \in SourceDriver /\ key = k
  <2>1. persist' = With(persist, k, pos[i])  BY <1>1, <1>2, <1>4 DEF HandOn
  <2>2. i \in Readers(k)  BY <1>2, <1>4 DEF Readers
  <2>3. Readers(k) = {i}
    <3>1. \A j \in Readers(k) : j = i  BY <1>4, OneReader
    <3> QED  BY <2>2, <3>1
  <2>4. k \notin DOMAIN persist /\ pos[i] = read[k]  BY <1>0, <2>2 DEF Located
  <2> HIDE DEF i, key
  <2>5. Readers(k)' = {}  BY <1>1, <2>3 DEF Readers
  <2>6. k \in DOMAIN persist' /\ persist'[k] = read[k]  BY <2>1, <2>4 DEF With
  <2> QED  BY <1>3, <2>5, <2>6 DEF Located
<1>5. CASE ~(i \in on /\ d \in SourceDriver /\ key = k)
  <2>1. i \in on /\ d \notin SourceDriver => key # k
    BY <1>2 DEF SourceKey, AnyDriver
  <2>2. /\ k \in DOMAIN persist' <=> k \in DOMAIN persist
        /\ k \in DOMAIN persist => persist'[k] = persist[k]
    <3> HIDE DEF key
    <3>1. \/ UNCHANGED persist
          \/ i \in on /\ \E v : persist' = With(persist, key, v)
      BY <1>1, <1>2 DEF HandOn, key
    <3>2. i \in on => key # k  BY <1>5, <2>1
    <3> QED  BY <3>1, <3>2 DEF With
  <2>3. Readers(k)' = Readers(k)
    <3> HIDE DEF i
    <3> QED  BY <1>1, <1>2, <1>5 DEF Readers
  <2>4. \A j \in Readers(k) : pos'[j] = pos[j]
    <3> SUFFICES ASSUME NEW j \in Readers(k) PROVE pos'[j] = pos[j]  OBVIOUS
    <3>1. j \in Gen \X SourceDriver /\ j \in on'
      BY <2>3 DEF Readers, Base, OnOK, ConfigOK, Gen
    <3>2. j # i  BY <1>1, <3>1
    <3>3. UNCHANGED pos \/ pos' = [pos EXCEPT ![i] = 0]  BY <1>1 DEF HandOn
    <3> HIDE DEF i
    <3> QED  BY <3>1, <3>2, <3>3 DEF Base, DataOK
  <2> HIDE DEF i, key
  <2> QED  BY <1>0, <1>3, <2>2, <2>3, <2>4 DEF Located
<1> QED  BY <1>4, <1>5

\* A message moves the reader of its file alone.
LEMMA MessageLocated ==
  ASSUME Base, PositionsOK, NEW i \in on, Message(i),
         NEW k \in SourceKey \ displaced
  PROVE  Located(k)'
<1> DEFINE key == PersistKey(i[2])
<1> USE ReloadAssumption
<1>0. Located(k)  BY DEF PositionsOK
<1>1. /\ UNCHANGED <<on, config, active, step, persist, saved, displaced>> /\ Phase("running")
      /\ pos' = [pos EXCEPT ![i] = @ + 1] /\ i[2] \in SourceDriver
      /\ read' = [read EXCEPT ![key] = IF @ < pos'[i] THEN pos'[i] ELSE @]
  BY DEF Message, process_vars
<1>2. Readers(k)' = Readers(k) /\ Cur' = Cur /\ step.phase = "running"
  BY <1>1 DEF Readers, Cur, Phase, Newest
<1>3. key \in SourceKey /\ i \in Gen \X SourceDriver
  BY <1>1 DEF SourceKey, Base, OnOK, ConfigOK, Gen
<1>4. CASE key = k
  <2>1. i \in Readers(k)  BY <1>1, <1>4 DEF Readers
  <2>2. i[1] = Cur /\ pos[i] = read[k]  BY <1>0, <2>1 DEF Located
  <2>3. i = <<Cur, i[2]>> /\ i[2] \in config[Cur]  BY <2>2 DEF Base, OnOK
  <2>4. \A j \in Readers(k) : j = i  BY <1>4, <2>3, OneReader
  <2>5. pos'[i] = pos[i] + 1 /\ pos[i] \in Nat  BY <1>1, <1>3 DEF Base, DataOK
  <2> HIDE DEF key
  <2>6. read'[k] = IF read[k] < pos'[i] THEN pos'[i] ELSE read[k]
    BY <1>1, <1>3, <1>4 DEF Base, DataOK
  <2>7. read'[k] = pos'[i]  BY <2>2, <2>5, <2>6
  <2>8. k \notin DOMAIN persist'  BY <1>0, <1>1, <2>1 DEF Located
  <2> QED  BY <1>1, <1>2, <2>1, <2>2, <2>4, <2>7, <2>8 DEF Located, Phase
<1>5. CASE key # k
  <2> HIDE DEF key
  <2>1. read'[k] = read[k]  BY <1>1, <1>5 DEF Base, DataOK
  <2>2. \A j \in Readers(k) : j # i /\ j \in Gen \X SourceDriver
    BY <1>5 DEF Readers, Base, OnOK, ConfigOK, Gen, key
  <2>3. \A j \in Readers(k) : pos'[j] = pos[j]  BY <1>1, <2>2 DEF Base, DataOK
  <2> QED  BY <1>0, <1>1, <1>2, <2>1, <2>3 DEF Located, ValueIn, Phase
<1> QED  BY <1>4, <1>5

\* What is displaced stays so; the readers that a dead process had are.
LEMMA GoneLocated ==
  ASSUME PositionsOK, ProcessGone, UNCHANGED <<config, read>>, displaced \subseteq displaced',
         \A k \in SourceKey \ displaced' : ValueIn(saved, k)' = read[k]
  PROVE  PositionsOK'
<1>1. Known'
  BY DEF PositionsOK, Known, Newest, ProcessGone, Empty
<1>2. ASSUME NEW k \in SourceKey \ displaced' PROVE Located(k)'
  <2>1. Readers(k)' = {} /\ k \notin DOMAIN persist' /\ Phase("stopped")' /\ read' = read
    BY DEF ProcessGone, GoTo, Readers, Empty, Phase
  <2>2. ValueIn(saved, k)' = read'[k]  BY <2>1
  <2> QED  BY <2>1, <2>2 DEF Located
<1> QED  BY <1>1, <1>2 DEF PositionsOK

\* A step that leaves the readers, the positions and the persistent values of a
\* file alone leaves its position located.
LEMMA LocatedSame ==
  ASSUME NEW k, Located(k), UNCHANGED <<pos, read, saved, on>>,
         Cur' = Cur \/ Readers(k) = {},
         UNCHANGED persist \/ (k \notin DOMAIN persist /\ k \notin DOMAIN persist'),
         ~Phase("stopped"), ~(Phase("stopped") \/ Phase("starting"))'
  PROVE  Located(k)'
<1>1. Readers(k)' = Readers(k)  BY DEF Readers
<1>2. /\ k \in DOMAIN persist' <=> k \in DOMAIN persist
      /\ k \in DOMAIN persist => persist'[k] = persist[k]
  OBVIOUS
<1> QED  BY <1>1, <1>2 DEF Located, ValueIn

LEMMA PositionsStep ==
  Base /\ Base' /\ PositionsOK /\ [ReloadNext]_reload_vars => PositionsOK'
<1> SUFFICES ASSUME Base, Base', PositionsOK, [ReloadNext]_reload_vars PROVE PositionsOK'  OBVIOUS
<1> USE ReloadAssumption
<1>0. \A k \in SourceKey \ displaced : Located(k)  BY DEF PositionsOK
<1>1. ASSUME NEW c \in Config, Start(c) PROVE PositionsOK'
  <2>1. /\ Phase("stopped") /\ step' = [phase |-> "starting", todo |-> c]
        /\ config' = [g \in {1} |-> c] /\ displaced' = displaced \cup (SourceKey \cap Shared(c))
        /\ persist' = saved /\ UNCHANGED <<on, pos, read, leftover, saved>>
    BY <1>1 DEF Start, GoTo
  <2>2. 1..Newest' = {1} /\ config'[1] = c
    <3>1. DOMAIN config' = 1..Newest'  BY DEF Base, ConfigOK
    <3> QED  BY <2>1, <3>1
  <2>3. Known'  BY <2>1, <2>2 DEF PositionsOK, Known
  <2>4. ASSUME NEW k \in SourceKey \ displaced' PROVE Located(k)'
    <3>1. Readers(k)' = {}  BY <2>1 DEF Readers, Base, OnOK
    <3>2. ValueIn(saved, k) = read[k]  BY <1>0, <2>1 DEF Located
    <3> QED  BY <2>1, <3>1, <3>2 DEF Located, ValueIn, Phase
  <2> QED  BY <2>3, <2>4 DEF PositionsOK
<1>2. ASSUME NEW c \in Config, StartReload(c) PROVE PositionsOK'
  <2>1. /\ Phase("running") /\ step' = [phase |-> "deinit", todo |-> config[active]]
        /\ displaced' = displaced \cup (SourceKey \cap Shared(c))
        /\ UNCHANGED <<active, on, pos, read, persist, leftover, saved>>
        /\ \A g \in DOMAIN config' : config'[g] = IF g \in DOMAIN config THEN config[g] ELSE c
    BY <1>2 DEF StartReload, GoTo
  <2>2. DOMAIN config = 1..Newest /\ DOMAIN config' = 1..Newest'  BY DEF Base, ConfigOK
  <2>3. Known'  BY <2>1, <2>2 DEF PositionsOK, Known
  <2>4. Cur' = Cur /\ ~Phase("stopped") /\ ~(Phase("stopped") \/ Phase("starting"))'
    BY <2>1 DEF Cur, Phase
  <2>5. \A k \in SourceKey \ displaced' : Located(k)'  BY <1>0, <2>1, <2>4, LocatedSame
  <2> QED  BY <2>3, <2>5 DEF PositionsOK
<1>3. ASSUME NEW d \in AnyDriver, StartComponent(d) \/ InitDriver(d) \/ RevertDriver(d) PROVE PositionsOK'
  <2>1. UNCHANGED <<config, active, read, saved, displaced, leftover>>
    BY <1>3 DEF StartComponent, InitDriver, RevertDriver, process_vars
  <2>2. /\ Phase("starting") \/ Phase("init") \/ Phase("revert")
        /\ d \in step.todo /\ step' = [step EXCEPT !.todo = @ \ {d}]
        /\ InitComponent(Cur, d)
    BY <1>3 DEF StartComponent, InitDriver, RevertDriver, Visit, NextComponent, Cur, Phase, Base, StepOK
  <2>3. step'.phase = step.phase /\ Cur' = Cur /\ ~Phase("stopped")
    BY <2>1, <2>2 DEF Cur, Phase, Base, StepOK, Newest
  <2>4. d \in config[Cur] /\ <<Cur, d>> \notin on  BY <2>2 DEF Base, StepOK, OnOK
  <2>5. \A k \in SourceKey \ displaced : Located(k)'  BY <2>1, <2>2, <2>3, <2>4, TakeUpLocated
  <2>6. Known'  BY <2>1 DEF PositionsOK, Known, Newest
  <2> QED  BY <2>1, <2>5, <2>6 DEF PositionsOK
<1>4. ASSUME NEW d \in AnyDriver, DeinitDriver(d) \/ ExitDriver(d) PROVE PositionsOK'
  <2>1. UNCHANGED <<config, active, read, saved, displaced, leftover>>
    BY <1>4 DEF DeinitDriver, ExitDriver, process_vars
  <2>2. /\ Phase("deinit") \/ Phase("exiting")
        /\ d \in step.todo /\ step' = [step EXCEPT !.todo = @ \ {d}]
        /\ DeinitComponent(active, d)
    BY <1>4 DEF DeinitDriver, ExitDriver, Visit, NextComponent, Phase
  <2>3. step'.phase = step.phase /\ Cur = active /\ Cur' = active
    BY <2>1, <2>2 DEF Cur, Phase, Base, StepOK
  <2>4. d \in config[active]  BY <2>2, <2>3 DEF Base, StepOK
  <2>5. \A k \in SourceKey \ displaced : Located(k)'  BY <2>1, <2>2, <2>3, <2>4, HandOnLocated
  <2>6. Known'  BY <2>1 DEF PositionsOK, Known, Newest
  <2> QED  BY <2>1, <2>5, <2>6 DEF PositionsOK
<1>5. CASE Started \/ Reloaded \/ Reverted
  <2>1. /\ Phase("starting") \/ Phase("init") \/ Phase("revert")
        /\ step' = [phase |-> "running", todo |-> {}] /\ persist' = Empty /\ active' = Cur
        /\ UNCHANGED <<config, on, pos, read, saved>>
        /\ displaced \subseteq displaced' /\ SourceKey \cap DOMAIN persist \subseteq displaced'
        /\ leftover' = leftover \/ (leftover' = persist /\ DOMAIN persist \subseteq displaced')
    BY <1>5 DEF Started, Reloaded, Reverted, GoTo, FreePersist, process_vars, Cur, Phase
  <2>2. Cur' = Cur /\ ~Phase("stopped") /\ ~(Phase("stopped") \/ Phase("starting"))'
    BY <2>1 DEF Cur, Phase
  <2>3. ASSUME NEW k \in SourceKey \ displaced' PROVE Located(k)'
    <3>1. Located(k) /\ k \notin DOMAIN persist /\ k \notin DOMAIN persist'
      BY <1>0, <2>1 DEF Empty
    <3> QED  BY <2>1, <2>2, <3>1, LocatedSame
  <2>4. Known'  BY <2>1 DEF PositionsOK, Known, Newest
  <2> QED  BY <2>3, <2>4 DEF PositionsOK
<1>6. CASE StartFails
  <2>1. /\ ProcessGone /\ Phase("starting") /\ UNCHANGED <<config, read, displaced, saved>>
    BY <1>6 DEF StartFails
  <2>2. \A k \in SourceKey \ displaced' : ValueIn(saved, k)' = read[k]
    BY <1>0, <2>1 DEF Located, ValueIn
  <2> QED  BY <2>1, <2>2, GoneLocated
<1>7. CASE Deinitialised
  <2>1. /\ Phase("deinit") /\ step.todo = {} /\ step'.phase = "init"
        /\ UNCHANGED <<config, on, pos, read, persist, saved, displaced, leftover>>
    BY <1>7 DEF Deinitialised, GoTo, process_vars, position_vars
  <2>2. ASSUME NEW k \in SourceKey \ displaced PROVE Readers(k) = {}
    <3>1. \A i \in on : i[1] # active  BY <2>1 DEF Base, OnOK, Phase
    <3>2. \A i \in Readers(k) : i \in on /\ i[1] = active
      BY <1>0, <2>1 DEF Located, Readers, Cur, Phase
    <3> QED  BY <3>1, <3>2
  <2>3. ~Phase("stopped") /\ ~(Phase("stopped") \/ Phase("starting"))'  BY <2>1 DEF Phase
  <2>4. \A k \in SourceKey \ displaced : Located(k)'  BY <1>0, <2>1, <2>2, <2>3, LocatedSame
  <2>5. Known'  BY <2>1 DEF PositionsOK, Known, Newest
  <2> QED  BY <2>1, <2>4, <2>5 DEF PositionsOK
<1>8. CASE InitFails
  <2>1. /\ Phase("init") /\ step'.phase = "revert" /\ displaced \subseteq displaced'
        /\ \A i \in on : i[1] = Newest /\ i[2] \in SourceDriver => PersistKey(i[2]) \in displaced'
        /\ UNCHANGED <<config, on, pos, read, persist, saved, leftover>>
    BY <1>8 DEF InitFails, GoTo
  <2>2. ASSUME NEW k \in SourceKey \ displaced' PROVE Readers(k) = {}
    <3>1. \A i \in Readers(k) : i[1] = Newest  BY <1>0, <2>1 DEF Located, Cur
    <3> QED  BY <2>1, <3>1 DEF Readers
  <2>3. ~Phase("stopped") /\ ~(Phase("stopped") \/ Phase("starting"))'  BY <2>1 DEF Phase
  <2>4. \A k \in SourceKey \ displaced' : Located(k)'  BY <1>0, <2>1, <2>2, <2>3, LocatedSame
  <2>5. Known'  BY <2>1 DEF PositionsOK, Known, Newest
  <2> QED  BY <2>4, <2>5 DEF PositionsOK
<1>9. ASSUME NEW i \in on, Message(i) PROVE PositionsOK'
  <2>1. UNCHANGED <<config, displaced, leftover>>  BY <1>9 DEF Message, process_vars
  <2>2. Known'  BY <2>1 DEF PositionsOK, Known, Newest
  <2> QED  BY <1>9, <2>1, <2>2, MessageLocated DEF PositionsOK
<1>10. CASE Crash \/ \E i \in on : MessageFaults(i)
  <2>1. /\ ProcessGone /\ Phase("running") /\ displaced' = Gone /\ UNCHANGED <<config, read, saved>>
    BY <1>10 DEF Crash, MessageFaults
  <2>2. ASSUME NEW k \in SourceKey \ displaced' PROVE ValueIn(saved, k)' = read[k]
    <3>1. Located(k) /\ Readers(k) = {}  BY <1>0, <2>1, <2>2 DEF Gone, Readers
    <3>2. persist = Empty  BY <2>1 DEF Base, PersistOK
    <3> QED  BY <2>1, <3>1, <3>2 DEF Located, ValueIn, Phase, Empty
  <2>3. displaced \subseteq displaced'  BY <2>1 DEF Gone
  <2> QED  BY <2>1, <2>2, <2>3, GoneLocated
<1>11. CASE StartExit
  <2>1. /\ Phase("running") /\ step'.phase = "exiting" /\ persist' = leftover
        /\ UNCHANGED <<config, active, on, pos, read, saved, displaced, leftover>>
    BY <1>11 DEF StartExit, GoTo, process_vars, position_vars
  <2>2. Cur' = Cur /\ ~Phase("stopped") /\ ~(Phase("stopped") \/ Phase("starting"))'
    BY <2>1 DEF Cur, Phase
  <2>3. \A k \in SourceKey \ displaced : k \notin DOMAIN persist /\ k \notin DOMAIN persist'
    BY <2>1 DEF Base, PersistOK, PositionsOK, Known, Empty
  <2>4. \A k \in SourceKey \ displaced : Located(k)'  BY <1>0, <2>1, <2>2, <2>3, LocatedSame
  <2>5. Known'  BY <2>1 DEF PositionsOK, Known, Newest
  <2> QED  BY <2>1, <2>4, <2>5 DEF PositionsOK
<1>12. CASE Exited
  <2>1. /\ ProcessGone /\ Phase("exiting") /\ step.todo = {} /\ saved' = Survivors
        /\ UNCHANGED <<config, read, displaced>>
    BY <1>12 DEF Exited, process_vars
  <2>2. ASSUME NEW k \in SourceKey \ displaced' PROVE ValueIn(saved, k)' = read[k]
    <3>1. Located(k) /\ k \notin DOMAIN leftover  BY <1>0, <2>1 DEF PositionsOK, Known
    <3>2. \A i \in on : i[1] # active  BY <2>1 DEF Base, OnOK, Phase
    <3>3. \A i \in Readers(k) : i \in on /\ i[1] = active
      BY <2>1, <3>1 DEF Located, Readers, Cur, Phase
    <3>4. Readers(k) = {}  BY <3>2, <3>3
    <3>5. /\ k \in DOMAIN saved' <=> k \in DOMAIN persist
          /\ k \in DOMAIN persist => saved'[k] = persist[k]
      BY <2>1, <3>1 DEF Survivors, Restrict
    <3> QED  BY <2>1, <3>1, <3>4, <3>5 DEF Located, ValueIn, Phase
  <2> QED  BY <2>1, <2>2, GoneLocated
<1>13. CASE UNCHANGED reload_vars
  BY <1>13 DEF reload_vars, position_vars, process_vars, PositionsOK, Known, Located, Readers,
     ValueIn, Newest, Phase, Cur
<1> QED
  BY <1>1, <1>2, <1>3, <1>4, <1>5, <1>6, <1>7, <1>8, <1>9, <1>10, <1>11, <1>12, <1>13
  DEF ReloadNext

\* Over reloads, also those that fail, and restarts a source reads on where the
\* last reader of its file stopped, but for the positions that were displaced
\* (affile_sd_init, affile_sd_deinit, persist_config_load, persist_config_save).
THEOREM PositionsAreKept == ReloadSpec => []PositionKept
<1>1. ReloadSpec => [](Base /\ PositionsOK)
  BY InitBase, BaseStep, InitPositions, PositionsStep, PTL DEF ReloadSpec
<1>2. Base /\ PositionsOK => PositionKept
  <2> SUFFICES ASSUME Base, PositionsOK, NEW i \in on, i[2] \in SourceDriver,
                      PersistKey(i[2]) \notin displaced
               PROVE  pos[i] = read[PersistKey(i[2])]
    BY DEF PositionKept
  <2>1. PersistKey(i[2]) \in SourceKey \ displaced  BY DEF SourceKey
  <2> QED  BY <2>1 DEF PositionsOK, Located, Readers
<1> QED  BY <1>1, <1>2, PTL

-----------------------------------------------------------------------------
(***************************************************************************)
(* The writers freed.                                                      *)
(***************************************************************************)
\* Until the new configuration takes over, the writers in the PersistentConfig
\* are those of the drivers that stopped, less those taken up.
KeysOK ==
  /\ Phase("deinit") \/ Phase("exiting") =>
       \A k \in DOMAIN persist \ SourceKey :
         \E e \in config[active] \ step.todo : PersistKey(e) = k
  /\ Phase("init") =>
       \A d \in config[Newest] \ step.todo : PersistKey(d) \notin DOMAIN persist

LEMMA InitKeys == ReloadInit => KeysOK
BY DEF ReloadInit, KeysOK, Phase

LEMMA KeysStep ==
  Base /\ Base' /\ KeysOK /\ [ReloadNext]_reload_vars => KeysOK'
<1> SUFFICES ASSUME Base, Base', KeysOK, [ReloadNext]_reload_vars PROVE KeysOK'  OBVIOUS
<1> USE ReloadAssumption
<1>1. ASSUME NEW d \in AnyDriver, InitDriver(d) PROVE KeysOK'
  <2>1. /\ Phase("init") /\ step' = [step EXCEPT !.todo = @ \ {d}]
        /\ persist' = Without(persist, PersistKey(d)) /\ UNCHANGED config
    BY <1>1 DEF InitDriver, Visit, InitComponent, TakeUp, process_vars
  <2>2. step'.phase = "init" /\ step'.todo = step.todo \ {d} /\ Newest' = Newest
    BY <2>1 DEF Phase, Base, StepOK, Newest
  <2>3. DOMAIN persist' = DOMAIN persist \ {PersistKey(d)}  BY <2>1 DEF Without, Restrict
  <2> QED  BY <2>1, <2>2, <2>3 DEF KeysOK, Phase
<1>2. ASSUME NEW d \in AnyDriver, DeinitDriver(d) \/ ExitDriver(d) PROVE KeysOK'
  <2>1. /\ Phase("deinit") \/ Phase("exiting")
        /\ d \in step.todo /\ step' = [step EXCEPT !.todo = @ \ {d}]
        /\ HandOn(<<active, d>>) /\ UNCHANGED <<config, active>>
    BY <1>2 DEF DeinitDriver, ExitDriver, Visit, NextComponent, Phase, DeinitComponent, process_vars
  <2>2. step'.phase = step.phase /\ step'.todo = step.todo \ {d} /\ d \in config[active]
    BY <2>1 DEF Phase, Base, StepOK, Cur
  <2>3. DOMAIN persist' \subseteq DOMAIN persist \cup {PersistKey(d)}  BY <2>1 DEF HandOn, With
  <2> QED  BY <2>1, <2>2, <2>3 DEF KeysOK, Phase
<1>3. CASE \/ \E c \in Config : StartReload(c)
           \/ StartExit \/ Deinitialised
  <2>1. CASE \E c \in Config : StartReload(c)
    <3>1. Phase("running") /\ persist' = persist /\ step'.phase = "deinit"
      BY <2>1 DEF StartReload, GoTo
    <3> QED  BY <3>1 DEF KeysOK, Phase, Base, PersistOK, Empty
  <2>2. CASE StartExit
    BY <2>2 DEF StartExit, GoTo, KeysOK, Phase, Base, PersistOK, IsPositions
  <2>3. CASE Deinitialised
    BY <2>3 DEF Deinitialised, GoTo, process_vars, KeysOK, Phase, Newest
  <2> QED  BY <1>3, <2>1, <2>2, <2>3
<1>4. ASSUME NEW d \in AnyDriver, StartComponent(d) \/ RevertDriver(d) PROVE KeysOK'
  BY <1>4 DEF StartComponent, RevertDriver, Visit, KeysOK, Phase, Base, StepOK
<1>5. CASE \/ \E c \in Config : Start(c)
           \/ Started \/ Reloaded \/ InitFails \/ Reverted
           \/ StartFails \/ Crash \/ Exited \/ \E i \in on : MessageFaults(i)
  BY <1>5 DEF Start, Started, Reloaded, InitFails, Reverted, StartFails, Crash, Exited, MessageFaults,
     ProcessGone, GoTo, KeysOK, Phase
<1>6. CASE UNCHANGED reload_vars \/ \E i \in on : Message(i)
  <2>1. UNCHANGED <<persist, step, config, active>>
    BY <1>6 DEF reload_vars, Message, process_vars
  <2> QED  BY <2>1 DEF KeysOK, Phase, Newest
<1> QED
  BY <1>1, <1>2, <1>3, <1>4, <1>5, <1>6 DEF ReloadNext

Excused(w) ==
  \A k \in HeldUnder(w) :
     \/ k \notin KeysOf(config[Newest])
     \/ k \in Shared(config[active])
     \/ reverted' # "no"

LEMMA FreedExcused ==
  Base /\ CountersOK /\ WritersOK /\ KeysOK /\ [ReloadNext]_reload_vars
    => \A w \in freed' \ freed : Excused(w)
<1> SUFFICES ASSUME Base, CountersOK, WritersOK, KeysOK, [ReloadNext]_reload_vars,
                    NEW w \in freed', w \notin freed
             PROVE  Excused(w)
  OBVIOUS
<1> USE ReloadAssumption
<1>1. ASSUME NEW d \in AnyDriver, DeinitDriver(d) \/ ExitDriver(d) PROVE Excused(w)
  <2> DEFINE i == <<active, d>>  key == PersistKey(d)
  <2>1. /\ Phase("deinit") \/ Phase("exiting")
        /\ d \in step.todo /\ HandOn(i)
    BY <1>1 DEF DeinitDriver, ExitDriver, Visit, NextComponent, Phase, DeinitComponent
  <2>2. i \in Gen \X AnyDriver /\ i[2] = d  BY DEF Base, ConfigOK, Gen
  <2>3. d \in DestDriver /\ key \in DOMAIN persist /\ w = writer[i] /\ w # NoWriter
    BY <2>1, <2>2 DEF HandOn, AnyDriver
  <2>4. i \in Gen \X DestDriver  BY <2>2, <2>3
  <2>5. w \in PersistedWriter /\ DOMAIN writer = Gen \X DestDriver
    BY <2>3, <2>4 DEF Base, DataOK
  <2>6. i \in Owners(w) /\ Owned(w)  BY <2>3, <2>4, <2>5 DEF Owners, WritersOK
  <2>7. Owners(w) = {i} /\ Keys(w) = {}  BY <2>6 DEF Owned
  <2>8. \A k \in HeldUnder(w) : k = key  BY <2>2, <2>7 DEF HeldUnder, Owners, Keys
  <2>9. d \in config[active]  BY <2>1 DEF Base, StepOK, Cur, Phase
  <2>10. PICK e \in config[active] \ step.todo : PersistKey(e) = key
    BY <2>1, <2>3 DEF KeysOK, SourceKey
  <2>11. e # d  BY <2>1, <2>10
  <2>12. key \in Shared(config[active])  BY <2>9, <2>10, <2>11 DEF Shared
  <2> QED  BY <2>8, <2>12 DEF Excused
<1>2. CASE Reloaded
  <2>1. Phase("init") /\ step.todo = {} /\ w \in WritersIn(persist)
    BY <1>2 DEF Reloaded, FreePersist
  <2>2. w \in PersistedWriter /\ Keys(w) # {}  BY <2>1 DEF WritersIn, Keys
  <2>3. Owned(w)  BY <2>2 DEF WritersOK
  <2>4. Owners(w) = {}  BY <2>2, <2>3 DEF Owned
  <2>5. \A k \in HeldUnder(w) : k \in DOMAIN persist  BY <2>4 DEF HeldUnder, Owners
  <2>6. \A k \in DOMAIN persist : k \notin KeysOf(config[Newest])  BY <2>1 DEF KeysOK, KeysOf
  <2> QED  BY <2>5, <2>6 DEF Excused
<1>3. CASE Reverted
  BY <1>3 DEF Reverted, CountersOK, Excused
<1>4. ASSUME freed' = freed \/ freed' = {} PROVE Excused(w)
  BY <1>4
<1>5. CASE \/ \E d \in AnyDriver : StartComponent(d) \/ InitDriver(d) \/ RevertDriver(d)
           \/ \E c \in Config : Start(c) \/ StartReload(c)
           \/ Started \/ StartExit \/ Deinitialised \/ InitFails \/ UNCHANGED reload_vars
           \/ \E i \in on : Message(i)
  <2>1. freed' = freed
    BY <1>5 DEF StartComponent, InitDriver, RevertDriver, Start, StartReload, Started, StartExit,
       Deinitialised, InitFails, reload_vars, writer_vars, Message
  <2> QED  BY <1>4, <2>1
<1>6. CASE StartFails \/ Crash \/ Exited \/ \E i \in on : MessageFaults(i)
  <2>1. freed' = {}  BY <1>6 DEF StartFails, Crash, Exited, MessageFaults, ProcessGone
  <2> QED  BY <1>4, <2>1
<1> QED
  BY <1>1, <1>2, <1>3, <1>5, <1>6 DEF ReloadNext

\* A reload that succeeds frees no writer, and so loses nothing queued, unless
\* the new configuration has no destination for it, or two had one name
\* (affile_dd_deinit, persist_config_add, persist_config_free).
THEOREM ReloadKeepsWriters == ReloadSpec => WritersKept
<1>1. Base /\ CountersOK /\ WritersOK /\ KeysOK /\ [ReloadNext]_reload_vars
        => [\A w \in freed' \ freed : \A k \in HeldUnder(w) :
              \/ k \notin KeysOf(config[Newest])
              \/ k \in Shared(config[active])
              \/ reverted' # "no"]_reload_vars
  BY FreedExcused DEF Excused
<1>2. ReloadSpec => [](Base /\ CountersOK /\ WritersOK /\ KeysOK)
  BY InitBase, BaseStep, InitCounters, CountersStep, InitWriters, WritersStep, InitKeys, KeysStep,
     PTL DEF ReloadSpec
<1> QED  BY <1>1, <1>2, PTL DEF ReloadSpec, WritersKept

-----------------------------------------------------------------------------
(***************************************************************************)
(* The parser of configurations: what its variables hold.                  *)
(***************************************************************************)

Groups == {"source", "destination"}
Objects == {"source", "destination", "filter", "template"}
Sections == Objects \cup {"connections", "options"}

OptionText == [to : Pointer \cup {"template", "escape"}, val : Nat \cup Name]
DriverText == [kind : Kind, family : {0, 4, 6}, opts : Seq(OptionText)]
OptionItem == [option : Name, val : Nat]
EndpointText == {"source", "filter", "destination"} \X Name
Flags == SUBSET {"final", "fallback"}
GroupText == [kind : Groups, name : Name, items : Seq(DriverText)]
ValueText == [kind : {"filter", "template"}, name : Name, items : Seq(Nat)]
OptionsText == [kind : {"options"}, name : {""}, items : Seq(OptionItem)]
LogText == [kind : {"log"}, name : {""}, items : Seq(EndpointText), flags : Flags]
Statement == GroupText \cup ValueText \cup OptionsText \cup LogText

Symbol == [sym : DOMAIN Width, val : Name \cup Nat \cup EndpointText \cup Flags]
TemplateRef == [ref : {"none", "inline", "named"}, body : Nat, escape : BOOLEAN]
Driver == [kind : Kind, family : {0, 4, 6}, opts : [Pointer -> Nat], template : TemplateRef]
Connection == [items : Seq(EndpointText), flags : Flags]

GrammarType ==
  /\ text \in Seq(Statement) /\ yystack \in Seq(Symbol) /\ heap \in Seq(Driver)
  /\ last \in [Pointer \cup {"family"} -> Nat]
  /\ written \in Nat
  /\ DOMAIN configuration = Sections
  /\ \A n \in DOMAIN configuration.template : configuration.template[n] \in Nat
  /\ configuration.connections \in Seq(Connection)
  /\ yyresult \in {"parsing", "accepted", "failed"}

-----------------------------------------------------------------------------
(***************************************************************************)
(* What a stack y stands for, of a text t.                                 *)
(***************************************************************************)

TopOf(y) == IF y = <<>> THEN "stmt" ELSE y[Len(y)].sym
InParams(y) == TopOf(y) \in {"params", "option"}

\* How many statements are complete, and the drivers up to which the parentheses are
\* closed, of a heap of n.
Complete(y, t) == IF TopOf(y) = "stmt" THEN Len(t) ELSE Len(t) - 1
Finished(y, n) == IF InParams(y) THEN n - 1 ELSE n

\* What is open is statement m with n items.
GroupShape(y, st, m, n) ==
  /\ y[m].val = st.name
  /\ ~InParams(y) => Len(y) = m + n /\ \A j \in 1 .. n : y[m + j].sym = "item"
  /\ InParams(y) =>
       /\ n >= 1 /\ Len(y) >= m + n
       /\ \A j \in 1 .. n - 1 : y[m + j].sym = "item"
       /\ y[m + n].sym = "params"
       /\ \A i \in m + n + 1 .. Len(y) : y[i].sym = "option"
LogShape(y, st, m, n) ==
  /\ \A j \in 1 .. n : y[m + j] = Sym("endpoint", st.items[j])
  /\ \/ Len(y) = m + n /\ st.flags = {}
     \/ Len(y) = m + n + 1 /\ y[m + n + 1] = Sym("flags", st.flags)
OpenShape(y, st, m, n) ==
  /\ Len(y) >= m /\ y[m].sym = st.kind
  /\ \/ st.kind \in Groups /\ GroupShape(y, st, m, n)
     \/ st.kind = "options" /\ \A i \in m + 1 .. Len(y) : y[i].sym = "option_item"
     \/ st.kind = "log" /\ LogShape(y, st, m, n)

Shape(y, t) ==
  /\ \A i \in 1 .. Complete(y, t) : y[i].sym = "stmt"
  /\ TopOf(y) = "stmt" => Len(y) = Len(t)
  /\ TopOf(y) # "stmt" => t # <<>> /\ OpenShape(y, t[Len(t)], Len(t), Len(t[Len(t)].items))

-----------------------------------------------------------------------------
(***************************************************************************)
(* What a text t means.                                                    *)
(***************************************************************************)

DeclaredIn(t, kind, n, s) ==
  SelectLastInSubSeq(t, 1, s - 1, LAMBDA st : st.kind = kind /\ st.name = n)
TemplateIn(t, opts, s) ==
  LET i == SelectLastInSeq(opts, LAMBDA o : o.to = "template")
      d == DeclaredIn(t, "template", opts[i].val, s)
  IN  IF i = 0 THEN NoTemplate
      ELSE [ref    |-> IF d = 0 THEN "inline" ELSE "named",
            body   |-> IF d = 0 THEN 0 ELSE t[d].items[1],
            escape |-> d = 0 /\ \E e \in i .. Len(opts) : opts[e].to = "escape"]
DriverIn(t, w, s) ==
  [kind |-> w.kind, family |-> w.family,
   opts |-> [p \in Pointer |-> LastOf(w.opts, p)], template |-> TemplateIn(t, w.opts, s)]

\* Driver d of a heap h, out of the first b, is what is written as item i of statement s.
IsMade(t, h, s, i, d, b) == d \in 1 .. b /\ h[d] = DriverIn(t, t[s].items[i], s)

\* What the open statement has on the stack; the driver in whose parentheses the
\* parser is is the last one, and is what the pointers it uses point to.
Held(y, t, h, l) ==
  LET m == Len(t)
      n == Len(t[m].items)
  IN  TopOf(y) # "stmt" /\ t[m].kind \in Groups =>
        /\ \A j \in 1 .. n :
             j # n \/ ~InParams(y) => IsMade(t, h, m, j, y[m + j].val, Finished(y, Len(h)))
        /\ InParams(y) =>
             /\ IsMade(t, h, m, n, Len(h), Len(h))
             /\ \A p \in DriverKind[t[m].items[n].kind].points : l[p] = Len(h)
             /\ DriverKind[t[m].items[n].kind].points # {}

\* The objects o of a kind are those of the first c statements.
Named(t, kind, c) == {t[s].name : s \in {i \in 1 .. c : t[i].kind = kind}}
ObjectsMade(kind, o, t, h, c, b) ==
  /\ DOMAIN o = Named(t, kind, c)
  /\ \A n \in DOMAIN o :
       LET s == DeclaredIn(t, kind, n, c + 1)
       IN  IF kind \in Groups
           THEN /\ o[n] \in Seq(1 .. b) /\ Len(o[n]) = Len(t[s].items)
                /\ \A i \in 1 .. Len(o[n]) : IsMade(t, h, s, i, o[n][i], b)
           ELSE o[n] = t[s].items[1]

LogsOf(t, s) == {i \in 1 .. s : t[i].kind = "log"}
Connected(connections, t, c) ==
  /\ Len(connections) = Cardinality(LogsOf(t, c))
  /\ \A s \in LogsOf(t, c) :
       connections[Cardinality(LogsOf(t, s))] = [items |-> t[s].items, flags |-> t[s].flags]

\* The configuration is that of the first c statements.
Made(made, t, h, c, b) ==
  /\ \A kind \in Objects : ObjectsMade(kind, made[kind], t, h, c, b)
  /\ Connected(made.connections, t, c)

Parsing(y, t, h, l, made) ==
  Shape(y, t) /\ Held(y, t, h, l) /\ Made(made, t, h, Complete(y, t), Finished(y, Len(h)))

\* While a text is parsed, the stack, the heap and the pointers stand for it; at the end
\* the configuration does.
GrammarInv ==
  /\ GrammarType
  /\ yyresult # "parsing" => yystack = <<>>
  /\ yyresult = "parsing" => Parsing(yystack, text, heap, last, configuration)
  /\ yyresult = "accepted" => Made(configuration, text, heap, Len(text), Len(heap))
-----------------------------------------------------------------------------
(***************************************************************************)
(* Lists, and last members of sequences.                                   *)
(***************************************************************************)

\* What is linked from the last item to the first is in the order written.
IsLinking(f, v) ==
  f = [j \in 1 .. Len(v) + 1 |-> IF j > Len(v) THEN <<>> ELSE Linked(v[j], f[j + 1])]

LEMMA ItemsIs ==
  ASSUME NEW S, NEW v \in Seq(S)
  PROVE  Items(v) = v
<1>. DEFINE n == Len(v)
            g == [j \in 1 .. n + 1 |-> SubSeq(v, j, n)]
            f == CHOOSE e : IsLinking(e, v)
<1>1. n \in Nat /\ SubSeq(v, 1, n) = v /\ SubSeq(v, n + 1, n) = <<>>
  OBVIOUS
<1>2. \A j \in 1 .. n : SubSeq(v, j, n) = Linked(v[j], SubSeq(v, j + 1, n))
  <2>. TAKE j \in 1 .. n
  <2>1. SubSeq(v, j, n) = <<v[j]>> \o SubSeq(v, j + 1, n)
    BY SubSeqRecursiveFirst
  <2>. QED
    BY <2>1, Zenon DEF Linked
<1>3. IsLinking(g, v)
  <2>1. g = [j \in 1 .. n + 1 |-> IF j > n THEN <<>> ELSE Linked(v[j], g[j + 1])]
    <3>. SUFFICES ASSUME NEW j \in 1 .. n + 1
                  PROVE  SubSeq(v, j, n) = IF j > n THEN <<>> ELSE Linked(v[j], g[j + 1])
      BY <1>1
    <3>1. CASE j > n
      <4>1. j = n + 1
        BY <1>1, <3>1
      <4>. QED
        BY <1>1, <3>1, <4>1
    <3>2. CASE ~(j > n)
      <4>1. j \in 1 .. n /\ j + 1 \in 1 .. n + 1
        BY <1>1, <3>2
      <4>2. g[j + 1] = SubSeq(v, j + 1, n)
        BY <4>1
      <4>. QED
        BY <1>2, <3>2, <4>1, <4>2, Zenon
    <3>. QED
      BY <3>1, <3>2
  <2>. QED
    BY <2>1, Zenon DEF IsLinking
<1>4. IsLinking(f, v)
  BY <1>3, Zenon
<1>5. Items(v) = f[1]
  BY Zenon DEF Items, IsLinking
<1>. HIDE DEF f, g
<1>6. \A j \in 1 .. n + 1 : f[j] = IF j > n THEN <<>> ELSE Linked(v[j], f[j + 1])
  BY <1>4, Zenon DEF IsLinking
<1>. DEFINE T == {k \in Nat : k <= n /\ f[n + 1 - k] # SubSeq(v, n + 1 - k, n)}
<1>7. T = {}
  <2>. SUFFICES ASSUME T # {}
                PROVE  FALSE
    OBVIOUS
  <2>1. PICK k \in T : \A l \in T : k <= l
    <3>1. T \subseteq Nat
      OBVIOUS
    <3>. QED
      BY <3>1, NatMinimum
  <2>. DEFINE j == n + 1 - k
  <2>2. k \in Nat /\ k <= n /\ f[j] # SubSeq(v, j, n) /\ j \in 1 .. n + 1
    BY <1>1, <2>1
  <2>3. CASE k = 0
    <3>1. j = n + 1 /\ j > n
      BY <1>1, <2>3
    <3>2. f[j] = <<>>
      BY <1>6, <2>2, <3>1, Zenon
    <3>. QED
      BY <1>1, <2>2, <3>1, <3>2, Zenon
  <2>4. CASE k # 0
    <3>1. k - 1 \in Nat /\ k - 1 <= n /\ n + 1 - (k - 1) = j + 1 /\ ~(k <= k - 1)
      BY <1>1, <2>2, <2>4
    <3>2. k - 1 \notin T
      BY <2>1, <3>1
    <3>3. f[j + 1] = SubSeq(v, j + 1, n)
      BY <3>1, <3>2
    <3>4. j \in 1 .. n /\ ~(j > n)
      BY <1>1, <2>2, <2>4
    <3>5. f[j] = Linked(v[j], f[j + 1])
      BY <1>6, <2>2, <3>4, Zenon
    <3>. QED
      BY <1>2, <2>2, <3>3, <3>4, <3>5, Zenon
  <2>. QED
    BY <2>3, <2>4
<1>8. f[1] = SubSeq(v, 1, n)
  <2>1. n \in Nat /\ n <= n /\ n + 1 - n = 1
    BY <1>1
  <2>2. n \notin T
    BY <1>7
  <2>. QED
    BY <2>1, <2>2
<1>. QED
  BY <1>1, <1>5, <1>8

\* i is the greatest member of I, or 0 if there is none.
Greatest(i, I) == IF I = {} THEN i = 0 ELSE i \in I /\ \A j \in I : j <= i

LEMMA GreatestIs ==
  ASSUME NEW n \in Nat, NEW I, I \subseteq 1 .. n
  PROVE  Greatest(IF I # {} THEN Max(I) ELSE 0, I)
<1>1. CASE I = {}
  BY <1>1, Zenon DEF Greatest
<1>2. CASE I # {}
  <2>1. Max(I) \in I /\ \A j \in I : Max(I) >= j
    BY <1>2, LastMember
  <2>2. \A j \in I : j <= Max(I)
    BY <2>1
  <2>. QED
    BY <1>2, <2>1, <2>2, Zenon DEF Greatest
<1>. QED
  BY <1>1, <1>2

LEMMA GreatestUnique ==
  ASSUME NEW n \in Nat, NEW I, I \subseteq 1 .. n, NEW i, NEW j, Greatest(i, I), Greatest(j, I)
  PROVE  i = j
<1>1. CASE I = {}
  BY <1>1, Zenon DEF Greatest
<1>2. CASE I # {}
  <2>1. i \in I /\ j \in I /\ i <= j /\ j <= i
    BY <1>2, Zenon DEF Greatest
  <2>. QED
    BY <2>1
<1>. QED
  BY <1>1, <1>2

\* The option that counts, and the template option that does.
OptionsTo(opts, to) == {i \in 1 .. Len(opts) : opts[i].to = to}
Lasting(opts, to) == SelectLastInSeq(opts, LAMBDA o : o.to = to)

LEMMA LastingIs ==
  ASSUME NEW opts \in Seq(OptionText), NEW to
  PROVE  /\ Greatest(Lasting(opts, to), OptionsTo(opts, to))
         /\ OptionsTo(opts, to) \subseteq 1 .. Len(opts) /\ Len(opts) \in Nat
<1>1. Lasting(opts, to) = IF OptionsTo(opts, to) # {} THEN Max(OptionsTo(opts, to)) ELSE 0
  BY Zenon DEF Lasting, SelectLastInSeq, OptionsTo
<1>2. Len(opts) \in Nat /\ OptionsTo(opts, to) \subseteq 1 .. Len(opts)
  BY DEF OptionsTo
<1>. QED
  BY <1>1, <1>2, GreatestIs

LEMMA LastingAppend ==
  ASSUME NEW opts \in Seq(OptionText), NEW o \in OptionText, NEW to
  PROVE  /\ o.to = to => Lasting(Append(opts, o), to) = Len(opts) + 1
         /\ o.to # to => Lasting(Append(opts, o), to) = Lasting(opts, to)
         /\ Lasting(opts, to) \in 0 .. Len(opts)
<1>. DEFINE q == Append(opts, o)
            n == Len(opts)
            I == OptionsTo(opts, to)
            J == OptionsTo(q, to)
<1>1. /\ q \in Seq(OptionText) /\ Len(q) = n + 1 /\ n \in Nat
      /\ \A i \in 1 .. n : q[i] = opts[i]
      /\ q[n + 1] = o
  OBVIOUS
<1>2. Greatest(Lasting(opts, to), I) /\ I \subseteq 1 .. n
  BY LastingIs
<1>3. Greatest(Lasting(q, to), J) /\ J \subseteq 1 .. n + 1
  BY <1>1, LastingIs
<1>. HIDE DEF q
<1>4. ASSUME o.to = to
      PROVE  Lasting(q, to) = n + 1
  <2>. DEFINE j == Lasting(q, to)
  <2>1. n + 1 \in J
    BY <1>1, <1>4 DEF OptionsTo
  <2>. HIDE DEF J, j, n
  <2>2. j \in J /\ n + 1 <= j
    BY <1>3, <2>1, Zenon DEF Greatest, j
  <2>3. j \in 1 .. n + 1
    BY <1>3, <2>2, Zenon
  <2>4. j = n + 1
    BY <1>1, <2>2, <2>3
  <2>. QED
    BY <2>4 DEF j
<1>5. ASSUME o.to # to
      PROVE  Lasting(q, to) = Lasting(opts, to)
  <2>1. J = I
    <3>1. \A i : i \in J <=> i \in I
      <4>. TAKE i
      <4>1. i \in J <=> i \in 1 .. n + 1 /\ q[i].to = to
        BY <1>1 DEF OptionsTo
      <4>2. i \in I <=> i \in 1 .. n /\ opts[i].to = to
        BY DEF OptionsTo
      <4>. QED
        BY <1>1, <1>5, <4>1, <4>2
    <3>. QED
      BY <3>1, Zenon
  <2>2. Greatest(Lasting(q, to), I)
    BY <1>3, <2>1, Zenon
  <2>. HIDE DEF J, I
  <2>. QED
    BY <1>1, <1>2, <2>2, GreatestUnique
<1>6. Lasting(opts, to) \in 0 .. n
  <2>. DEFINE j == Lasting(opts, to)
  <2>. HIDE DEF I, j, n
  <2>1. j = 0 \/ j \in I
    BY <1>2, Zenon DEF Greatest, j
  <2>2. j = 0 \/ j \in 1 .. n
    BY <1>2, <2>1, Zenon
  <2>3. j \in 0 .. n
    BY <1>1, <2>2
  <2>. QED
    BY <2>3, Zenon DEF j
<1>. QED
  BY <1>4, <1>5, <1>6 DEF q

-----------------------------------------------------------------------------
(***************************************************************************)
(* What drivers mean.                                                      *)
(***************************************************************************)

\* The options of a driver go through pointers that were set at its name.
PointsFirst(d) ==
  /\ d.takes \subseteq d.points
  /\ d.points \subseteq Pointer
  /\ d.points # {} => "driver" \in d.points
  /\ d.group \in Groups
  /\ d.inet \in BOOLEAN

LEMMA PointsTaken ==
  ASSUME NEW k \in Kind
  PROVE  PointsFirst(DriverKind[k])
<1>1. k \in {"internal", "file_sd", "pipe_sd", "unix_sd", "inet_sd", "streams_sd",
             "file_dd", "pipe_dd", "unix_dd", "inet_dd", "user_dd", "program_dd"}
  BY CfgGrammarAssumption DEF DriverKind
<1>2. DriverKind[k] \in {AfinterSd, AffileSd, AffilePipeSd, AfunixSd, AfinetSd, AfstreamsSd,
                         AffileDd, AffilePipeDd, AfunixDd, AfinetDd, AfuserDd, AfprogramDd}
  BY <1>1 DEF DriverKind
<1>3. \A d \in {AfinterSd, AffileSd, AffilePipeSd, AfunixSd, AfinetSd, AfstreamsSd,
               AffileDd, AffilePipeDd, AfunixDd, AfinetDd, AfuserDd, AfprogramDd} :
        PointsFirst(d)
  <2>1. PointsFirst(AfinterSd)
    BY DEF PointsFirst, AfinterSd, D, Groups, Pointer
  <2>2. PointsFirst(AffileSd)
    BY DEF PointsFirst, AffileSd, D, Groups, Pointer
  <2>3. PointsFirst(AffilePipeSd)
    BY DEF PointsFirst, AffilePipeSd, D, Groups, Pointer
  <2>4. PointsFirst(AfunixSd)
    BY DEF PointsFirst, AfunixSd, D, Groups, Pointer
  <2>5. PointsFirst(AfinetSd)
    BY DEF PointsFirst, AfinetSd, D, Groups, Pointer
  <2>6. PointsFirst(AfstreamsSd)
    BY DEF PointsFirst, AfstreamsSd, D, Groups, Pointer
  <2>7. PointsFirst(AffileDd)
    BY DEF PointsFirst, AffileDd, D, Groups, Pointer
  <2>8. PointsFirst(AffilePipeDd)
    BY DEF PointsFirst, AffilePipeDd, D, Groups, Pointer
  <2>9. PointsFirst(AfunixDd)
    BY DEF PointsFirst, AfunixDd, D, Groups, Pointer
  <2>10. PointsFirst(AfinetDd)
    BY DEF PointsFirst, AfinetDd, D, Groups, Pointer
  <2>11. PointsFirst(AfuserDd)
    BY DEF PointsFirst, AfuserDd, D, Groups, Pointer
  <2>12. PointsFirst(AfprogramDd)
    BY DEF PointsFirst, AfprogramDd, D, Groups, Pointer
  <2>. QED
    BY <2>1, <2>2, <2>3, <2>4, <2>5, <2>6, <2>7, <2>8, <2>9, <2>10, <2>11, <2>12
<1>. QED
  BY <1>2, <1>3, Zenon

LEMMA LastOfIs ==
  ASSUME NEW opts, NEW to
  PROVE  LastOf(opts, to) = IF Lasting(opts, to) = 0 THEN 0 ELSE opts[Lasting(opts, to)].val
BY Zenon DEF LastOf, Lasting

LEMMA LastOfAppend ==
  ASSUME NEW opts \in Seq(OptionText), NEW o \in OptionText, NEW to
  PROVE  LastOf(Append(opts, o), to) = IF o.to = to THEN o.val ELSE LastOf(opts, to)
<1>. DEFINE q == Append(opts, o)
<1>1. Len(opts) \in Nat /\ q[Len(opts) + 1] = o /\ \A i \in 1 .. Len(opts) : q[i] = opts[i]
  OBVIOUS
<1>. HIDE DEF q
<1>2. /\ o.to = to => Lasting(q, to) = Len(opts) + 1
      /\ o.to # to => Lasting(q, to) = Lasting(opts, to)
      /\ Lasting(opts, to) \in 0 .. Len(opts)
  BY LastingAppend DEF q
<1>3. /\ LastOf(q, to) = IF Lasting(q, to) = 0 THEN 0 ELSE q[Lasting(q, to)].val
      /\ LastOf(opts, to) = IF Lasting(opts, to) = 0 THEN 0 ELSE opts[Lasting(opts, to)].val
  BY LastOfIs
<1>4. CASE o.to = to
  <2>1. Lasting(q, to) # 0 /\ q[Lasting(q, to)] = o
    BY <1>1, <1>2, <1>4
  <2>. QED
    BY <1>3, <1>4, <2>1, Zenon DEF q
<1>5. CASE o.to # to
  <2>1. Lasting(opts, to) # 0 => q[Lasting(opts, to)] = opts[Lasting(opts, to)]
    BY <1>1, <1>2
  <2>. QED
    BY <1>2, <1>3, <1>5, <2>1, Zenon DEF q
<1>. QED
  BY <1>4, <1>5

\* What the option template(n) means in statement s, and what an option
\* template_escape makes of a template.
LEMMA TemplateInIs ==
  ASSUME NEW t, NEW opts, NEW s, NEW i, NEW d,
         i = Lasting(opts, "template"),
         d = DeclaredIn(t, "template", opts[i].val, s)
  PROVE  TemplateIn(t, opts, s) =
           IF i = 0 THEN NoTemplate
           ELSE [ref    |-> IF d = 0 THEN "inline" ELSE "named",
                 body   |-> IF d = 0 THEN 0 ELSE t[d].items[1],
                 escape |-> d = 0 /\ \E e \in i .. Len(opts) : opts[e].to = "escape"]
BY Zenon DEF TemplateIn, Lasting

NamedOrInline(t, n, s) ==
  LET d == DeclaredIn(t, "template", n, s)
  IN  [ref |-> IF d = 0 THEN "inline" ELSE "named",
       body |-> IF d = 0 THEN 0 ELSE t[d].items[1], escape |-> FALSE]

LEMMA TemplateInAppend ==
  ASSUME NEW t, NEW opts \in Seq(OptionText), NEW o \in OptionText, NEW s
  PROVE  TemplateIn(t, Append(opts, o), s) =
           IF o.to = "template" THEN NamedOrInline(t, o.val, s)
           ELSE IF o.to = "escape" THEN EscapeIfInline(TemplateIn(t, opts, s))
           ELSE TemplateIn(t, opts, s)
<1>. DEFINE q == Append(opts, o)
            n == Len(opts)
            i == Lasting(opts, "template")
            j == Lasting(q, "template")
<1>1. /\ q \in Seq(OptionText) /\ Len(q) = n + 1 /\ n \in Nat
      /\ q[n + 1] = o /\ \A k \in 1 .. n : q[k] = opts[k]
  OBVIOUS
<1>. HIDE DEF q
<1>2. /\ o.to = "template" => j = n + 1
      /\ o.to # "template" => j = i
      /\ i \in 0 .. n
  BY LastingAppend DEF q
<1>. DEFINE c == DeclaredIn(t, "template", opts[i].val, s)
            d == DeclaredIn(t, "template", q[j].val, s)
            x == TemplateIn(t, opts, s)
            y == TemplateIn(t, q, s)
<1>. HIDE DEF i, j
<1>3. x = IF i = 0 THEN NoTemplate
          ELSE [ref    |-> IF c = 0 THEN "inline" ELSE "named",
                body   |-> IF c = 0 THEN 0 ELSE t[c].items[1],
                escape |-> c = 0 /\ \E e \in i .. Len(opts) : opts[e].to = "escape"]
  BY Zenon DEF TemplateIn, Lasting, i
<1>4. y = IF j = 0 THEN NoTemplate
          ELSE [ref    |-> IF d = 0 THEN "inline" ELSE "named",
                body   |-> IF d = 0 THEN 0 ELSE t[d].items[1],
                escape |-> d = 0 /\ \E e \in j .. Len(q) : q[e].to = "escape"]
  BY Zenon DEF TemplateIn, Lasting, j
<1>5. ASSUME o.to # "template", i # 0
      PROVE  j = i /\ q[j] = opts[i] /\ d = c
  <2>1. j = i /\ q[j] = opts[i]
    BY <1>1, <1>2, <1>5
  <2>. QED
    BY <2>1, Zenon
<1>6. ASSUME i # 0
      PROVE  (\E e \in i .. Len(q) : q[e].to = "escape")
                <=> (\E e \in i .. Len(opts) : opts[e].to = "escape") \/ o.to = "escape"
  <2>1. \A e : e \in i .. Len(q) <=> e \in i .. n \/ e = n + 1
    BY <1>1, <1>2, <1>6
  <2>2. \A e \in i .. n : q[e] = opts[e]
    BY <1>1, <1>2, <1>6
  <2>. QED
    BY <1>1, <2>1, <2>2, Zenon
<1>7. CASE o.to = "template"
  <2>1. j = n + 1 /\ j # 0 /\ q[j] = o
    BY <1>1, <1>2, <1>7
  <2>2. ~ \E e \in j .. Len(q) : q[e].to = "escape"
    BY <1>1, <1>7, <2>1
  <2>3. d = DeclaredIn(t, "template", o.val, s)
    BY <2>1, Zenon
  <2>4. y = NamedOrInline(t, o.val, s)
    BY <1>4, <2>1, <2>2, <2>3 DEF NamedOrInline
  <2>. QED
    BY <1>7, <2>4, Zenon DEF q
<1>8. CASE o.to = "escape"
  <2>1. y = EscapeIfInline(x)
    <3>1. CASE i = 0
      <4>1. x = NoTemplate /\ y = NoTemplate
        BY <1>2, <1>3, <1>4, <1>8, <3>1
      <4>. HIDE DEF x, y
      <4>. QED
        BY <4>1 DEF EscapeIfInline, NoTemplate
    <3>2. CASE i # 0
      <4>1. j = i /\ d = c /\ \E e \in j .. Len(q) : q[e].to = "escape"
        BY <1>5, <1>6, <1>8, <3>2
      <4>. HIDE DEF x, y, c, d
      <4>2. y = [ref    |-> IF c = 0 THEN "inline" ELSE "named",
                 body   |-> IF c = 0 THEN 0 ELSE t[c].items[1],
                 escape |-> c = 0]
        BY <1>4, <3>2, <4>1
      <4>3. CASE c = 0
        BY <1>3, <3>2, <4>2, <4>3 DEF EscapeIfInline
      <4>4. CASE c # 0
        BY <1>3, <3>2, <4>2, <4>4 DEF EscapeIfInline
      <4>. QED
        BY <4>3, <4>4
    <3>. QED
      BY <3>1, <3>2
  <2>. QED
    BY <1>8, <2>1, Zenon DEF q
<1>9. CASE o.to # "template" /\ o.to # "escape"
  <2>1. y = x
    <3>1. CASE i = 0
      BY <1>2, <1>3, <1>4, <1>9, <3>1
    <3>2. CASE i # 0
      <4>1. j = i /\ d = c
            /\ ((\E e \in i .. Len(q) : q[e].to = "escape")
                  <=> \E e \in i .. Len(opts) : opts[e].to = "escape")
        BY <1>5, <1>6, <1>9, <3>2
      <4>. HIDE DEF x, y, c, d
      <4>. DEFINE a == \E e \in i .. Len(q) : q[e].to = "escape"
                  b == \E e \in i .. Len(opts) : opts[e].to = "escape"
      <4>2. a <=> b
        BY <4>1
      <4>3. y = [ref    |-> IF c = 0 THEN "inline" ELSE "named",
                 body   |-> IF c = 0 THEN 0 ELSE t[c].items[1],
                 escape |-> c = 0 /\ a]
        BY <1>4, <3>2, <4>1, Zenon
      <4>4. x = [ref    |-> IF c = 0 THEN "inline" ELSE "named",
                 body   |-> IF c = 0 THEN 0 ELSE t[c].items[1],
                 escape |-> c = 0 /\ b]
        BY <1>3, <3>2, Zenon
      <4>. HIDE DEF a, b
      <4>5. CASE b
        BY <4>2, <4>3, <4>4, <4>5
      <4>6. CASE ~b
        BY <4>2, <4>3, <4>4, <4>6
      <4>. QED
        BY <4>5, <4>6
    <3>. QED
      BY <3>1, <3>2
  <2>. QED
    BY <1>9, <2>1, Zenon DEF q
<1>. QED
  BY <1>7, <1>8, <1>9

-----------------------------------------------------------------------------
(***************************************************************************)
(* Texts that agree so far, and one statement more.                        *)
(***************************************************************************)

Declaring(t, kind, n, s) == {i \in 1 .. s - 1 : t[i].kind = kind /\ t[i].name = n}

LEMMA DeclaredIs ==
  ASSUME NEW t, NEW kind, NEW n, NEW s \in Nat, s >= 1
  PROVE  Greatest(DeclaredIn(t, kind, n, s), Declaring(t, kind, n, s))
<1>1. DeclaredIn(t, kind, n, s) =
        IF Declaring(t, kind, n, s) # {} THEN Max(Declaring(t, kind, n, s)) ELSE 0
  BY Zenon DEF DeclaredIn, SelectLastInSubSeq, Declaring
<1>2. s - 1 \in Nat /\ Declaring(t, kind, n, s) \subseteq 1 .. s - 1
  BY DEF Declaring
<1>. QED
  BY <1>1, <1>2, GreatestIs

LEMMA DeclaredIndex ==
  ASSUME NEW t, NEW kind, NEW n, NEW s \in Nat, s >= 1
  PROVE  /\ DeclaredIn(t, kind, n, s) \in 0 .. s - 1
         /\ DeclaredIn(t, kind, n, s) # 0 =>
              /\ t[DeclaredIn(t, kind, n, s)].kind = kind
              /\ t[DeclaredIn(t, kind, n, s)].name = n
         /\ \A i \in 1 .. s - 1 :
              t[i].kind = kind /\ t[i].name = n => DeclaredIn(t, kind, n, s) # 0
<1>. DEFINE d == DeclaredIn(t, kind, n, s)
            J == Declaring(t, kind, n, s)
<1>1. Greatest(d, J)
  BY DeclaredIs
<1>2. \A i : i \in J <=> i \in 1 .. s - 1 /\ t[i].kind = kind /\ t[i].name = n
  BY Zenon DEF Declaring
<1>. HIDE DEF d, J
<1>3. CASE J = {}
  <2>1. d = 0
    BY <1>1, <1>3, Zenon DEF Greatest
  <2>. QED
    BY <1>2, <1>3, <2>1 DEF d
<1>4. CASE J # {}
  <2>1. d \in J
    BY <1>1, <1>4, Zenon DEF Greatest
  <2>2. d \in 1 .. s - 1 /\ t[d].kind = kind /\ t[d].name = n
    BY <1>2, <2>1, Zenon
  <2>3. d \in 0 .. s - 1 /\ d # 0
    BY <2>2
  <2>. QED
    BY <2>2, <2>3, Zenon DEF d
<1>. QED
  BY <1>3, <1>4

LEMMA DeclaredSame ==
  ASSUME NEW t, NEW u, NEW kind, NEW n, NEW s \in Nat, Agree(t, u, s - 1)
  PROVE  DeclaredIn(u, kind, n, s) = DeclaredIn(t, kind, n, s)
<1>1. Declaring(u, kind, n, s) = Declaring(t, kind, n, s)
  BY DEF Declaring, Agree
<1>2. /\ DeclaredIn(t, kind, n, s) =
           IF Declaring(t, kind, n, s) # {} THEN Max(Declaring(t, kind, n, s)) ELSE 0
      /\ DeclaredIn(u, kind, n, s) =
           IF Declaring(u, kind, n, s) # {} THEN Max(Declaring(u, kind, n, s)) ELSE 0
  BY Zenon DEF DeclaredIn, SelectLastInSubSeq, Declaring
<1>. DEFINE I == Declaring(t, kind, n, s)
            J == Declaring(u, kind, n, s)
<1>. HIDE DEF I, J
<1>3. DeclaredIn(u, kind, n, s) = IF I # {} THEN Max(I) ELSE 0
  <2>1. DeclaredIn(u, kind, n, s) = IF J # {} THEN Max(J) ELSE 0
    BY <1>2, Zenon DEF J
  <2>2. J = I
    BY <1>1, Zenon DEF I, J
  <2>. QED
    BY <2>1, <2>2
<1>. DEFINE a == IF I # {} THEN Max(I) ELSE 0
<1>4. DeclaredIn(t, kind, n, s) = a /\ DeclaredIn(u, kind, n, s) = a
  BY <1>2, <1>3, Zenon DEF I
<1>. HIDE DEF a
<1>. QED
  BY <1>4

LEMMA DeclaredNext ==
  ASSUME NEW t, NEW kind, NEW n, NEW c \in Nat
  PROVE  DeclaredIn(t, kind, n, c + 2) =
           IF t[c + 1].kind = kind /\ t[c + 1].name = n THEN c + 1
           ELSE DeclaredIn(t, kind, n, c + 1)
<1>. DEFINE d == DeclaredIn(t, kind, n, c + 2)
            e == DeclaredIn(t, kind, n, c + 1)
            J == Declaring(t, kind, n, c + 2)
            I == Declaring(t, kind, n, c + 1)
            new == t[c + 1].kind = kind /\ t[c + 1].name = n
<1>1. c + 1 \in Nat /\ c + 1 >= 1 /\ c + 2 \in Nat /\ c + 2 >= 1
      /\ (c + 2) - 1 = c + 1 /\ (c + 1) - 1 = c
  OBVIOUS
<1>2. Greatest(d, J) /\ Greatest(e, I)
  BY <1>1, DeclaredIs
<1>3. /\ \A i : i \in J <=> i \in 1 .. c + 1 /\ t[i].kind = kind /\ t[i].name = n
      /\ \A i : i \in I <=> i \in 1 .. c /\ t[i].kind = kind /\ t[i].name = n
  BY <1>1, Zenon DEF Declaring
<1>. HIDE DEF d, e, J, I
<1>4. I \subseteq 1 .. c /\ J \subseteq 1 .. c + 1
  BY <1>3
<1>5. CASE new
  <2>1. c + 1 \in J
    BY <1>3, <1>5
  <2>2. d \in J /\ c + 1 <= d
    BY <1>2, <2>1, Zenon DEF Greatest
  <2>3. d = c + 1
    BY <1>4, <2>2
  <2>. QED
    BY <1>5, <2>3, Zenon DEF d, e
<1>6. CASE ~new
  <2>1. \A i : i \in J <=> i \in I
    <3>. TAKE i
    <3>1. i \in 1 .. c + 1 <=> i \in 1 .. c \/ i = c + 1
      OBVIOUS
    <3>2. i = c + 1 => ~(t[i].kind = kind /\ t[i].name = n)
      BY <1>6
    <3>. QED
      BY <1>3, <3>1, <3>2, Zenon
  <2>2. J = I
    BY <2>1, Zenon
  <2>3. Greatest(d, I)
    BY <1>2, <2>2, Zenon
  <2>4. d = e
    BY <1>2, <1>4, <2>3, GreatestUnique, Zenon
  <2>. QED
    BY <1>6, <2>4, Zenon DEF d, e
<1>. QED
  BY <1>5, <1>6

LEMMA DriverSame ==
  ASSUME NEW t, NEW u, NEW w, NEW s \in Nat, s >= 1, Agree(t, u, s - 1)
  PROVE  DriverIn(u, w, s) = DriverIn(t, w, s)
<1>. DEFINE i == Lasting(w.opts, "template")
            d == DeclaredIn(t, "template", w.opts[i].val, s)
<1>1. DeclaredIn(u, "template", w.opts[i].val, s) = d
  BY DeclaredSame
<1>2. d \in 0 .. s - 1
  BY DeclaredIndex
<1>3. d # 0 => u[d] = t[d]
  <2>. HIDE DEF d
  <2>1. d # 0 => d \in 1 .. s - 1
    BY <1>2
  <2>. QED
    BY <2>1, Zenon DEF Agree
<1>. HIDE DEF i
<1>4. TemplateIn(u, w.opts, s) = TemplateIn(t, w.opts, s)
  <2>. DEFINE esc == \E e \in i .. Len(w.opts) : w.opts[e].to = "escape"
  <2>1. TemplateIn(t, w.opts, s) =
          IF i = 0 THEN NoTemplate
          ELSE [ref    |-> IF d = 0 THEN "inline" ELSE "named",
                body   |-> IF d = 0 THEN 0 ELSE t[d].items[1],
                escape |-> d = 0 /\ esc]
    BY Zenon DEF TemplateIn, Lasting, i
  <2>2. TemplateIn(u, w.opts, s) =
          IF i = 0 THEN NoTemplate
          ELSE [ref    |-> IF d = 0 THEN "inline" ELSE "named",
                body   |-> IF d = 0 THEN 0 ELSE u[d].items[1],
                escape |-> d = 0 /\ esc]
    BY <1>1, Zenon DEF TemplateIn, Lasting, i
  <2>. HIDE DEF d, esc
  <2>. DEFINE x == IF i = 0 THEN NoTemplate
                   ELSE [ref    |-> IF d = 0 THEN "inline" ELSE "named",
                         body   |-> IF d = 0 THEN 0 ELSE t[d].items[1],
                         escape |-> d = 0 /\ esc]
              y == IF i = 0 THEN NoTemplate
                   ELSE [ref    |-> IF d = 0 THEN "inline" ELSE "named",
                         body   |-> IF d = 0 THEN 0 ELSE u[d].items[1],
                         escape |-> d = 0 /\ esc]
  <2>3. y = x
    <3>1. CASE d = 0
      BY <3>1
    <3>2. CASE d # 0
      BY <1>3, <3>2
    <3>. QED
      BY <3>1, <3>2
  <2>4. TemplateIn(t, w.opts, s) = x /\ TemplateIn(u, w.opts, s) = y
    BY <2>1, <2>2, Zenon
  <2>. HIDE DEF x, y
  <2>. QED
    BY <2>3, <2>4
<1>. QED
  BY <1>4, Zenon DEF DriverIn

-----------------------------------------------------------------------------
(***************************************************************************)
(* What the statements have made, when text and heap go on.                *)
(***************************************************************************)

LEMMA MadeSame ==
  ASSUME NEW t, NEW u, NEW h, NEW g, NEW s \in Nat, s >= 1, NEW b \in Int, NEW e \in Int, b <= e,
         Agree(t, u, s - 1), Agree(h, g, b), NEW i, NEW d, IsMade(t, h, s, i, d, b),
         u[s].items[i] = t[s].items[i]
  PROVE  IsMade(u, g, s, i, d, e)
<1>1. d \in 1 .. b /\ h[d] = DriverIn(t, t[s].items[i], s)
  BY Zenon DEF IsMade
<1>2. d \in 1 .. e /\ g[d] = h[d]
  BY <1>1 DEF Agree
<1>3. DriverIn(u, t[s].items[i], s) = DriverIn(t, t[s].items[i], s)
  BY DriverSame
<1>. QED
  BY <1>1, <1>2, <1>3, Zenon DEF IsMade

\* The object n of a kind is what statement s says.
IsObject(kind, v, t, h, s, b) ==
  IF kind \in Groups
  THEN /\ v \in Seq(1 .. b) /\ Len(v) = Len(t[s].items)
       /\ \A i \in 1 .. Len(v) : IsMade(t, h, s, i, v[i], b)
  ELSE v = t[s].items[1]

LEMMA ObjectSame ==
  ASSUME NEW kind, NEW v, NEW t, NEW u, NEW h, NEW g, NEW s \in Nat, s >= 1,
         NEW b \in Int, NEW e \in Int, b <= e,
         Agree(t, u, s), Agree(h, g, b), IsObject(kind, v, t, h, s, b)
  PROVE  IsObject(kind, v, u, g, s, e)
<1>1. u[s] = t[s] /\ Agree(t, u, s - 1)
  BY DEF Agree
<1>2. CASE kind \in Groups
  <2>1. /\ v \in Seq(1 .. b) /\ Len(v) = Len(t[s].items)
        /\ \A i \in 1 .. Len(v) : IsMade(t, h, s, i, v[i], b)
    BY <1>2, Zenon DEF IsObject
  <2>2. v \in Seq(1 .. e)
    <3>1. 1 .. b \subseteq 1 .. e
      OBVIOUS
    <3>. QED
      BY <2>1, <3>1, SeqMonotonic, Zenon
  <2>3. \A i \in 1 .. Len(v) : IsMade(u, g, s, i, v[i], e)
    BY <1>1, <2>1, MadeSame
  <2>. QED
    BY <1>1, <1>2, <2>1, <2>2, <2>3, Zenon DEF IsObject
<1>3. CASE kind \notin Groups
  BY <1>1, <1>3, Zenon DEF IsObject
<1>. QED
  BY <1>2, <1>3

LEMMA ObjectsAre ==
  ASSUME NEW kind, NEW o, NEW t, NEW h, NEW c \in Nat, NEW b
  PROVE  ObjectsMade(kind, o, t, h, c, b) <=>
           /\ DOMAIN o = Named(t, kind, c)
           /\ \A n \in DOMAIN o : IsObject(kind, o[n], t, h, DeclaredIn(t, kind, n, c + 1), b)
BY Zenon DEF ObjectsMade, IsObject

\* A name of an object is that of a statement.
LEMMA ObjectDeclared ==
  ASSUME NEW kind, NEW o, NEW t, NEW c \in Nat, NEW n \in DOMAIN o,
         DOMAIN o = Named(t, kind, c)
  PROVE  DeclaredIn(t, kind, n, c + 1) \in 1 .. c
<1>1. PICK i \in 1 .. c : t[i].kind = kind /\ t[i].name = n
  BY DEF Named
<1>2. c + 1 \in Nat /\ c + 1 >= 1 /\ (c + 1) - 1 = c
  OBVIOUS
<1>. DEFINE d == DeclaredIn(t, kind, n, c + 1)
<1>3. d \in 0 .. (c + 1) - 1 /\ ((\E j \in 1 .. (c + 1) - 1 : t[j].kind = kind /\ t[j].name = n) => d # 0)
  BY <1>2, DeclaredIndex
<1>. HIDE DEF d
<1>4. d \in 1 .. c
  BY <1>1, <1>2, <1>3
<1>. QED
  BY <1>4, Zenon DEF d

LEMMA ObjectsSame ==
  ASSUME NEW kind, NEW o, NEW t, NEW u, NEW h, NEW g, NEW c \in Nat,
         NEW b \in Int, NEW e \in Int, b <= e,
         Agree(t, u, c), Agree(h, g, b), ObjectsMade(kind, o, t, h, c, b)
  PROVE  ObjectsMade(kind, o, u, g, c, e)
<1>1. /\ DOMAIN o = Named(t, kind, c)
      /\ \A n \in DOMAIN o : IsObject(kind, o[n], t, h, DeclaredIn(t, kind, n, c + 1), b)
  BY ObjectsAre, Zenon
<1>2. Named(u, kind, c) = Named(t, kind, c)
  BY DEF Agree, Named
<1>3. ASSUME NEW n \in DOMAIN o
      PROVE  IsObject(kind, o[n], u, g, DeclaredIn(u, kind, n, c + 1), e)
  <2>. DEFINE d == DeclaredIn(t, kind, n, c + 1)
  <2>1. d \in 1 .. c
    BY <1>1, ObjectDeclared
  <2>2. DeclaredIn(u, kind, n, c + 1) = d
    <3>1. c + 1 \in Nat /\ (c + 1) - 1 = c
      OBVIOUS
    <3>. QED
      BY <3>1, DeclaredSame
  <2>3. IsObject(kind, o[n], t, h, d, b)
    BY <1>1, <1>3, Zenon
  <2>. HIDE DEF d
  <2>4. d \in Nat /\ d >= 1 /\ Agree(t, u, d)
    BY <2>1 DEF Agree
  <2>5. IsObject(kind, o[n], u, g, d, e)
    BY <2>3, <2>4, ObjectSame
  <2>. QED
    BY <2>2, <2>5, Zenon
<1>. QED
  BY <1>1, <1>2, <1>3, ObjectsAre

\* A statement of another kind changes nothing.
LEMMA ObjectsSkip ==
  ASSUME NEW kind, NEW o, NEW t, NEW h, NEW c \in Nat, NEW b,
         t[c + 1].kind # kind, ObjectsMade(kind, o, t, h, c, b)
  PROVE  ObjectsMade(kind, o, t, h, c + 1, b)
<1>1. /\ DOMAIN o = Named(t, kind, c)
      /\ \A n \in DOMAIN o : IsObject(kind, o[n], t, h, DeclaredIn(t, kind, n, c + 1), b)
  BY ObjectsAre, Zenon
<1>2. {i \in 1 .. c + 1 : t[i].kind = kind} = {i \in 1 .. c : t[i].kind = kind}
  <2>1. \A i : i \in 1 .. c + 1 <=> i \in 1 .. c \/ i = c + 1
    OBVIOUS
  <2>. QED
    BY <2>1
<1>3. \A n : DeclaredIn(t, kind, n, (c + 1) + 1) = DeclaredIn(t, kind, n, c + 1)
  <2>. TAKE n
  <2>1. DeclaredIn(t, kind, n, c + 2) = DeclaredIn(t, kind, n, c + 1)
    BY DeclaredNext
  <2>2. c + 2 = (c + 1) + 1
    OBVIOUS
  <2>. QED
    BY <2>1, <2>2
<1>4. c + 1 \in Nat
  OBVIOUS
<1>5. DOMAIN o = Named(t, kind, c + 1)
  BY <1>1, <1>2, Zenon DEF Named
<1>6. \A n \in DOMAIN o : IsObject(kind, o[n], t, h, DeclaredIn(t, kind, n, (c + 1) + 1), b)
  BY <1>1, <1>3, Zenon
<1>. QED
  BY <1>4, <1>5, <1>6, ObjectsAre, Zenon

\* A statement of the kind puts its object under its name.
LEMMA ObjectsPut ==
  ASSUME NEW kind, NEW o, NEW t, NEW h, NEW c \in Nat, NEW b, NEW v, NEW x,
         t[c + 1].kind = kind, t[c + 1].name = x,
         IsObject(kind, v, t, h, c + 1, b), ObjectsMade(kind, o, t, h, c, b)
  PROVE  ObjectsMade(kind, Put(o, x, v), t, h, c + 1, b)
<1>1. /\ DOMAIN o = Named(t, kind, c)
      /\ \A n \in DOMAIN o : IsObject(kind, o[n], t, h, DeclaredIn(t, kind, n, c + 1), b)
  BY Zenon DEF ObjectsMade, IsObject
<1>. DEFINE q == Put(o, x, v)
<1>2. /\ DOMAIN q = DOMAIN o \cup {x}
      /\ q[x] = v
      /\ \A n \in DOMAIN o : n # x => q[n] = o[n]
  BY DEF Put
<1>. HIDE DEF q
<1>3. DOMAIN q = Named(t, kind, c + 1)
  <2>1. \A i : i \in 1 .. c + 1 <=> i \in 1 .. c \/ i = c + 1
    OBVIOUS
  <2>2. {i \in 1 .. c + 1 : t[i].kind = kind} = {i \in 1 .. c : t[i].kind = kind} \cup {c + 1}
    BY <2>1
  <2>. DEFINE I == {i \in 1 .. c : t[i].kind = kind}
  <2>. HIDE DEF I
  <2>3. {t[s].name : s \in I \cup {c + 1}} = {t[s].name : s \in I} \cup {x}
    OBVIOUS
  <2>. QED
    BY <1>1, <1>2, <2>2, <2>3, Zenon DEF I, Named
<1>4. \A n \in DOMAIN q : IsObject(kind, q[n], t, h, DeclaredIn(t, kind, n, (c + 1) + 1), b)
  <2>. TAKE n \in DOMAIN q
  <2>1. (c + 1) + 1 = c + 2
    OBVIOUS
  <2>2. DeclaredIn(t, kind, n, c + 2) = IF n = x THEN c + 1 ELSE DeclaredIn(t, kind, n, c + 1)
    BY DeclaredNext
  <2>3. CASE n = x
    BY <1>2, <2>1, <2>2, <2>3
  <2>4. CASE n # x
    <3>1. n \in DOMAIN o /\ q[n] = o[n]
      BY <1>2, <2>4
    <3>2. IsObject(kind, q[n], t, h, DeclaredIn(t, kind, n, c + 1), b)
      BY <1>1, <3>1, Zenon
    <3>. QED
      BY <2>1, <2>2, <2>4, <3>2
  <2>. QED
    BY <2>3, <2>4
<1>5. c + 1 \in Nat
  OBVIOUS
<1>. QED
  BY <1>3, <1>4, <1>5, ObjectsAre, Zenon DEF q

\* The log statements.
LEMMA LogsFinite ==
  ASSUME NEW t, NEW s \in Nat
  PROVE  IsFiniteSet(LogsOf(t, s)) /\ Cardinality(LogsOf(t, s)) \in Nat
<1>1. IsFiniteSet(1 .. s)
  BY FS_Interval
<1>2. LogsOf(t, s) \in SUBSET (1 .. s)
  BY DEF LogsOf
<1>3. IsFiniteSet(LogsOf(t, s))
  BY <1>1, <1>2, FS_Subset
<1>. QED
  BY <1>3, FS_CardinalityType

LEMMA LogsSame ==
  ASSUME NEW t, NEW u, NEW s \in Nat, Agree(t, u, s)
  PROVE  LogsOf(u, s) = LogsOf(t, s)
BY DEF LogsOf, Agree

LEMMA ConnectedSame ==
  ASSUME NEW logs, NEW t, NEW u, NEW c \in Nat, Agree(t, u, c), Connected(logs, t, c)
  PROVE  Connected(logs, u, c)
<1>1. LogsOf(u, c) = LogsOf(t, c)
  BY LogsSame
<1>2. ASSUME NEW s \in LogsOf(u, c)
      PROVE  logs[Cardinality(LogsOf(u, s))] = [items |-> u[s].items, flags |-> u[s].flags]
  <2>1. s \in 1 .. c /\ s \in LogsOf(t, c)
    BY <1>1, <1>2 DEF LogsOf
  <2>2. s \in Nat /\ Agree(t, u, s) /\ u[s] = t[s]
    BY <2>1 DEF Agree
  <2>3. LogsOf(u, s) = LogsOf(t, s)
    BY <2>2, LogsSame
  <2>. QED
    BY <2>1, <2>2, <2>3, Zenon DEF Connected
<1>. QED
  BY <1>1, <1>2, Zenon DEF Connected

LEMMA LogsNext ==
  ASSUME NEW t, NEW c \in Nat
  PROVE  /\ t[c + 1].kind # "log" => LogsOf(t, c + 1) = LogsOf(t, c)
         /\ t[c + 1].kind = "log" =>
              /\ LogsOf(t, c + 1) = LogsOf(t, c) \cup {c + 1}
              /\ Cardinality(LogsOf(t, c + 1)) = Cardinality(LogsOf(t, c)) + 1
<1>1. \A i : i \in 1 .. c + 1 <=> i \in 1 .. c \/ i = c + 1
  OBVIOUS
<1>2. t[c + 1].kind # "log" => LogsOf(t, c + 1) = LogsOf(t, c)
  BY <1>1 DEF LogsOf
<1>3. t[c + 1].kind = "log" => LogsOf(t, c + 1) = LogsOf(t, c) \cup {c + 1}
  BY <1>1 DEF LogsOf
<1>4. c + 1 \notin LogsOf(t, c)
  BY DEF LogsOf
<1>5. Cardinality(LogsOf(t, c) \cup {c + 1}) = Cardinality(LogsOf(t, c)) + 1
  BY <1>4, LogsFinite, FS_AddElement
<1>. QED
  BY <1>2, <1>3, <1>5, Zenon

LEMMA ConnectedSkip ==
  ASSUME NEW logs, NEW t, NEW c \in Nat, t[c + 1].kind # "log", Connected(logs, t, c)
  PROVE  Connected(logs, t, c + 1)
BY LogsNext, Zenon DEF Connected

LEMMA ConnectedAppend ==
  ASSUME NEW logs \in Seq(Connection), NEW t, NEW c \in Nat, NEW e \in Connection,
         t[c + 1].kind = "log", e = [items |-> t[c + 1].items, flags |-> t[c + 1].flags],
         Connected(logs, t, c)
  PROVE  Connected(Append(logs, e), t, c + 1)
<1>. DEFINE q == Append(logs, e)
            m == Cardinality(LogsOf(t, c))
<1>1. /\ LogsOf(t, c + 1) = LogsOf(t, c) \cup {c + 1}
      /\ Cardinality(LogsOf(t, c + 1)) = m + 1
  BY LogsNext, Zenon
<1>2. /\ Len(logs) = m
      /\ \A s \in LogsOf(t, c) :
           logs[Cardinality(LogsOf(t, s))] = [items |-> t[s].items, flags |-> t[s].flags]
  BY Zenon DEF Connected
<1>3. m \in Nat
  BY LogsFinite
<1>4. /\ Len(q) = m + 1 /\ q[m + 1] = e
      /\ \A i \in 1 .. m : q[i] = logs[i]
  BY <1>2, <1>3
<1>. HIDE DEF q
<1>5. ASSUME NEW s \in LogsOf(t, c)
      PROVE  Cardinality(LogsOf(t, s)) \in 1 .. m
  <2>1. s \in 1 .. c /\ s \in Nat /\ s \in LogsOf(t, s) /\ LogsOf(t, s) \subseteq LogsOf(t, c)
    BY <1>5 DEF LogsOf
  <2>2. Cardinality(LogsOf(t, s)) <= m
    BY <2>1, LogsFinite, FS_Subset
  <2>3. Cardinality(LogsOf(t, s)) # 0
    BY <2>1, LogsFinite, FS_EmptySet
  <2>4. Cardinality(LogsOf(t, s)) \in Nat
    BY <2>1, LogsFinite
  <2>. QED
    BY <1>3, <2>2, <2>3, <2>4
<1>. HIDE DEF m
<1>6. ASSUME NEW s \in LogsOf(t, c + 1)
      PROVE  q[Cardinality(LogsOf(t, s))] = [items |-> t[s].items, flags |-> t[s].flags]
  <2>1. CASE s = c + 1
    BY <1>1, <1>4, <2>1
  <2>2. CASE s \in LogsOf(t, c)
    BY <1>2, <1>4, <1>5, <2>2
  <2>. QED
    BY <1>1, <2>1, <2>2
<1>. QED
  BY <1>1, <1>4, <1>6, Zenon DEF Connected, q

-----------------------------------------------------------------------------
(***************************************************************************)
(* The stack.                                                              *)
(***************************************************************************)

LEMMA TopIs == Top = TopOf(yystack)
BY DEF Top, TopOf, Last

\* A symbol is pushed.
IsPushed(z, y, e) ==
  /\ z \in Seq(Symbol) /\ Len(z) = Len(y) + 1 /\ Len(y) \in Nat
  /\ \A i \in 1 .. Len(y) : z[i] = y[i]
  /\ z[Len(y) + 1] = e
  /\ TopOf(z) = e.sym

LEMMA Pushed ==
  ASSUME NEW y \in Seq(Symbol), NEW e \in Symbol
  PROVE  IsPushed(Append(y, e), y, e)
<1>. DEFINE z == Append(y, e)
<1>1. /\ z \in Seq(Symbol) /\ Len(z) = Len(y) + 1 /\ Len(y) \in Nat
      /\ \A i \in 1 .. Len(y) : z[i] = y[i]
      /\ z[Len(y) + 1] = e /\ z # <<>>
  OBVIOUS
<1>2. TopOf(z) = e.sym
  <2>. HIDE DEF z
  <2>. QED
    BY <1>1 DEF TopOf
<1>. QED
  BY <1>1, <1>2, Zenon DEF IsPushed

\* From symbol i on, the stack is replaced by one symbol.
IsReduced(z, y, i, e) ==
  /\ z \in Seq(Symbol) /\ Len(z) = i
  /\ \A k \in 1 .. i - 1 : z[k] = y[k]
  /\ z[i] = e
  /\ TopOf(z) = e.sym

LEMMA Reduced ==
  ASSUME NEW y \in Seq(Symbol), NEW i \in 1 .. Len(y), NEW e \in Symbol
  PROVE  IsReduced(Append(SubSeq(y, 1, i - 1), e), y, i, e)
<1>. DEFINE x == SubSeq(y, 1, i - 1)
<1>1. x \in Seq(Symbol) /\ Len(x) = i - 1 /\ \A k \in 1 .. i - 1 : x[k] = y[k]
  OBVIOUS
<1>. HIDE DEF x
<1>2. IsPushed(Append(x, e), x, e)
  BY <1>1, Pushed
<1>3. (i - 1) + 1 = i
  OBVIOUS
<1>. QED
  BY <1>1, <1>2, <1>3 DEF IsPushed, IsReduced, x

\* The last symbol of its kind is open.
LEMMA OpenIs ==
  ASSUME NEW s, NEW i \in 1 .. Len(yystack), yystack \in Seq(Symbol), yystack[i].sym = s,
         \A k \in i + 1 .. Len(yystack) : yystack[k].sym # s
  PROVE  Open(s) = i
<1>. DEFINE n == Len(yystack)
            I == {k \in 1 .. n : yystack[k].sym = s}
<1>1. Open(s) = IF I # {} THEN Max(I) ELSE 0
  BY Zenon DEF Open, SelectLastInSubSeq
<1>2. n \in Nat /\ I \subseteq 1 .. n /\ i \in I
  OBVIOUS
<1>3. \A k \in I : k <= i
  OBVIOUS
<1>. HIDE DEF I, n
<1>4. Greatest(Open(s), I)
  BY <1>1, <1>2, GreatestIs
<1>5. Greatest(i, I)
  BY <1>2, <1>3 DEF Greatest
<1>. QED
  BY <1>2, <1>4, <1>5, GreatestUnique

-----------------------------------------------------------------------------
(***************************************************************************)
(* The statement that is open.                                             *)
(***************************************************************************)

LEMMA StatementIs ==
  ASSUME NEW st \in Statement
  PROVE  /\ Len(st.items) \in Nat
         /\ st.kind \in Groups => st \in GroupText
         /\ st.kind = "log" => st \in LogText
         /\ st.kind = "options" => st \in OptionsText
<1>1. CASE st \in GroupText
  BY <1>1 DEF GroupText, Groups
<1>2. CASE st \in ValueText
  BY <1>2 DEF ValueText, Groups
<1>3. CASE st \in OptionsText
  <2>1. st.kind = "options" /\ st.items \in Seq(OptionItem)
    BY <1>3 DEF OptionsText
  <2>. QED
    BY <1>3, <2>1 DEF Groups
<1>4. CASE st \in LogText
  <2>1. st.kind = "log" /\ st.items \in Seq(EndpointText)
    BY <1>4 DEF LogText
  <2>. QED
    BY <1>4, <2>1 DEF Groups
<1>. QED
  BY <1>1, <1>2, <1>3, <1>4 DEF Statement

IsOpen(y, st, m, n) ==
  /\ m \in 1 .. Len(y) /\ n \in Nat /\ y[m].sym = st.kind
  /\ \A i \in 1 .. m - 1 : y[i].sym = "stmt"
  /\ \/ /\ st.kind \in Groups /\ st \in GroupText /\ GroupShape(y, st, m, n)
        /\ TopOf(y) \in {st.kind, "item", "params", "option"}
     \/ /\ st.kind = "options" /\ st \in OptionsText
        /\ \A i \in m + 1 .. Len(y) : y[i].sym = "option_item"
        /\ TopOf(y) \in {"options", "option_item"}
     \/ /\ st.kind = "log" /\ st \in LogText /\ LogShape(y, st, m, n)
        /\ TopOf(y) \in {"log", "endpoint", "flags"}

LEMMA OpenStatementIs ==
  ASSUME NEW y \in Seq(Symbol), NEW t \in Seq(Statement), Shape(y, t), TopOf(y) # "stmt"
  PROVE  /\ IsOpen(y, t[Len(t)], Len(t), Len(t[Len(t)].items))
         /\ t # <<>> /\ t[Len(t)] \in Statement /\ Len(t) \in Nat /\ Len(t) >= 1
         /\ Complete(y, t) = Len(t) - 1
<1>. DEFINE m == Len(t)
            st == t[m]
            n == Len(st.items)
<1>1. t # <<>> /\ OpenShape(y, st, m, n) /\ Complete(y, t) = m - 1
      /\ \A i \in 1 .. m - 1 : y[i].sym = "stmt"
  BY Zenon DEF Shape, Complete
<1>2. m \in Nat /\ m >= 1 /\ st \in Statement /\ Len(y) \in Nat
  BY <1>1
<1>3. /\ n \in Nat
      /\ st.kind \in Groups => st \in GroupText
      /\ st.kind = "log" => st \in LogText
      /\ st.kind = "options" => st \in OptionsText
  BY <1>2, StatementIs
<1>. HIDE DEF m, st, n
<1>4. m \in 1 .. Len(y) /\ y[m].sym = st.kind
  BY <1>1, <1>2 DEF OpenShape
<1>5. TopOf(y) = y[Len(y)].sym
  BY <1>4 DEF TopOf
<1>6. IsOpen(y, st, m, n)
  <2>1. CASE st.kind \in Groups /\ GroupShape(y, st, m, n)
    <3>1. TopOf(y) \in {st.kind, "item", "params", "option"}
      <4>1. CASE InParams(y)
        BY <4>1 DEF InParams
      <4>2. CASE ~InParams(y)
        <5>1. Len(y) = m + n /\ \A j \in 1 .. n : y[m + j].sym = "item"
          BY <2>1, <4>2, Zenon DEF GroupShape
        <5>. QED
          BY <1>2, <1>3, <1>4, <1>5, <5>1
      <4>. QED
        BY <4>1, <4>2
    <3>. QED
      BY <1>1, <1>3, <1>4, <2>1, <3>1, Zenon DEF IsOpen
  <2>2. CASE st.kind = "options" /\ \A i \in m + 1 .. Len(y) : y[i].sym = "option_item"
    <3>1. TopOf(y) \in {"options", "option_item"}
      BY <1>2, <1>4, <1>5, <2>2
    <3>. QED
      BY <1>1, <1>3, <1>4, <2>2, <3>1, Zenon DEF IsOpen
  <2>3. CASE st.kind = "log" /\ LogShape(y, st, m, n)
    <3>1. TopOf(y) \in {"log", "endpoint", "flags"}
      <4>1. CASE Len(y) = m + n
        <5>1. \A j \in 1 .. n : y[m + j] = Sym("endpoint", st.items[j])
          BY <2>3, Zenon DEF LogShape
        <5>2. ASSUME NEW j \in 1 .. n
              PROVE  y[m + j].sym = "endpoint"
          <6>1. y[m + j] = Sym("endpoint", st.items[j])
            BY <5>1, Zenon
          <6>. QED
            BY <6>1 DEF Sym
        <5>3. CASE n = 0
          BY <1>2, <1>4, <1>5, <2>3, <4>1, <5>3
        <5>4. CASE n # 0
          <6>1. n \in 1 .. n
            BY <1>3, <5>4
          <6>. QED
            BY <1>5, <4>1, <5>2, <6>1
        <5>. QED
          BY <5>3, <5>4
      <4>2. CASE Len(y) = m + n + 1
        BY <1>2, <1>3, <1>5, <2>3, <4>2 DEF LogShape, Sym
      <4>. QED
        BY <2>3, <4>1, <4>2 DEF LogShape
    <3>. QED
      BY <1>1, <1>3, <1>4, <2>3, <3>1, Zenon DEF IsOpen
  <2>. QED
    BY <1>1, <2>1, <2>2, <2>3, Zenon DEF OpenShape
<1>. QED
  BY <1>1, <1>2, <1>6, Zenon DEF m, st, n

-----------------------------------------------------------------------------
(***************************************************************************)
(* What one step does to the text, and what stays made.                    *)
(***************************************************************************)

LEMMA MadeKept ==
  ASSUME NEW made, NEW t, NEW u, NEW h, NEW g, NEW c \in Nat, NEW b \in Int, NEW e \in Int, b <= e,
         Agree(t, u, c), Agree(h, g, b), Made(made, t, h, c, b)
  PROVE  Made(made, u, g, c, e)
<1>1. ASSUME NEW kind \in Objects
      PROVE  ObjectsMade(kind, made[kind], u, g, c, e)
  <2>1. ObjectsMade(kind, made[kind], t, h, c, b)
    BY Zenon DEF Made
  <2>. QED
    BY <2>1, ObjectsSame
<1>2. Connected(made.connections, u, c)
  <2>1. Connected(made.connections, t, c)
    BY Zenon DEF Made
  <2>. QED
    BY <2>1, ConnectedSame
<1>. QED
  BY <1>1, <1>2, Zenon DEF Made

LEMMA AgreeSelf ==
  ASSUME NEW s, NEW n
  PROVE  Agree(s, s, n)
BY DEF Agree

\* A statement more, and the last statement replaced.
IsLonger(u, t, st) ==
  u \in Seq(Statement) /\ Len(u) = Len(t) + 1 /\ Agree(t, u, Len(t)) /\ u[Len(t) + 1] = st
IsReplaced(u, t, st) ==
  u \in Seq(Statement) /\ Len(u) = Len(t) /\ Agree(t, u, Len(t) - 1) /\ u[Len(t)] = st

LEMMA Longer ==
  ASSUME NEW t \in Seq(Statement), NEW st \in Statement
  PROVE  IsLonger(Append(t, st), t, st)
BY DEF IsLonger, Agree

LEMMA Replaced ==
  ASSUME NEW t \in Seq(Statement), t # <<>>, NEW st \in Statement
  PROVE  IsReplaced(Append(Front(t), st), t, st)
<1>. DEFINE f == Front(t)
            n == Len(t) - 1
<1>0. n \in Nat /\ \A i \in 1 .. n : t[i] \in Statement
  OBVIOUS
<1>1. f \in Seq(Statement) /\ Len(f) = Len(t) - 1 /\ \A i \in 1 .. Len(t) - 1 : f[i] = t[i]
  <2>. HIDE DEF n
  <2>1. /\ SubSeq(t, 1, n) \in Seq(Statement)
        /\ Len(SubSeq(t, 1, n)) = IF 1 <= n THEN n - 1 + 1 ELSE 0
        /\ \A i \in 1 .. n - 1 + 1 : SubSeq(t, 1, n)[i] = t[1 + i - 1]
    BY <1>0, SubSeqProperties
  <2>. DEFINE x == SubSeq(t, 1, n)
  <2>2. f = x
    BY Zenon DEF Front, n
  <2>. HIDE DEF x, f
  <2>3. x \in Seq(Statement) /\ Len(x) = n /\ \A i \in 1 .. n : x[i] = t[i]
    BY <1>0, <2>1 DEF x
  <2>. QED
    BY <2>2, <2>3, Zenon DEF n
<1>. HIDE DEF f
<1>2. /\ Append(f, st) \in Seq(Statement) /\ Len(Append(f, st)) = Len(f) + 1
      /\ \A i \in 1 .. Len(f) : Append(f, st)[i] = f[i]
      /\ Append(f, st)[Len(f) + 1] = st
  BY <1>1
<1>3. Len(t) \in Nat /\ (Len(t) - 1) + 1 = Len(t)
  OBVIOUS
<1>4. IsReplaced(Append(f, st), t, st)
  BY <1>1, <1>2, <1>3 DEF IsReplaced, Agree
<1>. QED
  BY <1>4, Zenon DEF f

-----------------------------------------------------------------------------
(***************************************************************************)
(* A statement is opened.                                                  *)
(***************************************************************************)

LEMMA Opened ==
  ASSUME NEW y \in Seq(Symbol), NEW t \in Seq(Statement), NEW h \in Seq(Driver), NEW l, NEW made,
         Parsing(y, t, h, l, made), TopOf(y) = "stmt",
         NEW st \in Statement, st.items = <<>>, NEW v, Sym(st.kind, v) \in Symbol,
         \/ st.kind \in Groups /\ v = st.name
         \/ st.kind = "options"
         \/ st.kind = "log" /\ st.flags = {}
  PROVE  Parsing(Append(y, Sym(st.kind, v)), Append(t, st), h, l, made)
<1>. DEFINE z == Append(y, Sym(st.kind, v))
            u == Append(t, st)
            m == Len(t)
            b == Len(h)
<1>1. IsPushed(z, y, Sym(st.kind, v)) /\ IsLonger(u, t, st)
  BY Pushed, Longer
<1>. HIDE DEF z, u
<1>2. /\ \A i \in 1 .. m : y[i].sym = "stmt"
      /\ Len(y) = m /\ Complete(y, t) = m
      /\ Made(made, t, h, Complete(y, t), Finished(y, b))
  BY Zenon DEF Parsing, Shape, Complete
<1>3. Finished(y, b) = b
  BY DEF Finished, InParams
<1>4. /\ Len(z) = m + 1 /\ Len(u) = m + 1 /\ m \in Nat /\ b \in Nat
      /\ \A i \in 1 .. m : z[i].sym = "stmt"
      /\ z[m + 1] = Sym(st.kind, v) /\ u[m + 1] = st /\ Len(u[m + 1].items) = 0
      /\ TopOf(z) = st.kind
  <2>1. z[m + 1] = Sym(st.kind, v) /\ Sym(st.kind, v).sym = st.kind
    BY <1>1, <1>2 DEF IsPushed, Sym
  <2>2. \A i \in 1 .. m : z[i].sym = "stmt"
    BY <1>1, <1>2, Zenon DEF IsPushed
  <2>. QED
    BY <1>1, <1>2, <2>1, <2>2 DEF IsPushed, IsLonger
<1>5. TopOf(z) # "stmt" /\ ~InParams(z)
  BY <1>4 DEF InParams, Groups
<1>6. Complete(z, u) = m /\ Finished(z, b) = b
  BY <1>4, <1>5 DEF Complete, Finished
<1>7. z[m + 1].sym = st.kind /\ z[m + 1].val = v
  BY <1>4 DEF Sym
<1>8. Shape(z, u)
  <2>1. OpenShape(z, st, m + 1, 0)
    <3>1. CASE st.kind \in Groups /\ v = st.name
      <4>1. GroupShape(z, st, m + 1, 0)
        BY <1>4, <1>5, <1>7, <3>1 DEF GroupShape
      <4>. QED
        BY <1>4, <1>7, <3>1, <4>1 DEF OpenShape
    <3>2. CASE st.kind = "options"
      BY <1>4, <1>7, <3>2 DEF OpenShape
    <3>3. CASE st.kind = "log" /\ st.flags = {}
      <4>1. LogShape(z, st, m + 1, 0)
        BY <1>4, <3>3 DEF LogShape
      <4>. QED
        BY <1>4, <1>7, <3>3, <4>1 DEF OpenShape
    <3>. QED
      BY <3>1, <3>2, <3>3
  <2>2. u # <<>>
    BY <1>1, <1>4 DEF IsLonger
  <2>. QED
    BY <1>4, <1>5, <1>6, <2>1, <2>2 DEF Shape
<1>9. Held(z, u, h, l)
  BY <1>4, <1>5 DEF Held
<1>10. Made(made, u, h, m, b)
  <2>1. Made(made, t, h, m, b)
    BY <1>2, <1>3
  <2>2. Agree(t, u, m) /\ Agree(h, h, b) /\ b <= b
    BY <1>1, <1>4, AgreeSelf DEF IsLonger
  <2>. QED
    BY <1>4, <2>1, <2>2, MadeKept
<1>. QED
  BY <1>6, <1>8, <1>9, <1>10, Zenon DEF Parsing, z, u

-----------------------------------------------------------------------------
(***************************************************************************)
(* The drivers of a group.                                                 *)
(***************************************************************************)

\* What is known of an open group, and what has to be shown of it.
GroupHolds(y, t, h, l, made, st, m, n) ==
  /\ t # <<>> /\ m = Len(t) /\ st = t[m] /\ n = Len(st.items)
  /\ TopOf(y) # "stmt" /\ st.kind \in Groups
  /\ m \in 1 .. Len(y) /\ y[m].sym = st.kind
  /\ \A i \in 1 .. m - 1 : y[i].sym = "stmt"
  /\ GroupShape(y, st, m, n)
  /\ \A j \in 1 .. n :
       j # n \/ ~InParams(y) => IsMade(t, h, m, j, y[m + j].val, Finished(y, Len(h)))
  /\ InParams(y) =>
       /\ IsMade(t, h, m, n, Len(h), Len(h))
       /\ \A p \in DriverKind[st.items[n].kind].points : l[p] = Len(h)
       /\ DriverKind[st.items[n].kind].points # {}
  /\ Made(made, t, h, m - 1, Finished(y, Len(h)))

LEMMA GroupStays ==
  ASSUME NEW y, NEW t, NEW h, NEW l, NEW made, NEW st, NEW m, NEW n, m \in Nat, Len(y) \in Nat,
         GroupHolds(y, t, h, l, made, st, m, n)
  PROVE  Parsing(y, t, h, l, made)
<1>1. Complete(y, t) = m - 1
  BY Zenon DEF GroupHolds, Complete
<1>2. OpenShape(y, st, m, n)
  <2>1. Len(y) >= m
    BY DEF GroupHolds
  <2>. QED
    BY <2>1, Zenon DEF GroupHolds, OpenShape
<1>3. Shape(y, t)
  BY <1>1, <1>2, Zenon DEF GroupHolds, Shape
<1>4. Held(y, t, h, l)
  BY Zenon DEF GroupHolds, Held
<1>. QED
  BY <1>1, <1>3, <1>4, Zenon DEF GroupHolds, Parsing

LEMMA GroupIs ==
  ASSUME NEW y \in Seq(Symbol), NEW t \in Seq(Statement), NEW h, NEW l, NEW made,
         Parsing(y, t, h, l, made), TopOf(y) # "stmt", t[Len(t)].kind \in Groups
  PROVE  /\ GroupHolds(y, t, h, l, made, t[Len(t)], Len(t), Len(t[Len(t)].items))
         /\ Len(t) \in Nat /\ Len(t) >= 1 /\ Len(t[Len(t)].items) \in Nat
         /\ t[Len(t)] \in GroupText /\ t # <<>>
         /\ TopOf(y) \in {t[Len(t)].kind, "item", "params", "option"}
<1>. DEFINE m == Len(t)
            st == t[m]
            n == Len(st.items)
<1>1. /\ IsOpen(y, st, m, n) /\ t # <<>> /\ m \in Nat /\ m >= 1 /\ Complete(y, t) = m - 1
  BY OpenStatementIs DEF Parsing
<1>2. /\ Held(y, t, h, l) /\ Made(made, t, h, m - 1, Finished(y, Len(h)))
  BY <1>1 DEF Parsing
<1>3. /\ m \in 1 .. Len(y) /\ n \in Nat /\ y[m].sym = st.kind
      /\ \A i \in 1 .. m - 1 : y[i].sym = "stmt"
      /\ st \in GroupText /\ GroupShape(y, st, m, n)
      /\ TopOf(y) \in {st.kind, "item", "params", "option"}
  <2>. HIDE DEF m, st, n
  <2>1. st.kind \in Groups /\ st.kind # "options" /\ st.kind # "log"
    BY DEF Groups, m, st
  <2>. QED
    BY <1>1, <2>1, Zenon DEF IsOpen
<1>4. GroupHolds(y, t, h, l, made, st, m, n)
  BY <1>1, <1>2, <1>3, Zenon DEF GroupHolds, Held
<1>. QED
  BY <1>1, <1>3, <1>4, Zenon

\* A driver that is made and has no options yet.
LEMMA NewDriverIs ==
  ASSUME NEW t, NEW s, NEW k, NEW f
  PROVE  NewDriver(k, f) = DriverIn(t, [kind |-> k, family |-> f, opts |-> <<>>], s)
<1>. DEFINE w == [kind |-> k, family |-> f, opts |-> <<>>]
            i(to) == Lasting(<<>>, to)
<1>1. w.kind = k /\ w.family = f /\ w.opts = <<>>
  OBVIOUS
<1>. HIDE DEF w
<1>2. \A to : i(to) = 0
  <2>. TAKE to
  <2>1. <<>> \in Seq(OptionText) /\ Len(<<>>) = 0
    OBVIOUS
  <2>2. Greatest(i(to), OptionsTo(<<>>, to)) /\ OptionsTo(<<>>, to) \subseteq 1 .. 0
    BY <2>1, LastingIs
  <2>3. OptionsTo(<<>>, to) = {}
    <3>1. 1 .. 0 = {}
      OBVIOUS
    <3>. QED
      BY <2>2, <3>1, Zenon
  <2>. QED
    BY <2>2, <2>3, Zenon DEF Greatest
<1>3. \A p : LastOf(<<>>, p) = 0
  BY <1>2, LastOfIs
<1>4. TemplateIn(t, <<>>, s) = NoTemplate
  BY <1>2, TemplateInIs
<1>. QED
  BY <1>1, <1>3, <1>4 DEF NewDriver, DriverIn, w

LEMMA DriverStarted ==
  ASSUME NEW y \in Seq(Symbol), NEW t \in Seq(Statement), NEW h \in Seq(Driver), NEW l, NEW made,
         Parsing(y, t, h, l, made), TopOf(y) # "stmt", t[Len(t)].kind \in Groups,
         TopOf(y) \in {t[Len(t)].kind, "item"},
         NEW k \in Kind, NEW f, NEW e \in Symbol,
         e = Sym(IF DriverKind[k].points = {} THEN "item" ELSE "params", Len(h) + 1),
         NEW new \in Statement, new.kind = t[Len(t)].kind, new.name = t[Len(t)].name,
         new.items = Append(t[Len(t)].items, [kind |-> k, family |-> f, opts |-> <<>>]),
         NewDriver(k, f) \in Driver, [kind |-> k, family |-> f, opts |-> <<>>] \in DriverText,
         NEW ll, \A p \in DriverKind[k].points : ll[p] = Len(h) + 1
  PROVE  Parsing(Append(y, e), Append(Front(t), new), Append(h, NewDriver(k, f)), ll, made)
<1>. DEFINE m == Len(t)
            st == t[m]
            n == Len(st.items)
            b == Len(h)
            w == [kind |-> k, family |-> f, opts |-> <<>>]
            z == Append(y, e)
            u == Append(Front(t), new)
            g == Append(h, NewDriver(k, f))
<1>1. /\ GroupHolds(y, t, h, l, made, st, m, n)
      /\ m \in Nat /\ m >= 1 /\ n \in Nat /\ st \in GroupText /\ t # <<>>
  BY GroupIs
<1>2. IsPushed(z, y, e) /\ IsReplaced(u, t, new)
  BY <1>1, Pushed, Replaced
<1>3. /\ Len(g) = b + 1 /\ b \in Nat /\ g[b + 1] = NewDriver(k, f)
      /\ Agree(h, g, b)
  BY DEF Agree
<1>4. ~InParams(y) /\ Finished(y, b) = b
  BY DEF InParams, Finished, Groups
<1>5. /\ st.items \in Seq(DriverText) /\ Len(new.items) = n + 1 /\ new.items[n + 1] = w
      /\ \A j \in 1 .. n : new.items[j] = st.items[j]
  <2>. DEFINE q == st.items
  <2>1. q \in Seq(DriverText) /\ w \in DriverText /\ new.items = Append(q, w)
    BY <1>1 DEF GroupText
  <2>. HIDE DEF q, w, st
  <2>2. /\ Len(Append(q, w)) = Len(q) + 1 /\ Append(q, w)[Len(q) + 1] = w
        /\ \A j \in 1 .. Len(q) : Append(q, w)[j] = q[j]
    BY <2>1
  <2>. QED
    BY <2>1, <2>2, Zenon DEF q
<1>. HIDE DEF z, u, g, m, st, n, b, w
<1>6. /\ Len(y) = m + n /\ \A j \in 1 .. n : y[m + j].sym = "item"
      /\ y[m].sym = st.kind /\ y[m].val = st.name /\ m \in 1 .. Len(y)
      /\ \A i \in 1 .. m - 1 : y[i].sym = "stmt"
      /\ \A j \in 1 .. n : IsMade(t, h, m, j, y[m + j].val, b)
      /\ Made(made, t, h, m - 1, b)
  BY <1>1, <1>4, Zenon DEF GroupHolds, GroupShape, b
<1>7. /\ z \in Seq(Symbol) /\ Len(z) = m + n + 1 /\ z[m + n + 1] = e /\ TopOf(z) = e.sym
      /\ \A i \in 1 .. m + n : z[i] = y[i]
  BY <1>2, <1>6 DEF IsPushed
<1>8. /\ u \in Seq(Statement) /\ Len(u) = m /\ Agree(t, u, m - 1) /\ u[m] = new
  BY <1>2, Zenon DEF IsReplaced, m
<1>9. /\ \A j \in 1 .. n : z[m + j] = y[m + j]
      /\ \A i \in 1 .. m : z[i] = y[i]
  <2>1. \A j \in 1 .. n : m + j \in 1 .. m + n
    BY <1>1
  <2>2. \A i \in 1 .. m : i \in 1 .. m + n
    BY <1>1
  <2>. QED
    BY <1>7, <2>1, <2>2, Zenon
<1>10. /\ e.val = b + 1
       /\ DriverKind[k].points = {} => e.sym = "item"
       /\ DriverKind[k].points # {} => e.sym = "params"
  BY DEF Sym, b
<1>11. /\ InParams(z) <=> DriverKind[k].points # {}
       /\ Finished(z, b + 1) = IF DriverKind[k].points = {} THEN b + 1 ELSE b
       /\ TopOf(z) # "stmt"
  BY <1>3, <1>7, <1>10 DEF InParams, Finished
<1>12. GroupShape(z, new, m, n + 1)
  <2>1. z[m].val = new.name
    BY <1>1, <1>6, <1>9 DEF m, st
  <2>2. \A j \in 1 .. n : z[m + j].sym = "item"
    BY <1>6, <1>9
  <2>3. CASE InParams(z)
    <3>1. /\ n + 1 >= 1 /\ Len(z) >= m + (n + 1) /\ (n + 1) - 1 = n
          /\ m + (n + 1) = m + n + 1
          /\ \A i \in m + (n + 1) + 1 .. Len(z) : z[i].sym = "option"
      BY <1>1, <1>7
    <3>2. z[m + n + 1].sym = "params"
      BY <1>7, <1>10, <1>11, <2>3
    <3>. QED
      BY <2>1, <2>2, <2>3, <3>1, <3>2 DEF GroupShape
  <2>4. CASE ~InParams(z)
    <3>1. Len(z) = m + (n + 1)
      BY <1>1, <1>7
    <3>2. z[m + n + 1].sym = "item"
      BY <1>7, <1>10, <1>11, <2>4
    <3>3. \A j \in 1 .. n + 1 : z[m + j].sym = "item"
      <4>. TAKE j \in 1 .. n + 1
      <4>1. CASE j = n + 1
        <5>1. m + j = m + n + 1
          BY <1>1, <4>1
        <5>. QED
          BY <3>2, <5>1, Zenon
      <4>2. CASE j # n + 1
        <5>1. j \in 1 .. n
          BY <1>1, <4>2
        <5>. QED
          BY <2>2, <5>1, Zenon
      <4>. QED
        BY <4>1, <4>2
    <3>. QED
      BY <2>1, <2>4, <3>1, <3>3, Zenon DEF GroupShape
  <2>. QED
    BY <2>3, <2>4
<1>13. b <= Finished(z, b + 1) /\ Finished(z, b + 1) \in Int /\ b \in Int
  BY <1>3, <1>11
<1>14. ASSUME NEW j \in 1 .. n
       PROVE  IsMade(u, g, m, j, z[m + j].val, Finished(z, b + 1))
  <2>1. z[m + j].val = y[m + j].val /\ u[m].items[j] = t[m].items[j]
    BY <1>5, <1>8, <1>9 DEF st
  <2>. DEFINE d == y[m + j].val
              c == Finished(z, b + 1)
  <2>2. IsMade(t, h, m, j, d, b)
    BY <1>6, Zenon
  <2>3. b <= c /\ c \in Int /\ b \in Int
    BY <1>13
  <2>. HIDE DEF d, c
  <2>4. IsMade(u, g, m, j, d, c)
    BY <1>1, <1>3, <1>8, <2>1, <2>2, <2>3, MadeSame
  <2>. QED
    BY <2>1, <2>4, Zenon DEF d, c
<1>15. g[b + 1] = DriverIn(u, u[m].items[n + 1], m)
  <2>1. u[m].items[n + 1] = w
    BY <1>5, <1>8, Zenon
  <2>2. NewDriver(k, f) = DriverIn(u, [kind |-> k, family |-> f, opts |-> <<>>], m)
    BY NewDriverIs, Zenon
  <2>3. NewDriver(k, f) = DriverIn(u, w, m)
    BY <2>2 DEF w
  <2>. QED
    BY <1>3, <2>1, <2>3, Zenon
<1>16. ~InParams(z) => IsMade(u, g, m, n + 1, z[m + n + 1].val, Finished(z, b + 1))
  <2>. SUFFICES ASSUME ~InParams(z)
                PROVE  IsMade(u, g, m, n + 1, z[m + n + 1].val, Finished(z, b + 1))
    OBVIOUS
  <2>1. Finished(z, b + 1) = b + 1
    BY <1>11, Zenon
  <2>2. z[m + n + 1].val = b + 1
    BY <1>7, <1>10, Zenon
  <2>3. b + 1 \in 1 .. b + 1
    BY <1>3
  <2>. QED
    BY <1>15, <2>1, <2>2, <2>3, Zenon DEF IsMade
<1>17. InParams(z) =>
         /\ IsMade(u, g, m, n + 1, b + 1, b + 1)
         /\ \A p \in DriverKind[new.items[n + 1].kind].points : ll[p] = b + 1
         /\ DriverKind[new.items[n + 1].kind].points # {}
  <2>1. w.kind = k
    BY DEF w
  <2>2. b + 1 \in 1 .. b + 1
    BY <1>3
  <2>3. IsMade(u, g, m, n + 1, b + 1, b + 1)
    BY <1>15, <2>2, Zenon DEF IsMade
  <2>4. \A p \in DriverKind[k].points : ll[p] = b + 1
    BY DEF b
  <2>. QED
    BY <1>5, <1>11, <2>1, <2>3, <2>4, Zenon
<1>18. Made(made, u, g, m - 1, Finished(z, b + 1))
  <2>1. m - 1 \in Nat
    BY <1>1
  <2>. QED
    BY <1>3, <1>6, <1>8, <1>13, <2>1, MadeKept
<1>19. \A j \in 1 .. n + 1 :
         j # n + 1 \/ ~InParams(z) => IsMade(u, g, m, j, z[m + j].val, Finished(z, b + 1))
  <2>. TAKE j \in 1 .. n + 1
  <2>1. CASE j = n + 1
    <3>1. m + j = m + n + 1
      BY <1>1, <2>1
    <3>. QED
      BY <1>16, <2>1, <3>1
  <2>2. CASE j # n + 1
    <3>1. j \in 1 .. n
      BY <1>1, <2>2
    <3>. QED
      BY <1>14, <3>1
  <2>. QED
    BY <2>1, <2>2
<1>20. GroupHolds(z, u, g, ll, made, new, m, n + 1)
  <2>1. u # <<>>
    BY <1>1, <1>8
  <2>2. new.kind \in Groups /\ z[m].sym = new.kind
    <3>1. new.kind = st.kind /\ st.kind \in Groups
      BY DEF m, st
    <3>2. m \in 1 .. m
      BY <1>1
    <3>. QED
      BY <1>6, <1>9, <3>1, <3>2
  <2>3. m \in 1 .. Len(z) /\ \A i \in 1 .. m - 1 : z[i].sym = "stmt"
    BY <1>1, <1>6, <1>7, <1>9
  <2>. QED
    BY <1>3, <1>5, <1>8, <1>11, <1>12, <1>17, <1>18, <1>19, <2>1, <2>2, <2>3, Zenon DEF GroupHolds
<1>21. Len(z) \in Nat
  BY <1>1, <1>7
<1>. QED
  BY <1>1, <1>20, <1>21, GroupStays, Zenon DEF z, u, g

LEMMA ParamsOpen ==
  ASSUME NEW y \in Seq(Symbol), NEW t \in Seq(Statement), Shape(y, t),
         TopOf(y) \in {"params", "option"}
  PROVE  t[Len(t)].kind \in Groups /\ TopOf(y) # "stmt" /\ InParams(y)
<1>1. TopOf(y) # "stmt" /\ InParams(y)
  BY DEF InParams
<1>2. IsOpen(y, t[Len(t)], Len(t), Len(t[Len(t)].items))
  BY <1>1, OpenStatementIs
<1>. QED
  BY <1>1, <1>2 DEF IsOpen

LEMMA Optioned ==
  ASSUME NEW y \in Seq(Symbol), NEW t \in Seq(Statement), NEW h \in Seq(Driver), NEW l, NEW made,
         Parsing(y, t, h, l, made), TopOf(y) \in {"params", "option"},
         NEW z, z = y \/ z = Append(y, Sym("option", 0)), Sym("option", 0) \in Symbol,
         NEW new \in Statement, new.kind = t[Len(t)].kind, new.name = t[Len(t)].name,
         NEW n, n = Len(t[Len(t)].items), Len(new.items) = n,
         Agree(t[Len(t)].items, new.items, n - 1),
         new.items[n].kind = t[Len(t)].items[n].kind,
         NEW g, Len(g) = Len(h), Agree(h, g, Len(h) - 1),
         g[Len(h)] = DriverIn(t, new.items[n], Len(t))
  PROVE  Parsing(z, Append(Front(t), new), g, l, made)
<1>. DEFINE m == Len(t)
            st == t[m]
            b == Len(h)
            u == Append(Front(t), new)
<1>0. st.kind \in Groups /\ TopOf(y) # "stmt" /\ InParams(y)
  BY ParamsOpen DEF Parsing
<1>1. /\ GroupHolds(y, t, h, l, made, st, m, n)
      /\ m \in Nat /\ m >= 1 /\ n \in Nat /\ st \in GroupText /\ t # <<>>
  BY <1>0, GroupIs
<1>2. IsReplaced(u, t, new)
  BY <1>1, Replaced
<1>3. b \in Nat /\ Finished(y, b) = b - 1
  BY <1>0 DEF Finished
<1>4. InParams(z) /\ TopOf(z) # "stmt" /\ Len(z) \in Nat /\ Len(z) >= Len(y)
      /\ Agree(y, z, Len(y)) /\ (\A i \in Len(y) + 1 .. Len(z) : z[i].sym = "option")
  <2>1. CASE z = y
    <3>1. Len(y) \in Nat /\ Agree(y, y, Len(y))
      BY AgreeSelf
    <3>. QED
      BY <1>0, <2>1, <3>1
  <2>2. CASE z = Append(y, Sym("option", 0))
    <3>1. IsPushed(z, y, Sym("option", 0)) /\ Sym("option", 0).sym = "option"
      BY <2>2, Pushed DEF Sym
    <3>. QED
      BY <3>1 DEF IsPushed, InParams, Agree
  <2>. QED
    BY <2>1, <2>2
<1>. HIDE DEF m, st, b, u
<1>5. /\ Len(y) \in Nat /\ n >= 1 /\ Len(y) >= m + n
      /\ \A j \in 1 .. n - 1 : y[m + j].sym = "item"
      /\ y[m + n].sym = "params"
      /\ \A i \in m + n + 1 .. Len(y) : y[i].sym = "option"
      /\ y[m].sym = st.kind /\ y[m].val = st.name /\ m \in 1 .. Len(y)
      /\ \A i \in 1 .. m - 1 : y[i].sym = "stmt"
  <2>1. Len(y) \in Nat
    OBVIOUS
  <2>. QED
    BY <1>0, <1>1, <2>1, Zenon DEF GroupHolds, GroupShape
<1>6. /\ \A j \in 1 .. n : j # n => IsMade(t, h, m, j, y[m + j].val, b - 1)
      /\ IsMade(t, h, m, n, b, b)
      /\ \A p \in DriverKind[st.items[n].kind].points : l[p] = b
      /\ DriverKind[st.items[n].kind].points # {}
      /\ Made(made, t, h, m - 1, b - 1)
  BY <1>0, <1>1, <1>3, Zenon DEF GroupHolds, b
<1>7. /\ u \in Seq(Statement) /\ Len(u) = m /\ Agree(t, u, m - 1) /\ u[m] = new
  BY <1>2, Zenon DEF IsReplaced, m
<1>8. \A i \in 1 .. Len(y) : z[i] = y[i]
  BY <1>4, Zenon DEF Agree
<1>. DEFINE k == Len(y)
<1>16. m \in Nat /\ m >= 1 /\ n \in Nat /\ n >= 1 /\ k \in Nat /\ k >= m + n
  BY <1>1, <1>5
<1>9. GroupShape(z, new, m, n)
  <2>1. z[m].val = new.name
    BY <1>5, <1>8 DEF m, st
  <2>2. \A j \in 1 .. n - 1 : z[m + j].sym = "item"
    <3>. TAKE j \in 1 .. n - 1
    <3>1. m + j \in 1 .. Len(y)
      BY <1>1, <1>5
    <3>. QED
      BY <1>5, <1>8, <3>1
  <2>3. z[m + n].sym = "params"
    <3>1. m + n \in 1 .. Len(y)
      BY <1>1, <1>5
    <3>. QED
      BY <1>5, <1>8, <3>1
  <2>4. \A i \in m + n + 1 .. Len(z) : z[i].sym = "option"
    <3>. TAKE i \in m + n + 1 .. Len(z)
    <3>1. CASE i <= Len(y)
      <4>1. i \in m + n + 1 .. Len(y) /\ i \in 1 .. Len(y)
        BY <1>1, <1>4, <1>5, <3>1
      <4>. QED
        BY <1>5, <1>8, <4>1
    <3>2. CASE ~(i <= Len(y))
      <4>1. i \in Len(y) + 1 .. Len(z)
        BY <1>1, <1>4, <1>5, <3>2
      <4>. QED
        BY <1>4, <4>1
    <3>. QED
      BY <3>1, <3>2
  <2>5. Len(z) >= m + n
    BY <1>1, <1>4, <1>5
  <2>. QED
    BY <1>4, <1>5, <2>1, <2>2, <2>3, <2>4, <2>5, Zenon DEF GroupShape
<1>10. b - 1 \in Int /\ b \in Int /\ b - 1 <= b - 1 /\ m - 1 \in Nat
  BY <1>1, <1>3
<1>11. Agree(h, g, b - 1) /\ Finished(z, Len(g)) = b - 1 /\ Len(g) = b
  BY <1>4 DEF Finished, b
<1>12. ASSUME NEW j \in 1 .. n, j # n
       PROVE  IsMade(u, g, m, j, z[m + j].val, b - 1)
  <2>1. u[m].items[j] = t[m].items[j]
    <3>1. j \in 1 .. n - 1
      BY <1>1, <1>12
    <3>. QED
      BY <1>7, <3>1 DEF Agree, m
  <2>2. z[m + j].val = y[m + j].val
    <3>1. m + j \in 1 .. k
      <4>. HIDE DEF k
      <4>. QED
        BY <1>16
    <3>. QED
      BY <1>8, <3>1
  <2>3. IsMade(t, h, m, j, y[m + j].val, b - 1)
    BY <1>6, <1>12, Zenon
  <2>4. IsMade(u, g, m, j, y[m + j].val, b - 1)
    <3>. DEFINE a == b - 1
                d == y[m + j].val
    <3>1. /\ m \in Nat /\ m >= 1 /\ a \in Int /\ a <= a
          /\ Agree(t, u, m - 1) /\ Agree(h, g, a) /\ IsMade(t, h, m, j, d, a)
      BY <1>7, <1>10, <1>11, <1>16, <2>3
    <3>. HIDE DEF a, d
    <3>2. IsMade(u, g, m, j, d, a)
      BY <2>1, <3>1, MadeSame
    <3>. QED
      BY <3>2, Zenon DEF a, d
  <2>. QED
    BY <2>2, <2>4, Zenon
<1>13. IsMade(u, g, m, n, b, b)
  <2>1. b \in 1 .. b
    BY <1>6 DEF IsMade
  <2>2. g[b] = DriverIn(u, u[m].items[n], m)
    <3>1. DriverIn(u, new.items[n], m) = DriverIn(t, new.items[n], m)
      BY <1>1, <1>7, DriverSame
    <3>. QED
      BY <1>7, <3>1 DEF b, m
  <2>. QED
    BY <2>1, <2>2, Zenon DEF IsMade
<1>14. Made(made, u, g, m - 1, b - 1)
  BY <1>6, <1>7, <1>10, <1>11, MadeKept
<1>15. GroupHolds(z, u, g, l, made, new, m, n)
  <2>1. u # <<>>
    BY <1>1, <1>7
  <2>2. new.kind \in Groups /\ z[m].sym = new.kind
    <3>1. new.kind = st.kind
      BY DEF m, st
    <3>2. z[m] = y[m]
      BY <1>5, <1>8, Zenon
    <3>. QED
      BY <1>0, <1>5, <3>1, <3>2, Zenon
  <2>3. m \in 1 .. Len(z) /\ \A i \in 1 .. m - 1 : z[i].sym = "stmt"
    <3>1. \A i \in 1 .. m - 1 : i \in 1 .. k
      BY <1>16
    <3>2. m \in 1 .. Len(z)
      BY <1>4, <1>16
    <3>. QED
      BY <1>5, <1>8, <3>1, <3>2, Zenon
  <2>4. new.items[n].kind = st.items[n].kind
    BY DEF m, st
  <2>. QED
    BY <1>4, <1>6, <1>7, <1>9, <1>11, <1>12, <1>13, <1>14, <2>1, <2>2, <2>3, <2>4, Zenon
       DEF GroupHolds
<1>. QED
  BY <1>1, <1>4, <1>15, GroupStays, Zenon DEF u

\* What one option more makes of a driver.
LEMMA OptionMeans ==
  ASSUME NEW t, NEW s, NEW w \in DriverText, NEW o \in OptionText, NEW x \in DriverText,
         x.kind = w.kind, x.family = w.family, x.opts = Append(w.opts, o)
  PROVE  /\ o.to \in Pointer =>
              DriverIn(t, x, s) = [DriverIn(t, w, s) EXCEPT !.opts[o.to] = o.val]
         /\ o.to = "template" =>
              DriverIn(t, x, s) = [DriverIn(t, w, s) EXCEPT !.template = NamedOrInline(t, o.val, s)]
         /\ o.to = "escape" =>
              DriverIn(t, x, s) = [DriverIn(t, w, s) EXCEPT !.template = EscapeIfInline(@)]
<1>. DEFINE before == [p \in Pointer |-> LastOf(w.opts, p)]
            after == [p \in Pointer |-> LastOf(x.opts, p)]
            v == TemplateIn(t, w.opts, s)
            q == TemplateIn(t, x.opts, s)
<1>1. w.opts \in Seq(OptionText)
  BY DEF DriverText
<1>2. ASSUME NEW p \in Pointer
      PROVE  LastOf(x.opts, p) = IF o.to = p THEN o.val ELSE LastOf(w.opts, p)
  BY <1>1, LastOfAppend
<1>3. q = IF o.to = "template" THEN NamedOrInline(t, o.val, s)
          ELSE IF o.to = "escape" THEN EscapeIfInline(v) ELSE v
  <2>. DEFINE r == w.opts
  <2>1. r \in Seq(OptionText)
    BY <1>1
  <2>. HIDE DEF r
  <2>2. TemplateIn(t, Append(r, o), s) =
          IF o.to = "template" THEN NamedOrInline(t, o.val, s)
          ELSE IF o.to = "escape" THEN EscapeIfInline(TemplateIn(t, r, s))
          ELSE TemplateIn(t, r, s)
    BY <2>1, TemplateInAppend
  <2>. QED
    BY <2>2, Zenon DEF r
<1>4. /\ DriverIn(t, w, s) = [kind |-> w.kind, family |-> w.family, opts |-> before, template |-> v]
      /\ DriverIn(t, x, s) = [kind |-> w.kind, family |-> w.family, opts |-> after, template |-> q]
  BY Zenon DEF DriverIn
<1>5. o.to \in Pointer => after = [before EXCEPT ![o.to] = o.val] /\ q = v
  <2>1. o.to \in Pointer => o.to # "template" /\ o.to # "escape"
    BY DEF Pointer
  <2>2. o.to \in Pointer => after = [before EXCEPT ![o.to] = o.val]
    BY <1>2
  <2>. HIDE DEF after, before, q, v
  <2>. QED
    BY <1>3, <2>1, <2>2
<1>6. o.to \notin Pointer => after = before
  BY <1>2
<1>7. o.to \in {"template", "escape"} => o.to \notin Pointer
  BY DEF Pointer
<1>. HIDE DEF after, before, q, v
<1>8. o.to \in Pointer =>
        DriverIn(t, x, s) = [DriverIn(t, w, s) EXCEPT !.opts[o.to] = o.val]
  BY <1>4, <1>5
<1>9. o.to = "template" => q = NamedOrInline(t, o.val, s)
  BY <1>3
<1>10. o.to = "escape" => q = EscapeIfInline(v)
  BY <1>3
<1>11. o.to = "template" =>
         DriverIn(t, x, s) = [DriverIn(t, w, s) EXCEPT !.template = NamedOrInline(t, o.val, s)]
  BY <1>4, <1>6, <1>7, <1>9
<1>12. o.to = "escape" =>
         DriverIn(t, x, s) = [DriverIn(t, w, s) EXCEPT !.template = EscapeIfInline(@)]
  BY <1>4, <1>6, <1>7, <1>10
<1>. QED
  BY <1>8, <1>11, <1>12, Zenon

LEMMA Ended ==
  ASSUME NEW y \in Seq(Symbol), NEW t \in Seq(Statement), NEW h \in Seq(Driver), NEW l, NEW made,
         Parsing(y, t, h, l, made), TopOf(y) \in {"params", "option"},
         NEW i \in 1 .. Len(y), i = Len(t) + Len(t[Len(t)].items),
         NEW d, d = Len(h), Sym("item", d) \in Symbol
  PROVE  Parsing(Append(SubSeq(y, 1, i - 1), Sym("item", d)), t, h, l, made)
<1>. DEFINE m == Len(t)
            st == t[m]
            n == Len(st.items)
            z == Append(SubSeq(y, 1, i - 1), Sym("item", d))
<1>0. st.kind \in Groups /\ TopOf(y) # "stmt" /\ InParams(y)
  BY ParamsOpen DEF Parsing
<1>1. /\ GroupHolds(y, t, h, l, made, st, m, n)
      /\ m \in Nat /\ m >= 1 /\ n \in Nat /\ t # <<>>
  BY <1>0, GroupIs
<1>2. d \in Nat /\ Finished(y, d) = d - 1
  BY <1>0 DEF Finished
<1>3. IsReduced(z, y, i, Sym("item", d))
  BY Reduced
<1>4. i = m + n
  OBVIOUS
<1>5. Sym("item", d).sym = "item" /\ Sym("item", d).val = d
  BY DEF Sym
<1>. HIDE DEF m, st, n, z
<1>6. /\ n >= 1
      /\ \A j \in 1 .. n - 1 : y[m + j].sym = "item"
      /\ y[m].sym = st.kind /\ y[m].val = st.name
      /\ \A k \in 1 .. m - 1 : y[k].sym = "stmt"
  BY <1>0, <1>1, Zenon DEF GroupHolds, GroupShape
<1>7. /\ \A j \in 1 .. n : j # n => IsMade(t, h, m, j, y[m + j].val, d - 1)
      /\ IsMade(t, h, m, n, d, d)
      /\ Made(made, t, h, m - 1, d - 1)
  BY <1>0, <1>1, <1>2, Zenon DEF GroupHolds
<1>8. /\ z \in Seq(Symbol) /\ Len(z) = m + n /\ z[m + n].sym = "item" /\ z[m + n].val = d
      /\ TopOf(z) = "item"
      /\ \A k \in 1 .. m + n - 1 : z[k] = y[k]
  <2>1. /\ z \in Seq(Symbol) /\ Len(z) = i /\ z[i] = Sym("item", d)
        /\ TopOf(z) = Sym("item", d).sym /\ \A k \in 1 .. i - 1 : z[k] = y[k]
    BY <1>3, Zenon DEF IsReduced
  <2>2. m + n - 1 = i - 1
    BY <1>1, <1>4
  <2>3. \A k \in 1 .. m + n - 1 : z[k] = y[k]
    BY <2>1, <2>2, Zenon
  <2>4. z[m + n] = Sym("item", d) /\ Len(z) = m + n
    BY <1>4, <2>1, Zenon
  <2>5. TopOf(z) = "item"
    BY <1>5, <2>1, Zenon
  <2>. QED
    BY <1>5, <2>1, <2>3, <2>4, <2>5, Zenon
<1>9. ~InParams(z) /\ TopOf(z) # "stmt" /\ Finished(z, d) = d
  BY <1>8 DEF InParams, Finished
<1>10. \A k \in 1 .. m : z[k] = y[k]
  BY <1>1, <1>6, <1>8
<1>11. \A j \in 1 .. n : j # n => z[m + j] = y[m + j]
  BY <1>1, <1>6, <1>8
<1>12. \A j \in 1 .. n : z[m + j].sym = "item"
  <2>. TAKE j \in 1 .. n
  <2>1. CASE j = n
    BY <1>8, <2>1
  <2>2. CASE j # n
    <3>1. j \in 1 .. n - 1
      BY <1>1, <2>2
    <3>. QED
      BY <1>6, <1>11, <2>2, <3>1
  <2>. QED
    BY <2>1, <2>2
<1>13. ASSUME NEW j \in 1 .. n
       PROVE  IsMade(t, h, m, j, z[m + j].val, d)
  <2>1. CASE j = n
    BY <1>7, <1>8, <2>1
  <2>2. CASE j # n
    <3>. DEFINE a == d - 1
                e == y[m + j].val
    <3>1. /\ m \in Nat /\ m >= 1 /\ a \in Int /\ d \in Int /\ a <= d
          /\ Agree(t, t, m - 1) /\ Agree(h, h, a) /\ IsMade(t, h, m, j, e, a)
      BY <1>1, <1>2, <1>7, <2>2, AgreeSelf
    <3>2. z[m + j].val = e
      BY <1>11, <2>2
    <3>. HIDE DEF a, e
    <3>3. IsMade(t, h, m, j, e, d)
      BY <3>1, MadeSame
    <3>. QED
      BY <3>2, <3>3, Zenon
  <2>. QED
    BY <2>1, <2>2
<1>14. Made(made, t, h, m - 1, d)
  <2>. DEFINE a == d - 1
              c == m - 1
  <2>1. c \in Nat /\ a \in Int /\ d \in Int /\ a <= d /\ Agree(t, t, c) /\ Agree(h, h, a)
    BY <1>1, <1>2, AgreeSelf
  <2>2. Made(made, t, h, c, a)
    BY <1>7
  <2>. HIDE DEF a, c
  <2>3. Made(made, t, h, c, d)
    BY <2>1, <2>2, MadeKept
  <2>. QED
    BY <2>3, Zenon DEF c
<1>15. GroupHolds(z, t, h, l, made, st, m, n)
  <2>1. GroupShape(z, st, m, n)
    <3>1. z[m].val = st.name
      <4>1. m \in 1 .. m
        BY <1>1
      <4>. QED
        BY <1>6, <1>10, <4>1, Zenon
    <3>. QED
      BY <1>8, <1>9, <1>12, <3>1, Zenon DEF GroupShape
  <2>2. m \in 1 .. Len(z) /\ z[m].sym = st.kind /\ \A k \in 1 .. m - 1 : z[k].sym = "stmt"
    <3>1. m \in 1 .. m /\ \A k \in 1 .. m - 1 : k \in 1 .. m
      BY <1>1
    <3>2. m \in 1 .. Len(z)
      BY <1>1, <1>8
    <3>. QED
      BY <1>6, <1>10, <3>1, <3>2, Zenon
  <2>. QED
    BY <1>0, <1>1, <1>9, <1>13, <1>14, <2>1, <2>2, Zenon DEF GroupHolds
<1>. QED
  <2>1. Len(z) \in Nat
    BY <1>1, <1>8
  <2>. QED
    BY <1>1, <1>15, <2>1, GroupStays, Zenon DEF z

-----------------------------------------------------------------------------
(***************************************************************************)
(* A statement is complete.                                                *)
(***************************************************************************)

LEMMA Completed ==
  ASSUME NEW z, NEW t \in Seq(Statement), NEW h \in Seq(Driver), NEW l, NEW made,
         Len(z) = Len(t), \A i \in 1 .. Len(t) : z[i].sym = "stmt", TopOf(z) = "stmt",
         Made(made, t, h, Len(t), Len(h))
  PROVE  Parsing(z, t, h, l, made)
<1>1. Complete(z, t) = Len(t) /\ Finished(z, Len(h)) = Len(h)
  BY DEF Complete, Finished, InParams
<1>2. Shape(z, t) /\ Held(z, t, h, l)
  BY <1>1, Zenon DEF Shape, Held
<1>. QED
  BY <1>1, <1>2, Zenon DEF Parsing

\* One section of a configuration is changed.
LEMMA SectionIs ==
  ASSUME NEW made, DOMAIN made = Sections, NEW kind \in Sections, NEW v
  PROVE  /\ DOMAIN [made EXCEPT ![kind] = v] = Sections
         /\ [made EXCEPT ![kind] = v][kind] = v
         /\ \A k \in Sections : k # kind => [made EXCEPT ![kind] = v][k] = made[k]
OBVIOUS

\* The statement puts an object under its name, connects, or does neither.
WithObject(made, kind, x, v) == [made EXCEPT ![kind] = Put(made[kind], x, v)]

LEMMA MadePut ==
  ASSUME NEW made, DOMAIN made = Sections, NEW t, NEW h, NEW c \in Nat, NEW b,
         Made(made, t, h, c, b), NEW kind \in Objects, t[c + 1].kind = kind,
         NEW x, t[c + 1].name = x, NEW v, IsObject(kind, v, t, h, c + 1, b),
         NEW new, new = WithObject(made, kind, x, v)
  PROVE  Made(new, t, h, c + 1, b)
<1>1. kind \in Sections /\ "connections" \in Sections /\ kind # "connections" /\ kind # "log"
      /\ Objects \subseteq Sections
  BY DEF Objects, Sections
<1>2. /\ new[kind] = Put(made[kind], x, v)
      /\ \A k \in Sections : k # kind => new[k] = made[k]
  BY <1>1, SectionIs DEF WithObject
<1>3. ASSUME NEW k \in Objects
      PROVE  ObjectsMade(k, new[k], t, h, c + 1, b)
  <2>1. ObjectsMade(k, made[k], t, h, c, b)
    BY Zenon DEF Made
  <2>2. CASE k = kind
    <3>1. ObjectsMade(kind, made[kind], t, h, c, b)
      BY <2>1, <2>2
    <3>2. ObjectsMade(kind, Put(made[kind], x, v), t, h, c + 1, b)
      BY <3>1, ObjectsPut
    <3>. QED
      BY <1>2, <2>2, <3>2, Zenon
  <2>3. CASE k # kind
    <3>1. ObjectsMade(k, made[k], t, h, c + 1, b)
      BY <2>1, <2>3, ObjectsSkip
    <3>2. new[k] = made[k]
      BY <1>1, <1>2, <2>3
    <3>. QED
      BY <3>1, <3>2, Zenon
  <2>. QED
    BY <2>2, <2>3
<1>4. Connected(new.connections, t, c + 1)
  <2>1. new.connections = made.connections
    BY <1>1, <1>2
  <2>2. Connected(made.connections, t, c + 1)
    BY <1>1, ConnectedSkip DEF Made
  <2>. QED
    BY <2>1, <2>2, Zenon
<1>. QED
  BY <1>3, <1>4, Zenon DEF Made

LEMMA MadeConnected ==
  ASSUME NEW made, DOMAIN made = Sections, made.connections \in Seq(Connection),
         NEW t, NEW h, NEW c \in Nat, NEW b,
         Made(made, t, h, c, b), t[c + 1].kind = "log", NEW e \in Connection,
         e = [items |-> t[c + 1].items, flags |-> t[c + 1].flags],
         NEW new, new = [made EXCEPT !.connections = Append(made.connections, e)]
  PROVE  Made(new, t, h, c + 1, b)
<1>1. "connections" \in Sections /\ Objects \subseteq Sections
      /\ \A k \in Objects : k # "connections" /\ k # "log"
  BY DEF Objects, Sections
<1>2. /\ new.connections = Append(made.connections, e)
      /\ \A k \in Objects : new[k] = made[k]
  BY <1>1, SectionIs
<1>3. ASSUME NEW k \in Objects
      PROVE  ObjectsMade(k, new[k], t, h, c + 1, b)
  <2>1. ObjectsMade(k, made[k], t, h, c, b) /\ t[c + 1].kind # k
    BY <1>1 DEF Made
  <2>2. ObjectsMade(k, made[k], t, h, c + 1, b)
    BY <2>1, ObjectsSkip
  <2>. QED
    BY <1>2, <2>2, Zenon
<1>4. Connected(new.connections, t, c + 1)
  <2>1. Connected(made.connections, t, c)
    BY Zenon DEF Made
  <2>2. Connected(Append(made.connections, e), t, c + 1)
    BY <2>1, ConnectedAppend
  <2>. QED
    BY <1>2, <2>2, Zenon
<1>. QED
  BY <1>3, <1>4, Zenon DEF Made

LEMMA MadeSkip ==
  ASSUME NEW made, NEW t, NEW h, NEW c \in Nat, NEW b,
         Made(made, t, h, c, b), t[c + 1].kind = "options"
  PROVE  Made(made, t, h, c + 1, b)
<1>1. ASSUME NEW k \in Objects
      PROVE  ObjectsMade(k, made[k], t, h, c + 1, b)
  <2>1. k # "options" /\ ObjectsMade(k, made[k], t, h, c, b)
    BY DEF Objects, Made
  <2>. QED
    BY <2>1, ObjectsSkip
<1>2. Connected(made.connections, t, c + 1)
  BY ConnectedSkip DEF Made
<1>. QED
  BY <1>1, <1>2, Zenon DEF Made

\* template and filter: open and complete at once.
LEMMA Valued ==
  ASSUME NEW y \in Seq(Symbol), NEW t \in Seq(Statement), NEW h \in Seq(Driver), NEW l, NEW made,
         DOMAIN made = Sections,
         Parsing(y, t, h, l, made), TopOf(y) = "stmt",
         NEW kind \in {"template", "filter"}, NEW x, NEW v, NEW st \in Statement,
         st = [kind |-> kind, name |-> x, items |-> <<v>>], Sym("stmt", 0) \in Symbol,
         NEW new, new = WithObject(made, kind, x, v)
  PROVE  Parsing(Append(y, Sym("stmt", 0)), Append(t, st), h, l, new)
<1>. DEFINE m == Len(t)
            b == Len(h)
            z == Append(y, Sym("stmt", 0))
            u == Append(t, st)
<1>1. IsPushed(z, y, Sym("stmt", 0)) /\ IsLonger(u, t, st)
  BY Pushed, Longer
<1>2. /\ Len(y) = m /\ Complete(y, t) = m /\ Finished(y, b) = b
      /\ \A i \in 1 .. m : y[i].sym = "stmt"
      /\ Made(made, t, h, m, b)
  BY DEF Parsing, Shape, Complete, Finished, InParams
<1>3. m \in Nat /\ b \in Nat
  OBVIOUS
<1>. HIDE DEF z, u, m, b
<1>4. Sym("stmt", 0).sym = "stmt"
  BY DEF Sym
<1>5. Len(z) = m + 1 /\ TopOf(z) = "stmt" /\ z[m + 1].sym = "stmt"
      /\ \A i \in 1 .. m : z[i].sym = "stmt"
  BY <1>1, <1>2, <1>4 DEF IsPushed
<1>6. \A i \in 1 .. m + 1 : z[i].sym = "stmt"
  BY <1>3, <1>5
<1>7. u \in Seq(Statement) /\ Len(u) = m + 1 /\ Agree(t, u, m) /\ u[m + 1] = st
  BY <1>1, Zenon DEF IsLonger, m
<1>8. Made(made, u, h, m, b)
  <2>1. Agree(h, h, b) /\ b \in Int /\ b <= b
    BY <1>3, AgreeSelf
  <2>. QED
    BY <1>2, <1>3, <1>7, <2>1, MadeKept
<1>9. st.kind = kind /\ st.name = x /\ st.items[1] = v
  OBVIOUS
<1>10. kind \in Objects /\ kind \notin Groups
  BY DEF Objects, Groups
<1>11. IsObject(kind, v, u, h, m + 1, b)
  BY <1>7, <1>9, <1>10, Zenon DEF IsObject
<1>12. Made(new, u, h, m + 1, b)
  BY <1>3, <1>7, <1>8, <1>9, <1>10, <1>11, MadePut
<1>13. Parsing(z, u, h, l, new)
  BY <1>5, <1>6, <1>7, <1>12, Completed DEF b
<1>. QED
  BY <1>13, Zenon DEF z, u

-----------------------------------------------------------------------------
(***************************************************************************)
(* Log statements and options.                                             *)
(***************************************************************************)

OtherTops == {"options", "option_item", "log", "endpoint", "flags"}

OtherHolds(y, t, h, made, st, m, n) ==
  /\ t # <<>> /\ m = Len(t) /\ st = t[m] /\ n = Len(st.items)
  /\ m \in 1 .. Len(y) /\ y[m].sym = st.kind /\ \A i \in 1 .. m - 1 : y[i].sym = "stmt"
  /\ TopOf(y) \in OtherTops
  /\ \/ st.kind = "options" /\ \A i \in m + 1 .. Len(y) : y[i].sym = "option_item"
     \/ st.kind = "log" /\ LogShape(y, st, m, n)
  /\ Made(made, t, h, m - 1, Len(h))

LEMMA OtherStays ==
  ASSUME NEW y, NEW t, NEW h, NEW l, NEW made, NEW st, NEW m, NEW n, m \in Nat, Len(y) \in Nat,
         Len(h) \in Nat, OtherHolds(y, t, h, made, st, m, n)
  PROVE  Parsing(y, t, h, l, made)
<1>1. TopOf(y) # "stmt" /\ ~InParams(y)
  BY DEF OtherHolds, OtherTops, InParams
<1>2. Complete(y, t) = m - 1 /\ Finished(y, Len(h)) = Len(h)
  BY <1>1, Zenon DEF OtherHolds, Complete, Finished
<1>3. OpenShape(y, st, m, n)
  <2>1. Len(y) >= m
    BY DEF OtherHolds
  <2>. QED
    BY <2>1, Zenon DEF OtherHolds, OpenShape
<1>4. Shape(y, t)
  BY <1>1, <1>2, <1>3, Zenon DEF OtherHolds, Shape
<1>5. Held(y, t, h, l)
  <2>1. t[Len(t)].kind \notin Groups
    BY DEF OtherHolds, Groups
  <2>. QED
    BY <2>1, Zenon DEF Held
<1>. QED
  BY <1>2, <1>4, <1>5, Zenon DEF OtherHolds, Parsing

LEMMA OtherIs ==
  ASSUME NEW y \in Seq(Symbol), NEW t \in Seq(Statement), NEW h, NEW l, NEW made,
         Parsing(y, t, h, l, made), TopOf(y) \in OtherTops
  PROVE  /\ OtherHolds(y, t, h, made, t[Len(t)], Len(t), Len(t[Len(t)].items))
         /\ Len(t) \in Nat /\ Len(t) >= 1 /\ Len(t[Len(t)].items) \in Nat /\ t # <<>>
         /\ \/ /\ t[Len(t)] \in OptionsText /\ t[Len(t)].kind = "options"
               /\ TopOf(y) \in {"options", "option_item"}
            \/ /\ t[Len(t)] \in LogText /\ t[Len(t)].kind = "log"
               /\ TopOf(y) \in {"log", "endpoint", "flags"}
<1>. DEFINE m == Len(t)
            st == t[m]
            n == Len(st.items)
<1>1. TopOf(y) # "stmt" /\ ~InParams(y)
  BY DEF OtherTops, InParams
<1>2. /\ IsOpen(y, st, m, n) /\ t # <<>> /\ m \in Nat /\ m >= 1 /\ Complete(y, t) = m - 1
  BY <1>1, OpenStatementIs DEF Parsing
<1>3. Made(made, t, h, m - 1, Len(h))
  BY <1>1, <1>2 DEF Parsing, Finished
<1>. HIDE DEF m, st, n
<1>4. st.kind \notin Groups
  BY <1>2 DEF IsOpen, OtherTops, Groups
<1>5. OtherHolds(y, t, h, made, st, m, n)
  BY <1>2, <1>3, <1>4, Zenon DEF OtherHolds, IsOpen, m, st, n
<1>6. n \in Nat
      /\ \/ st \in OptionsText /\ st.kind = "options" /\ TopOf(y) \in {"options", "option_item"}
         \/ st \in LogText /\ st.kind = "log" /\ TopOf(y) \in {"log", "endpoint", "flags"}
  BY <1>2, <1>4, Zenon DEF IsOpen
<1>. QED
  BY <1>2, <1>5, <1>6, Zenon DEF m, st, n

\* One more symbol stands on the stack for what is added to the open statement.
LEMMA Given ==
  ASSUME NEW y \in Seq(Symbol), NEW t \in Seq(Statement), NEW h \in Seq(Driver), NEW l, NEW made,
         Parsing(y, t, h, l, made), NEW e \in Symbol, NEW new \in Statement,
         \/ /\ TopOf(y) \in {"options", "option_item"} /\ e.sym = "option_item"
            /\ new.kind = "options"
         \/ /\ TopOf(y) \in {"log", "endpoint"} /\ new.kind = "log"
            /\ new.flags = t[Len(t)].flags
            /\ \E x \in EndpointText :
                 new.items = Append(t[Len(t)].items, x) /\ e = Sym("endpoint", x)
         \/ /\ TopOf(y) \in {"log", "endpoint"} /\ new.kind = "log"
            /\ new.items = t[Len(t)].items
            /\ e = Sym("flags", new.flags)
  PROVE  Parsing(Append(y, e), Append(Front(t), new), h, l, made)
<1>. DEFINE m == Len(t)
            st == t[m]
            n == Len(st.items)
            b == Len(h)
            z == Append(y, e)
            u == Append(Front(t), new)
<1>0. TopOf(y) \in OtherTops
  BY DEF OtherTops
<1>1. /\ OtherHolds(y, t, h, made, st, m, n)
      /\ m \in Nat /\ m >= 1 /\ n \in Nat /\ t # <<>>
      /\ \/ st.kind = "options" /\ TopOf(y) \in {"options", "option_item"}
         \/ st \in LogText /\ st.kind = "log" /\ TopOf(y) \in {"log", "endpoint", "flags"}
  BY <1>0, OtherIs
<1>2. IsPushed(z, y, e) /\ IsReplaced(u, t, new)
  BY <1>1, Pushed, Replaced
<1>3. b \in Nat /\ b \in Int /\ b <= b /\ Agree(h, h, b) /\ m - 1 \in Nat
  BY <1>1, AgreeSelf
<1>. HIDE DEF z, u, m, st, n, b
<1>4. /\ z \in Seq(Symbol) /\ Len(z) = Len(y) + 1 /\ Len(y) \in Nat /\ TopOf(z) = e.sym
      /\ z[Len(y) + 1] = e /\ \A i \in 1 .. Len(y) : z[i] = y[i]
  BY <1>2, Zenon DEF IsPushed
<1>5. /\ u \in Seq(Statement) /\ Len(u) = m /\ Agree(t, u, m - 1) /\ u[m] = new
  BY <1>2, Zenon DEF IsReplaced, m
<1>6. Made(made, u, h, m - 1, b)
  <2>1. Made(made, t, h, m - 1, b)
    BY <1>1, Zenon DEF OtherHolds, b
  <2>. QED
    BY <1>3, <1>5, <2>1, MadeKept
<1>7. /\ m \in 1 .. Len(y) /\ y[m].sym = st.kind /\ \A i \in 1 .. m - 1 : y[i].sym = "stmt"
      /\ \/ st.kind = "options" /\ \A i \in m + 1 .. Len(y) : y[i].sym = "option_item"
         \/ st.kind = "log" /\ LogShape(y, st, m, n)
  BY <1>1, Zenon DEF OtherHolds
<1>8. /\ m \in 1 .. Len(z) /\ z[m].sym = st.kind /\ \A i \in 1 .. m - 1 : z[i].sym = "stmt"
  <2>1. m \in 1 .. Len(z) /\ \A i \in 1 .. m - 1 : i \in 1 .. Len(y)
    BY <1>4, <1>7
  <2>. QED
    BY <1>4, <1>7, <2>1, Zenon
<1>9. new.kind = st.kind /\ TopOf(z) \in OtherTops
  <2>1. e.sym \in {"option_item", "endpoint", "flags"}
    BY DEF Sym
  <2>. QED
    BY <1>1, <1>4, <2>1 DEF OtherTops
<1>10. CASE st.kind = "options"
  <2>1. e.sym = "option_item"
    BY <1>1, <1>10
  <2>2. \A i \in m + 1 .. Len(z) : z[i].sym = "option_item"
    <3>. TAKE i \in m + 1 .. Len(z)
    <3>1. CASE i = Len(y) + 1
      BY <1>4, <2>1, <3>1
    <3>2. CASE i # Len(y) + 1
      <4>1. i \in m + 1 .. Len(y) /\ i \in 1 .. Len(y)
        BY <1>1, <1>4, <3>2
      <4>. QED
        BY <1>4, <1>7, <1>10, <4>1
    <3>. QED
      BY <3>1, <3>2
  <2>. DEFINE k == Len(new.items)
  <2>3. OtherHolds(z, u, h, made, new, m, k)
    <3>1. u # <<>>
      BY <1>1, <1>5
    <3>. QED
      BY <1>5, <1>6, <1>8, <1>9, <1>10, <2>2, <3>1, Zenon DEF OtherHolds, b
  <2>. HIDE DEF k
  <2>. QED
    BY <1>1, <1>3, <1>4, <2>3, OtherStays DEF z, u, b
<1>11. CASE st.kind = "log"
  <2>1. /\ st \in LogText /\ LogShape(y, st, m, n) /\ TopOf(y) \in {"log", "endpoint"}
        /\ \/ /\ new.flags = st.flags
              /\ \E x \in EndpointText : new.items = Append(st.items, x) /\ e = Sym("endpoint", x)
           \/ new.items = st.items /\ e = Sym("flags", new.flags)
    BY <1>1, <1>7, <1>9, <1>11 DEF m, st
  <2>2. /\ Len(y) = m + n /\ st.flags = {}
        /\ \A j \in 1 .. n : y[m + j] = Sym("endpoint", st.items[j])
    <3>1. Len(y) # m + n + 1
      <4>. SUFFICES ASSUME Len(y) = m + n + 1
                    PROVE  FALSE
        OBVIOUS
      <4>1. y[m + n + 1] = Sym("flags", st.flags)
        <5>1. Len(y) # m + n
          BY <1>1
        <5>. QED
          BY <2>1, <5>1, Zenon DEF LogShape
      <4>2. TopOf(y) = "flags"
        <5>1. y # <<>> /\ Len(y) = m + n + 1
          BY <1>1
        <5>. QED
          BY <4>1, <5>1 DEF TopOf, Sym
      <4>. QED
        BY <2>1, <4>2
    <3>. QED
      BY <2>1, <3>1, Zenon DEF LogShape
  <2>3. \A j \in 1 .. n : z[m + j] = Sym("endpoint", st.items[j])
    <3>. TAKE j \in 1 .. n
    <3>1. m + j \in 1 .. Len(y)
      BY <1>1, <2>2
    <3>. QED
      BY <1>4, <2>2, <3>1, Zenon
  <2>. DEFINE k == Len(new.items)
  <2>4. LogShape(z, new, m, k)
    <3>1. CASE \E x \in EndpointText :
                 new.items = Append(st.items, x) /\ e = Sym("endpoint", x)
      <4>1. PICK x \in EndpointText : new.items = Append(st.items, x) /\ e = Sym("endpoint", x)
        BY <3>1
      <4>2. k = n + 1 /\ new.items[n + 1] = x
            /\ \A j \in 1 .. n : new.items[j] = st.items[j]
        <5>. DEFINE q == st.items
        <5>1. q \in Seq(EndpointText) /\ x \in EndpointText /\ new.items = Append(q, x)
          BY <2>1, <4>1 DEF LogText
        <5>. HIDE DEF q
        <5>2. /\ Len(Append(q, x)) = Len(q) + 1 /\ Append(q, x)[Len(q) + 1] = x
              /\ \A j \in 1 .. Len(q) : Append(q, x)[j] = q[j]
          BY <5>1
        <5>. QED
          BY <5>1, <5>2, Zenon DEF q, n
      <4>. HIDE DEF k
      <4>3. e.sym # "flags" /\ new.flags = {}
        <5>1. e.sym = "endpoint"
          BY <4>1 DEF Sym
        <5>2. e # Sym("flags", new.flags)
          BY <5>1 DEF Sym
        <5>. QED
          BY <2>1, <2>2, <5>1, <5>2
      <4>4. \A j \in 1 .. k : z[m + j] = Sym("endpoint", new.items[j])
        <5>. TAKE j \in 1 .. k
        <5>1. CASE j = n + 1
          <6>1. m + j = Len(y) + 1
            BY <1>1, <2>2, <5>1
          <6>. QED
            BY <1>4, <4>1, <4>2, <5>1, <6>1
        <5>2. CASE j # n + 1
          <6>1. j \in 1 .. n
            BY <1>1, <4>2, <5>2
          <6>. QED
            BY <2>3, <4>2, <6>1
        <5>. QED
          BY <5>1, <5>2
      <4>5. Len(z) = m + k
        BY <1>1, <1>4, <2>2, <4>2
      <4>. QED
        BY <4>3, <4>4, <4>5, Zenon DEF LogShape
    <3>2. CASE new.items = st.items /\ e = Sym("flags", new.flags)
      <4>1. k = n
        BY <3>2 DEF n
      <4>. HIDE DEF k
      <4>2. Len(z) = m + k + 1 /\ z[m + k + 1] = e
        BY <1>1, <1>4, <2>2, <4>1
      <4>. QED
        BY <2>3, <3>2, <4>1, <4>2, Zenon DEF LogShape
    <3>. QED
      BY <2>1, <3>1, <3>2
  <2>5. OtherHolds(z, u, h, made, new, m, k)
    <3>1. u # <<>>
      BY <1>1, <1>5
    <3>. QED
      BY <1>5, <1>6, <1>8, <1>9, <1>11, <2>4, <3>1, Zenon DEF OtherHolds, b
  <2>. HIDE DEF k
  <2>. QED
    BY <1>1, <1>3, <1>4, <2>5, OtherStays DEF z, u, b
<1>. QED
  BY <1>7, <1>10, <1>11

-----------------------------------------------------------------------------
(***************************************************************************)
(* The end of what is open.                                                *)
(***************************************************************************)

\* The statement that is open becomes one symbol.
LEMMA StatementEnds ==
  ASSUME NEW y \in Seq(Symbol), NEW t \in Seq(Statement), NEW h \in Seq(Driver), NEW l, NEW made,
         NEW m, m = Len(t), m \in 1 .. Len(y), \A i \in 1 .. m - 1 : y[i].sym = "stmt",
         Sym("stmt", 0) \in Symbol, Made(made, t, h, m, Len(h))
  PROVE  Parsing(Append(SubSeq(y, 1, m - 1), Sym("stmt", 0)), t, h, l, made)
<1>. DEFINE z == Append(SubSeq(y, 1, m - 1), Sym("stmt", 0))
<1>1. IsReduced(z, y, m, Sym("stmt", 0)) /\ Sym("stmt", 0).sym = "stmt"
  BY Reduced DEF Sym
<1>. HIDE DEF z
<1>2. Len(z) = m /\ TopOf(z) = "stmt" /\ z[m].sym = "stmt"
      /\ \A i \in 1 .. m - 1 : z[i].sym = "stmt"
  BY <1>1 DEF IsReduced
<1>3. \A i \in 1 .. m : z[i].sym = "stmt"
  BY <1>2
<1>4. Parsing(z, t, h, l, made)
  BY <1>2, <1>3, Completed
<1>. QED
  BY <1>4, Zenon DEF z

\* Functions on 1 .. n are sequences, and the other way round.
LEMMA FunctionIsSeq ==
  ASSUME NEW S, NEW n \in Nat, NEW f \in [1 .. n -> S]
  PROVE  f \in Seq(S) /\ Len(f) = n
OBVIOUS

LEMMA SeqIsFunction ==
  ASSUME NEW S, NEW f \in Seq(S)
  PROVE  f = [j \in 1 .. Len(f) |-> f[j]]
OBVIOUS

LEMMA ConnectionIs ==
  ASSUME NEW q \in Seq(EndpointText), NEW f \in Flags
  PROVE  [items |-> q, flags |-> f] \in Connection
BY DEF Connection

LEMMA GroupEnded ==
  ASSUME NEW y \in Seq(Symbol), NEW t \in Seq(Statement), NEW h \in Seq(Driver), NEW l, NEW made,
         DOMAIN made = Sections, Sym("stmt", 0) \in Symbol,
         Parsing(y, t, h, l, made), NEW g \in Groups, TopOf(y) \in {g, "item"},
         NEW m, m = Len(t), t[m].kind = g,
         NEW v, v = [j \in 1 .. Len(y) - m |-> y[m + j].val],
         NEW new, new = WithObject(made, g, y[m].val, Items(v))
  PROVE  Parsing(Append(SubSeq(y, 1, m - 1), Sym("stmt", 0)), t, h, l, new)
<1>. DEFINE st == t[m]
            n == Len(st.items)
            b == Len(h)
            c == m - 1
<1>0. TopOf(y) # "stmt" /\ ~InParams(y)
  BY DEF InParams, Groups
<1>1. /\ GroupHolds(y, t, h, l, made, st, m, n)
      /\ m \in Nat /\ m >= 1 /\ n \in Nat /\ t # <<>>
  BY <1>0, GroupIs
<1>2. Finished(y, b) = b /\ b \in Nat
  BY <1>0 DEF Finished
<1>. HIDE DEF st, n, b
<1>3. /\ Len(y) = m + n /\ y[m].val = st.name /\ m \in 1 .. Len(y)
      /\ \A i \in 1 .. m - 1 : y[i].sym = "stmt"
      /\ \A j \in 1 .. n : IsMade(t, h, m, j, y[m + j].val, b)
      /\ Made(made, t, h, c, b)
  BY <1>0, <1>1, <1>2, Zenon DEF GroupHolds, GroupShape, b
<1>4. c \in Nat /\ c + 1 = m
  BY <1>1
<1>5. Len(y) - m = n
  BY <1>1, <1>3
<1>6. \A j \in 1 .. n : v[j] = y[m + j].val
  BY <1>5
<1>7. \A j \in 1 .. n : IsMade(t, h, m, j, v[j], b) /\ v[j] \in 1 .. b
  <2>. TAKE j \in 1 .. n
  <2>1. IsMade(t, h, m, j, v[j], b)
    BY <1>3, <1>6, Zenon
  <2>. QED
    BY <2>1, Zenon DEF IsMade
<1>8. v \in Seq(1 .. b) /\ Len(v) = n
  <2>1. v \in [1 .. n -> 1 .. b]
    <3>1. v = [j \in 1 .. n |-> y[m + j].val]
      BY <1>5
    <3>. HIDE DEF b
    <3>. QED
      BY <1>7, <3>1
  <2>. DEFINE B == 1 .. b
  <2>2. n \in Nat /\ v \in [1 .. n -> B]
    BY <1>1, <2>1
  <2>. HIDE DEF B
  <2>3. v \in Seq(B) /\ Len(v) = n
    BY <2>2, FunctionIsSeq, Zenon
  <2>. QED
    BY <2>3, Zenon DEF B
<1>9. Items(v) = v
  BY <1>8, ItemsIs
<1>10. IsObject(g, v, t, h, c + 1, b)
  BY <1>4, <1>7, <1>8, Zenon DEF IsObject, st, n
<1>11. Made(new, t, h, c + 1, b)
  <2>1. g \in Objects /\ t[c + 1].kind = g /\ t[c + 1].name = y[m].val
    BY <1>3, <1>4 DEF Objects, Groups, st
  <2>2. new = WithObject(made, g, y[m].val, v)
    BY <1>9
  <2>. DEFINE x == y[m].val
  <2>3. t[c + 1].name = x /\ new = WithObject(made, g, x, v) /\ Made(made, t, h, c, b)
        /\ c \in Nat
    BY <1>3, <1>4, <2>1, <2>2
  <2>. HIDE DEF c, x
  <2>. QED
    BY <1>10, <2>1, <2>3, MadePut, Zenon
<1>12. Made(new, t, h, m, Len(h))
  BY <1>4, <1>11 DEF b
<1>. QED
  BY <1>3, <1>12, StatementEnds

LEMMA OptionsEnded ==
  ASSUME NEW y \in Seq(Symbol), NEW t \in Seq(Statement), NEW h \in Seq(Driver), NEW l, NEW made,
         Sym("stmt", 0) \in Symbol,
         Parsing(y, t, h, l, made), TopOf(y) \in {"options", "option_item"},
         NEW m, m = Len(t)
  PROVE  Parsing(Append(SubSeq(y, 1, m - 1), Sym("stmt", 0)), t, h, l, made)
<1>. DEFINE c == m - 1
<1>1. /\ OtherHolds(y, t, h, made, t[m], m, Len(t[m].items))
      /\ m \in Nat /\ m >= 1 /\ t[m].kind = "options"
  <2>1. TopOf(y) \in OtherTops
    BY DEF OtherTops
  <2>. QED
    BY <2>1, OtherIs
<1>2. c \in Nat /\ c + 1 = m
  BY <1>1
<1>3. /\ m \in 1 .. Len(y) /\ \A i \in 1 .. m - 1 : y[i].sym = "stmt"
      /\ Made(made, t, h, c, Len(h))
  BY <1>1, Zenon DEF OtherHolds
<1>. HIDE DEF c
<1>4. Made(made, t, h, m, Len(h))
  BY <1>1, <1>2, <1>3, MadeSkip
<1>. QED
  BY <1>3, <1>4, StatementEnds

\* The connection e of the log statement that is open, and the configuration with it.
LogTaken(y, t, made, k, v, e, new) ==
  /\ k = IF TopOf(y) = "flags" THEN Len(y) - 1 ELSE Len(y)
  /\ v = [j \in 1 .. k - Len(t) |-> y[Len(t) + j].val]
  /\ e = [items |-> Items(v), flags |-> IF TopOf(y) = "flags" THEN y[Len(y)].val ELSE {}]
  /\ new = [made EXCEPT !.connections = Append(made.connections, e)]

LEMMA LogEnded ==
  ASSUME NEW y \in Seq(Symbol), NEW t \in Seq(Statement), NEW h \in Seq(Driver), NEW l, NEW made,
         DOMAIN made = Sections, made.connections \in Seq(Connection), Sym("stmt", 0) \in Symbol,
         Parsing(y, t, h, l, made), TopOf(y) \in {"log", "endpoint", "flags"},
         NEW m, m = Len(t),
         NEW k, NEW v, NEW e, NEW new, LogTaken(y, t, made, k, v, e, new)
  PROVE  /\ Parsing(Append(SubSeq(y, 1, m - 1), Sym("stmt", 0)), t, h, l, new)
         /\ e \in Connection
<1>. DEFINE st == t[m]
            n == Len(st.items)
            b == Len(h)
            c == m - 1
<1>0. /\ k = IF TopOf(y) = "flags" THEN Len(y) - 1 ELSE Len(y)
      /\ v = [j \in 1 .. k - m |-> y[m + j].val]
      /\ e = [items |-> Items(v), flags |-> IF TopOf(y) = "flags" THEN y[Len(y)].val ELSE {}]
      /\ new = [made EXCEPT !.connections = Append(made.connections, e)]
  BY Zenon DEF LogTaken
<1>1. /\ OtherHolds(y, t, h, made, st, m, n)
      /\ m \in Nat /\ m >= 1 /\ n \in Nat /\ st.kind = "log" /\ st \in LogText
  <2>1. TopOf(y) \in OtherTops
    BY DEF OtherTops
  <2>. QED
    BY <2>1, OtherIs
<1>2. c \in Nat /\ c + 1 = m
  BY <1>1
<1>. HIDE DEF st, n
<1>3. /\ m \in 1 .. Len(y) /\ \A i \in 1 .. m - 1 : y[i].sym = "stmt"
      /\ y[m].sym = "log" /\ LogShape(y, st, m, n)
      /\ Made(made, t, h, c, b)
  BY <1>1, Zenon DEF OtherHolds
<1>4. /\ \A j \in 1 .. n : y[m + j] = Sym("endpoint", st.items[j])
      /\ \/ Len(y) = m + n /\ st.flags = {}
         \/ Len(y) = m + n + 1 /\ y[m + n + 1] = Sym("flags", st.flags)
  BY <1>3, Zenon DEF LogShape
<1>5. \A j \in 1 .. n : y[m + j].val = st.items[j] /\ y[m + j].sym = "endpoint"
  <2>. TAKE j \in 1 .. n
  <2>1. y[m + j] = Sym("endpoint", st.items[j])
    BY <1>4, Zenon
  <2>. QED
    BY <2>1 DEF Sym
<1>6. TopOf(y) = y[Len(y)].sym
  BY <1>3 DEF TopOf
<1>7. k = m + n /\ e.flags = st.flags
  <2>1. CASE Len(y) = m + n /\ st.flags = {}
    <3>1. TopOf(y) # "flags"
      <4>1. CASE n = 0
        BY <1>1, <1>3, <1>6, <2>1, <4>1
      <4>2. CASE n # 0
        <5>1. n \in 1 .. n
          BY <1>1, <4>2
        <5>. QED
          BY <1>5, <1>6, <2>1, <5>1
      <4>. QED
        BY <4>1, <4>2
    <3>. QED
      BY <1>0, <2>1, <3>1
  <2>2. CASE Len(y) = m + n + 1 /\ y[m + n + 1] = Sym("flags", st.flags)
    <3>1. y[Len(y)] = Sym("flags", st.flags)
      BY <2>2, Zenon
    <3>2. TopOf(y) = "flags" /\ y[Len(y)].val = st.flags
      BY <1>6, <3>1 DEF Sym
    <3>3. Len(y) - 1 = m + n
      BY <1>1, <2>2
    <3>. QED
      BY <1>0, <3>2, <3>3
  <2>. QED
    BY <1>4, <2>1, <2>2
<1>8. v = st.items
  <2>1. (m + n) - m = n
    BY <1>1
  <2>2. v = [j \in 1 .. n |-> y[m + j].val]
    BY <1>0, <1>7, <2>1, Zenon
  <2>3. v = [j \in 1 .. n |-> st.items[j]]
    <3>1. \A j \in 1 .. n : y[m + j].val = st.items[j]
      BY <1>5
    <3>. QED
      BY <2>2, <3>1, Zenon
  <2>4. st.items = [j \in 1 .. n |-> st.items[j]]
    <3>. DEFINE q == st.items
    <3>1. q \in Seq(EndpointText) /\ Len(q) = n
      BY <1>1 DEF LogText, n
    <3>. HIDE DEF q
    <3>2. q = [j \in 1 .. Len(q) |-> q[j]]
      BY <3>1, SeqIsFunction, Zenon
    <3>. QED
      BY <3>1, <3>2, Zenon DEF q
  <2>. QED
    BY <2>3, <2>4, Zenon
<1>9. st.items \in Seq(EndpointText) /\ st.flags \in Flags
  BY <1>1 DEF LogText
<1>10. Items(v) = st.items
  <2>. DEFINE q == st.items
  <2>1. q \in Seq(EndpointText)
    BY <1>9
  <2>. HIDE DEF q
  <2>2. Items(q) = q
    BY <2>1, ItemsIs
  <2>. QED
    BY <1>8, <2>2, Zenon DEF q
<1>11. e = [items |-> st.items, flags |-> st.flags]
  <2>. DEFINE a == Items(v)
              f == IF TopOf(y) = "flags" THEN y[Len(y)].val ELSE {}
  <2>1. a = st.items /\ e = [items |-> a, flags |-> f]
    BY <1>0, <1>10
  <2>. HIDE DEF a, f
  <2>2. e.flags = f
    BY <2>1
  <2>. QED
    BY <1>7, <2>1, <2>2
<1>12. e \in Connection
  <2>. DEFINE q == st.items
              f == st.flags
  <2>1. q \in Seq(EndpointText) /\ f \in Flags /\ e = [items |-> q, flags |-> f]
    BY <1>9, <1>11
  <2>. HIDE DEF q, f
  <2>. QED
    BY <2>1, ConnectionIs, Zenon
<1>13. Made(new, t, h, c + 1, b)
  <2>1. t[c + 1].kind = "log" /\ e = [items |-> t[c + 1].items, flags |-> t[c + 1].flags]
    BY <1>1, <1>2, <1>11 DEF st
  <2>. HIDE DEF c, b
  <2>. QED
    BY <1>0, <1>2, <1>3, <1>12, <2>1, MadeConnected
<1>14. Made(new, t, h, m, Len(h))
  BY <1>2, <1>13
<1>. QED
  BY <1>3, <1>12, <1>14, StatementEnds

-----------------------------------------------------------------------------
(***************************************************************************)
(* Steps of the parser.                                                    *)
(***************************************************************************)

LEMMA SymIs ==
  ASSUME NEW s \in DOMAIN Width, NEW v \in Name \cup Nat \cup EndpointText \cup Flags
  PROVE  Sym(s, v) \in Symbol
BY DEF Sym, Symbol

LEMMA Syms ==
  ASSUME NEW s \in {"stmt", "source", "destination", "log", "options", "params", "option",
                    "item", "endpoint", "flags", "option_item"}
  PROVE  s \in DOMAIN Width
BY DEF Width

\* A configuration in which nothing is declared.
LEMMA NewConfigurationIs ==
  /\ DOMAIN NewConfiguration = Sections
  /\ NewConfiguration.template = <<>> /\ NewConfiguration.connections = <<>>
  /\ Made(NewConfiguration, <<>>, <<>>, 0, 0)
<1>1. DOMAIN NewConfiguration = Sections
  BY DEF NewConfiguration, Sections, Objects
<1>2. NewConfiguration.template = <<>> /\ NewConfiguration.connections = <<>>
  BY DEF NewConfiguration
<1>3. \A kind \in Objects : NewConfiguration[kind] = <<>>
  BY DEF NewConfiguration, Objects
<1>4. \A kind \in Objects : ObjectsMade(kind, <<>>, <<>>, <<>>, 0, 0)
  BY DEF ObjectsMade, Named
<1>5. Connected(<<>>, <<>>, 0)
  <2>1. LogsOf(<<>>, 0) = {}
    BY DEF LogsOf
  <2>. QED
    BY <2>1, FS_EmptySet DEF Connected
<1>. QED
  BY <1>1, <1>2, <1>3, <1>4, <1>5 DEF Made

LEMMA EmptyParsing ==
  ASSUME NEW l, NEW made, Made(made, <<>>, <<>>, 0, 0)
  PROVE  Parsing(<<>>, <<>>, <<>>, l, made)
<1>1. TopOf(<<>>) = "stmt" /\ Len(<<>>) = 0 /\ <<>> \in Seq(Statement) /\ <<>> \in Seq(Driver)
  BY DEF TopOf
<1>2. \A i \in 1 .. 0 : <<>>[i].sym = "stmt"
  OBVIOUS
<1>. QED
  BY <1>1, <1>2, Completed

LEMMA GrammarInitInv == CfgGrammarInit => GrammarInv
<1>. SUFFICES ASSUME CfgGrammarInit
              PROVE  GrammarInv
  OBVIOUS
<1>1. /\ yystack = <<>> /\ heap = <<>> /\ text = <<>> /\ written = 0
      /\ configuration = NewConfiguration /\ yyresult = "parsing"
      /\ last \in [Pointer \cup {"family"} -> Nat]
  BY DEF CfgGrammarInit, NoDriver, Pointer
<1>2. /\ DOMAIN configuration = Sections
      /\ configuration.template = <<>> /\ configuration.connections = <<>>
      /\ Made(configuration, <<>>, <<>>, 0, 0)
  BY <1>1, NewConfigurationIs
<1>3. GrammarType
  BY <1>1, <1>2 DEF GrammarType
<1>4. Parsing(<<>>, <<>>, <<>>, last, configuration)
  BY <1>2, EmptyParsing
<1>. QED
  BY <1>1, <1>3, <1>4 DEF GrammarInv

\* What is shown of a step that goes on parsing.
LEMMA GoesOn ==
  ASSUME GrammarInv, yyresult = "parsing", UNCHANGED yyresult, GrammarType',
         Parsing(yystack', text', heap', last', configuration')
  PROVE  GrammarInv'
BY DEF GrammarInv

LEMMA InParsing ==
  ASSUME GrammarInv, yyresult = "parsing"
  PROVE  /\ Parsing(yystack, text, heap, last, configuration)
         /\ yystack \in Seq(Symbol) /\ text \in Seq(Statement) /\ heap \in Seq(Driver)
         /\ last \in [Pointer \cup {"family"} -> Nat] /\ written \in Nat
         /\ DOMAIN configuration = Sections
         /\ configuration.connections \in Seq(Connection)
BY DEF GrammarInv, GrammarType

LEMMA OpeningInv ==
  ASSUME GrammarInv, AtStatement, NEW st \in Statement, st.items = <<>>, NEW v,
         v \in Name \cup Nat, st.kind \in DOMAIN Width,
         Shift(st.kind, v), OpenStatement(st),
         UNCHANGED <<last, heap, configuration, yyresult, written, parses>>,
         \/ st.kind \in Groups /\ v = st.name
         \/ st.kind = "options"
         \/ st.kind = "log" /\ st.flags = {}
  PROVE  GrammarInv'
<1>1. /\ yyresult = "parsing" /\ TopOf(yystack) = "stmt"
      /\ yystack' = Append(yystack, Sym(st.kind, v)) /\ text' = Append(text, st)
  BY TopIs DEF AtStatement, Shift, OpenStatement
<1>2. /\ Parsing(yystack, text, heap, last, configuration)
      /\ yystack \in Seq(Symbol) /\ text \in Seq(Statement) /\ heap \in Seq(Driver)
  BY <1>1, InParsing
<1>3. Sym(st.kind, v) \in Symbol
  BY SymIs
<1>4. Parsing(yystack', text', heap', last', configuration')
  BY <1>1, <1>2, <1>3, Opened
<1>5. GrammarType'
  <2>1. yystack' \in Seq(Symbol) /\ text' \in Seq(Statement)
    BY <1>1, <1>2, <1>3
  <2>. QED
    BY <2>1 DEF GrammarInv, GrammarType
<1>. QED
  BY <1>1, <1>4, <1>5, GoesOn

LEMMA OpenGroupInv ==
  ASSUME GrammarInv, NEW g \in Groups, NEW n \in Name, OpenGroup(g, n)
  PROVE  GrammarInv'
<1>. DEFINE st == [kind |-> g, name |-> n, items |-> <<>>]
<1>1. st \in Statement /\ st.items = <<>> /\ st.kind = g /\ st.name = n
  BY DEF Statement, GroupText
<1>2. g \in DOMAIN Width
  BY Syms DEF Groups
<1>3. AtStatement /\ Shift(g, n) /\ OpenStatement(st)
      /\ UNCHANGED <<last, heap, configuration, yyresult, written, parses>>
  BY Zenon DEF OpenGroup
<1>. HIDE DEF st
<1>. QED
  BY <1>1, <1>2, <1>3, OpeningInv

LEMMA OpenOptionsInv ==
  ASSUME GrammarInv, OpenOptions
  PROVE  GrammarInv'
<1>. DEFINE st == [kind |-> "options", name |-> "", items |-> <<>>]
<1>1. st \in Statement /\ st.items = <<>> /\ st.kind = "options"
  BY DEF Statement, OptionsText
<1>2. "options" \in DOMAIN Width
  BY Syms
<1>3. AtStatement /\ Shift("options", 0) /\ OpenStatement(st)
      /\ UNCHANGED <<last, heap, configuration, yyresult, written, parses>>
  BY Zenon DEF OpenOptions
<1>. HIDE DEF st
<1>. QED
  BY <1>1, <1>2, <1>3, OpeningInv

LEMMA OpenLogInv ==
  ASSUME GrammarInv, OpenLog
  PROVE  GrammarInv'
<1>. DEFINE st == [kind |-> "log", name |-> "", items |-> <<>>, flags |-> {}]
<1>1. st \in Statement /\ st.items = <<>> /\ st.kind = "log" /\ st.flags = {}
  BY DEF Statement, LogText, Flags
<1>2. "log" \in DOMAIN Width
  BY Syms
<1>3. AtStatement /\ Shift("log", 0) /\ OpenStatement(st)
      /\ UNCHANGED <<last, heap, configuration, yyresult, written, parses>>
  BY Zenon DEF OpenLog
<1>. HIDE DEF st
<1>. QED
  BY <1>1, <1>2, <1>3, OpeningInv

\* The open group is the one the driver belongs to.
LEMMA WithinGroup ==
  ASSUME NEW y \in Seq(Symbol), NEW t \in Seq(Statement), Shape(y, t), NEW g \in Groups,
         TopOf(y) \in {g, "item"}, \E i \in DOMAIN y : y[i].sym = g
  PROVE  TopOf(y) # "stmt" /\ t # <<>> /\ t[Len(t)].kind = g
<1>. DEFINE m == Len(t)
            st == t[m]
            n == Len(st.items)
<1>0. TopOf(y) # "stmt" /\ ~InParams(y)
  BY DEF InParams, Groups
<1>1. IsOpen(y, st, m, n) /\ t # <<>>
  BY <1>0, OpenStatementIs
<1>. HIDE DEF m, st, n
<1>2. st.kind \in Groups /\ GroupShape(y, st, m, n)
  BY <1>1 DEF IsOpen, Groups
<1>3. Len(y) = m + n /\ \A j \in 1 .. n : y[m + j].sym = "item"
  BY <1>0, <1>2, Zenon DEF GroupShape
<1>4. m \in 1 .. Len(y) /\ n \in Nat /\ y[m].sym = st.kind
      /\ \A i \in 1 .. m - 1 : y[i].sym = "stmt"
  BY <1>1, Zenon DEF IsOpen
<1>5. PICK i \in 1 .. Len(y) : y[i].sym = g
  OBVIOUS
<1>6. i = m
  <2>1. CASE i < m
    <3>1. y[i].sym = "stmt"
      BY <1>4, <2>1
    <3>. QED
      BY <1>5, <3>1 DEF Groups
  <2>2. CASE i > m
    <3>. DEFINE j == i - m
    <3>1. j \in 1 .. n /\ m + j = i
      BY <1>3, <1>4, <2>2
    <3>. HIDE DEF j
    <3>2. y[i].sym = "item"
      BY <1>3, <3>1
    <3>. QED
      BY <1>5, <3>2 DEF Groups
  <2>. QED
    BY <1>4, <2>1, <2>2
<1>. QED
  BY <1>0, <1>1, <1>4, <1>5, <1>6 DEF m, st

LEMMA StartDriverInv ==
  ASSUME GrammarInv, NEW k \in Kind, NEW family \in {4, 6}, StartDriver(k, family)
  PROVE  GrammarInv'
<1>. DEFINE P == DriverKind[k].points
            f == IF DriverKind[k].inet THEN family ELSE 0
            d == Len(heap) + 1
            w == [kind |-> k, family |-> f, opts |-> <<>>]
            m == Len(text)
            st == text[m]
            new == [st EXCEPT !.items = Append(@, w)]
            s == IF P = {} THEN "item" ELSE "params"
            e == Sym(s, d)
<1>1. PointsFirst(DriverKind[k])
  BY PointsTaken
<1>2. /\ yyresult = "parsing" /\ Top \in {DriverKind[k].group, "item"}
      /\ Within(DriverKind[k].group) /\ UNCHANGED <<configuration, yyresult, written, parses>>
  BY DEF StartDriver
<1>3. /\ Parsing(yystack, text, heap, last, configuration)
      /\ yystack \in Seq(Symbol) /\ text \in Seq(Statement) /\ heap \in Seq(Driver)
      /\ last \in [Pointer \cup {"family"} -> Nat]
  BY <1>2, InParsing
<1>4. /\ TopOf(yystack) # "stmt" /\ text # <<>> /\ st.kind = DriverKind[k].group
      /\ st.kind \in Groups /\ TopOf(yystack) \in {st.kind, "item"}
  <2>1. DriverKind[k].group \in Groups /\ TopOf(yystack) \in {DriverKind[k].group, "item"}
    BY <1>1, <1>2, TopIs DEF PointsFirst
  <2>2. \E i \in DOMAIN yystack : yystack[i].sym = DriverKind[k].group
    BY <1>2, Zenon DEF Within
  <2>3. Shape(yystack, text)
    BY <1>3, Zenon DEF Parsing
  <2>. HIDE DEF st
  <2>4. TopOf(yystack) # "stmt" /\ text # <<>> /\ text[Len(text)].kind = DriverKind[k].group
    BY <1>3, <2>1, <2>2, <2>3, WithinGroup
  <2>. QED
    BY <2>1, <2>4 DEF st
<1>5. st \in GroupText /\ m \in Nat
  BY <1>3, <1>4, GroupIs
<1>6. f \in {0, 4, 6} /\ w \in DriverText /\ NewDriver(k, f) \in Driver
  <2>1. f \in {0, 4, 6}
    OBVIOUS
  <2>. HIDE DEF f
  <2>2. w \in DriverText
    BY <2>1 DEF DriverText
  <2>3. NewDriver(k, f) \in Driver
    BY <2>1 DEF NewDriver, Driver, NoTemplate, TemplateRef
  <2>. QED
    BY <2>1, <2>2, <2>3
<1>7. new \in Statement /\ new.kind = st.kind /\ new.name = st.name
      /\ new.items = Append(st.items, w)
  <2>. HIDE DEF w, st
  <2>. QED
    BY <1>5, <1>6 DEF Statement, GroupText
<1>8. s \in DOMAIN Width /\ d \in Nat
  BY <1>3, Syms
<1>9. e \in Symbol
  <2>. HIDE DEF s, d
  <2>. QED
    BY <1>8, SymIs
<1>10. /\ yystack' = Append(yystack, e)
       /\ text' = Append(Front(text), new)
       /\ last' = [Pointed(k, d) EXCEPT !.family = LastFamily(k, family)]
       /\ heap' = Append(heap, NewDriver(k, IF DriverKind[k].inet THEN last'.family ELSE 0))
  <2>1. /\ yystack' = Append(yystack, e)
        /\ last' = [Pointed(k, d) EXCEPT !.family = LastFamily(k, family)]
        /\ heap' = Append(heap, NewDriver(k, IF DriverKind[k].inet THEN last'.family ELSE 0))
    BY DEF StartDriver, Shift
  <2>2. text' = Append(Front(text), new)
    BY DEF StartDriver, InText, Last
  <2>. QED
    BY <2>1, <2>2
<1>11. /\ last' \in [Pointer \cup {"family"} -> Nat]
       /\ \A p \in P : last'[p] = d
       /\ last'.family = LastFamily(k, family)
  <2>1. P \subseteq Pointer
    BY <1>1, Zenon DEF PointsFirst
  <2>2. LastFamily(k, family) \in Nat
    BY <1>3 DEF LastFamily
  <2>3. \A p \in P : p # "family"
    BY <2>1 DEF Pointer
  <2>. DEFINE q == Pointed(k, d)
  <2>4. q \in [Pointer \cup {"family"} -> Nat] /\ \A p \in P : q[p] = d
    <3>. HIDE DEF d, P
    <3>1. q = [x \in Pointer \cup {"family"} |-> IF x \in P THEN d ELSE last[x]]
      BY <1>3 DEF Pointed, P
    <3>. QED
      BY <1>3, <1>8, <2>1, <3>1
  <2>. HIDE DEF q, P, d
  <2>. QED
    BY <1>10, <2>1, <2>2, <2>3, <2>4 DEF q
<1>12. heap' = Append(heap, NewDriver(k, f))
  <2>1. (IF DriverKind[k].inet THEN last'.family ELSE 0) = f
    BY <1>11 DEF LastFamily
  <2>. QED
    BY <1>10, <2>1, Zenon
<1>13. Parsing(yystack', text', heap', last', configuration')
  <2>1. Parsing(Append(yystack, e), Append(Front(text), new), Append(heap, NewDriver(k, f)),
                last', configuration)
    <3>1. e = Sym(IF DriverKind[k].points = {} THEN "item" ELSE "params", Len(heap) + 1)
      OBVIOUS
    <3>2. \A p \in DriverKind[k].points : last'[p] = Len(heap) + 1
      BY <1>11
    <3>. HIDE DEF e, f, new
    <3>. QED
      BY <1>3, <1>4, <1>6, <1>7, <1>9, <3>1, <3>2, DriverStarted
  <2>. QED
    BY <1>2, <1>10, <1>12, <2>1
<1>14. GrammarType'
  <2>1. yystack' \in Seq(Symbol)
    <3>. HIDE DEF e
    <3>. QED
      BY <1>3, <1>9, <1>10
  <2>2. text' \in Seq(Statement)
    <3>. HIDE DEF new
    <3>1. IsReplaced(text', text, new)
      BY <1>3, <1>4, <1>7, <1>10, Replaced
    <3>. QED
      BY <3>1, Zenon DEF IsReplaced
  <2>3. heap' \in Seq(Driver)
    BY <1>3, <1>6, <1>12
  <2>. QED
    BY <1>2, <1>11, <2>1, <2>2, <2>3 DEF GrammarInv, GrammarType
<1>. QED
  BY <1>2, <1>13, <1>14, GoesOn

\* The driver inside whose parentheses the parser is.
LEMMA OptionContext ==
  ASSUME GrammarInv, NEW p \in Pointer, OptionTo(p),
         NEW m, m = Len(text), NEW n, n = Len(text[m].items), NEW b, b = Len(heap)
  PROVE  /\ yyresult = "parsing" /\ TopOf(yystack) \in {"params", "option"}
         /\ yystack' = yystack \/ yystack' = Append(yystack, Sym("option", 0))
         /\ written' = written + 1
         /\ m \in Nat /\ m >= 1 /\ text # <<>> /\ text[m] \in GroupText
         /\ n \in Nat /\ n >= 1 /\ text[m].items[n] \in DriverText
         /\ OpenDriver = text[m].items[n]
         /\ b \in 1 .. Len(heap) /\ heap[b] = DriverIn(text, text[m].items[n], m)
         /\ last[p] = b
         /\ Made(configuration, text, heap, m - 1, b - 1)
<1>. DEFINE w == text[m].items[n]
<1>1. yyresult = "parsing" /\ TopOf(yystack) \in {"params", "option"} /\ written' = written + 1
      /\ (yystack' = yystack \/ yystack' = Append(yystack, Sym("option", 0)))
  BY TopIs DEF OptionTo, Shift
<1>2. /\ Parsing(yystack, text, heap, last, configuration)
      /\ yystack \in Seq(Symbol) /\ text \in Seq(Statement) /\ heap \in Seq(Driver)
  BY <1>1, InParsing
<1>3. text[m].kind \in Groups /\ TopOf(yystack) # "stmt" /\ InParams(yystack)
  BY <1>1, <1>2, ParamsOpen DEF Parsing
<1>4. /\ GroupHolds(yystack, text, heap, last, configuration, text[m], m, n)
      /\ m \in Nat /\ m >= 1 /\ n \in Nat /\ text[m] \in GroupText /\ text # <<>>
  BY <1>2, <1>3, GroupIs
<1>5. n >= 1
  BY <1>3, <1>4, Zenon DEF GroupHolds, GroupShape
<1>6. /\ IsMade(text, heap, m, n, b, b)
      /\ \A q \in DriverKind[w.kind].points : last[q] = b
      /\ Made(configuration, text, heap, m - 1, Finished(yystack, b))
  BY <1>3, <1>4, Zenon DEF GroupHolds
<1>7. w \in DriverText /\ OpenDriver = w
  <2>1. text[m].items \in Seq(DriverText)
    BY <1>4 DEF GroupText
  <2>2. OpenDriver = w
    BY Zenon DEF OpenDriver, Last
  <2>. QED
    BY <1>4, <1>5, <2>1, <2>2
<1>8. b \in 1 .. Len(heap) /\ heap[b] = DriverIn(text, w, m)
  BY <1>6, Zenon DEF IsMade
<1>9. last[p] = b
  <2>1. p \in DriverKind[w.kind].takes
    BY <1>7, Zenon DEF OptionTo, Takes
  <2>2. w.kind \in Kind
    BY <1>7 DEF DriverText
  <2>3. DriverKind[w.kind].takes \subseteq DriverKind[w.kind].points
    BY <2>2, PointsTaken DEF PointsFirst
  <2>. QED
    BY <1>6, <2>1, <2>3
<1>10. Finished(yystack, b) = b - 1
  BY <1>3, Zenon DEF Finished
<1>. HIDE DEF w
<1>. QED
  BY <1>1, <1>4, <1>5, <1>6, <1>7, <1>8, <1>9, <1>10, Zenon DEF w

\* One more option stands in the text, and its value in the driver.
LEMMA OptionInv ==
  ASSUME GrammarInv, NEW p \in Pointer, OptionTo(p), NEW o \in OptionText,
         OptionInText(o.to, o.val), NEW d \in Driver,
         heap' = [heap EXCEPT ![Len(heap)] = d],
         UNCHANGED <<last, configuration, yyresult, parses>>,
         \A x \in DriverText :
           /\ x.kind = OpenDriver.kind /\ x.family = OpenDriver.family
           /\ x.opts = Append(OpenDriver.opts, o)
           => d = DriverIn(text, x, Len(text))
  PROVE  GrammarInv'
<1>. DEFINE m == Len(text)
            st == text[m]
            n == Len(st.items)
            b == Len(heap)
            w == st.items[n]
            x == [w EXCEPT !.opts = Append(@, o)]
            new == [st EXCEPT !.items[n].opts = Append(@, o)]
<1>1. /\ yyresult = "parsing" /\ TopOf(yystack) \in {"params", "option"}
      /\ yystack' = yystack \/ yystack' = Append(yystack, Sym("option", 0))
      /\ written' = written + 1
      /\ m \in Nat /\ m >= 1 /\ text # <<>> /\ st \in GroupText
      /\ n \in Nat /\ n >= 1 /\ w \in DriverText /\ OpenDriver = w
      /\ b \in 1 .. Len(heap)
  BY OptionContext
<1>2. /\ Parsing(yystack, text, heap, last, configuration)
      /\ yystack \in Seq(Symbol) /\ text \in Seq(Statement) /\ heap \in Seq(Driver)
      /\ written \in Nat
  BY <1>1, InParsing
<1>3. Sym("option", 0) \in Symbol
  BY Syms, SymIs
<1>4. x \in DriverText /\ x.kind = w.kind /\ x.family = w.family /\ x.opts = Append(w.opts, o)
  <2>. HIDE DEF w
  <2>1. w.opts \in Seq(OptionText)
    BY <1>1 DEF DriverText
  <2>. DEFINE q == w.opts
              r == Append(q, o)
  <2>2. r \in Seq(OptionText)
    <3>. HIDE DEF q
    <3>. QED
      BY <2>1 DEF q
  <2>3. x = [w EXCEPT !.opts = r]
    OBVIOUS
  <2>. HIDE DEF r, x
  <2>4. x \in DriverText /\ x.kind = w.kind /\ x.family = w.family /\ x.opts = r
    BY <1>1, <2>2, <2>3 DEF DriverText
  <2>. QED
    BY <2>4, Zenon DEF r
<1>5. d = DriverIn(text, x, m)
  BY <1>1, <1>4
<1>. HIDE DEF x
<1>6. /\ new \in Statement /\ new.kind = st.kind /\ new.name = st.name
      /\ new.items = [st.items EXCEPT ![n] = x]
  <2>1. new = [st EXCEPT !.items = [st.items EXCEPT ![n] = x]]
    BY DEF x
  <2>. DEFINE q == st.items
              r == [q EXCEPT ![n] = x]
  <2>2. q \in Seq(DriverText) /\ n \in 1 .. Len(q)
    BY <1>1 DEF GroupText
  <2>. HIDE DEF new, w, n, q
  <2>3. r \in Seq(DriverText)
    BY <1>4, <2>2
  <2>. HIDE DEF r, st
  <2>4. new \in GroupText /\ new.kind = st.kind /\ new.name = st.name /\ new.items = r
    <3>1. new = [st EXCEPT !.items = r]
      BY <2>1 DEF r, q
    <3>. QED
      BY <1>1, <2>3, <3>1 DEF GroupText
  <2>. QED
    BY <2>4 DEF Statement, r, q
<1>7. Len(new.items) = n /\ Agree(st.items, new.items, n - 1) /\ new.items[n] = x
  <2>. DEFINE q == st.items
  <2>1. q \in Seq(DriverText) /\ n \in 1 .. Len(q) /\ n = Len(q)
    BY <1>1 DEF GroupText
  <2>. HIDE DEF q, n, new
  <2>2. new.items = [q EXCEPT ![n] = x]
    BY <1>6 DEF q
  <2>3. Len([q EXCEPT ![n] = x]) = n /\ [q EXCEPT ![n] = x][n] = x
        /\ \A j \in 1 .. n - 1 : [q EXCEPT ![n] = x][j] = q[j]
    BY <2>1
  <2>. QED
    BY <2>2, <2>3 DEF Agree, q
<1>8. heap' \in Seq(Driver) /\ Len(heap') = b /\ Agree(heap, heap', b - 1) /\ heap'[b] = d
  BY <1>1, <1>2 DEF Agree
<1>9. text' = Append(Front(text), new)
  <2>1. o = [to |-> o.to, val |-> o.val]
    BY DEF OptionText
  <2>. DEFINE v == [to |-> o.to, val |-> o.val]
  <2>2. text' = Append(Front(text), [st EXCEPT !.items[n].opts = Append(@, v)])
    BY DEF OptionInText, InText, Last
  <2>3. v = o
    BY <2>1
  <2>. HIDE DEF v
  <2>. QED
    BY <2>2, <2>3
<1>. HIDE DEF new, n, w, b
<1>10. Parsing(yystack', text', heap', last', configuration')
  <2>1. /\ new.kind = text[Len(text)].kind /\ new.name = text[Len(text)].name
        /\ n = Len(text[Len(text)].items)
        /\ Agree(text[Len(text)].items, new.items, n - 1)
        /\ new.items[n].kind = text[Len(text)].items[n].kind
        /\ Len(heap') = Len(heap) /\ Agree(heap, heap', Len(heap) - 1)
        /\ heap'[Len(heap)] = DriverIn(text, new.items[n], Len(text))
    BY <1>4, <1>5, <1>6, <1>7, <1>8 DEF n, w, b
  <2>2. Parsing(yystack', Append(Front(text), new), heap', last, configuration)
    BY <1>1, <1>2, <1>3, <1>6, <1>7, <2>1, Optioned
  <2>. QED
    BY <1>9, <2>2
<1>11. GrammarType'
  <2>1. yystack' \in Seq(Symbol)
    <3>1. IsPushed(Append(yystack, Sym("option", 0)), yystack, Sym("option", 0))
      BY <1>2, <1>3, Pushed
    <3>2. Append(yystack, Sym("option", 0)) \in Seq(Symbol)
      BY <3>1, Zenon DEF IsPushed
    <3>. QED
      BY <1>1, <1>2, <3>2, Zenon
  <2>2. text' \in Seq(Statement)
    <3>1. IsReplaced(text', text, new)
      BY <1>1, <1>2, <1>6, <1>9, Replaced
    <3>. QED
      BY <3>1, Zenon DEF IsReplaced
  <2>. QED
    BY <1>1, <1>8, <2>1, <2>2 DEF GrammarInv, GrammarType
<1>. QED
  BY <1>1, <1>10, <1>11, GoesOn

\* The same, of the driver alone.
DriverContext(p) ==
  /\ yyresult = "parsing" /\ written' = written + 1
  /\ OpenDriver \in DriverText
  /\ Len(heap) \in 1 .. Len(heap) /\ last[p] = Len(heap)
  /\ heap[Len(heap)] = DriverIn(text, OpenDriver, Len(text))
  /\ Len(text) \in Nat /\ Len(text) >= 1
  /\ Made(configuration, text, heap, Len(text) - 1, Len(heap) - 1)

LEMMA DriverContextIs ==
  ASSUME GrammarInv, NEW p \in Pointer, OptionTo(p)
  PROVE  DriverContext(p)
<1>. DEFINE m == Len(text)
            n == Len(text[m].items)
            b == Len(heap)
<1>1. m = Len(text) /\ n = Len(text[m].items) /\ b = Len(heap)
  OBVIOUS
<1>. HIDE DEF m, n, b
<1>2. /\ yyresult = "parsing" /\ written' = written + 1
      /\ m \in Nat /\ m >= 1 /\ text[m].items[n] \in DriverText
      /\ OpenDriver = text[m].items[n]
      /\ b \in 1 .. Len(heap) /\ heap[b] = DriverIn(text, text[m].items[n], m)
      /\ last[p] = b
      /\ Made(configuration, text, heap, m - 1, b - 1)
  BY <1>1, OptionContext
<1>. QED
  BY <1>1, <1>2, Zenon DEF DriverContext

LEMMA OptionStepInv ==
  ASSUME GrammarInv, NEW p \in Pointer, Option(p)
  PROVE  GrammarInv'
<1>. DEFINE b == Len(heap)
            m == Len(text)
            o == [to |-> p, val |-> written']
            h == heap[b]
            d == [h EXCEPT !.opts[p] = written']
<1>1. /\ OptionTo(p) /\ OptionInText(p, written')
      /\ heap' = [heap EXCEPT ![last[p]].opts[p] = written']
      /\ UNCHANGED <<last, configuration, yyresult, parses>>
  BY DEF Option
<1>2. /\ yyresult = "parsing" /\ last[p] = b /\ b \in 1 .. Len(heap)
      /\ OpenDriver \in DriverText /\ h = DriverIn(text, OpenDriver, m)
      /\ written' = written + 1
  BY <1>1, DriverContextIs DEF DriverContext
<1>3. heap \in Seq(Driver) /\ written' \in Nat
  BY <1>2, InParsing
<1>4. o \in OptionText /\ o.to = p /\ o.val = written'
  BY <1>3 DEF OptionText
<1>5. h \in Driver
  BY <1>2, <1>3
<1>6. d \in Driver
  <2>. HIDE DEF h
  <2>1. h.opts \in [Pointer -> Nat]
    BY <1>5 DEF Driver
  <2>. DEFINE q == [h.opts EXCEPT ![p] = written']
  <2>2. q \in [Pointer -> Nat]
    BY <1>3, <2>1
  <2>3. d = [h EXCEPT !.opts = q]
    OBVIOUS
  <2>. HIDE DEF q, d
  <2>. QED
    BY <1>5, <2>2, <2>3 DEF Driver
<1>7. heap' = [heap EXCEPT ![Len(heap)] = d]
  BY <1>1, <1>2
<1>8. ASSUME NEW x \in DriverText, x.kind = OpenDriver.kind, x.family = OpenDriver.family,
             x.opts = Append(OpenDriver.opts, o)
      PROVE  d = DriverIn(text, x, m)
  <2>. HIDE DEF o, h, m
  <2>1. DriverIn(text, x, m) = [DriverIn(text, OpenDriver, m) EXCEPT !.opts[o.to] = o.val]
    BY <1>2, <1>4, <1>8, OptionMeans
  <2>. QED
    BY <1>2, <1>4, <2>1
<1>9. OptionInText(o.to, o.val)
  BY <1>1, <1>4
<1>10. OptionTo(p) /\ UNCHANGED <<last, configuration, yyresult, parses>>
  BY <1>1
<1>11. o \in OptionText
  BY <1>4
<1>. HIDE DEF o, d, b, m
<1>12. \A x \in DriverText :
         /\ x.kind = OpenDriver.kind /\ x.family = OpenDriver.family
         /\ x.opts = Append(OpenDriver.opts, o)
         => d = DriverIn(text, x, Len(text))
  BY <1>8 DEF m
<1>. QED
  BY <1>6, <1>7, <1>9, <1>10, <1>11, <1>12, OptionInv

LEMMA LookedIs ==
  ASSUME GrammarInv, NEW m \in Nat, m >= 1, NEW b,
         Made(configuration, text, heap, m - 1, b), NEW n
  PROVE  /\ Looked(n) = NamedOrInline(text, n, m)
         /\ Looked(n) \in TemplateRef
<1>. DEFINE o == configuration.template
            d == DeclaredIn(text, "template", n, m)
            c == m - 1
<1>1. c \in Nat /\ c + 1 = m
  OBVIOUS
<1>2. ObjectsMade("template", o, text, heap, c, b)
  <2>1. "template" \in Objects
    BY DEF Objects
  <2>2. ObjectsMade("template", configuration["template"], text, heap, c, b)
    BY <2>1, Zenon DEF Made
  <2>. QED
    BY <2>2
<1>. HIDE DEF c
<1>3. /\ DOMAIN o = Named(text, "template", c)
      /\ \A x \in DOMAIN o :
           IsObject("template", o[x], text, heap, DeclaredIn(text, "template", x, c + 1), b)
  BY <1>1, <1>2, ObjectsAre
<1>4. \A x \in DOMAIN o : o[x] \in Nat
  BY DEF GrammarInv, GrammarType
<1>. HIDE DEF o
<1>5. CASE n \in DOMAIN o
  <2>1. DeclaredIn(text, "template", n, c + 1) \in 1 .. c
    BY <1>1, <1>3, <1>5, ObjectDeclared DEF Named
  <2>2. d # 0
    BY <1>1, <2>1
  <2>3. IsObject("template", o[n], text, heap, d, b)
    BY <1>1, <1>3, <1>5
  <2>4. o[n] = text[d].items[1]
    <3>1. "template" \notin Groups
      BY DEF Groups
    <3>. QED
      BY <2>3, <3>1, Zenon DEF IsObject
  <2>5. Looked(n) = [ref |-> "named", body |-> o[n], escape |-> FALSE]
    BY <1>5 DEF Looked, o
  <2>. HIDE DEF d
  <2>6. NamedOrInline(text, n, m) = [ref |-> "named", body |-> text[d].items[1], escape |-> FALSE]
    BY <2>2 DEF NamedOrInline, d
  <2>7. o[n] \in Nat
    BY <1>4, <1>5
  <2>. QED
    BY <2>4, <2>5, <2>6, <2>7 DEF TemplateRef
<1>6. CASE n \notin DOMAIN o
  <2>1. d = 0
    <3>. SUFFICES ASSUME d # 0
                  PROVE  FALSE
      OBVIOUS
    <3>1. d \in 0 .. m - 1 /\ text[d].kind = "template" /\ text[d].name = n
      BY DeclaredIndex
    <3>. HIDE DEF d
    <3>2. d \in 1 .. c
      BY <1>1, <3>1
    <3>3. n \in Named(text, "template", c)
      BY <3>1, <3>2 DEF Named
    <3>. QED
      BY <1>3, <1>6, <3>3
  <2>2. Looked(n) = [ref |-> "inline", body |-> 0, escape |-> FALSE]
    BY <1>6 DEF Looked, o
  <2>. HIDE DEF d
  <2>3. NamedOrInline(text, n, m) = [ref |-> "inline", body |-> 0, escape |-> FALSE]
    BY <2>1 DEF NamedOrInline, d
  <2>. QED
    BY <2>2, <2>3 DEF TemplateRef
<1>. QED
  BY <1>5, <1>6

LEMMA TemplateOptionInv ==
  ASSUME GrammarInv, NEW n \in Name, TemplateOption(n)
  PROVE  GrammarInv'
<1>. DEFINE b == Len(heap)
            m == Len(text)
            o == [to |-> "template", val |-> n]
            h == heap[b]
            q == Looked(n)
            d == [h EXCEPT !.template = q]
<1>0. "writer" \in Pointer
  BY DEF Pointer
<1>1. /\ OptionTo("writer") /\ OptionInText("template", n)
      /\ heap' = [heap EXCEPT ![last["writer"]].template = Looked(n)]
      /\ UNCHANGED <<last, configuration, yyresult, parses>>
  BY DEF TemplateOption
<1>2. /\ yyresult = "parsing" /\ last["writer"] = b /\ b \in 1 .. Len(heap)
      /\ OpenDriver \in DriverText /\ h = DriverIn(text, OpenDriver, m)
      /\ m \in Nat /\ m >= 1 /\ Made(configuration, text, heap, m - 1, b - 1)
  BY <1>0, <1>1, DriverContextIs DEF DriverContext
<1>3. heap \in Seq(Driver)
  BY <1>2, InParsing
<1>4. o \in OptionText /\ o.to = "template" /\ o.val = n
  BY DEF OptionText
<1>5. h \in Driver
  BY <1>2, <1>3
<1>6. q = NamedOrInline(text, n, m) /\ q \in TemplateRef
  <2>. DEFINE c == b - 1
  <2>1. Made(configuration, text, heap, m - 1, c)
    BY <1>2
  <2>. HIDE DEF c, m
  <2>. QED
    BY <1>2, <2>1, LookedIs
<1>. HIDE DEF q
<1>7. d \in Driver
  <2>. HIDE DEF h
  <2>. QED
    BY <1>5, <1>6 DEF Driver
<1>8. heap' = [heap EXCEPT ![Len(heap)] = d]
  BY <1>1, <1>2 DEF q
<1>9. ASSUME NEW x \in DriverText, x.kind = OpenDriver.kind, x.family = OpenDriver.family,
             x.opts = Append(OpenDriver.opts, o)
      PROVE  d = DriverIn(text, x, m)
  <2>. HIDE DEF o, h, m
  <2>1. DriverIn(text, x, m)
          = [DriverIn(text, OpenDriver, m) EXCEPT !.template = NamedOrInline(text, o.val, m)]
    BY <1>2, <1>4, <1>9, OptionMeans
  <2>. QED
    BY <1>2, <1>4, <1>6, <2>1
<1>10. OptionInText(o.to, o.val)
  BY <1>1, <1>4
<1>. HIDE DEF o, d
<1>. QED
  BY <1>0, <1>1, <1>4, <1>7, <1>8, <1>9, <1>10, OptionInv

LEMMA EscapeOptionInv ==
  ASSUME GrammarInv, EscapeOption
  PROVE  GrammarInv'
<1>. DEFINE b == Len(heap)
            m == Len(text)
            o == [to |-> "escape", val |-> 0]
            h == heap[b]
            d == [h EXCEPT !.template = EscapeIfInline(@)]
<1>0. "writer" \in Pointer
  BY DEF Pointer
<1>1. /\ OptionTo("writer") /\ OptionInText("escape", 0)
      /\ heap' = [heap EXCEPT ![last["writer"]].template = EscapeIfInline(@)]
      /\ UNCHANGED <<last, configuration, yyresult, parses>>
  BY DEF EscapeOption
<1>2. /\ yyresult = "parsing" /\ last["writer"] = b /\ b \in 1 .. Len(heap)
      /\ OpenDriver \in DriverText /\ h = DriverIn(text, OpenDriver, m)
  BY <1>0, <1>1, DriverContextIs DEF DriverContext
<1>3. heap \in Seq(Driver)
  BY <1>2, InParsing
<1>4. o \in OptionText /\ o.to = "escape" /\ o.val = 0
  BY DEF OptionText
<1>5. h \in Driver
  BY <1>2, <1>3
<1>7. d \in Driver
  <2>. HIDE DEF h
  <2>1. h.template \in TemplateRef
    BY <1>5 DEF Driver
  <2>. DEFINE q == EscapeIfInline(h.template)
  <2>2. q \in TemplateRef
    BY <2>1 DEF EscapeIfInline, TemplateRef
  <2>3. d = [h EXCEPT !.template = q]
    OBVIOUS
  <2>. HIDE DEF q, d
  <2>. QED
    BY <1>5, <2>2, <2>3 DEF Driver
<1>8. heap' = [heap EXCEPT ![Len(heap)] = d]
  BY <1>1, <1>2
<1>9. ASSUME NEW x \in DriverText, x.kind = OpenDriver.kind, x.family = OpenDriver.family,
             x.opts = Append(OpenDriver.opts, o)
      PROVE  d = DriverIn(text, x, m)
  <2>. HIDE DEF o, h, m
  <2>1. DriverIn(text, x, m)
          = [DriverIn(text, OpenDriver, m) EXCEPT !.template = EscapeIfInline(@)]
    BY <1>2, <1>4, <1>9, OptionMeans
  <2>. QED
    BY <1>2, <1>4, <2>1
<1>10. OptionInText(o.to, o.val)
  BY <1>1, <1>4
<1>. HIDE DEF o, d
<1>. QED
  BY <1>0, <1>1, <1>4, <1>7, <1>8, <1>9, <1>10, OptionInv

-----------------------------------------------------------------------------
(***************************************************************************)
(* What ends drivers and statements.                                       *)
(***************************************************************************)

\* The stack and the text are well typed after a step that leaves the rest.
LEMMA TypeKept ==
  ASSUME GrammarInv, yystack' \in Seq(Symbol), text' \in Seq(Statement), written' \in Nat,
         UNCHANGED <<last, heap, configuration, yyresult>>
  PROVE  GrammarType'
BY DEF GrammarInv, GrammarType

LEMMA EndDriverInv ==
  ASSUME GrammarInv, EndDriver
  PROVE  GrammarInv'
<1>. DEFINE m == Len(text)
            st == text[m]
            n == Len(st.items)
            i == m + n
            d == last.driver
            e == Sym("item", d)
<1>1. /\ yyresult = "parsing" /\ TopOf(yystack) \in {"params", "option"}
      /\ yystack' = Append(SubSeq(yystack, 1, Open("params") - 1), e)
      /\ UNCHANGED <<last, heap, configuration, yyresult, text, written, parses>>
  BY TopIs DEF EndDriver, Reduce
<1>2. /\ Parsing(yystack, text, heap, last, configuration)
      /\ yystack \in Seq(Symbol) /\ text \in Seq(Statement) /\ heap \in Seq(Driver)
      /\ last \in [Pointer \cup {"family"} -> Nat] /\ written \in Nat
  BY <1>1, InParsing
<1>3. st.kind \in Groups /\ TopOf(yystack) # "stmt" /\ InParams(yystack)
  BY <1>1, <1>2, ParamsOpen DEF Parsing
<1>4. /\ GroupHolds(yystack, text, heap, last, configuration, st, m, n)
      /\ m \in Nat /\ m >= 1 /\ n \in Nat /\ st \in GroupText
  BY <1>2, <1>3, GroupIs
<1>. HIDE DEF st, n
<1>5. /\ n >= 1 /\ Len(yystack) >= m + n
      /\ yystack[m + n].sym = "params"
      /\ \A k \in m + n + 1 .. Len(yystack) : yystack[k].sym = "option"
  BY <1>3, <1>4, Zenon DEF GroupHolds, GroupShape
<1>6. i \in 1 .. Len(yystack) /\ Open("params") = i
  <2>1. i \in 1 .. Len(yystack) /\ Len(yystack) \in Nat
    BY <1>2, <1>4, <1>5
  <2>2. yystack[i].sym = "params" /\ \A k \in i + 1 .. Len(yystack) : yystack[k].sym # "params"
    BY <1>5
  <2>. HIDE DEF i
  <2>. QED
    BY <1>2, <2>1, <2>2, OpenIs
<1>7. d = Len(heap)
  <2>1. /\ \A p \in DriverKind[st.items[n].kind].points : last[p] = Len(heap)
        /\ DriverKind[st.items[n].kind].points # {}
    BY <1>3, <1>4, Zenon DEF GroupHolds
  <2>2. st.items[n].kind \in Kind
    <3>1. st.items \in Seq(DriverText) /\ n \in 1 .. Len(st.items)
      BY <1>4, <1>5 DEF GroupText, n
    <3>. DEFINE q == st.items
    <3>2. q[n] \in DriverText
      <4>. HIDE DEF q, n
      <4>1. q \in Seq(DriverText) /\ n \in 1 .. Len(q)
        BY <3>1 DEF q
      <4>. QED
        BY <4>1
    <3>. HIDE DEF q
    <3>3. q[n].kind \in Kind
      BY <3>2 DEF DriverText
    <3>. QED
      BY <3>3 DEF q
  <2>3. "driver" \in DriverKind[st.items[n].kind].points
    BY <2>1, <2>2, PointsTaken DEF PointsFirst
  <2>4. last["driver"] = Len(heap)
    BY <2>1, <2>3, Zenon
  <2>. QED
    BY <2>4
<1>8. e \in Symbol
  <2>1. d \in Nat
    BY <1>2 DEF Pointer
  <2>2. "item" \in DOMAIN Width
    BY Syms
  <2>. HIDE DEF d
  <2>. QED
    BY <2>1, <2>2, SymIs
<1>. HIDE DEF d
<1>9. i = Len(text) + Len(text[Len(text)].items)
  BY DEF n, st
<1>. HIDE DEF i
<1>10. Parsing(Append(SubSeq(yystack, 1, i - 1), Sym("item", d)), text, heap, last, configuration)
  BY <1>1, <1>2, <1>6, <1>7, <1>8, <1>9, Ended
<1>11. yystack' = Append(SubSeq(yystack, 1, i - 1), e)
  BY <1>1, <1>6
<1>12. yystack' \in Seq(Symbol)
  <2>. HIDE DEF e
  <2>1. IsReduced(Append(SubSeq(yystack, 1, i - 1), e), yystack, i, e)
    BY <1>2, <1>6, <1>8, Reduced
  <2>. QED
    BY <1>11, <2>1, Zenon DEF IsReduced
<1>13. GrammarType'
  BY <1>1, <1>2, <1>12, TypeKept
<1>. QED
  BY <1>1, <1>10, <1>11, <1>13, GoesOn

\* The last statement of a text is complete.
LEMMA ClosingInv ==
  ASSUME GrammarInv, yyresult = "parsing", NEW m \in 1 .. Len(yystack),
         yystack' = Append(SubSeq(yystack, 1, m - 1), Sym("stmt", 0)),
         Parsing(Append(SubSeq(yystack, 1, m - 1), Sym("stmt", 0)), text, heap, last, configuration'),
         DOMAIN configuration' = Sections,
         \A n \in DOMAIN configuration'.template : configuration'.template[n] \in Nat,
         configuration'.connections \in Seq(Connection),
         UNCHANGED <<last, heap, yyresult, text, written, parses>>
  PROVE  GrammarInv'
<1>1. yystack \in Seq(Symbol) /\ Sym("stmt", 0) \in Symbol
  BY Syms, SymIs DEF GrammarInv, GrammarType
<1>2. yystack' \in Seq(Symbol)
  <2>1. IsReduced(Append(SubSeq(yystack, 1, m - 1), Sym("stmt", 0)), yystack, m, Sym("stmt", 0))
    BY <1>1, Reduced
  <2>. QED
    BY <2>1, Zenon DEF IsReduced
<1>3. GrammarType'
  BY <1>2 DEF GrammarInv, GrammarType
<1>. QED
  BY <1>3, GoesOn

LEMMA EndGroupInv ==
  ASSUME GrammarInv, NEW g \in Groups, EndGroup(g)
  PROVE  GrammarInv'
<1>. DEFINE m == Len(text)
            st == text[m]
            n == Len(st.items)
            v == Values(Open(g), Len(yystack))
            new == WithObject(configuration, g, yystack[m].val, Items(v))
<1>1. /\ yyresult = "parsing" /\ TopOf(yystack) \in {g, "item"}
      /\ \E i \in DOMAIN yystack : yystack[i].sym = g
      /\ configuration' = WithObject(configuration, g, yystack[Open(g)].val, Items(v))
      /\ yystack' = Append(SubSeq(yystack, 1, Open(g) - 1), Sym("stmt", 0))
      /\ UNCHANGED <<last, heap, yyresult, text, written, parses>>
  BY TopIs DEF EndGroup, Reduce, Within, WithObject
<1>2. /\ Parsing(yystack, text, heap, last, configuration)
      /\ yystack \in Seq(Symbol) /\ text \in Seq(Statement) /\ heap \in Seq(Driver)
      /\ DOMAIN configuration = Sections
      /\ configuration.connections \in Seq(Connection)
  BY <1>1, InParsing
<1>3. TopOf(yystack) # "stmt" /\ text # <<>> /\ st.kind = g
  <2>1. Shape(yystack, text)
    BY <1>2, Zenon DEF Parsing
  <2>. QED
    BY <1>1, <1>2, <2>1, WithinGroup
<1>4. /\ GroupHolds(yystack, text, heap, last, configuration, st, m, n)
      /\ m \in Nat /\ m >= 1 /\ n \in Nat
  BY <1>2, <1>3, GroupIs
<1>5. ~InParams(yystack)
  BY <1>1 DEF InParams, Groups
<1>. HIDE DEF st, n
<1>6. /\ m \in 1 .. Len(yystack) /\ yystack[m].sym = g /\ Len(yystack) = m + n
      /\ \A j \in 1 .. n : yystack[m + j].sym = "item"
  BY <1>3, <1>4, <1>5, Zenon DEF GroupHolds, GroupShape
<1>7. Open(g) = m
  <2>1. ASSUME NEW k \in m + 1 .. Len(yystack)
        PROVE  yystack[k].sym # g
    <3>. DEFINE j == k - m
    <3>1. j \in 1 .. n /\ m + j = k
      BY <1>4, <1>6
    <3>. HIDE DEF j
    <3>2. yystack[k].sym = "item"
      BY <1>6, <3>1
    <3>. QED
      BY <3>2 DEF Groups
  <2>. HIDE DEF m
  <2>. QED
    BY <1>2, <1>6, <2>1, OpenIs
<1>8. v = [j \in 1 .. Len(yystack) - m |-> yystack[m + j].val]
  BY <1>7 DEF Values
<1>. HIDE DEF v
<1>9. configuration' = new
  BY <1>1, <1>7
<1>10. Parsing(Append(SubSeq(yystack, 1, m - 1), Sym("stmt", 0)), text, heap, last, new)
  <2>1. Sym("stmt", 0) \in Symbol
    BY Syms, SymIs
  <2>2. text[m].kind = g /\ m = Len(text)
    BY <1>3 DEF st
  <2>. DEFINE q == new
  <2>3. q = WithObject(configuration, g, yystack[m].val, Items(v))
    OBVIOUS
  <2>. HIDE DEF q, m, new
  <2>4. Parsing(Append(SubSeq(yystack, 1, m - 1), Sym("stmt", 0)), text, heap, last, q)
    BY <1>1, <1>2, <1>8, <2>1, <2>2, <2>3, GroupEnded
  <2>. QED
    BY <2>4 DEF q
<1>11. /\ DOMAIN configuration' = Sections
       /\ configuration'.template = configuration.template
       /\ configuration'.connections = configuration.connections
  <2>1. g \in Sections /\ "template" \in Sections /\ "connections" \in Sections
        /\ g # "template" /\ g # "connections"
    BY DEF Groups, Sections, Objects
  <2>. DEFINE w == Put(configuration[g], yystack[m].val, Items(v))
  <2>2. configuration' = [configuration EXCEPT ![g] = w]
    BY <1>9 DEF WithObject
  <2>. HIDE DEF w
  <2>. QED
    BY <1>2, <2>1, <2>2, SectionIs
<1>12. \A x \in DOMAIN configuration.template : configuration.template[x] \in Nat
  BY DEF GrammarInv, GrammarType
<1>. HIDE DEF new, m
<1>. QED
  BY <1>1, <1>2, <1>6, <1>7, <1>9, <1>10, <1>11, <1>12, ClosingInv

LEMMA EndOptionsInv ==
  ASSUME GrammarInv, EndOptions
  PROVE  GrammarInv'
<1>. DEFINE m == Len(text)
            st == text[m]
            n == Len(st.items)
<1>1. /\ yyresult = "parsing" /\ TopOf(yystack) \in {"options", "option_item"}
      /\ yystack' = Append(SubSeq(yystack, 1, Open("options") - 1), Sym("stmt", 0))
      /\ UNCHANGED <<last, heap, configuration, yyresult, text, written, parses>>
  BY TopIs DEF EndOptions, Reduce
<1>2. /\ Parsing(yystack, text, heap, last, configuration)
      /\ yystack \in Seq(Symbol) /\ text \in Seq(Statement) /\ heap \in Seq(Driver)
      /\ DOMAIN configuration = Sections
      /\ configuration.connections \in Seq(Connection)
  BY <1>1, InParsing
<1>3. /\ OtherHolds(yystack, text, heap, configuration, st, m, n)
      /\ m \in Nat /\ st.kind = "options"
  <2>1. TopOf(yystack) \in OtherTops
    BY <1>1 DEF OtherTops
  <2>. QED
    BY <1>1, <1>2, <2>1, OtherIs
<1>. HIDE DEF st, n
<1>4. /\ m \in 1 .. Len(yystack) /\ yystack[m].sym = "options"
      /\ \A i \in m + 1 .. Len(yystack) : yystack[i].sym = "option_item"
  BY <1>3 DEF OtherHolds
<1>5. Open("options") = m
  <2>1. \A i \in m + 1 .. Len(yystack) : yystack[i].sym # "options"
    BY <1>4
  <2>. HIDE DEF m
  <2>. QED
    BY <1>2, <1>4, <2>1, OpenIs
<1>6. Sym("stmt", 0) \in Symbol
  BY Syms, SymIs
<1>7. Parsing(Append(SubSeq(yystack, 1, m - 1), Sym("stmt", 0)), text, heap, last, configuration)
  BY <1>1, <1>2, <1>6, OptionsEnded
<1>8. \A x \in DOMAIN configuration.template : configuration.template[x] \in Nat
  BY DEF GrammarInv, GrammarType
<1>. HIDE DEF m
<1>. QED
  BY <1>1, <1>2, <1>4, <1>5, <1>7, <1>8, ClosingInv

LEMMA EndLogInv ==
  ASSUME GrammarInv, EndLog
  PROVE  GrammarInv'
<1>. DEFINE m == Len(text)
            st == text[m]
            n == Len(st.items)
            k == IF TopOf(yystack) = "flags" THEN Len(yystack) - 1 ELSE Len(yystack)
            v == Values(Open("log"), k)
            f == IF TopOf(yystack) = "flags" THEN yystack[Len(yystack)].val ELSE {}
            e == [items |-> Items(v), flags |-> f]
            new == [configuration EXCEPT !.connections = Append(configuration.connections, e)]
<1>1. /\ TopOf(yystack) \in {"log", "endpoint", "flags"} /\ Within("log")
      /\ configuration' = new
      /\ Reduce(Open("log"), "stmt", 0)
      /\ UNCHANGED <<last, heap, yyresult, text, written, parses>>
  BY TopIs DEF EndLog, Last
<1>2. /\ yyresult = "parsing"
      /\ yystack' = Append(SubSeq(yystack, 1, Open("log") - 1), Sym("stmt", 0))
  BY <1>1 DEF Reduce
<1>3. /\ Parsing(yystack, text, heap, last, configuration)
      /\ yystack \in Seq(Symbol) /\ text \in Seq(Statement) /\ heap \in Seq(Driver)
      /\ DOMAIN configuration = Sections
      /\ configuration.connections \in Seq(Connection)
  BY <1>2, InParsing
<1>4. /\ OtherHolds(yystack, text, heap, configuration, st, m, n)
      /\ m \in Nat /\ n \in Nat /\ st.kind = "log"
  <2>1. TopOf(yystack) \in OtherTops
    BY <1>1 DEF OtherTops
  <2>. QED
    BY <1>1, <1>3, <2>1, OtherIs
<1>. HIDE DEF st, n
<1>5. m \in 1 .. Len(yystack) /\ yystack[m].sym = "log" /\ LogShape(yystack, st, m, n)
  BY <1>4 DEF OtherHolds
<1>6. ASSUME NEW i \in m + 1 .. Len(yystack)
      PROVE  yystack[i].sym # "log"
  <2>. DEFINE j == i - m
  <2>1. j \in 1 .. n \/ i = m + n + 1
    BY <1>4, <1>5 DEF LogShape
  <2>2. CASE j \in 1 .. n
    <3>1. m + j = i
      BY <1>4
    <3>. HIDE DEF j, m
    <3>2. yystack[i] = Sym("endpoint", st.items[j])
      BY <1>5, <2>2, <3>1, Zenon DEF LogShape
    <3>. QED
      BY <3>2 DEF Sym
  <2>3. CASE i = m + n + 1
    <3>1. Len(yystack) # m + n
      BY <1>4, <2>3
    <3>. HIDE DEF m
    <3>2. yystack[i] = Sym("flags", st.flags)
      BY <1>5, <2>3, <3>1, Zenon DEF LogShape
    <3>. QED
      BY <3>2 DEF Sym
  <2>. QED
    BY <2>1, <2>2, <2>3
<1>7. Open("log") = m
  <2>. HIDE DEF m
  <2>. QED
    BY <1>3, <1>5, <1>6, OpenIs
<1>8. v = [j \in 1 .. k - m |-> yystack[m + j].val]
  BY <1>7 DEF Values
<1>9. Sym("stmt", 0) \in Symbol
  BY Syms, SymIs
<1>10. /\ Parsing(Append(SubSeq(yystack, 1, m - 1), Sym("stmt", 0)), text, heap, last, new)
       /\ e \in Connection
  <2>. DEFINE q == new
              c == e
  <2>1. q = [configuration EXCEPT !.connections = Append(configuration.connections, c)]
        /\ c = [items |-> Items(v),
                flags |-> IF TopOf(yystack) = "flags" THEN yystack[Len(yystack)].val ELSE {}]
    OBVIOUS
  <2>2. k = IF TopOf(yystack) = "flags" THEN Len(yystack) - 1 ELSE Len(yystack)
    OBVIOUS
  <2>3. m = Len(text)
    OBVIOUS
  <2>4. TopOf(yystack) \in {"log", "endpoint", "flags"}
    BY <1>1, Zenon
  <2>. HIDE DEF q, c, new, e, v, k, m, f, st, n
  <2>5. LogTaken(yystack, text, configuration, k, v, c, q)
    BY <1>8, <2>1, <2>2, <2>3, Zenon DEF LogTaken
  <2>6. /\ Parsing(Append(SubSeq(yystack, 1, m - 1), Sym("stmt", 0)), text, heap, last, q)
        /\ c \in Connection
    BY <1>3, <1>9, <2>3, <2>4, <2>5, LogEnded
  <2>. QED
    BY <2>6 DEF q, c
<1>. HIDE DEF e, m
<1>11. /\ DOMAIN configuration' = Sections
       /\ configuration'.template = configuration.template
       /\ configuration'.connections \in Seq(Connection)
  <2>1. "template" \in Sections /\ "connections" \in Sections
    BY DEF Sections, Objects
  <2>. DEFINE w == Append(configuration.connections, e)
  <2>2. configuration' = [configuration EXCEPT !.connections = w] /\ w \in Seq(Connection)
    BY <1>1, <1>3, <1>10
  <2>. HIDE DEF w, new
  <2>. QED
    BY <1>3, <2>1, <2>2, SectionIs
<1>12. \A x \in DOMAIN configuration.template : configuration.template[x] \in Nat
  BY DEF GrammarInv, GrammarType
<1>. HIDE DEF new
<1>. QED
  BY <1>1, <1>2, <1>5, <1>7, <1>10, <1>11, <1>12, ClosingInv

LEMMA AcceptInv ==
  ASSUME GrammarInv, Accept
  PROVE  GrammarInv'
<1>1. /\ yyresult = "parsing" /\ TopOf(yystack) = "stmt"
      /\ yyresult' = "accepted" /\ yystack' = <<>>
      /\ UNCHANGED <<last, heap, configuration, text, written, parses>>
  BY TopIs DEF Accept, AtStatement
<1>2. Made(configuration, text, heap, Complete(yystack, text), Finished(yystack, Len(heap)))
  BY <1>1, InParsing DEF Parsing
<1>3. Complete(yystack, text) = Len(text) /\ Finished(yystack, Len(heap)) = Len(heap)
  BY <1>1 DEF Complete, Finished, InParams
<1>4. Made(configuration', text', heap', Len(text'), Len(heap'))
  BY <1>1, <1>2, <1>3
<1>. QED
  BY <1>1, <1>4 DEF GrammarInv, GrammarType

LEMMA AbortInv ==
  ASSUME GrammarInv, Abort
  PROVE  GrammarInv'
<1>1. /\ yyresult' = "failed" /\ yystack' = <<>> /\ configuration' = NewConfiguration
      /\ UNCHANGED <<last, heap, text, written, parses>>
  BY DEF Abort
<1>2. /\ DOMAIN configuration' = Sections
      /\ configuration'.template = <<>> /\ configuration'.connections = <<>>
  BY <1>1, NewConfigurationIs
<1>. QED
  BY <1>1, <1>2 DEF GrammarInv, GrammarType

LEMMA ParseInv ==
  ASSUME GrammarInv, Parse
  PROVE  GrammarInv'
<1>1. /\ yyresult' = "parsing" /\ yystack' = <<>> /\ heap' = <<>> /\ text' = <<>>
      /\ configuration' = NewConfiguration /\ written' = 0
      /\ last' = [x \in DOMAIN last |-> IF x = "family" THEN last[x] ELSE NoDriver]
  BY DEF Parse
<1>2. last' \in [Pointer \cup {"family"} -> Nat]
  <2>1. last \in [Pointer \cup {"family"} -> Nat] /\ NoDriver \in Nat
    BY DEF GrammarInv, GrammarType, NoDriver
  <2>. QED
    BY <1>1, <2>1
<1>3. /\ DOMAIN configuration' = Sections
      /\ configuration'.template = <<>> /\ configuration'.connections = <<>>
      /\ Made(configuration', <<>>, <<>>, 0, 0)
  BY <1>1, NewConfigurationIs
<1>4. GrammarType'
  BY <1>1, <1>2, <1>3 DEF GrammarType
<1>5. Parsing(<<>>, <<>>, <<>>, last', configuration')
  BY <1>3, EmptyParsing
<1>. QED
  BY <1>1, <1>4, <1>5 DEF GrammarInv

-----------------------------------------------------------------------------
(***************************************************************************)
(* What stands in statements.                                              *)
(***************************************************************************)

\* A template or a filter is complete at once.
LEMMA ValueInv ==
  ASSUME GrammarInv, AtStatement, NEW kind \in {"template", "filter"}, NEW x \in Name, NEW v \in Nat,
         Shift("stmt", 0), OpenStatement([kind |-> kind, name |-> x, items |-> <<v>>]),
         configuration' = WithObject(configuration, kind, x, v), written' \in Nat,
         UNCHANGED <<last, heap, yyresult, parses>>
  PROVE  GrammarInv'
<1>. DEFINE st == [kind |-> kind, name |-> x, items |-> <<v>>]
            e == Sym("stmt", 0)
<1>1. /\ yyresult = "parsing" /\ TopOf(yystack) = "stmt"
      /\ yystack' = Append(yystack, e) /\ text' = Append(text, st)
  BY TopIs DEF AtStatement, Shift, OpenStatement
<1>2. /\ Parsing(yystack, text, heap, last, configuration)
      /\ yystack \in Seq(Symbol) /\ text \in Seq(Statement) /\ heap \in Seq(Driver)
      /\ DOMAIN configuration = Sections
      /\ configuration.connections \in Seq(Connection)
  BY <1>1, InParsing
<1>3. st \in Statement /\ e \in Symbol
  BY Syms, SymIs DEF Statement, ValueText
<1>4. Parsing(Append(yystack, Sym("stmt", 0)), Append(text, st), heap, last, configuration')
  <2>1. st = [kind |-> kind, name |-> x, items |-> <<v>>]
    OBVIOUS
  <2>. HIDE DEF st
  <2>. QED
    BY <1>1, <1>2, <1>3, <2>1, Valued
<1>5. /\ DOMAIN configuration' = Sections
      /\ configuration'.connections = configuration.connections
      /\ \A n \in DOMAIN configuration'.template : configuration'.template[n] \in Nat
  <2>1. /\ kind \in Sections /\ "template" \in Sections /\ "connections" \in Sections
        /\ kind # "connections"
    BY DEF Sections, Objects
  <2>2. \A n \in DOMAIN configuration.template : configuration.template[n] \in Nat
    BY DEF GrammarInv, GrammarType
  <2>. DEFINE w == Put(configuration[kind], x, v)
  <2>3. configuration' = [configuration EXCEPT ![kind] = w]
    BY DEF WithObject
  <2>4. kind = "template" => \A n \in DOMAIN w : w[n] \in Nat
    BY <2>2 DEF Put
  <2>. HIDE DEF w
  <2>5. /\ DOMAIN configuration' = Sections /\ configuration'[kind] = w
        /\ \A k \in Sections : k # kind => configuration'[k] = configuration[k]
    BY <1>2, <2>1, <2>3, SectionIs
  <2>. QED
    BY <2>1, <2>2, <2>4, <2>5
<1>. HIDE DEF st, e
<1>6. yystack' \in Seq(Symbol) /\ text' \in Seq(Statement)
  BY <1>1, <1>2, <1>3
<1>7. GrammarType'
  BY <1>2, <1>5, <1>6 DEF GrammarInv, GrammarType
<1>. QED
  BY <1>1, <1>4, <1>7, GoesOn DEF e

LEMMA TemplateInv ==
  ASSUME GrammarInv, NEW n \in Name, Template(n)
  PROVE  GrammarInv'
<1>. DEFINE v == written'
<1>1. AtStatement /\ Shift("stmt", 0) /\ v = written + 1
      /\ OpenStatement([kind |-> "template", name |-> n, items |-> <<v>>])
      /\ configuration' = WithObject(configuration, "template", n, v)
      /\ UNCHANGED <<last, heap, yyresult, parses>>
  BY DEF Template, WithObject
<1>2. v \in Nat
  BY <1>1 DEF GrammarInv, GrammarType
<1>. QED
  BY <1>1, <1>2, ValueInv

LEMMA FilterStatementInv ==
  ASSUME GrammarInv, NEW n \in Name, FilterStatement(n)
  PROVE  GrammarInv'
<1>. DEFINE v == written'
<1>1. AtStatement /\ Shift("stmt", 0) /\ v = written + 1
      /\ OpenStatement([kind |-> "filter", name |-> n, items |-> <<v>>])
      /\ configuration' = WithObject(configuration, "filter", n, v)
      /\ UNCHANGED <<last, heap, yyresult, parses>>
  BY DEF FilterStatement, WithObject
<1>2. v \in Nat
  BY <1>1 DEF GrammarInv, GrammarType
<1>. QED
  BY <1>1, <1>2, ValueInv

\* What the options of the configuration are does not matter to what is made.
LEMMA MadeWithOptions ==
  ASSUME NEW made, DOMAIN made = Sections, NEW t, NEW h, NEW c, NEW b, NEW o,
         Made(made, t, h, c, b)
  PROVE  Made([made EXCEPT !.options = o], t, h, c, b)
<1>. DEFINE new == [made EXCEPT !.options = o]
<1>1. \A k \in Sections : k # "options" => new[k] = made[k]
  OBVIOUS
<1>2. Objects \subseteq Sections /\ "connections" \in Sections /\ "options" \notin Objects
  BY DEF Sections, Objects
<1>3. \A k \in Objects : new[k] = made[k]
  BY <1>1, <1>2
<1>4. new.connections = made.connections
  BY <1>1, <1>2
<1>. HIDE DEF new
<1>5. \A k \in Objects : ObjectsMade(k, new[k], t, h, c, b)
  BY <1>3 DEF Made
<1>6. Connected(new.connections, t, c)
  BY <1>4 DEF Made
<1>7. Made(new, t, h, c, b)
  BY <1>5, <1>6, Zenon DEF Made
<1>. QED
  BY <1>7 DEF new

LEMMA ParsingWithOptions ==
  ASSUME NEW y, NEW t, NEW h, NEW l, NEW made, DOMAIN made = Sections, NEW o,
         Parsing(y, t, h, l, made)
  PROVE  Parsing(y, t, h, l, [made EXCEPT !.options = o])
BY MadeWithOptions, Zenon DEF Parsing

\* A symbol is pushed, and the open statement is another one.
LEMMA GivenInv ==
  ASSUME GrammarInv, yyresult = "parsing", NEW e \in Symbol, NEW new \in Statement,
         yystack' = Append(yystack, e), InText(new), text # <<>>,
         Parsing(Append(yystack, e), Append(Front(text), new), heap, last, configuration'),
         DOMAIN configuration' = Sections,
         \A n \in DOMAIN configuration'.template : configuration'.template[n] \in Nat,
         configuration'.connections \in Seq(Connection),
         written' \in Nat, UNCHANGED <<last, heap, yyresult, parses>>
  PROVE  GrammarInv'
<1>1. /\ yystack \in Seq(Symbol) /\ text \in Seq(Statement)
      /\ text' = Append(Front(text), new)
  BY DEF GrammarInv, GrammarType, InText
<1>2. yystack' \in Seq(Symbol)
  BY <1>1
<1>3. text' \in Seq(Statement)
  <2>1. IsReplaced(text', text, new)
    BY <1>1, Replaced
  <2>. QED
    BY <2>1, Zenon DEF IsReplaced
<1>4. GrammarType'
  BY <1>2, <1>3 DEF GrammarInv, GrammarType
<1>. QED
  BY <1>1, <1>4, GoesOn

LEMMA GlobalOptionInv ==
  ASSUME GrammarInv, NEW o \in Name, GlobalOption(o)
  PROVE  GrammarInv'
<1>. DEFINE m == Len(text)
            st == text[m]
            x == [option |-> o, val |-> written']
            new == [st EXCEPT !.items = Append(@, x)]
            e == Sym("option_item", 0)
            w == Put(configuration.options, o, written')
<1>1. /\ yyresult = "parsing" /\ TopOf(yystack) \in {"options", "option_item"}
      /\ written' = written + 1 /\ yystack' = Append(yystack, e)
      /\ configuration' = [configuration EXCEPT !.options = w]
      /\ UNCHANGED <<last, heap, yyresult, parses>>
  BY TopIs DEF GlobalOption, Shift
<1>2. InText(new)
  BY DEF GlobalOption, Last
<1>3. /\ Parsing(yystack, text, heap, last, configuration)
      /\ yystack \in Seq(Symbol) /\ text \in Seq(Statement) /\ heap \in Seq(Driver)
      /\ DOMAIN configuration = Sections /\ written \in Nat
      /\ configuration.connections \in Seq(Connection)
  BY <1>1, InParsing
<1>4. text # <<>> /\ st \in OptionsText /\ st.kind = "options"
  <2>1. TopOf(yystack) \in OtherTops
    BY <1>1 DEF OtherTops
  <2>. QED
    BY <1>1, <1>3, <2>1, OtherIs
<1>. HIDE DEF st
<1>5. x \in OptionItem
  BY <1>1, <1>3 DEF OptionItem
<1>. HIDE DEF x, w
<1>6. new \in Statement /\ new.kind = "options"
  <2>. DEFINE r == st.items
              q == Append(r, x)
  <2>1. q \in Seq(OptionItem)
    <3>1. r \in Seq(OptionItem)
      BY <1>4 DEF OptionsText
    <3>. HIDE DEF r
    <3>. QED
      BY <1>5, <3>1
  <2>2. new = [st EXCEPT !.items = q]
    OBVIOUS
  <2>. HIDE DEF q, new
  <2>3. new \in OptionsText /\ new.kind = "options"
    BY <1>4, <2>1, <2>2 DEF OptionsText
  <2>. QED
    BY <2>3 DEF Statement
<1>7. e \in Symbol /\ e.sym = "option_item"
  BY Syms, SymIs DEF Sym
<1>. HIDE DEF new, e
<1>8. Parsing(Append(yystack, e), Append(Front(text), new), heap, last, configuration)
  BY <1>1, <1>3, <1>6, <1>7, Given
<1>9. Parsing(Append(yystack, e), Append(Front(text), new), heap, last, configuration')
  BY <1>1, <1>3, <1>8, ParsingWithOptions
<1>10. /\ DOMAIN configuration' = Sections
       /\ configuration'.template = configuration.template
       /\ configuration'.connections = configuration.connections
  <2>1. "options" \in Sections /\ "template" \in Sections /\ "connections" \in Sections
    BY DEF Sections, Objects
  <2>. QED
    BY <1>1, <1>3, <2>1, SectionIs
<1>11. \A n \in DOMAIN configuration.template : configuration.template[n] \in Nat
  BY DEF GrammarInv, GrammarType
<1>12. written' \in Nat
  BY <1>1, <1>3
<1>. QED
  BY <1>1, <1>2, <1>3, <1>4, <1>6, <1>7, <1>9, <1>10, <1>11, <1>12, GivenInv

LEMMA EndpointInv ==
  ASSUME GrammarInv, NEW type \in {"source", "filter", "destination"}, NEW n \in Name,
         Endpoint(type, n)
  PROVE  GrammarInv'
<1>. DEFINE m == Len(text)
            st == text[m]
            x == <<type, n>>
            new == [st EXCEPT !.items = Append(@, x)]
            e == Sym("endpoint", x)
<1>1. /\ yyresult = "parsing" /\ TopOf(yystack) \in {"log", "endpoint"}
      /\ written' = written + 1 /\ yystack' = Append(yystack, e)
      /\ UNCHANGED <<last, heap, configuration, yyresult, parses>>
  BY TopIs DEF Endpoint, Shift
<1>2. InText(new)
  BY DEF Endpoint, Last
<1>3. /\ Parsing(yystack, text, heap, last, configuration)
      /\ yystack \in Seq(Symbol) /\ text \in Seq(Statement) /\ heap \in Seq(Driver)
      /\ DOMAIN configuration = Sections /\ written \in Nat
      /\ configuration.connections \in Seq(Connection)
  BY <1>1, InParsing
<1>4. text # <<>> /\ st \in LogText /\ st.kind = "log"
  <2>1. TopOf(yystack) \in OtherTops
    BY <1>1 DEF OtherTops
  <2>. QED
    BY <1>1, <1>3, <2>1, OtherIs
<1>. HIDE DEF st
<1>5. x \in EndpointText
  BY DEF EndpointText
<1>. HIDE DEF x
<1>6. new \in Statement /\ new.kind = "log" /\ new.flags = st.flags /\ new.items = Append(st.items, x)
  <2>. DEFINE r == st.items
              q == Append(r, x)
  <2>1. q \in Seq(EndpointText)
    <3>1. r \in Seq(EndpointText)
      BY <1>4 DEF LogText
    <3>. HIDE DEF r
    <3>. QED
      BY <1>5, <3>1
  <2>2. new = [st EXCEPT !.items = q]
    OBVIOUS
  <2>. HIDE DEF q, new
  <2>3. new \in LogText /\ new.kind = "log" /\ new.flags = st.flags /\ new.items = q
    BY <1>4, <2>1, <2>2 DEF LogText
  <2>. QED
    BY <2>3 DEF Statement, q
<1>7. e \in Symbol
  BY <1>5, Syms, SymIs
<1>8. \E z \in EndpointText : new.items = Append(text[Len(text)].items, z) /\ e = Sym("endpoint", z)
  BY <1>5, <1>6 DEF st
<1>. HIDE DEF new, e
<1>9. Parsing(Append(yystack, e), Append(Front(text), new), heap, last, configuration)
  <2>1. new.flags = text[Len(text)].flags
    BY <1>6 DEF st
  <2>. QED
    BY <1>1, <1>3, <1>6, <1>7, <1>8, <2>1, Given
<1>10. \A z \in DOMAIN configuration.template : configuration.template[z] \in Nat
  BY DEF GrammarInv, GrammarType
<1>11. written' \in Nat
  BY <1>1, <1>3
<1>. QED
  BY <1>1, <1>2, <1>3, <1>4, <1>6, <1>7, <1>9, <1>10, <1>11, GivenInv

LEMMA LogFlagsInv ==
  ASSUME GrammarInv, NEW flags \in Flags, LogFlags(flags)
  PROVE  GrammarInv'
<1>. DEFINE m == Len(text)
            st == text[m]
            new == [st EXCEPT !.flags = flags]
            e == Sym("flags", flags)
<1>1. /\ yyresult = "parsing" /\ TopOf(yystack) \in {"log", "endpoint"}
      /\ yystack' = Append(yystack, e)
      /\ UNCHANGED <<last, heap, configuration, yyresult, written, parses>>
  BY TopIs DEF LogFlags, Shift
<1>2. InText(new)
  BY DEF LogFlags, Last
<1>3. /\ Parsing(yystack, text, heap, last, configuration)
      /\ yystack \in Seq(Symbol) /\ text \in Seq(Statement) /\ heap \in Seq(Driver)
      /\ DOMAIN configuration = Sections /\ written \in Nat
      /\ configuration.connections \in Seq(Connection)
  BY <1>1, InParsing
<1>4. text # <<>> /\ st \in LogText /\ st.kind = "log"
  <2>1. TopOf(yystack) \in OtherTops
    BY <1>1 DEF OtherTops
  <2>. QED
    BY <1>1, <1>3, <2>1, OtherIs
<1>. HIDE DEF st
<1>5. new \in Statement /\ new.kind = "log" /\ new.flags = flags /\ new.items = st.items
  <2>1. new \in LogText /\ new.kind = "log" /\ new.flags = flags /\ new.items = st.items
    BY <1>4 DEF LogText
  <2>. QED
    BY <2>1 DEF Statement
<1>6. e \in Symbol
  BY Syms, SymIs
<1>. HIDE DEF new
<1>7. new.items = text[Len(text)].items /\ e = Sym("flags", new.flags)
  BY <1>5 DEF st
<1>. HIDE DEF e
<1>8. Parsing(Append(yystack, e), Append(Front(text), new), heap, last, configuration)
  BY <1>1, <1>3, <1>5, <1>6, <1>7, Given
<1>9. \A z \in DOMAIN configuration.template : configuration.template[z] \in Nat
  BY DEF GrammarInv, GrammarType
<1>. QED
  BY <1>1, <1>2, <1>3, <1>4, <1>5, <1>6, <1>8, <1>9, GivenInv

-----------------------------------------------------------------------------
(***************************************************************************)
(* The theorem.                                                            *)
(***************************************************************************)

LEMMA GrammarStep == GrammarInv /\ [CfgGrammarNext]_grammar_vars => GrammarInv'
<1>. SUFFICES ASSUME GrammarInv, [CfgGrammarNext]_grammar_vars
              PROVE  GrammarInv'
  OBVIOUS
<1>0. Groups = {"source", "destination"} /\ Flags = SUBSET {"final", "fallback"}
  BY DEF Groups, Flags
<1>1. CASE \E g \in Groups, n \in Name : OpenGroup(g, n)
  BY <1>1, OpenGroupInv
<1>2. CASE \E g \in Groups : EndGroup(g)
  BY <1>2, EndGroupInv
<1>3. CASE \E k \in Kind, family \in {4, 6} : StartDriver(k, family)
  BY <1>3, StartDriverInv
<1>4. CASE \E p \in Pointer : Option(p)
  BY <1>4, OptionStepInv
<1>5. CASE \E n \in Name : TemplateOption(n)
  BY <1>5, TemplateOptionInv
<1>6. CASE \E n \in Name : Template(n)
  BY <1>6, TemplateInv
<1>7. CASE \E n \in Name : FilterStatement(n)
  BY <1>7, FilterStatementInv
<1>8. CASE \E n \in Name : GlobalOption(n)
  BY <1>8, GlobalOptionInv
<1>9. CASE EscapeOption
  BY <1>9, EscapeOptionInv
<1>10. CASE EndDriver
  BY <1>10, EndDriverInv
<1>11. CASE OpenOptions \/ EndOptions
  BY <1>11, OpenOptionsInv, EndOptionsInv
<1>12. CASE OpenLog \/ EndLog
  BY <1>12, OpenLogInv, EndLogInv
<1>13. CASE \E type \in {"source", "filter", "destination"}, n \in Name : Endpoint(type, n)
  BY <1>13, EndpointInv
<1>14. CASE \E flags \in Flags : LogFlags(flags)
  BY <1>14, LogFlagsInv
<1>15. CASE Accept \/ Abort \/ Parse
  BY <1>15, AcceptInv, AbortInv, ParseInv
<1>16. CASE UNCHANGED grammar_vars
  BY <1>16 DEF grammar_vars, GrammarInv, GrammarType
<1>. QED
  BY <1>0, <1>1, <1>2, <1>3, <1>4, <1>5, <1>6, <1>7, <1>8, <1>9, <1>10, <1>11, <1>12, <1>13,
     <1>14, <1>15, <1>16, Zenon DEF CfgGrammarNext

\* What is said of a text is said of the text that was parsed.
LEMMA MeaningIs ==
  /\ \A kind, n, s : Declares(kind, n, s) = DeclaredIn(text, kind, n, s)
  /\ \A w, s : MeansDriver(w, s) = DriverIn(text, w, s)
  /\ \A s : Logs(s) = LogsOf(text, s)
<1>1. \A kind, n, s : Declares(kind, n, s) = DeclaredIn(text, kind, n, s)
  BY Zenon DEF Declares, DeclaredIn
<1>2. ASSUME NEW opts, NEW s
      PROVE  MeansTemplate(opts, s) = TemplateIn(text, opts, s)
  BY <1>1, Zenon DEF MeansTemplate, TemplateIn
<1>3. \A w, s : MeansDriver(w, s) = DriverIn(text, w, s)
  BY <1>2, Zenon DEF MeansDriver, DriverIn
<1>4. \A s : Logs(s) = LogsOf(text, s)
  BY Zenon DEF Logs, LogsOf
<1>. QED
  BY <1>1, <1>3, <1>4

LEMMA GrammarInvAsWritten == GrammarInv => ConfigurationAsWritten
<1>. SUFFICES ASSUME GrammarInv, yyresult = "accepted"
              PROVE  ConfigurationAsWritten
  BY DEF ConfigurationAsWritten
<1>. DEFINE c == Len(text)
            b == Len(heap)
<1>1. /\ Made(configuration, text, heap, c, b)
      /\ text \in Seq(Statement) /\ c \in Nat
  BY DEF GrammarInv, GrammarType
<1>. HIDE DEF b
<1>2. ASSUME NEW kind \in Objects
      PROVE  LET objects == configuration[kind]
             IN  /\ DOMAIN objects = {text[s].name : s \in {t \in DOMAIN text : text[t].kind = kind}}
                 /\ \A n \in DOMAIN objects :
                      Means(kind, n) = IF kind \in Groups
                                       THEN [i \in DOMAIN objects[n] |-> heap[objects[n][i]]]
                                       ELSE objects[n]
  <2>. DEFINE o == configuration[kind]
  <2>1. ObjectsMade(kind, o, text, heap, c, b)
    BY <1>1, Zenon DEF Made
  <2>2. /\ DOMAIN o = Named(text, kind, c)
        /\ \A n \in DOMAIN o : IsObject(kind, o[n], text, heap, DeclaredIn(text, kind, n, c + 1), b)
    BY <1>1, <2>1, ObjectsAre
  <2>. HIDE DEF o
  <2>3. DOMAIN o = {text[s].name : s \in {t \in DOMAIN text : text[t].kind = kind}}
    <3>1. DOMAIN text = 1 .. c
      BY <1>1
    <3>. QED
      BY <2>2, <3>1 DEF Named
  <2>4. ASSUME NEW n \in DOMAIN o
        PROVE  Means(kind, n) = IF kind \in Groups
                                THEN [i \in DOMAIN o[n] |-> heap[o[n][i]]] ELSE o[n]
    <3>. DEFINE s == DeclaredIn(text, kind, n, c + 1)
    <3>1. IsObject(kind, o[n], text, heap, s, b) /\ s \in 1 .. c
      BY <1>1, <2>2, ObjectDeclared
    <3>2. Declares(kind, n, c + 1) = s
      BY MeaningIs
    <3>. HIDE DEF s
    <3>3. Means(kind, n) = IF kind \in Groups
                           THEN [i \in DOMAIN text[s].items |-> MeansDriver(text[s].items[i], s)]
                           ELSE text[s].items[1]
      BY <3>2, Zenon DEF Means, Groups
    <3>4. CASE kind \in Groups
      <4>1. /\ o[n] \in Seq(1 .. b) /\ Len(o[n]) = Len(text[s].items)
            /\ \A i \in 1 .. Len(o[n]) : IsMade(text, heap, s, i, o[n][i], b)
        BY <3>1, <3>4, Zenon DEF IsObject
      <4>2. text[s].items \in Seq(DriverText)
        <5>1. s \in 1 .. c + 1 - 1 /\ s # 0 /\ c + 1 \in Nat /\ c + 1 >= 1
          BY <1>1, <3>1
        <5>2. text[s].kind = kind
          BY <5>1, DeclaredIndex DEF s
        <5>3. text[s] \in Statement
          BY <1>1, <3>1
        <5>4. text[s] \in GroupText
          BY <3>4, <5>2, <5>3, StatementIs
        <5>. QED
          BY <5>4 DEF GroupText
      <4>3. DOMAIN o[n] = DOMAIN text[s].items /\ DOMAIN o[n] = 1 .. Len(o[n])
        <5>1. DOMAIN o[n] = 1 .. Len(o[n])
          BY <4>1
        <5>2. DOMAIN text[s].items = 1 .. Len(text[s].items)
          BY <4>2
        <5>. QED
          BY <4>1, <5>1, <5>2
      <4>4. ASSUME NEW i \in DOMAIN o[n]
            PROVE  MeansDriver(text[s].items[i], s) = heap[o[n][i]]
        <5>1. heap[o[n][i]] = DriverIn(text, text[s].items[i], s)
          BY <4>1, <4>3, Zenon DEF IsMade
        <5>. QED
          BY <5>1, MeaningIs
      <4>. QED
        BY <3>3, <3>4, <4>3, <4>4
    <3>5. CASE kind \notin Groups
      BY <3>1, <3>3, <3>5, Zenon DEF IsObject
    <3>. QED
      BY <3>4, <3>5
  <2>. QED
    BY <2>3, <2>4, Zenon DEF o
<1>3. /\ Len(configuration.connections) = Cardinality(Logs(c))
      /\ \A s \in Logs(c) :
           configuration.connections[Cardinality(Logs(s))] =
             [items |-> text[s].items, flags |-> text[s].flags]
  <2>1. Connected(configuration.connections, text, c)
    BY <1>1, Zenon DEF Made
  <2>2. \A s : Logs(s) = LogsOf(text, s)
    BY MeaningIs
  <2>. QED
    BY <2>1, <2>2, Zenon DEF Connected
<1>. QED
  BY <1>2, <1>3, Zenon DEF ConfigurationAsWritten, Objects, Groups

\* A configuration that was accepted is what its text means: each option is in the
\* driver inside whose parentheses it stands, whatever drivers, groups or earlier texts
\* the global pointers were set by, and a name stands for its last statement (the
\* semantic actions of cfg-grammar.y, log_drv_append, log_connection_new, cfg_add_*).
THEOREM ConfigurationIsAsWritten == CfgGrammarSpec => []ConfigurationAsWritten
<1>1. CfgGrammarInit => GrammarInv
  BY GrammarInitInv
<1>2. GrammarInv /\ [CfgGrammarNext]_grammar_vars => GrammarInv'
  BY GrammarStep
<1>3. GrammarInv => ConfigurationAsWritten
  BY GrammarInvAsWritten
<1>. QED
  BY <1>1, <1>2, <1>3, PTL DEF CfgGrammarSpec
=============================================================================
