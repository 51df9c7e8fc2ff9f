----------------------------- MODULE DriverProofs -----------------------------
(***************************************************************************)
(* Theorems about the drivers and services that MCDrivers runs, each by    *)
(* itself, for any files, processes, descriptors and counters.             *)
(***************************************************************************)
EXTENDS AfProgram, Stats, AfFileDest, AfSocketSource, AfFileSource, DnsCache, SequenceLemmas

-----------------------------------------------------------------------------
(***************************************************************************)
(* AfProgram.  OneProgram is inductive once left is a finite set: before   *)
(* the driver starts a program none runs but those left by configurations  *)
(* that failed, because its own was told to stop or has exited.            *)
(***************************************************************************)

ChildState == {"none", "running", "termed", "zombie"}

AfProgramInv == AfProgramTypeOK /\ IsFiniteSet(left) /\ OneProgram

LEMMA AfProgramStart == AfProgramInit => AfProgramInv
<1>1. IsFiniteSet({}) /\ Cardinality({}) = 0
  BY FS_EmptySet
<1>. QED
  BY <1>1 DEF AfProgramInit, AfProgramInv, AfProgramTypeOK, OneProgram

\* A fork makes one more child that runs.
LEMMA ForkedIs ==
  ASSUME NEW c \in [Pid -> ChildState], NEW p \in Forkable(c)
  PROVE  /\ Forked(c, p) \in [Pid -> ChildState]
         /\ \A r \in Pid : Forked(c, p)[r] = "running" => c[r] = "running" \/ r = p
         /\ \A r \in Pid : Forked(c, p)[r] # "none" => c[r] # "none" \/ r = p
BY DEF Forked, ChildState

\* A driver starts a program when no other runs but those left.
LEMMA StartsOne ==
  ASSUME NEW c \in [Pid -> ChildState], NEW p \in Forkable(c),
         \A r \in Pid : c[r] = "running" => r \in left',
         StartProgram(c, p)
  PROVE  /\ child' \in [Pid -> ChildState]
         /\ dd_pid' \in Pid \cup {NoPid} /\ pipe_to' \in Pid \cup {NoPid}
         /\ \A r \in Pid : child'[r] = "running" =>
              r \in left' \/ (r = dd_pid' /\ r = pipe_to')
         /\ \A r \in Pid : child'[r] # "none" => c[r] # "none" \/ r = p
<1>1. child' = Forked(c, p) /\ dd_pid' = p /\ pipe_to' = p
  BY Zenon DEF StartProgram
<1>2. /\ child' \in [Pid -> ChildState]
      /\ \A r \in Pid : child'[r] = "running" => c[r] = "running" \/ r = p
      /\ \A r \in Pid : child'[r] # "none" => c[r] # "none" \/ r = p
  BY <1>1, ForkedIs, Zenon
<1>3. p \in Pid \cup {NoPid}
  BY Zenon DEF Forkable
<1>. QED
  BY <1>1, <1>2, <1>3, Zenon

\* What is in the table after a registration.
LEMMA RegisteredIs ==
  ASSUME NEW table \in SUBSET Pid, NEW p \in Pid \cup {NoPid}
  PROVE  /\ Registered(table, p) \subseteq Pid
         /\ table \subseteq Registered(table, p)
         /\ p \in Pid => p \in Registered(table, p)
         /\ Registered(table, p) \subseteq table \cup {p}
BY AfProgramAssumption DEF Registered

LEMMA RegisteredFinite ==
  ASSUME NEW table, IsFiniteSet(table), NEW p
  PROVE  /\ IsFiniteSet(Registered(table, p))
         /\ Cardinality(table) \in Nat
         /\ Cardinality(Registered(table, p)) <= Cardinality(table) + 1
<1>1. Cardinality(table) \in Nat
  BY FS_CardinalityType
<1>2. CASE p = NoPid
  <2>1. Registered(table, p) = table
    BY <1>2 DEF Registered
  <2>. QED
    BY <1>1, <2>1
<1>3. CASE p # NoPid
  <2>1. Registered(table, p) = table \cup {p}
    BY <1>3 DEF Registered
  <2>. QED
    BY <1>1, <2>1, FS_AddElement
<1>. QED
  BY <1>2, <1>3

\* A step keeps the invariant if it keeps each of its parts.
LEMMA AfProgramKept ==
  ASSUME child' \in [Pid -> ChildState], child_hash' \subseteq Pid, left' \subseteq Pid,
         reverts' \in Nat,
         dd_pid' \in Pid \cup {NoPid}, pipe_to' \in Pid \cup {NoPid},
         loop' \in {"poll", "hup", "child", "wait", "waited"},
         IsFiniteSet(left'), Cardinality(left') <= reverts',
         \A r \in Pid : child'[r] = "running" => r \in left' \/ (r = dd_pid' /\ r = pipe_to'),
         ~mislaid' => \A r \in Pid : child'[r] # "none" => r \in child_hash'
  PROVE  AfProgramInv'
BY DEF AfProgramInv, AfProgramTypeOK, OneProgram, ChildState

\* The entry that is removed is not that of a child, unless one is mislaid.
LEMMA EntryRemovedIs ==
  ASSUME AfProgramInv, NEW p \in Pid, NEW q \in Forkable(Without(p)), EntryRemoved(p, q),
         \A r \in Pid : child'[r] # "none" => Without(p)[r] # "none" \/ r = q
  PROVE  /\ child_hash' \subseteq Pid
         /\ ~mislaid' => \A r \in Pid : child'[r] # "none" => r \in child_hash'
<1>1. q \in Pid \cup {NoPid} /\ child_hash \in SUBSET Pid
  BY DEF Forkable, AfProgramInv, AfProgramTypeOK
<1>2. child_hash' \subseteq Pid
  BY <1>1, RegisteredIs DEF EntryRemoved
<1>3. ASSUME ~mislaid', NEW r \in Pid, child'[r] # "none"
      PROVE  r \in child_hash'
  <2>1. ~mislaid /\ p # q /\ child_hash' = Registered(child_hash, q) \ {p}
    BY <1>3 DEF EntryRemoved
  <2>2. child \in [Pid -> ChildState]
    BY DEF AfProgramInv, AfProgramTypeOK, ChildState
  <2>3. r # p /\ (child[r] # "none" \/ r = q)
    BY <1>3, <2>1, <2>2 DEF Without
  <2>4. child[r] # "none" => r \in child_hash
    BY <2>1 DEF AfProgramInv, OneProgram
  <2>5. r \in Registered(child_hash, q)
    BY <1>1, <2>3, <2>4, RegisteredIs
  <2>. QED
    BY <2>1, <2>3, <2>5
<1>. QED
  BY <1>2, <1>3

LEMMA AfProgramStep == AfProgramInv /\ [AfProgramNext]_program_vars => AfProgramInv'
<1>. SUFFICES ASSUME AfProgramInv, [AfProgramNext]_program_vars
              PROVE  AfProgramInv'
  OBVIOUS
<1>. DEFINE t == Terminated(dd_pid)
<1>1. /\ child \in [Pid -> ChildState] /\ child_hash \in SUBSET Pid /\ left \in SUBSET Pid
      /\ reverts \in Nat /\ dd_pid \in Pid \cup {NoPid} /\ pipe_to \in Pid \cup {NoPid}
      /\ loop \in {"poll", "hup", "child", "wait", "waited"}
      /\ IsFiniteSet(left) /\ Cardinality(left) <= reverts
  BY DEF AfProgramInv, AfProgramTypeOK, OneProgram, ChildState
<1>2. /\ \A r \in Pid : child[r] = "running" => r \in left \/ (r = dd_pid /\ r = pipe_to)
      /\ ~mislaid => \A r \in Pid : child[r] # "none" => r \in child_hash
  BY Zenon DEF AfProgramInv, OneProgram
<1>3. /\ t \in [Pid -> ChildState]
      /\ \A r \in Pid : t[r] = "running" => r \in left
      /\ \A r \in Pid : t[r] # "none" => child[r] # "none"
  BY <1>1, <1>2 DEF Terminated, Termed, ChildState
<1>4. Cardinality(left) \in Nat
  BY <1>1, FS_CardinalityType
<1>. HIDE DEF t
<1>5. CASE NothingToWrite \/ WriteToProgram \/ NoHup \/ HupRefused \/ NoChild \/ Children
           \/ Waited \/ ChildrenDone
  BY <1>1, <1>2, <1>5, AfProgramKept
     DEF NothingToWrite, WriteToProgram, NoHup, HupHandled, HupRefused, NoChild, Children,
         Waited, ChildrenDone, children_vars, driver_vars
<1>6. ASSUME NEW p \in Forkable(t), StartProgram(t, p),
             child_hash' = Registered(child_hash, p), left' = left, reverts' = reverts,
             mislaid' = mislaid, loop' \in {"hup", "child"}
      PROVE  AfProgramInv'
  <2>1. /\ child' \in [Pid -> ChildState]
        /\ dd_pid' \in Pid \cup {NoPid} /\ pipe_to' \in Pid \cup {NoPid}
        /\ \A r \in Pid : child'[r] = "running" => r \in left' \/ (r = dd_pid' /\ r = pipe_to')
        /\ \A r \in Pid : child'[r] # "none" => t[r] # "none" \/ r = p
    BY <1>3, <1>6, StartsOne
  <2>2. p \in Pid \cup {NoPid}
    BY DEF Forkable
  <2>3. /\ child_hash' \subseteq Pid
        /\ ~mislaid' => \A r \in Pid : child'[r] # "none" => r \in child_hash'
    BY <1>1, <1>2, <1>3, <1>6, <2>1, <2>2, RegisteredIs
  <2>. QED
    BY <1>1, <1>6, <2>1, <2>3, AfProgramKept
<1>7. CASE WriteError
  BY <1>6, <1>7 DEF WriteError, t
<1>8. CASE HupReload
  BY <1>6, <1>8 DEF HupReload, HupHandled, t
<1>9. CASE HupReverted
  <2>1. PICK q \in Forkable(t) :
          /\ \E p \in Forkable(Forked(t, q)) :
               /\ StartProgram(Forked(t, q), p)
               /\ child_hash' = Registered(Registered(child_hash, q), p)
          /\ left' = Registered(left, q)
    BY <1>9, Zenon DEF HupReverted, t
  <2>. DEFINE c == Forked(t, q)
              table == Registered(child_hash, q)
  <2>2. PICK p \in Forkable(c) : StartProgram(c, p) /\ child_hash' = Registered(table, p)
    BY <2>1, Zenon
  <2>3. reverts' = reverts + 1 /\ loop' = "child" /\ mislaid' = mislaid
    BY <1>9 DEF HupReverted, HupHandled
  <2>4. q \in Pid \cup {NoPid}
    BY DEF Forkable
  <2>5. p \in Pid \cup {NoPid}
    BY DEF Forkable
  <2>6. /\ c \in [Pid -> ChildState]
        /\ \A r \in Pid : c[r] = "running" => t[r] = "running" \/ r = q
        /\ \A r \in Pid : c[r] # "none" => t[r] # "none" \/ r = q
    BY <1>3, ForkedIs, Zenon
  <2>. HIDE DEF c
  <2>7. /\ left' \subseteq Pid /\ left \subseteq left' /\ (q \in Pid => q \in left')
        /\ IsFiniteSet(left') /\ Cardinality(left') <= Cardinality(left) + 1
        /\ Cardinality(left') \in Nat
    BY <1>1, <2>1, <2>4, RegisteredIs, RegisteredFinite, FS_CardinalityType
  <2>8. \A r \in Pid : c[r] = "running" => r \in left'
    BY <1>3, <2>6, <2>7
  <2>9. /\ child' \in [Pid -> ChildState]
        /\ dd_pid' \in Pid \cup {NoPid} /\ pipe_to' \in Pid \cup {NoPid}
        /\ \A r \in Pid : child'[r] = "running" => r \in left' \/ (r = dd_pid' /\ r = pipe_to')
        /\ \A r \in Pid : child'[r] # "none" => c[r] # "none" \/ r = p
    BY <2>2, <2>6, <2>8, StartsOne
  <2>10. table \subseteq Pid /\ child_hash \subseteq table /\ (q \in Pid => q \in table)
    BY <1>1, <2>4, RegisteredIs
  <2>. HIDE DEF table
  <2>11. child_hash' \subseteq Pid /\ table \subseteq child_hash' /\ (p \in Pid => p \in child_hash')
    BY <2>2, <2>5, <2>10, RegisteredIs
  <2>12. ~mislaid' => \A r \in Pid : child'[r] # "none" => r \in child_hash'
    BY <1>2, <1>3, <2>3, <2>6, <2>9, <2>10, <2>11
  <2>13. reverts' \in Nat /\ Cardinality(left') <= reverts'
    BY <1>1, <1>4, <2>3, <2>7
  <2>. QED
    BY <2>3, <2>7, <2>9, <2>11, <2>12, <2>13, AfProgramKept
<1>10. ASSUME NEW p \in Pid, Waitable(p)
       PROVE  /\ Without(p) \in [Pid -> ChildState] /\ child[p] = "zombie"
              /\ \A r \in Pid : Without(p)[r] = "running" => child[r] = "running" /\ r # p
              /\ \A r \in Pid : Without(p)[r] # "none" => child[r] # "none" /\ r # p
              /\ IsFiniteSet(left \ {p})
              /\ Cardinality(left \ {p}) = Cardinality(left) - (IF p \in left THEN 1 ELSE 0)
  BY <1>1, <1>4, <1>10, FS_RemoveElement DEF Waitable, Without, ChildState
<1>11. ASSUME NEW p \in Pid, ReapOther(p)
       PROVE  AfProgramInv'
  <2>1. /\ Waitable(p) /\ child' = Without(p) /\ child_hash' = child_hash \ {p}
        /\ left' = left \ {p} /\ reverts' = reverts /\ dd_pid' = dd_pid /\ pipe_to' = pipe_to
        /\ loop' = loop /\ mislaid' = mislaid
    BY <1>11 DEF ReapOther, driver_vars
  <2>2. Cardinality(left') <= reverts' /\ IsFiniteSet(left')
    BY <1>1, <1>4, <1>10, <2>1
  <2>3. \A r \in Pid : child'[r] = "running" => r \in left' \/ (r = dd_pid' /\ r = pipe_to')
    BY <1>2, <1>10, <2>1
  <2>4. ~mislaid' => \A r \in Pid : child'[r] # "none" => r \in child_hash'
    BY <1>2, <1>10, <2>1
  <2>. QED
    BY <1>1, <1>10, <2>1, <2>2, <2>3, <2>4, AfProgramKept
<1>12. ASSUME NEW p \in Pid, ReapProgram(p)
       PROVE  AfProgramInv'
  <2>1. /\ Waitable(p) /\ p = dd_pid /\ left' = left /\ reverts' = reverts /\ loop' = loop
    BY <1>12 DEF ReapProgram
  <2>2. PICK q \in Forkable(Without(p)) : StartProgram(Without(p), q) /\ EntryRemoved(p, q)
    BY <1>12, Zenon DEF ReapProgram
  <2>3. \A r \in Pid : Without(p)[r] = "running" => r \in left'
    BY <1>2, <1>10, <2>1
  <2>4. /\ child' \in [Pid -> ChildState]
        /\ dd_pid' \in Pid \cup {NoPid} /\ pipe_to' \in Pid \cup {NoPid}
        /\ \A r \in Pid : child'[r] = "running" => r \in left' \/ (r = dd_pid' /\ r = pipe_to')
        /\ \A r \in Pid : child'[r] # "none" => Without(p)[r] # "none" \/ r = q
    BY <1>10, <2>1, <2>2, <2>3, StartsOne
  <2>5. /\ child_hash' \subseteq Pid
        /\ ~mislaid' => \A r \in Pid : child'[r] # "none" => r \in child_hash'
    BY <2>2, <2>4, EntryRemovedIs, Zenon
  <2>. QED
    BY <1>1, <2>1, <2>4, <2>5, AfProgramKept
<1>13. ASSUME NEW p \in Pid, ReapLeft(p)
       PROVE  AfProgramInv'
  <2>1. /\ Waitable(p) /\ p \in left /\ reverts' = reverts /\ loop' = loop
        /\ dd_pid' = dd_pid /\ pipe_to' = pipe_to
    BY <1>13 DEF ReapLeft, driver_vars
  <2>2. PICK q \in Forkable(Without(p)) :
          child' = Forked(Without(p), q) /\ left' = Registered(left \ {p}, q) /\ EntryRemoved(p, q)
    BY <1>13, Zenon DEF ReapLeft
  <2>3. q \in Pid \cup {NoPid}
    BY DEF Forkable
  <2>4. /\ child' \in [Pid -> ChildState]
        /\ \A r \in Pid : child'[r] = "running" => Without(p)[r] = "running" \/ r = q
        /\ \A r \in Pid : child'[r] # "none" => Without(p)[r] # "none" \/ r = q
    <3>1. child' = Forked(Without(p), q) /\ Without(p) \in [Pid -> ChildState]
      BY <1>10, <2>1, <2>2, Zenon
    <3>. QED
      BY <3>1, ForkedIs, Zenon
  <2>5. /\ left' \subseteq Pid /\ left \ {p} \subseteq left' /\ (q \in Pid => q \in left')
    BY <1>1, <2>2, <2>3, RegisteredIs
  <2>6. IsFiniteSet(left') /\ Cardinality(left') <= reverts'
    <3>1. /\ IsFiniteSet(left \ {p}) /\ Cardinality(left \ {p}) = Cardinality(left) - 1
      BY <1>10, <2>1
    <3>2. /\ IsFiniteSet(left') /\ Cardinality(left') <= Cardinality(left \ {p}) + 1
      BY <2>2, <3>1, RegisteredFinite, Zenon
    <3>3. Cardinality(left') \in Nat
      BY <3>2, FS_CardinalityType
    <3>. QED
      BY <1>1, <1>4, <2>1, <3>1, <3>2, <3>3
  <2>7. \A r \in Pid : child'[r] = "running" => r \in left' \/ (r = dd_pid' /\ r = pipe_to')
    BY <1>2, <1>10, <2>1, <2>4, <2>5
  <2>8. /\ child_hash' \subseteq Pid
        /\ ~mislaid' => \A r \in Pid : child'[r] # "none" => r \in child_hash'
    BY <2>2, <2>4, EntryRemovedIs, Zenon
  <2>. QED
    BY <1>1, <2>1, <2>4, <2>5, <2>6, <2>7, <2>8, AfProgramKept
<1>14. ASSUME NEW p \in Pid, ProgramExits(p)
       PROVE  AfProgramInv'
  <2>1. /\ child[p] # "none" /\ child' = [child EXCEPT ![p] = "zombie"]
        /\ child_hash' = child_hash /\ left' = left /\ reverts' = reverts
        /\ dd_pid' = dd_pid /\ pipe_to' = pipe_to /\ loop' = loop /\ mislaid' = mislaid
    BY <1>14 DEF ProgramExits, driver_vars
  <2>2. /\ child' \in [Pid -> ChildState]
        /\ \A r \in Pid : child'[r] = "running" => child[r] = "running"
        /\ \A r \in Pid : child'[r] # "none" => child[r] # "none"
    BY <1>1, <2>1 DEF ChildState
  <2>. QED
    BY <1>1, <1>2, <2>1, <2>2, AfProgramKept
<1>15. CASE QueueForProgram \/ Hup \/ UNCHANGED program_vars
  BY <1>1, <1>2, <1>15, AfProgramKept
     DEF QueueForProgram, Hup, program_vars, children_vars, driver_vars
<1>. QED
  BY <1>5, <1>7, <1>8, <1>9, <1>11, <1>12, <1>13, <1>14, <1>15 DEF AfProgramNext, MainLoop

\* Whatever order exits, write errors, SIGCHLDs and reloads, failed ones too, come
\* in, and however process ids are reused: a program that runs and was not told to
\* stop is the one that afprogram_dd_init started last, or one that a configuration
\* which failed started, one at most for each failure; and child_hash has every
\* child, unless child_manager_sigchild removed the entry of a new one.
THEOREM RunsOneProgram == AfProgramSpec => []OneProgram
<1>1. AfProgramInv => OneProgram
  BY DEF AfProgramInv
<1>. QED
  BY AfProgramStart, AfProgramStep, <1>1, PTL DEF AfProgramSpec

-----------------------------------------------------------------------------
(***************************************************************************)
(* Stats.                                                                  *)
(***************************************************************************)

StatsPointers ==
  /\ counters \in [CounterName -> Counter \cup {NoCounter}]
  /\ pointer \in [Instance -> {"null", "live", "freed"}]

StatsPhase ==
  /\ generation \in 1..MaxGenerations /\ made \in 1..MaxGenerations
  /\ reload.in \in 1..MaxGenerations /\ reload.todo \subseteq User
  /\ reload = [phase |-> reload.phase, todo |-> reload.todo, in |-> reload.in]

StatsInv == StatsPointers /\ StatsPhase /\ CountersReferenced

LEMMA HoldersFinite ==
  ASSUME NEW name
  PROVE  IsFiniteSet(Holders(name)) /\ Cardinality(Holders(name)) \in Nat
<1>1. IsFiniteSet(1..MaxGenerations)
  BY StatsAssumption, FS_Interval
<1>2. IsFiniteSet(User)
  BY StatsAssumption, FS_Union DEF User
<1>3. IsFiniteSet(Instance)
  BY <1>1, <1>2, FS_Product DEF Instance
<1>. QED
  BY <1>3, FS_Subset, FS_CardinalityType DEF Holders

LEMMA CounterOfInstance ==
  ASSUME NEW i \in Instance
  PROVE  CounterOf(i[2]) \in CounterName
BY DEF Instance, CounterName

LEMMA CounterType ==
  ASSUME NEW sc \in Counter
  PROVE  /\ sc # NoCounter
         /\ sc.ref_cnt \in Nat \ {0} /\ sc.orphaned \in BOOLEAN
         /\ sc = [ref_cnt |-> sc.ref_cnt, orphaned |-> sc.orphaned,
                  shared |-> sc.shared]
BY StatsAssumption DEF Counter

\* The references the counter sc should have.
Referenced(sc, holders) ==
  sc.ref_cnt = Cardinality(holders) + (IF sc.orphaned THEN 1 ELSE 0)

\* One counter and one pointer to it change.
LEMMA OneCounterStep ==
  ASSUME StatsPointers, CountersReferenced,
         NEW i \in Instance, NEW name, name = CounterOf(i[2]),
         NEW new \in Counter \cup {NoCounter}, NEW at \in {"null", "live"},
         counters' = [counters EXCEPT ![name] = new],
         pointer' = [pointer EXCEPT ![i] = at],
         LET holders == IF at = "live" THEN Holders(name) \cup {i}
                        ELSE Holders(name) \ {i}
         IN  IF new = NoCounter THEN holders = {} ELSE Referenced(new, holders)
  PROVE  StatsPointers' /\ CountersReferenced'
<1>1. name \in CounterName
  BY CounterOfInstance
<1>2. StatsPointers'
  BY <1>1 DEF StatsPointers
<1>3. Holders(name)' = IF at = "live" THEN Holders(name) \cup {i}
                       ELSE Holders(name) \ {i}
  BY DEF Holders, StatsPointers
<1>4. \A n \in CounterName : n # name =>
        counters'[n] = counters[n] /\ Holders(n)' = Holders(n)
  BY DEF Holders, StatsPointers
<1>5. counters'[name] = new
  BY <1>1 DEF StatsPointers
<1>6. \A j \in Instance : pointer'[j] # "freed"
  BY DEF StatsPointers, CountersReferenced
<1>7. /\ new # NoCounter => Referenced(new, Holders(name)')
      /\ new = NoCounter => Holders(name)' = {}
  BY <1>3
<1>8. ASSUME NEW n \in CounterName
      PROVE  /\ counters'[n] # NoCounter => Referenced(counters'[n], Holders(n)')
             /\ counters'[n] = NoCounter => Holders(n)' = {}
  <2>1. CASE n = name
    BY <1>5, <1>7, <2>1
  <2>2. CASE n # name
    BY <1>4, <2>2 DEF CountersReferenced, Referenced
  <2>. QED
    BY <2>1, <2>2
<1>. QED
  BY <1>2, <1>6, <1>8 DEF CountersReferenced, Referenced

LEMMA RegisterStep ==
  ASSUME StatsPointers, CountersReferenced, NEW i \in Instance,
         pointer[i] = "null", NEW shared \in BOOLEAN, Register(i, shared)
  PROVE  StatsPointers' /\ CountersReferenced'
<1>. DEFINE name == CounterOf(i[2])
            sc == counters[name]
            holders == Holders(name)
<1>1. /\ name \in CounterName /\ sc \in Counter \cup {NoCounter}
      /\ i \notin holders
      /\ IsFiniteSet(holders) /\ Cardinality(holders) \in Nat
  BY CounterOfInstance, HoldersFinite DEF StatsPointers, Holders
<1>2. Cardinality(holders \cup {i}) = Cardinality(holders) + 1
  BY <1>1, FS_AddElement
<1>3. CASE sc = NoCounter
  <2>. DEFINE new == [ref_cnt |-> 1, orphaned |-> FALSE, shared |-> shared]
  <2>1. new \in Counter /\ new.ref_cnt = 1 /\ ~new.orphaned
    BY DEF Counter
  <2>2. holders = {}
    BY <1>1, <1>3 DEF CountersReferenced
  <2>3. Cardinality(holders \cup {i}) = 1
    BY <1>2, <2>2, FS_EmptySet
  <2>4. /\ counters' = [counters EXCEPT ![name] = new]
        /\ pointer' = [pointer EXCEPT ![i] = "live"]
    BY <1>3 DEF Register
  <2>. HIDE DEF new
  <2>5. new # NoCounter
    BY <2>1, CounterType
  <2>6. Referenced(new, holders \cup {i})
    BY <2>1, <2>3 DEF Referenced
  <2>. HIDE DEF name
  <2>. QED
    BY <2>1, <2>4, <2>5, <2>6, OneCounterStep DEF name
<1>4. CASE sc # NoCounter /\ ~sc.orphaned /\ ~(shared /\ sc.shared)
  <2>1. /\ counters' = counters
        /\ pointer' = [pointer EXCEPT ![i] = "null"]
    BY <1>4, Zenon DEF Register
  <2>2. pointer' = pointer
    BY <2>1 DEF StatsPointers
  <2>. QED
    BY <2>1, <2>2 DEF StatsPointers, CountersReferenced, Holders
<1>5. CASE sc # NoCounter /\ ~(~sc.orphaned /\ ~(shared /\ sc.shared))
  <2>. DEFINE old == sc
              new == [ref_cnt  |-> IF old.orphaned THEN old.ref_cnt
                                   ELSE old.ref_cnt + 1,
                      orphaned |-> FALSE,
                      shared   |-> old.shared]
  <2>1. old \in Counter
    BY <1>1, <1>5
  <2>2. /\ new \in Counter /\ ~new.orphaned
        /\ new.ref_cnt = IF old.orphaned THEN old.ref_cnt ELSE old.ref_cnt + 1
    <3>. HIDE DEF old
    <3>. QED
      BY <2>1 DEF Counter
  <2>3. old.ref_cnt = Cardinality(holders) + (IF old.orphaned THEN 1 ELSE 0)
    BY <1>1, <1>5 DEF CountersReferenced
  <2>6. new # NoCounter
    <3>. HIDE DEF new
    <3>. QED
      BY <2>2, CounterType
  <2>4. Referenced(new, holders \cup {i})
    <3>. HIDE DEF new, old, holders
    <3>1. old.ref_cnt \in Nat /\ old.orphaned \in BOOLEAN
      BY <2>1, CounterType
    <3>2. new.ref_cnt = Cardinality(holders) + 1
      BY <1>1, <2>2, <2>3, <3>1
    <3>3. new.ref_cnt = Cardinality(holders \cup {i}) + 0
      BY <1>1, <1>2, <3>2
    <3>. QED
      BY <2>2, <3>3, Zenon DEF Referenced
  <2>5. /\ counters' = [counters EXCEPT ![name] = new]
        /\ pointer' = [pointer EXCEPT ![i] = "live"]
    BY <1>5, Zenon DEF Register
  <2>. HIDE DEF new, name
  <2>. QED
    BY <2>2, <2>4, <2>5, <2>6, OneCounterStep DEF name
<1>. QED
  BY <1>3, <1>4, <1>5

\* The entry sc, which has all its references, loses that of i.
LEMMA ReleaseStep ==
  ASSUME StatsPointers, CountersReferenced, NEW i \in Instance,
         pointer[i] = "live", NEW sc \in Counter,
         Referenced(sc, Holders(CounterOf(i[2]))), Release(i, sc)
  PROVE  StatsPointers' /\ CountersReferenced'
<1>. DEFINE name == CounterOf(i[2])
            holders == Holders(name)
<1>1. /\ name \in CounterName /\ i \in holders
      /\ IsFiniteSet(holders) /\ Cardinality(holders) \in Nat
  BY CounterOfInstance, HoldersFinite DEF Holders
<1>2. /\ Cardinality(holders \ {i}) = Cardinality(holders) - 1
      /\ IsFiniteSet(holders \ {i}) /\ Cardinality(holders \ {i}) \in Nat
  BY <1>1, FS_RemoveElement, FS_CardinalityType
<1>3. /\ sc # NoCounter /\ sc.ref_cnt \in Nat \ {0} /\ sc.orphaned \in BOOLEAN
  BY CounterType
<1>4. CASE sc.ref_cnt = 1
  <2>1. Cardinality(holders \ {i}) = 0
    BY <1>1, <1>2, <1>3, <1>4 DEF Referenced
  <2>2. holders = {i}
    BY <1>1, <1>2, <2>1, FS_EmptySet
  <2>3. /\ counters' = [counters EXCEPT ![name] = NoCounter]
        /\ pointer' = [Freed(name) EXCEPT ![i] = "null"]
    BY <1>4, Zenon DEF Release
  <2>4. pointer' = [pointer EXCEPT ![i] = "null"]
    BY <2>2, <2>3 DEF Freed, StatsPointers
  <2>. HIDE DEF name
  <2>. QED
    BY <2>2, <2>3, <2>4, OneCounterStep DEF name
<1>5. CASE sc.ref_cnt # 1
  <2>. DEFINE new == [sc EXCEPT !.ref_cnt = @ - 1]
  <2>1. /\ new \in Counter /\ new.ref_cnt = sc.ref_cnt - 1
        /\ new.orphaned = sc.orphaned
    BY <1>3, <1>5 DEF Counter
  <2>2. new # NoCounter
    BY <2>1, CounterType
  <2>3. /\ counters' = [counters EXCEPT ![name] = new]
        /\ pointer' = [pointer EXCEPT ![i] = "null"]
    BY <1>5, Zenon DEF Release
  <2>. HIDE DEF new
  <2>4. Referenced(new, holders \ {i})
    BY <1>1, <1>2, <1>3, <2>1 DEF Referenced
  <2>. HIDE DEF name
  <2>. QED
    BY <2>1, <2>2, <2>3, <2>4, OneCounterStep DEF name
<1>. QED
  BY <1>4, <1>5

LEMMA HeldCounter ==
  ASSUME StatsPointers, CountersReferenced, NEW i \in Instance,
         pointer[i] = "live"
  PROVE  /\ counters[CounterOf(i[2])] \in Counter
         /\ Referenced(counters[CounterOf(i[2])], Holders(CounterOf(i[2])))
<1>. DEFINE name == CounterOf(i[2])
<1>1. name \in CounterName /\ i \in Holders(name)
  BY CounterOfInstance DEF Holders
<1>. QED
  BY <1>1 DEF StatsPointers, CountersReferenced, Referenced

LEMMA UnregisterStep ==
  ASSUME StatsPointers, CountersReferenced, NEW i \in Instance, Unregister(i)
  PROVE  StatsPointers' /\ CountersReferenced'
<1>1. CASE pointer[i] = "live"
  BY <1>1, HeldCounter, ReleaseStep DEF Unregister
<1>2. CASE pointer[i] # "live"
  BY <1>2 DEF Unregister, Release, StatsPointers, CountersReferenced, Holders
<1>. QED
  BY <1>1, <1>2

LEMMA OrphanStep ==
  ASSUME StatsPointers, CountersReferenced, NEW i \in Instance, Orphan(i)
  PROVE  StatsPointers' /\ CountersReferenced'
<1>. DEFINE name == CounterOf(i[2])
            sc == counters[name]
            new == OrphanRef(sc)
            holders == Holders(name)
<1>1. CASE pointer[i] = "live"
  <2>1. sc \in Counter /\ Referenced(sc, holders)
    BY <1>1, HeldCounter
  <2>2. Cardinality(holders) \in Nat
    BY HoldersFinite
  <2>3. new \in Counter /\ Referenced(new, holders)
    <3>. HIDE DEF sc, holders
    <3>1. sc.ref_cnt \in Nat \ {0} /\ sc.orphaned \in BOOLEAN
      BY <2>1, CounterType
    <3>2. CASE sc.orphaned
      BY <2>1, <3>2 DEF OrphanRef
    <3>3. CASE ~sc.orphaned
      <4>1. sc.ref_cnt = Cardinality(holders)
        BY <2>1, <2>2, <3>3 DEF Referenced
      <4>2. new = [sc EXCEPT !.ref_cnt = @ + 1, !.orphaned = TRUE]
        BY <3>3 DEF OrphanRef
      <4>3. /\ new \in Counter /\ new.orphaned
            /\ new.ref_cnt = sc.ref_cnt + 1
        <5>. DEFINE mid == [sc EXCEPT !.ref_cnt = @ + 1]
        <5>1. mid \in Counter /\ mid.ref_cnt = sc.ref_cnt + 1
          BY <2>1, <3>1 DEF Counter
        <5>2. new = [mid EXCEPT !.orphaned = TRUE]
          BY <4>2
        <5>. HIDE DEF mid, new
        <5>. QED
          BY <5>1, <5>2 DEF Counter
      <4>. QED
        BY <4>1, <4>3 DEF Referenced
    <3>. QED
      BY <3>2, <3>3
  <2>4. Release(i, new)
    BY <1>1 DEF Orphan
  <2>. HIDE DEF new
  <2>. QED
    BY <1>1, <2>3, <2>4, ReleaseStep
<1>2. CASE pointer[i] # "live"
  BY <1>2 DEF Orphan, StatsPointers, CountersReferenced, Holders
<1>. QED
  BY <1>1, <1>2

LEMMA CleanupStep ==
  ASSUME StatsPointers, CountersReferenced, CleanupOrphans
  PROVE  StatsPointers' /\ CountersReferenced'
<1>1. CASE \E name \in Orphans : counters[name].ref_cnt # 1
  BY <1>1 DEF CleanupOrphans, StatsPointers, CountersReferenced, Holders
<1>2. CASE \A name \in Orphans : counters[name].ref_cnt = 1
  <2>1. /\ counters' = [name \in CounterName |->
                          IF name \in Orphans THEN NoCounter ELSE counters[name]]
        /\ pointer' = [i \in Instance |->
                IF pointer[i] = "live" /\ CounterOf(i[2]) \in Orphans THEN "freed"
                ELSE pointer[i]]
    BY <1>2 DEF CleanupOrphans
  <2>2. ASSUME NEW name \in Orphans
        PROVE  Holders(name) = {}
    <3>1. name \in CounterName /\ counters[name] # NoCounter
          /\ counters[name].orphaned
      BY DEF Orphans
    <3>2. Cardinality(Holders(name)) \in Nat /\ IsFiniteSet(Holders(name))
      BY HoldersFinite
    <3>3. Cardinality(Holders(name)) = 0
      BY <1>2, <3>1, <3>2 DEF CountersReferenced
    <3>. QED
      BY <3>2, <3>3, FS_EmptySet
  <2>3. pointer' = pointer
    <3>1. \A i \in Instance : pointer[i] = "live" => CounterOf(i[2]) \notin Orphans
      BY <2>2 DEF Holders
    <3>. QED
      BY <2>1, <3>1 DEF StatsPointers
  <2>4. \A name : Holders(name)' = Holders(name)
    BY <2>3 DEF Holders
  <2>5. StatsPointers'
    BY <2>1, <2>3 DEF StatsPointers
  <2>6. CountersReferenced'
    BY <2>1, <2>2, <2>3, <2>4 DEF CountersReferenced
  <2>. QED
    BY <2>5, <2>6
<1>. QED
  BY <1>1, <1>2

LEMMA StatsStart == StatsInit => StatsInv
<1>. SUFFICES ASSUME StatsInit
              PROVE  StatsInv
  OBVIOUS
<1>1. StatsPointers
  BY DEF StatsInit, StatsPointers
<1>2. 1 \in 1..MaxGenerations
  BY StatsAssumption
<1>3. StatsPhase
  BY <1>2 DEF StatsInit, StatsPhase
<1>4. CountersReferenced
  BY DEF StatsInit, CountersReferenced, Holders
<1>. QED
  BY <1>1, <1>3, <1>4 DEF StatsInv

LEMMA StatsPhaseStep ==
  ASSUME StatsPhase, [StatsNext]_stats_vars
  PROVE  StatsPhase'
<1>0. /\ MaxGenerations \in Nat
      /\ generation \in 1..MaxGenerations /\ made \in 1..MaxGenerations
      /\ reload.in \in 1..MaxGenerations /\ reload.todo \subseteq User
  BY StatsAssumption DEF StatsPhase
<1>1. ASSUME NEW w \in Writer, WriterDeinit(w) \/ WriterInit(w)
      PROVE  StatsPhase'
  BY <1>1 DEF WriterDeinit, WriterInit, StatsPhase
<1>2. CASE StartReload
  BY <1>0, <1>2 DEF StartReload, StatsPhase
<1>3. CASE Deinitialised
  BY <1>0, <1>3 DEF Deinitialised, StatsPhase
<1>4. CASE Revert
  BY <1>0, <1>4 DEF Revert, StatsPhase
<1>5. CASE Initialised
  BY <1>0, <1>5 DEF Initialised, StatsPhase
<1>6. CASE ParseFailed
  BY <1>0, <1>6 DEF ParseFailed, StatsPhase
<1>7. CASE CleanupOrphans
  BY <1>0, <1>7 DEF CleanupOrphans, StatsPhase
<1>8. ASSUME NEW u \in User, DeinitUser(u) \/ InitUser(u)
      PROVE  StatsPhase'
  BY <1>0, <1>8 DEF DeinitUser, InitUser, StatsPhase
<1>9. CASE UNCHANGED stats_vars
  BY <1>9 DEF stats_vars, StatsPhase
<1>. QED
  BY <1>1, <1>2, <1>3, <1>4, <1>5, <1>6, <1>7, <1>8, <1>9 DEF StatsNext

LEMMA StatsStep == StatsInv /\ [StatsNext]_stats_vars => StatsInv'
<1>. SUFFICES ASSUME StatsInv, [StatsNext]_stats_vars
              PROVE  StatsInv'
  OBVIOUS
<1>0. StatsPointers /\ StatsPhase /\ CountersReferenced
  BY DEF StatsInv
<1>1. ASSUME UNCHANGED <<counters, pointer>>
      PROVE  StatsPointers' /\ CountersReferenced'
  BY <1>0, <1>1 DEF StatsPointers, CountersReferenced, Holders
<1>. SUFFICES StatsPointers' /\ CountersReferenced'
  BY <1>0, StatsPhaseStep DEF StatsInv
<1>2. ASSUME NEW w \in Writer, WriterDeinit(w) \/ WriterInit(w)
      PROVE  StatsPointers' /\ CountersReferenced'
  <2>1. <<generation, w>> \in Instance
    BY <1>0 DEF StatsPhase, Instance, User
  <2>2. (w \in SharingWriter) \in BOOLEAN
    OBVIOUS
  <2>3. CASE WriterDeinit(w)
    BY <1>0, <2>1, <2>3, OrphanStep DEF WriterDeinit
  <2>4. CASE WriterInit(w)
    BY <1>0, <2>1, <2>2, <2>4, RegisterStep DEF WriterInit
  <2>. QED
    BY <1>2, <2>3, <2>4
<1>3. CASE StartReload \/ Deinitialised \/ Revert \/ Initialised \/ ParseFailed
           \/ UNCHANGED stats_vars
  BY <1>1, <1>3 DEF StartReload, Deinitialised, Revert, Initialised, ParseFailed,
                    stats_vars
<1>4. CASE CleanupOrphans
  BY <1>0, <1>4, CleanupStep
<1>5. ASSUME NEW u \in User, DeinitUser(u) \/ InitUser(u)
      PROVE  StatsPointers' /\ CountersReferenced'
  <2>1. /\ <<generation, u>> \in Instance
        /\ <<reload.in, u>> \in Instance
    BY <1>0 DEF StatsPhase, Instance
  <2>2. (u \in SharingWriter) \in BOOLEAN
    OBVIOUS
  <2>3. CASE DeinitUser(u)
    BY <1>0, <2>1, <2>3, OrphanStep, UnregisterStep DEF DeinitUser
  <2>4. CASE InitUser(u)
    BY <1>0, <1>1, <2>1, <2>2, <2>4, RegisterStep DEF InitUser
  <2>. QED
    BY <1>5, <2>3, <2>4
<1>. QED
  BY <1>2, <1>3, <1>4, <1>5 DEF StatsNext

\* For any users, sharing and reloads: a counter has one reference for each
\* instance that counts in it and one more while it is orphaned, so that
\* nothing follows a pointer to one that was freed.
THEOREM CountersAreReferenced == StatsSpec => []CountersReferenced
<1>1. StatsInv => CountersReferenced
  BY DEF StatsInv
<1>. QED
  BY StatsStart, StatsStep, <1>1, PTL DEF StatsSpec

-----------------------------------------------------------------------------
(***************************************************************************)
(* AfFileDest.  FileInOrder is inductive with the types of the writers: a  *)
(* write moves bytes from what a writer holds to the end of its file, and  *)
(* nothing but a new message and a reaped writer changes both together.    *)
(***************************************************************************)

FileByte == Nat \X (1..2)

\* What a writer holds: the rest of the partial line, and the queued lines.
FileRest(w) ==
  IF w.partial = NoPartial THEN <<>> ELSE SubSeq(FileLine(w.partial), w.pos + 1, 2)
FileLines(q) == [i \in DOMAIN q |-> FileLine(q[i])]
Held(w) == IF w = NoFile THEN <<>> ELSE FileRest(w) \o FlattenSeq(FileLines(w.queue))

LEMMA FileLineType ==
  ASSUME NEW m \in Nat
  PROVE  FileLine(m) \in Seq(FileByte) /\ Len(FileLine(m)) = 2
BY DEF FileLine, FileByte

\* The lines of the messages of q are the pieces that they stand for.
FileLineOf == [m \in Nat |-> FileLine(m)]

LEMMA FileLineOfType ==
  /\ FileLineOf \in [Nat -> Seq(FileByte)]
  /\ \A m \in Nat : FileLineOf[m] = FileLine(m)
BY FileLineType DEF FileLineOf

LEMMA FileLinesAreRendered ==
  ASSUME NEW q \in Seq(Nat)
  PROVE  FileLines(q) = Rendered(q, FileLineOf)
<1>1. \A i \in DOMAIN q : q[i] \in Nat
  OBVIOUS
<1>. QED
  BY <1>1, FileLineOfType DEF FileLines, Rendered

LEMMA FileLinesType ==
  ASSUME NEW q \in Seq(Nat)
  PROVE  FlattenSeq(FileLines(q)) \in Seq(FileByte)
<1>1. AreRendered(Rendered(q, FileLineOf), q, FileLineOf, FileByte)
  BY FileLineOfType, RenderedType, Zenon
<1>. QED
  BY <1>1, FileLinesAreRendered, Zenon DEF AreRendered

LEMMA FileLinesEmpty == FlattenSeq(FileLines(<<>>)) = <<>>
<1>1. FileLines(<<>>) = <<>>
  BY DEF FileLines
<1>. QED
  BY <1>1, FlattenEmpty, Zenon

LEMMA FileLinesAppend ==
  ASSUME NEW q \in Seq(Nat), NEW m \in Nat
  PROVE  FlattenSeq(FileLines(Append(q, m))) = FlattenSeq(FileLines(q)) \o FileLine(m)
<1>1. Append(q, m) \in Seq(Nat)
  OBVIOUS
<1>2. /\ FileLines(Append(q, m)) = Rendered(Append(q, m), FileLineOf)
      /\ FileLines(q) = Rendered(q, FileLineOf)
  BY <1>1, FileLinesAreRendered, Zenon
<1>3. FlattenSeq(Rendered(Append(q, m), FileLineOf))
        = FlattenSeq(Rendered(q, FileLineOf)) \o FileLineOf[m]
  BY FileLineOfType, RenderedAppend, Zenon
<1>. QED
  BY <1>2, <1>3, FileLineOfType, Zenon

LEMMA FileLinesTail ==
  ASSUME NEW q \in Seq(Nat), q # <<>>
  PROVE  FlattenSeq(FileLines(q))
           = FileLine(Head(q)) \o FlattenSeq(FileLines(Tail(q)))
<1>1. Tail(q) \in Seq(Nat) /\ Head(q) \in Nat
  OBVIOUS
<1>2. /\ FileLines(q) = Rendered(q, FileLineOf)
      /\ FileLines(Tail(q)) = Rendered(Tail(q), FileLineOf)
  BY <1>1, FileLinesAreRendered, Zenon
<1>3. FlattenSeq(Rendered(q, FileLineOf))
        = FileLineOf[Head(q)] \o FlattenSeq(Rendered(Tail(q), FileLineOf))
  BY FileLineOfType, RenderedTail, Zenon
<1>4. FileLineOf[Head(q)] = FileLine(Head(q))
  BY <1>1, FileLineOfType, Zenon
<1>. QED
  BY <1>2, <1>3, <1>4, Zenon

LEMMA DestWriterIs ==
  ASSUME NEW w \in DestWriter
  PROVE  /\ w # NoFile
         /\ w.queue \in Seq(Nat) /\ w.pos \in 0..1
         /\ w.partial # NoPartial => w.partial \in Nat
<1>1. w.queue \in Seq(1..MaxMessages)
  BY DEF DestWriter
<1>2. w.queue \in Seq(Nat)
  <2>. DEFINE S == 1..MaxMessages
              q == w.queue
  <2>1. q \in Seq(S) /\ S \subseteq Nat
    BY <1>1
  <2>. HIDE DEF S, q
  <2>2. q \in [1..Len(q) -> Nat] /\ Len(q) \in Nat
    <3>1. q \in [1..Len(q) -> S] /\ Len(q) \in Nat
      BY <2>1
    <3>. QED
      BY <2>1, <3>1
  <2>3. q \in Seq(Nat)
    BY <2>2
  <2>. QED
    BY <2>3 DEF q
<1>3. /\ w.pos \in 0..1
      /\ w.partial # NoPartial => w.partial \in Nat
  BY AfFileDestAssumption DEF DestWriter
<1>. QED
  BY <1>2, <1>3, AfFileDestAssumption

LEMMA HeldType ==
  ASSUME NEW w \in DestWriter \cup {NoFile}
  PROVE  /\ Held(w) \in Seq(FileByte)
         /\ w # NoFile => /\ FileRest(w) \in Seq(FileByte)
                          /\ Len(FileRest(w)) = Unwritten(w)
<1>1. CASE w = NoFile
  BY <1>1 DEF Held
<1>2. CASE w \in DestWriter
  <2>1. FlattenSeq(FileLines(w.queue)) \in Seq(FileByte)
    BY <1>2, DestWriterIs, FileLinesType
  <2>2. FileRest(w) \in Seq(FileByte) /\ Len(FileRest(w)) = Unwritten(w)
    <3>1. CASE w.partial = NoPartial
      BY <3>1 DEF FileRest, Unwritten
    <3>2. CASE w.partial # NoPartial
      <4>. DEFINE l == FileLine(w.partial)
      <4>1. l \in Seq(FileByte) /\ Len(l) = 2 /\ w.pos \in 0..1
        BY <1>2, <3>2, DestWriterIs, FileLineType
      <4>. HIDE DEF l
      <4>2. \A i \in (w.pos + 1)..2 : l[i] \in FileByte
        <5>1. (w.pos + 1)..2 \subseteq 1..2
          BY <4>1
        <5>2. \A i \in 1..2 : l[i] \in FileByte
          BY <4>1
        <5>. QED
          BY <5>1, <5>2
      <4>3. /\ SubSeq(l, w.pos + 1, 2) \in Seq(FileByte)
            /\ Len(SubSeq(l, w.pos + 1, 2)) = 2 - w.pos
        BY <4>1, <4>2, SubSeqProperties
      <4>. QED
        BY <3>2, <4>3 DEF FileRest, Unwritten, l
    <3>. QED
      BY <3>1, <3>2
  <2>. DEFINE r == FileRest(w)
              t == FlattenSeq(FileLines(w.queue))
  <2>3. r \o t \in Seq(FileByte)
    <3>1. r \in Seq(FileByte) /\ t \in Seq(FileByte)
      BY <2>1, <2>2
    <3>. HIDE DEF r, t
    <3>. QED
      BY <3>1
  <2>. QED
    BY <1>2, <2>2, <2>3, DestWriterIs DEF Held
<1>. QED
  BY <1>1, <1>2

\* What a writer holds depends on its partial line and its queue alone.
LEMMA SameHeld ==
  ASSUME NEW w \in DestWriter, NEW v \in DestWriter,
         w.partial = v.partial, w.pos = v.pos, w.queue = v.queue
  PROVE  Held(w) = Held(v)
BY DestWriterIs DEF Held, FileRest

\* The fields, one at a time.
LEMMA SetPartial ==
  ASSUME NEW w \in DestWriter, NEW p \in 1..MaxMessages \cup {NoPartial}
  PROVE  /\ [w EXCEPT !.partial = p] \in DestWriter
         /\ [w EXCEPT !.partial = p].partial = p
         /\ [w EXCEPT !.partial = p].pos = w.pos
         /\ [w EXCEPT !.partial = p].queue = w.queue
BY DEF DestWriter

LEMMA SetOffset ==
  ASSUME NEW w \in DestWriter, NEW i \in 0..1
  PROVE  /\ [w EXCEPT !.pos = i] \in DestWriter
         /\ [w EXCEPT !.pos = i].partial = w.partial
         /\ [w EXCEPT !.pos = i].pos = i
         /\ [w EXCEPT !.pos = i].queue = w.queue
BY DEF DestWriter

LEMMA SetQueue ==
  ASSUME NEW w \in DestWriter, NEW q \in Seq(1..MaxMessages)
  PROVE  /\ [w EXCEPT !.queue = q] \in DestWriter
         /\ [w EXCEPT !.queue = q].partial = w.partial
         /\ [w EXCEPT !.queue = q].pos = w.pos
         /\ [w EXCEPT !.queue = q].queue = q
BY DEF DestWriter

\* A message is taken by a writer: it holds one line more.
LEMMA QueuedHeld ==
  ASSUME NEW w \in DestWriter, NEW m \in 1..MaxMessages
  PROVE  /\ [w EXCEPT !.queue = Append(@, m)] \in DestWriter
         /\ Held([w EXCEPT !.queue = Append(@, m)]) = Held(w) \o FileLine(m)
<1>. DEFINE v == [w EXCEPT !.queue = Append(@, m)]
<1>1. /\ v \in DestWriter
      /\ v.partial = w.partial /\ v.pos = w.pos /\ v.queue = Append(w.queue, m)
  <2>1. w.queue \in Seq(1..MaxMessages)
    BY DEF DestWriter
  <2>2. Append(w.queue, m) \in Seq(1..MaxMessages)
    BY <2>1
  <2>. QED
    BY <2>2 DEF DestWriter
<1>. HIDE DEF v
<1>2. FileRest(v) = FileRest(w)
  BY <1>1, Zenon DEF FileRest
<1>. DEFINE r == FileRest(w)
            q == FlattenSeq(FileLines(w.queue))
            l == FileLine(m)
<1>3. m \in Nat /\ w.queue \in Seq(Nat)
  BY DestWriterIs
<1>4. FlattenSeq(FileLines(v.queue)) = q \o l
  BY <1>1, <1>3, FileLinesAppend, Zenon
<1>5. r \in Seq(FileByte) /\ q \in Seq(FileByte) /\ l \in Seq(FileByte)
  BY <1>3, DestWriterIs, HeldType, FileLinesType, FileLineType
<1>6. Held(v) = r \o (q \o l)
  BY <1>1, <1>2, <1>4, DestWriterIs, Zenon DEF Held
<1>7. Held(w) = r \o q
  BY DestWriterIs, Zenon DEF Held
<1>8. r \o (q \o l) = (r \o q) \o l
  <2>. HIDE DEF r, q, l
  <2>1. Associates(r, q, l)
    BY <1>5, ConcatAssociates, Zenon
  <2>. QED
    BY <2>1, Zenon DEF Associates
<1>. QED
  BY <1>1, <1>6, <1>7, <1>8, Zenon DEF v

\* Taking the next message from the queue leaves what the writer holds.
LEMMA WithLineHeld ==
  ASSUME NEW w \in DestWriter, w.partial # NoPartial \/ w.queue # <<>>
  PROVE  /\ WithLine(w) \in DestWriter
         /\ WithLine(w).partial # NoPartial
         /\ Held(WithLine(w)) = Held(w)
<1>1. CASE w.partial # NoPartial
  BY <1>1 DEF WithLine
<1>2. CASE w.partial = NoPartial
  <2>. DEFINE v == WithLine(w)
              h == Head(w.queue)
              t == Tail(w.queue)
  <2>1. h \in 1..MaxMessages /\ t \in Seq(1..MaxMessages)
    <3>1. w.queue \in Seq(1..MaxMessages) /\ w.queue # <<>>
      BY <1>2 DEF DestWriter
    <3>. QED
      BY <3>1, HeadTailProperties
  <2>2. v = [w EXCEPT !.partial = h, !.pos = 0, !.queue = t]
    BY <1>2 DEF WithLine
  <2>3. /\ v \in DestWriter
        /\ v.partial = h /\ v.pos = 0 /\ v.queue = t
    <3>. DEFINE x == [w EXCEPT !.partial = h]
                y == [x EXCEPT !.pos = 0]
    <3>. HIDE DEF h, t
    <3>1. x \in DestWriter /\ x.partial = h
      BY <2>1, SetPartial
    <3>2. 0 \in 0..1
      OBVIOUS
    <3>. HIDE DEF x
    <3>3. y \in DestWriter /\ y.partial = h /\ y.pos = 0
      BY <3>1, <3>2, SetOffset
    <3>4. v = [y EXCEPT !.queue = t]
      BY <2>2, Zenon DEF x
    <3>. HIDE DEF y
    <3>. QED
      BY <2>1, <3>3, <3>4, SetQueue
  <2>4. h \in Nat /\ h # NoPartial
    BY <2>1, AfFileDestAssumption
  <2>5. FileRest(v) = FileLine(h)
    <3>1. FileRest(v) = SubSeq(FileLine(h), 1, 2)
      <4>1. v.pos + 1 = 1
        BY <2>3
      <4>. QED
        BY <2>3, <2>4, <4>1, Zenon DEF FileRest
    <3>. DEFINE l == FileLine(h)
    <3>2. l \in Seq(FileByte) /\ Len(l) = 2
      BY <2>4, FileLineType
    <3>. HIDE DEF l
    <3>3. SubSeq(l, 1, 2) = l
      BY <3>2, SubSeqFull
    <3>. QED
      BY <3>1, <3>3 DEF l
  <2>6. Held(v) = FileLine(h) \o FlattenSeq(FileLines(t))
    BY <2>3, <2>5, DestWriterIs, Zenon DEF Held
  <2>7. FlattenSeq(FileLines(w.queue)) = FileLine(h) \o FlattenSeq(FileLines(t))
    BY <1>2, DestWriterIs, FileLinesTail
  <2>8. Held(w) = <<>> \o FlattenSeq(FileLines(w.queue))
    BY <1>2, DestWriterIs, Zenon DEF Held, FileRest
  <2>9. <<>> \o FlattenSeq(FileLines(w.queue)) = FlattenSeq(FileLines(w.queue))
    <3>. DEFINE q == FlattenSeq(FileLines(w.queue))
    <3>1. q \in Seq(FileByte)
      BY DestWriterIs, FileLinesType
    <3>. HIDE DEF q
    <3>2. <<>> \o q = q
      BY <3>1, ConcatEmptySeq
    <3>. QED
      BY <3>2 DEF q
  <2>10. v.partial # NoPartial
    BY <2>3, <2>4
  <2>. QED
    BY <2>3, <2>6, <2>7, <2>8, <2>9, <2>10, Zenon
<1>. QED
  BY <1>1, <1>2

\* The bytes that a write takes are the first of those that the writer holds.
LEMMA TakenHeld ==
  ASSUME NEW w \in DestWriter, w.partial # NoPartial,
         NEW n \in 0..2, w.pos + n <= 2
  PROVE  /\ Taken(w, n) \in DestWriter
         /\ SubSeq(FileLine(w.partial), w.pos + 1, w.pos + n) \in Seq(FileByte)
         /\ Held(w) = SubSeq(FileLine(w.partial), w.pos + 1, w.pos + n) \o Held(Taken(w, n))
<1>. DEFINE l == FileLine(w.partial)
            i == w.pos
            v == Taken(w, n)
            a == SubSeq(l, i + 1, i + n)
            b == SubSeq(l, i + n + 1, 2)
            q == FlattenSeq(FileLines(w.queue))
<1>1. l \in Seq(FileByte) /\ Len(l) = 2 /\ i \in 0..1
  BY DestWriterIs, FileLineType
<1>2. /\ v \in DestWriter /\ v.queue = w.queue
      /\ IF i + n = 2 THEN v.partial = NoPartial
         ELSE v.partial = w.partial /\ v.pos = i + n
  <2>1. CASE i + n = 2
    <3>. DEFINE x == [w EXCEPT !.partial = NoPartial]
    <3>1. v = [x EXCEPT !.pos = 0]
      BY <2>1 DEF Taken
    <3>2. x \in DestWriter /\ x.partial = NoPartial /\ x.queue = w.queue
      BY SetPartial
    <3>3. 0 \in 0..1
      OBVIOUS
    <3>. HIDE DEF x, v
    <3>. QED
      BY <2>1, <3>1, <3>2, <3>3, SetOffset
  <2>2. CASE i + n # 2
    <3>1. i + n \in 0..1
      BY <1>1, <2>2
    <3>2. v = [w EXCEPT !.pos = i + n]
      BY <2>2 DEF Taken
    <3>. DEFINE k == i + n
    <3>3. k \in 0..1 /\ v = [w EXCEPT !.pos = k]
      BY <3>1, <3>2
    <3>. HIDE DEF k, v
    <3>4. v \in DestWriter /\ v.queue = w.queue /\ v.partial = w.partial /\ v.pos = k
      BY <3>3, SetOffset
    <3>. QED
      BY <2>2, <3>4 DEF k
  <2>. QED
    BY <2>1, <2>2
<1>3. /\ a \in Seq(FileByte) /\ b \in Seq(FileByte)
      /\ SubSeq(l, i + 1, 2) = a \o b
      /\ i + n = 2 => b = <<>>
  <2>. HIDE DEF l, i
  <2>1. \A j \in 1..2 : l[j] \in FileByte
    <3>1. DOMAIN l = 1..2
      BY <1>1, LenProperties
    <3>. QED
      BY <1>1, <3>1, ElementOfSeq
  <2>2. (i + 1)..(i + n) \subseteq 1..2 /\ (i + n + 1)..2 \subseteq 1..2
    BY <1>1 DEF i
  <2>3. a \in Seq(FileByte)
    BY <1>1, <2>1, <2>2, SubSeqProperties
  <2>4. b \in Seq(FileByte)
    BY <1>1, <2>1, <2>2, SubSeqProperties
  <2>5. SubSeq(l, i + 1, 2) = a \o b
    <3>1. i + 1 \in 1..(Len(l) + 1) /\ i + n \in (i + 1) - 1..Len(l) /\ 2 \in (i + n)..Len(l)
      BY <1>1 DEF i
    <3>. QED
      BY <1>1, <3>1, ConcatAdjacentSubSeq
  <2>6. i + n = 2 => b = <<>>
    BY <1>1, SubSeqEmpty
  <2>. QED
    BY <2>3, <2>4, <2>5, <2>6
<1>. HIDE DEF v, a, b
<1>4. FileRest(v) = b
  <2>1. CASE i + n = 2
    BY <1>2, <1>3, <2>1 DEF FileRest
  <2>2. CASE i + n # 2
    <3>1. v.partial = w.partial /\ v.pos = i + n
      BY <1>2, <2>2
    <3>2. FileRest(v) = SubSeq(l, i + n + 1, 2)
      BY <3>1, Zenon DEF FileRest
    <3>. QED
      BY <3>2 DEF b
  <2>. QED
    BY <2>1, <2>2
<1>5. FileRest(w) = a \o b
  BY <1>3 DEF FileRest
<1>6. Held(w) = (a \o b) \o q
  BY <1>5, DestWriterIs, Zenon DEF Held
<1>7. Held(v) = b \o q
  BY <1>2, <1>4, DestWriterIs, Zenon DEF Held
<1>8. (a \o b) \o q = a \o (b \o q)
  <2>1. q \in Seq(FileByte)
    BY DestWriterIs, FileLinesType
  <2>. HIDE DEF q
  <2>2. Associates(a, b, q)
    BY <1>3, <2>1, ConcatAssociates, Zenon
  <2>. QED
    BY <2>2, Zenon DEF Associates
<1>9. Held(w) = a \o Held(v)
  BY <1>6, <1>7, <1>8, Zenon
<1>. QED
  BY <1>2, <1>3, <1>9, Zenon DEF v, a

\* A reaped writer holds no more than the rest of a line.
LEMMA ReapedHeld ==
  ASSUME NEW w \in DestWriter, w.queue = <<>>,
         NEW c \in Seq(FileByte), NEW e \in Seq(FileByte), c \o Held(w) = e
  PROVE  SubSeq(e, 1, Len(e) - Unwritten(w)) = c
<1>. DEFINE r == Held(w)
<1>1. r \in Seq(FileByte) /\ Len(r) = Unwritten(w)
  <2>. DEFINE h == FileRest(w)
  <2>1. r = h \o <<>>
    BY FileLinesEmpty, DestWriterIs, Zenon DEF Held
  <2>2. h \in Seq(FileByte) /\ Len(h) = Unwritten(w)
    BY HeldType, DestWriterIs
  <2>. HIDE DEF h, r
  <2>3. r = h
    BY <2>1, <2>2, ConcatEmptySeq
  <2>. QED
    BY <2>2, <2>3
<1>. HIDE DEF r
<1>2. e = c \o r
  BY DEF r
<1>3. Len(e) = Len(c) + Len(r) /\ Len(c) \in Nat /\ Len(r) \in Nat
  BY <1>1, <1>2, ConcatProperties
<1>4. Len(e) - Unwritten(w) = Len(c)
  BY <1>1, <1>3
<1>5. CASE Len(c) = 0
  <2>1. c = <<>>
    BY <1>5
  <2>2. SubSeq(e, 1, 0) = <<>>
    BY SubSeqEmpty
  <2>. QED
    BY <1>4, <1>5, <2>1, <2>2
<1>6. CASE Len(c) # 0
  <2>1. SubSeq(c \o r, 1, Len(c)) = SubSeq(c, 1, Len(c))
    BY <1>1, <1>3, <1>6, SubSeqOfConcat1
  <2>2. SubSeq(c, 1, Len(c)) = c
    BY SubSeqFull
  <2>. QED
    BY <1>2, <1>4, <2>1, <2>2
<1>. QED
  BY <1>5, <1>6

LEMMA NewWriterHeld ==
  /\ NewWriter \in DestWriter
  /\ Held(NewWriter) = <<>>
<1>1. NewWriter \in DestWriter
  BY AfFileDestAssumption DEF NewWriter, DestWriter, MaxAge
<1>2. NewWriter.partial = NoPartial /\ NewWriter.queue = <<>>
  BY DEF NewWriter
<1>3. Held(NewWriter) = <<>> \o <<>>
  BY <1>1, <1>2, DestWriterIs, FileLinesEmpty, Zenon DEF Held, FileRest
<1>4. <<>> \o <<>> = <<>>
  OBVIOUS
<1>. QED
  BY <1>1, <1>3, <1>4, Zenon

\* Opening a file and the passing of time change no field that is about what
\* is held.
LEMMA SetWriter ==
  ASSUME NEW w \in DestWriter, NEW b \in BOOLEAN
  PROVE  [w EXCEPT !.writer = b] \in DestWriter /\ Held([w EXCEPT !.writer = b]) = Held(w)
<1>1. /\ [w EXCEPT !.writer = b] \in DestWriter
      /\ w.partial = [w EXCEPT !.writer = b].partial
      /\ w.pos = [w EXCEPT !.writer = b].pos
      /\ w.queue = [w EXCEPT !.writer = b].queue
  BY DEF DestWriter
<1>. QED
  BY <1>1, SameHeld, Zenon

LEMMA SetOpen ==
  ASSUME NEW w \in DestWriter, NEW b \in BOOLEAN
  PROVE  [w EXCEPT !.open = b] \in DestWriter /\ Held([w EXCEPT !.open = b]) = Held(w)
<1>1. /\ [w EXCEPT !.open = b] \in DestWriter
      /\ w.partial = [w EXCEPT !.open = b].partial
      /\ w.pos = [w EXCEPT !.open = b].pos
      /\ w.queue = [w EXCEPT !.open = b].queue
  BY DEF DestWriter
<1>. QED
  BY <1>1, SameHeld, Zenon

LEMMA SetIdle ==
  ASSUME NEW w \in DestWriter, NEW a \in 0..MaxAge
  PROVE  /\ [w EXCEPT !.idle = a] \in DestWriter
         /\ Held([w EXCEPT !.idle = a]) = Held(w)
         /\ [w EXCEPT !.idle = a].opened = w.opened
<1>1. /\ [w EXCEPT !.idle = a] \in DestWriter
      /\ w.partial = [w EXCEPT !.idle = a].partial
      /\ w.pos = [w EXCEPT !.idle = a].pos
      /\ w.queue = [w EXCEPT !.idle = a].queue
      /\ [w EXCEPT !.idle = a].opened = w.opened
  BY DEF DestWriter
<1>. QED
  BY <1>1, SameHeld, Zenon

LEMMA SetOpened ==
  ASSUME NEW w \in DestWriter, NEW a \in 0..MaxAge
  PROVE  /\ [w EXCEPT !.opened = a] \in DestWriter
         /\ Held([w EXCEPT !.opened = a]) = Held(w)
         /\ [w EXCEPT !.opened = a].writer = w.writer
<1>1. /\ [w EXCEPT !.opened = a] \in DestWriter
      /\ w.partial = [w EXCEPT !.opened = a].partial
      /\ w.pos = [w EXCEPT !.opened = a].pos
      /\ w.queue = [w EXCEPT !.opened = a].queue
      /\ [w EXCEPT !.opened = a].writer = w.writer
  BY DEF DestWriter
<1>. QED
  BY <1>1, SameHeld, Zenon

LEMMA DwInitHeld ==
  ASSUME NEW w \in DestWriter, NEW ok \in BOOLEAN
  PROVE  DwInit(w, ok) \in DestWriter /\ Held(DwInit(w, ok)) = Held(w)
<1>. DEFINE b == w.writer \/ ok
            x == [w EXCEPT !.opened = 0]
            y == [x EXCEPT !.writer = b]
<1>1. 0 \in 0..MaxAge
  BY AfFileDestAssumption DEF MaxAge
<1>2. b \in BOOLEAN
  OBVIOUS
<1>3. x \in DestWriter /\ Held(x) = Held(w) /\ x.writer = w.writer
  BY <1>1, SetOpened, Zenon
<1>4. DwInit(w, ok) = [y EXCEPT !.open = ok]
  BY <1>3 DEF DwInit
<1>. HIDE DEF x, b
<1>5. y \in DestWriter /\ Held(y) = Held(x)
  BY <1>2, <1>3, SetWriter, Zenon
<1>. HIDE DEF y
<1>. QED
  BY <1>3, <1>4, <1>5, SetOpen, Zenon

LEMMA AgedHeld ==
  ASSUME NEW w \in DestWriter
  PROVE  /\ [w EXCEPT !.idle = Older(@), !.opened = Older(@)] \in DestWriter
         /\ Held([w EXCEPT !.idle = Older(@), !.opened = Older(@)]) = Held(w)
<1>. DEFINE a == Older(w.idle)
            b == Older(w.opened)
            x == [w EXCEPT !.idle = a]
<1>1. a \in 0..MaxAge /\ b \in 0..MaxAge
  <2>1. MaxAge \in Nat
    BY AfFileDestAssumption DEF MaxAge
  <2>2. w.idle \in 0..MaxAge /\ w.opened \in 0..MaxAge
    BY DEF DestWriter
  <2>. QED
    BY <2>1, <2>2 DEF Older
<1>2. x \in DestWriter /\ Held(x) = Held(w) /\ x.opened = w.opened
  BY <1>1, SetIdle, Zenon
<1>3. [w EXCEPT !.idle = Older(@), !.opened = Older(@)] = [x EXCEPT !.opened = b]
  BY <1>2
<1>. HIDE DEF x, a, b
<1>. QED
  BY <1>1, <1>2, <1>3, SetOpened, Zenon

\* The writer that a message finds holds what the file's writer held, if any.
LEMMA FoundHeld ==
  ASSUME NEW f \in File, dw[f] \in DestWriter \cup {NoFile}, NEW ok \in BOOLEAN,
         NEW w, w = IF dw[f] = NoFile THEN NewForMessage(f, ok) ELSE ForMessage(f, ok)
  PROVE  w \in DestWriter \cup {NoFile} /\ Held(w) = Held(dw[f])
<1>1. CASE dw[f] = NoFile
  <2>1. Held(dw[f]) = <<>>
    BY <1>1 DEF Held
  <2>2. w = NoFile \/ w = DwInit(NewWriter, ok)
    BY <1>1 DEF NewForMessage
  <2>3. Held(NoFile) = <<>>
    BY DEF Held
  <2>4. DwInit(NewWriter, ok) \in DestWriter /\ Held(DwInit(NewWriter, ok)) = <<>>
    BY NewWriterHeld, DwInitHeld
  <2>. QED
    BY <2>1, <2>2, <2>3, <2>4
<1>2. CASE dw[f] # NoFile
  <2>. DEFINE v == [dw[f] EXCEPT !.idle = 0]
  <2>1. dw[f] \in DestWriter
    BY <1>2
  <2>2. v \in DestWriter /\ Held(v) = Held(dw[f])
    <3>1. 0 \in 0..MaxAge
      BY AfFileDestAssumption DEF MaxAge
    <3>. QED
      BY <2>1, <3>1, SetIdle, Zenon
  <2>. HIDE DEF v
  <2>3. w = v \/ w = DwInit(v, ok)
    BY <1>2 DEF ForMessage, v
  <2>. QED
    BY <2>2, <2>3, DwInitHeld
<1>. QED
  BY <1>1, <1>2

\* What each file holds, and the history of its bytes.
FileState(f) ==
  /\ dw[f] \in DestWriter \cup {NoFile}
  /\ content[f] \in Seq(FileByte) /\ expected[f] \in Seq(FileByte)
  /\ content[f] \o Held(dw[f]) = expected[f]

DestTyped ==
  /\ dw \in [File -> DestWriter \cup {NoFile}]
  /\ content \in [File -> Seq(FileByte)] /\ expected \in [File -> Seq(FileByte)]
  /\ sent_to_dd \in 0..MaxMessages

DestOrdered == DestTyped /\ \A f \in File : FileState(f)

LEMMA DestStart == AfFileDestInit => DestOrdered
<1>. SUFFICES ASSUME AfFileDestInit PROVE DestOrdered
  OBVIOUS
<1>1. <<>> \in Seq(FileByte)
  OBVIOUS
<1>2. DestTyped
  BY <1>1, AfFileDestAssumption DEF AfFileDestInit, DestTyped
<1>3. ASSUME NEW f \in File
      PROVE  FileState(f)
  <2>1. dw[f] = NoFile /\ content[f] = <<>> /\ expected[f] = <<>>
    BY DEF AfFileDestInit
  <2>2. <<>> \o <<>> = <<>>
    OBVIOUS
  <2>. QED
    BY <1>1, <2>1, <2>2 DEF FileState, Held
<1>. QED
  BY <1>2, <1>3 DEF DestOrdered

\* A step that changes the state of one file leaves the others as they are.
LEMMA OneFileStep ==
  ASSUME DestOrdered, NEW f \in File,
         NEW w \in DestWriter \cup {NoFile},
         NEW c \in Seq(FileByte), NEW e \in Seq(FileByte), c \o Held(w) = e,
         dw' = [dw EXCEPT ![f] = w],
         content' = [content EXCEPT ![f] = c], expected' = [expected EXCEPT ![f] = e],
         sent_to_dd' \in 0..MaxMessages
  PROVE  DestOrdered'
<1>1. DestTyped'
  BY DEF DestOrdered, DestTyped
<1>2. ASSUME NEW g \in File
      PROVE  FileState(g)'
  <2>1. FileState(g)
    BY DEF DestOrdered
  <2>2. CASE g = f
    <3>1. dw'[g] = w /\ content'[g] = c /\ expected'[g] = e
      BY <2>2 DEF DestOrdered, DestTyped
    <3>. QED
      BY <3>1, Zenon DEF FileState
  <2>3. CASE g # f
    <3>1. dw'[g] = dw[g] /\ content'[g] = content[g] /\ expected'[g] = expected[g]
      BY <2>3 DEF DestOrdered, DestTyped
    <3>. QED
      BY <2>1, <3>1, Zenon DEF FileState
  <2>. QED
    BY <2>2, <2>3
<1>. QED
  BY <1>1, <1>2 DEF DestOrdered

\* A step that changes no byte and nothing that is held.
LEMMA QuietStep ==
  ASSUME DestOrdered,
         dw' \in [File -> DestWriter \cup {NoFile}],
         \A f \in File : Held(dw'[f]) = Held(dw[f]),
         UNCHANGED <<content, expected, sent_to_dd>>
  PROVE  DestOrdered'
<1>1. DestTyped'
  BY DEF DestOrdered, DestTyped
<1>2. ASSUME NEW f \in File
      PROVE  FileState(f)'
  <2>1. FileState(f)
    BY DEF DestOrdered
  <2>2. dw'[f] \in DestWriter \cup {NoFile} /\ Held(dw'[f]) = Held(dw[f])
    OBVIOUS
  <2>3. content'[f] = content[f] /\ expected'[f] = expected[f]
    OBVIOUS
  <2>. QED
    BY <2>1, <2>2, <2>3, Zenon DEF FileState
<1>. QED
  BY <1>1, <1>2 DEF DestOrdered

LEMMA QueueMessageOrdered ==
  ASSUME DestOrdered, NEW f \in File, QueueMessage(f)
  PROVE  DestOrdered'
<1>. DEFINE m == sent_to_dd + 1
<1>1. m \in 1..MaxMessages /\ sent_to_dd' = m /\ sent_to_dd' \in 0..MaxMessages
  BY AfFileDestAssumption DEF DestOrdered, DestTyped, QueueMessage
<1>2. /\ dw[f] \in DestWriter \cup {NoFile}
      /\ content[f] \in Seq(FileByte) /\ expected[f] \in Seq(FileByte)
      /\ content[f] \o Held(dw[f]) = expected[f]
  BY DEF DestOrdered, FileState
<1>3. UNCHANGED content /\ content = [content EXCEPT ![f] = content[f]]
      /\ expected = [expected EXCEPT ![f] = expected[f]]
  BY DEF QueueMessage, DestOrdered, DestTyped
<1>. HIDE DEF m
<1>4. PICK ok \in BOOLEAN :
        LET w == IF dw[f] = NoFile THEN NewForMessage(f, ok) ELSE ForMessage(f, ok)
        IN  IF Accepts(w)
            THEN /\ dw' = [dw EXCEPT ![f] = [w EXCEPT !.queue = Append(@, m)]]
                 /\ expected' = [expected EXCEPT ![f] = @ \o FileLine(m)]
            ELSE /\ dw' = [dw EXCEPT ![f] = w]
                 /\ UNCHANGED expected
  BY <1>1, Zenon DEF QueueMessage
<1>. DEFINE w == IF dw[f] = NoFile THEN NewForMessage(f, ok) ELSE ForMessage(f, ok)
<1>5. w \in DestWriter \cup {NoFile} /\ Held(w) = Held(dw[f])
  BY <1>2, FoundHeld, Zenon
<1>6. CASE Accepts(w)
  <2>. DEFINE v == [w EXCEPT !.queue = Append(@, m)]
              c == content[f]
              l == FileLine(m)
              h == Held(w)
              e == expected[f]
  <2>1. w \in DestWriter
    BY <1>5, <1>6 DEF Accepts
  <2>2. dw' = [dw EXCEPT ![f] = v] /\ expected' = [expected EXCEPT ![f] = e \o l]
    BY <1>4, <1>6
  <2>3. v \in DestWriter /\ Held(v) = h \o l
    BY <1>1, <2>1, QueuedHeld, Zenon
  <2>4. /\ c \in Seq(FileByte) /\ h \in Seq(FileByte) /\ l \in Seq(FileByte)
        /\ c \o h = e
    <3>1. h \in Seq(FileByte)
      BY <1>5, HeldType, Zenon
    <3>2. m \in Nat
      BY <1>1
    <3>3. l \in Seq(FileByte)
      BY <3>2, FileLineType, Zenon
    <3>. QED
      BY <1>2, <1>5, <3>1, <3>3, Zenon
  <2>5. e \o l \in Seq(FileByte) /\ c \o (h \o l) = e \o l
    <3>. HIDE DEF c, h, l, e
    <3>0. c \in Seq(FileByte) /\ h \in Seq(FileByte) /\ l \in Seq(FileByte)
      BY <2>4, Zenon
    <3>1. (c \o h) \o l = c \o (h \o l)
      <4>1. Associates(c, h, l)
        BY <3>0, ConcatAssociates, Zenon
      <4>. QED
        BY <4>1, Zenon DEF Associates
    <3>2. e \in Seq(FileByte)
      BY <1>2 DEF e
    <3>3. e \o l \in Seq(FileByte)
      BY <2>4, <3>2
    <3>. QED
      BY <2>4, <3>1, <3>3, Zenon
  <2>. HIDE DEF w, v
  <2>6. c \o Held(v) = e \o l
    BY <2>3, <2>5, Zenon
  <2>7. content' = [content EXCEPT ![f] = c]
    BY <1>3
  <2>8. v \in DestWriter \cup {NoFile}
    BY <2>3
  <2>. HIDE DEF c, e, l
  <2>. QED
    BY <1>1, <1>2, <2>2, <2>4, <2>5, <2>6, <2>7, <2>8, OneFileStep, Zenon
<1>7. CASE ~Accepts(w)
  <2>1. dw' = [dw EXCEPT ![f] = w] /\ expected' = [expected EXCEPT ![f] = expected[f]]
    BY <1>3, <1>4, <1>7
  <2>. HIDE DEF w
  <2>2. content[f] \o Held(w) = expected[f]
    BY <1>2, <1>5, Zenon
  <2>3. content' = [content EXCEPT ![f] = content[f]]
    BY <1>3
  <2>. QED
    BY <1>1, <1>2, <1>5, <2>1, <2>2, <2>3, OneFileStep, Zenon
<1>. QED
  BY <1>6, <1>7

LEMMA HeldBackWriter ==
  ASSUME DestOrdered, NEW f \in File, HasOutput(f)
  PROVE  /\ dw[f] \in DestWriter
         /\ WithLine(dw[f]) \in DestWriter
         /\ WithLine(dw[f]).partial # NoPartial
         /\ Held(WithLine(dw[f])) = Held(dw[f])
<1>1. dw[f] \in DestWriter /\ (dw[f].partial # NoPartial \/ dw[f].queue # <<>>)
  BY DEF HasOutput, DestOrdered, FileState
<1>. QED
  BY <1>1, WithLineHeld, Zenon

LEMMA FileWriteOrdered ==
  ASSUME DestOrdered, NEW f \in File, NEW n \in 0..2, FileWrite(f, n)
  PROVE  DestOrdered'
<1>. DEFINE w == WithLine(dw[f])
            a == SubSeq(FileLine(w.partial), w.pos + 1, w.pos + n)
            v == Taken(w, n)
            c == content[f]
            e == expected[f]
            h == Held(v)
<1>1. /\ HasOutput(f) /\ w.pos + n <= 2
      /\ dw' = [dw EXCEPT ![f] = v]
      /\ content' = [content EXCEPT ![f] = c \o a]
      /\ expected' = expected /\ sent_to_dd' = sent_to_dd
  BY DEF FileWrite
<1>2. w \in DestWriter /\ w.partial # NoPartial /\ Held(w) = Held(dw[f])
  BY <1>1, HeldBackWriter, Zenon
<1>3. c \in Seq(FileByte) /\ e \in Seq(FileByte) /\ c \o Held(dw[f]) = e
  BY DEF DestOrdered, FileState
<1>4. expected' = [expected EXCEPT ![f] = e] /\ sent_to_dd' \in 0..MaxMessages
  BY <1>1 DEF DestOrdered, DestTyped
<1>. HIDE DEF w
<1>5. v \in DestWriter /\ a \in Seq(FileByte) /\ Held(w) = a \o h
  BY <1>1, <1>2, TakenHeld, Zenon
<1>. HIDE DEF v, a
<1>6. v \in DestWriter \cup {NoFile}
  BY <1>5
<1>7. h \in Seq(FileByte)
  BY <1>6, HeldType, Zenon
<1>8. c \o a \in Seq(FileByte) /\ (c \o a) \o h = c \o (a \o h)
  <2>. HIDE DEF c, h
  <2>1. c \in Seq(FileByte) /\ a \in Seq(FileByte) /\ h \in Seq(FileByte)
    BY <1>3, <1>5, <1>7, Zenon
  <2>2. Associates(c, a, h)
    BY <2>1, ConcatAssociates, Zenon
  <2>3. c \o a \in Seq(FileByte)
    BY <2>1, ConcatProperties
  <2>. QED
    BY <2>2, <2>3, Zenon DEF Associates
<1>9. (c \o a) \o Held(v) = e
  BY <1>2, <1>3, <1>5, <1>8, Zenon
<1>. HIDE DEF c, e
<1>. QED
  BY <1>1, <1>3, <1>4, <1>6, <1>8, <1>9, OneFileStep, Zenon

LEMMA ReapOrdered ==
  ASSUME DestOrdered, Reap
  PROVE  DestOrdered'
<1>1. CASE UNCHANGED <<dw, expected>>
  <2>1. UNCHANGED <<dw, content, expected, sent_to_dd>>
    BY <1>1 DEF Reap
  <2>2. \A f \in File : Held(dw'[f]) = Held(dw[f])
    BY <2>1
  <2>. QED
    BY <2>1, <2>2, QuietStep DEF DestOrdered, DestTyped
<1>2. CASE ~UNCHANGED <<dw, expected>>
  <2>1. /\ dw' = [f \in File |-> IF expand /\ Reapable(f) THEN NoFile ELSE dw[f]]
        /\ expected' = [f \in File |->
             IF expand /\ Reapable(f)
             THEN SubSeq(expected[f], 1, Len(expected[f]) - Unwritten(dw[f]))
             ELSE expected[f]]
        /\ content' = content /\ sent_to_dd' = sent_to_dd
    BY <1>2 DEF Reap
  <2>2. ASSUME NEW f \in File
        PROVE  FileState(f)'
    <3>1. /\ dw[f] \in DestWriter \cup {NoFile}
          /\ content[f] \in Seq(FileByte) /\ expected[f] \in Seq(FileByte)
          /\ content[f] \o Held(dw[f]) = expected[f]
          /\ content'[f] = content[f]
      BY <2>1 DEF DestOrdered, FileState
    <3>2. CASE expand /\ Reapable(f)
      <4>1. dw[f] \in DestWriter /\ dw[f].queue = <<>>
        BY <3>1, <3>2 DEF Reapable, Idle
      <4>2. dw'[f] = NoFile /\ expected'[f] = content[f]
        BY <2>1, <3>1, <3>2, <4>1, ReapedHeld
      <4>3. content[f] \o <<>> = content[f]
        BY <3>1, ConcatEmptySeq
      <4>4. Held(NoFile) = <<>>
        BY DEF Held
      <4>5. NoFile \in DestWriter \cup {NoFile}
        OBVIOUS
      <4>. QED
        BY <3>1, <4>2, <4>3, <4>4, <4>5, Zenon DEF FileState
    <3>3. CASE ~(expand /\ Reapable(f))
      <4>1. dw'[f] = dw[f] /\ expected'[f] = expected[f]
        BY <2>1, <3>3
      <4>. QED
        BY <3>1, <4>1, Zenon DEF FileState
    <3>. QED
      BY <3>2, <3>3
  <2>3. DestTyped'
    <3>1. \A f \in File : /\ dw'[f] \in DestWriter \cup {NoFile}
                          /\ expected'[f] \in Seq(FileByte)
      BY <2>2 DEF FileState
    <3>. QED
      BY <2>1, <3>1 DEF DestOrdered, DestTyped
  <2>. QED
    BY <2>2, <2>3 DEF DestOrdered
<1>. QED
  BY <1>1, <1>2

LEMMA DestStep == DestOrdered /\ [AfFileDestNext]_dd_vars => DestOrdered'
<1>. SUFFICES ASSUME DestOrdered, [AfFileDestNext]_dd_vars
              PROVE  DestOrdered'
  OBVIOUS
<1>0. dw \in [File -> DestWriter \cup {NoFile}]
  BY DEF DestOrdered, DestTyped
<1>1. ASSUME NEW f \in File, QueueMessage(f)
      PROVE  DestOrdered'
  BY <1>1, QueueMessageOrdered
<1>2. ASSUME NEW f \in File, NEW n \in 0..2, FileWrite(f, n)
      PROVE  DestOrdered'
  BY <1>2, FileWriteOrdered
<1>3. ASSUME NEW f \in File, FileWriteError(f)
      PROVE  DestOrdered'
  <2>. DEFINE w == WithLine(dw[f])
              v == [w EXCEPT !.open = FALSE]
  <2>1. w \in DestWriter /\ Held(w) = Held(dw[f])
    BY <1>3, HeldBackWriter DEF FileWriteError
  <2>2. dw' = [dw EXCEPT ![f] = v] /\ UNCHANGED <<content, expected, sent_to_dd>>
    BY <1>3 DEF FileWriteError
  <2>3. v \in DestWriter /\ Held(v) = Held(w)
    BY <2>1, SetOpen, Zenon
  <2>. HIDE DEF v, w
  <2>4. \A g \in File : Held(dw'[g]) = Held(dw[g])
    <3>. TAKE g \in File
    <3>1. dw'[g] = IF g = f THEN v ELSE dw[g]
      BY <1>0, <2>2
    <3>. QED
      BY <2>1, <2>3, <3>1, Zenon
  <2>. QED
    BY <1>0, <2>2, <2>3, <2>4, QuietStep
<1>4. CASE Second
  <2>1. /\ dw' = [f \in File |->
             IF dw[f] = NoFile THEN NoFile
             ELSE [dw[f] EXCEPT !.idle = Older(@), !.opened = Older(@)]]
        /\ UNCHANGED <<content, expected, sent_to_dd>>
    BY <1>4 DEF Second
  <2>2. ASSUME NEW f \in File
        PROVE  dw'[f] \in DestWriter \cup {NoFile} /\ Held(dw'[f]) = Held(dw[f])
    <3>1. CASE dw[f] = NoFile
      BY <2>1, <3>1
    <3>2. CASE dw[f] # NoFile
      <4>. DEFINE u == dw[f]
                  v == [u EXCEPT !.idle = Older(@), !.opened = Older(@)]
      <4>1. u \in DestWriter /\ dw'[f] = v
        BY <1>0, <2>1, <3>2
      <4>. HIDE DEF u
      <4>2. v \in DestWriter /\ Held(v) = Held(u)
        BY <4>1, AgedHeld, Zenon
      <4>. HIDE DEF v
      <4>. QED
        BY <4>1, <4>2 DEF u
    <3>. QED
      BY <3>1, <3>2
  <2>3. dw' \in [File -> DestWriter \cup {NoFile}]
    BY <2>1, <2>2
  <2>. QED
    BY <2>1, <2>2, <2>3, QuietStep
<1>5. CASE Reap
  BY <1>5, ReapOrdered
<1>6. CASE ReloadDest
  <2>1. PICK ok \in [File -> BOOLEAN] :
          dw' = [f \in File |-> IF dw[f] = NoFile THEN NoFile ELSE DwInit(dw[f], ok[f])]
    BY <1>6, Zenon DEF ReloadDest
  <2>2. UNCHANGED <<content, expected, sent_to_dd>>
    BY <1>6 DEF ReloadDest
  <2>3. ASSUME NEW f \in File
        PROVE  dw'[f] \in DestWriter \cup {NoFile} /\ Held(dw'[f]) = Held(dw[f])
    BY <1>0, <2>1, DwInitHeld
  <2>4. dw' \in [File -> DestWriter \cup {NoFile}]
    BY <2>1, <2>3
  <2>. QED
    BY <2>2, <2>3, <2>4, QuietStep
<1>7. CASE UNCHANGED dd_vars
  <2>1. UNCHANGED <<dw, content, expected, sent_to_dd>>
    BY <1>7 DEF dd_vars
  <2>2. \A f \in File : Held(dw'[f]) = Held(dw[f])
    BY <2>1
  <2>. QED
    BY <1>0, <2>1, <2>2, QuietStep
<1>. QED
  BY <1>1, <1>2, <1>3, <1>4, <1>5, <1>6, <1>7 DEF AfFileDestNext

\* For any files, messages and times: what was written to a file, the rest of
\* the partial line and the queue are together the lines that its writers took,
\* whatever write errors, reopenings, reaped writers and reloads there were.
THEOREM FilesInOrder == AfFileDestSpec => []FileInOrder
<1>1. DestOrdered => FileInOrder
  BY DEF DestOrdered, FileState, FileInOrder, Held, FileRest, FileLines
<1>. QED
  BY DestStart, DestStep, <1>1, PTL DEF AfFileDestSpec

-----------------------------------------------------------------------------
(***************************************************************************)
(* AfSocketSource.  Every descriptor table and driver are typed; a driver  *)
(* that is there has nothing handed to it any more, and unless an init     *)
(* ended without a listener it has one.  With that SourceSocketsOwned is   *)
(* inductive, and the limit is, for the driver of the old configuration    *)
(* too, which a revert brings back.                                        *)
(***************************************************************************)

SourcePhase ==
  /\ AfSocketSourceTypeOK
  /\ unopened \in BOOLEAN
  /\ sd # NoDriver => handed = Nothing
  /\ ~unopened /\ sd # NoDriver => sd.listens

SourceLimits ==
  /\ sd # NoDriver => /\ sd.num_connections <= MaxConnections
                      /\ Cardinality(sd.conns) <= sd.num_connections + inherited
  /\ old_sd # NoDriver => /\ old_sd.num_connections <= MaxConnections
                          /\ 0 <= old_sd.num_connections + inherited

LEMMA NothingIs ==
  /\ Nothing \in [listener : Fd \cup {NoFd}, conns : SUBSET Fd]
  /\ Nothing.listener = NoFd /\ Nothing.conns = {}
BY DEF Nothing

\* A set of descriptors has a number of members, a natural number.
LEMMA FdSetFinite ==
  ASSUME NEW s \in SUBSET Fd
  PROVE  IsFiniteSet(s) /\ Cardinality(s) \in Nat
<1>1. IsFiniteSet(Fd)
  BY AfSocketSourceAssumption, FS_Interval DEF Fd
<1>2. IsFiniteSet(s)
  BY <1>1, FS_Subset
<1>. QED
  BY <1>2, FS_CardinalityType

LEMMA LowestFree ==
  ASSUME NEW table, FreeFds(table) # {}
  PROVE  Min(FreeFds(table)) \in FreeFds(table)
<1>. DEFINE T == FreeFds(table)
<1>1. T \subseteq Nat
  BY DEF FreeFds, Fd
<1>. HIDE DEF T
<1>2. \E n \in T : \A k \in T : n <= k
  BY <1>1, NatMinimum DEF T
<1>3. Min(T) \in T
  BY <1>2, Zenon DEF Min
<1>. QED
  BY <1>3 DEF T

LEMMA AllocatedIs ==
  ASSUME NEW table \in [Fd -> {"free", "std", "listen", "conn"}],
         FreeFds(table) # {}, NEW use \in {"listen", "conn"}
  PROVE  /\ Min(FreeFds(table)) \in Fd
         /\ table[Min(FreeFds(table))] = "free"
         /\ Allocated(table, use) \in [Fd -> {"free", "std", "listen", "conn"}]
         /\ \A f \in Fd : Allocated(table, use)[f]
              = IF f = Min(FreeFds(table)) THEN use ELSE table[f]
<1>1. Min(FreeFds(table)) \in FreeFds(table)
  BY LowestFree
<1>2. Min(FreeFds(table)) \in Fd /\ table[Min(FreeFds(table))] = "free"
  BY <1>1, Zenon DEF FreeFds
<1>. DEFINE m == Min(FreeFds(table))
<1>. HIDE DEF m
<1>3. m \in Fd /\ Allocated(table, use) = [table EXCEPT ![m] = use]
  BY <1>2 DEF m, Allocated
<1>4. /\ Allocated(table, use) \in [Fd -> {"free", "std", "listen", "conn"}]
      /\ \A f \in Fd : Allocated(table, use)[f] = IF f = m THEN use ELSE table[f]
  BY <1>3
<1>. QED
  BY <1>2, <1>4 DEF m

LEMMA TookUpIs ==
  ASSUME NEW d \in SocketDriver, handed.conns \subseteq Fd
  PROVE  /\ TookUp(d) \in SocketDriver
         /\ TookUp(d).conns = handed.conns
         /\ TookUp(d).num_connections = d.num_connections
BY DEF TookUp, SocketDriver

LEMMA ListensIs ==
  ASSUME NEW d \in SocketDriver, handed.conns \subseteq Fd, NEW f \in Fd
  PROVE  /\ Listens(d, f) \in SocketDriver
         /\ Listens(d, f).fd = f /\ Listens(d, f).listens
         /\ Listens(d, f).conns = handed.conns
         /\ Listens(d, f).num_connections = d.num_connections
<1>. DEFINE v == TookUp(d)
<1>1. v \in SocketDriver /\ v.conns = handed.conns /\ v.num_connections = d.num_connections
  BY TookUpIs
<1>. HIDE DEF v
<1>2. Listens(d, f) = [v EXCEPT !.fd = f, !.listens = TRUE]
  BY DEF Listens, v
<1>. QED
  BY <1>1, <1>2 DEF SocketDriver

\* A driver with other connections.
WithConns(v, d, s) ==
  /\ v \in SocketDriver /\ v.fd = d.fd /\ v.listens = d.listens
  /\ v.conns = s

LEMMA ConnsSet ==
  ASSUME NEW d \in SocketDriver, NEW s \in SUBSET Fd, NEW n \in Int
  PROVE  WithConns([d EXCEPT !.conns = s, !.num_connections = n], d, s)
BY DEF SocketDriver, WithConns

LEMMA NewDriverIs ==
  NewDriver \in SocketDriver /\ NewDriver.num_connections = 0
BY AfSocketSourceAssumption DEF NewDriver, SocketDriver, Fd

LEMMA SourceStart ==
  AfSocketSourceInit => SourcePhase /\ SourceSocketsOwned /\ SourceLimits
<1>. SUFFICES ASSUME AfSocketSourceInit
              PROVE  SourcePhase /\ SourceSocketsOwned /\ SourceLimits
  OBVIOUS
<1>1. \A f \in Fd : fds[f] = IF f = 0 THEN "std" ELSE "free"
  BY DEF AfSocketSourceInit
<1>2. 0 \in Fd
  BY AfSocketSourceAssumption DEF Fd
<1>3. SourcePhase /\ SourceLimits
  BY NothingIs
     DEF AfSocketSourceInit, SourcePhase, SourceLimits, AfSocketSourceTypeOK
<1>4. SourceSocketsOwned
  BY <1>1, <1>2, NothingIs
     DEF AfSocketSourceInit, SourceSocketsOwned, Listeners, Conns
<1>. QED
  BY <1>3, <1>4

\* The init of a driver that ends with a listener.
LEMMA InitListensStep ==
  ASSUME SourcePhase, SourceSocketsOwned, sd = NoDriver,
         NEW d \in SocketDriver, InitListens(d),
         handed' = Nothing, old_sd' = NoDriver, inherited' \in Nat,
         UNCHANGED <<orphans, unopened>>
  PROVE  /\ SourcePhase' /\ SourceSocketsOwned'
         /\ sd' \in SocketDriver /\ sd'.conns = handed.conns
         /\ sd'.num_connections = d.num_connections
<1>0. /\ fds \in [Fd -> {"free", "std", "listen", "conn"}]
      /\ handed.conns \subseteq Fd /\ handed.listener \in Fd \cup {NoFd}
      /\ orphans \subseteq Fd /\ unopened \in BOOLEAN
      /\ NoDriver \notin SocketDriver /\ NoFd \notin Fd
  BY AfSocketSourceAssumption DEF SourcePhase, AfSocketSourceTypeOK
<1>1. PICK f \in Fd :
        /\ sd' = Listens(d, f)
        /\ fds' \in [Fd -> {"free", "std", "listen", "conn"}]
        /\ \A g \in Fd : fds'[g] = IF g = f THEN "listen" ELSE fds[g]
        /\ \/ handed.listener = f /\ fds[f] = "listen"
           \/ handed.listener = NoFd /\ fds[f] = "free"
  <2>1. CASE ListenerHanded
    <3>1. /\ handed.listener \in Fd /\ fds[handed.listener] = "listen"
          /\ sd' = Listens(d, handed.listener) /\ fds' = fds
      BY <1>0, <2>1 DEF InitListens, ListenerHanded
    <3>. QED
      BY <1>0, <3>1
  <2>2. CASE ~ListenerHanded
    <3>1. /\ handed.listener = NoFd /\ FreeFds(fds) # {}
          /\ fds' = Allocated(fds, "listen")
          /\ sd' = Listens(d, Min(FreeFds(fds)))
      BY <2>2 DEF InitListens, ListenerHanded
    <3>2. "listen" \in {"listen", "conn"}
      OBVIOUS
    <3>. QED
      BY <1>0, <3>1, <3>2, AllocatedIs
  <2>. QED
    BY <2>1, <2>2
<1>2. /\ sd' \in SocketDriver /\ sd' # NoDriver
      /\ sd'.fd = f /\ sd'.listens /\ sd'.conns = handed.conns
      /\ sd'.num_connections = d.num_connections
  BY <1>0, <1>1, ListensIs
<1>3. SourcePhase'
  <2>1. AfSocketSourceTypeOK'
    BY <1>0, <1>1, <1>2, NothingIs DEF AfSocketSourceTypeOK
  <2>. QED
    BY <1>0, <1>2, <2>1 DEF SourcePhase
<1>4. SourceSocketsOwned'
  <2>. SUFFICES ASSUME ~unopened
                PROVE  /\ {g \in Fd : fds'[g] = "listen"} = Listeners'
                       /\ {g \in Fd : fds'[g] = "conn"}
                            = Conns' \cup handed'.conns \cup orphans'
                       /\ Conns' \cap handed'.conns = {}
                       /\ (Conns' \cup handed'.conns) \cap orphans' = {}
                       /\ fds'[0] = "std"
    BY DEF SourceSocketsOwned
  <2>1. /\ Listeners' = {f} /\ Conns' = handed.conns
        /\ handed'.conns = {} /\ orphans' = orphans
    BY <1>0, <1>2, NothingIs DEF Listeners, Conns
  <2>2. /\ {g \in Fd : fds[g] = "listen"} = {handed.listener} \ {NoFd}
        /\ {g \in Fd : fds[g] = "conn"} = handed.conns \cup orphans
        /\ handed.conns \cap orphans = {}
        /\ fds[0] = "std"
    BY DEF SourceSocketsOwned, Listeners, Conns
  <2>3. 0 \in Fd
    BY AfSocketSourceAssumption DEF Fd
  <2>. QED
    BY <1>0, <1>1, <2>1, <2>2, <2>3
<1>. QED
  BY <1>2, <1>3, <1>4

LEMMA ClosedIs ==
  ASSUME NEW table \in [Fd -> {"free", "std", "listen", "conn"}], NEW s
  PROVE  /\ Closed(table, s) \in [Fd -> {"free", "std", "listen", "conn"}]
         /\ \A f \in Fd : Closed(table, s)[f] = IF f \in s THEN "free" ELSE table[f]
BY DEF Closed

\* The sockets of a table are the listeners and the connections given.
SourceOwns(table, listeners, conns) ==
  /\ {f \in Fd : table[f] = "listen"} = listeners
  /\ {f \in Fd : table[f] = "conn"} = conns
  /\ table[0] = "std"

LEMMA OwnedIs ==
  SourceSocketsOwned <=>
    (~unopened => /\ SourceOwns(fds, Listeners, Conns \cup handed.conns \cup orphans)
                  /\ Conns \cap handed.conns = {}
                  /\ (Conns \cup handed.conns) \cap orphans = {})
BY DEF SourceSocketsOwned, SourceOwns

LEMMA CloseOwned ==
  ASSUME NEW table \in [Fd -> {"free", "std", "listen", "conn"}],
         NEW listeners, NEW conns, SourceOwns(table, listeners, conns),
         NEW s, s \subseteq listeners \cup conns
  PROVE  SourceOwns(Closed(table, s), listeners \ s, conns \ s)
<1>1. 0 \in Fd
  BY AfSocketSourceAssumption DEF Fd
<1>2. 0 \notin s
  BY <1>1 DEF SourceOwns
<1>. QED
  BY <1>1, <1>2, ClosedIs DEF SourceOwns

LEMMA SourcePhaseStep ==
  ASSUME SourcePhase, SourceSocketsOwned, [AfSocketSourceNext]_source_vars
  PROVE  SourcePhase' /\ SourceSocketsOwned'
<1>0. /\ fds \in [Fd -> {"free", "std", "listen", "conn"}]
      /\ sd \in SocketDriver \cup {NoDriver} /\ old_sd \in SocketDriver \cup {NoDriver}
      /\ old_sd # NoDriver => sd = NoDriver
      /\ handed \in [listener : Fd \cup {NoFd}, conns : SUBSET Fd]
      /\ handed.conns \subseteq Fd /\ handed.listener \in Fd \cup {NoFd}
      /\ orphans \subseteq Fd /\ inherited \in Nat /\ unopened \in BOOLEAN
      /\ NoDriver \notin SocketDriver /\ NoFd \notin Fd
      /\ sd # NoDriver => handed = Nothing
      /\ ~unopened /\ sd # NoDriver => sd.listens
  BY AfSocketSourceAssumption DEF SourcePhase, AfSocketSourceTypeOK
<1>a. Cardinality(handed.conns) \in Nat
  BY <1>0, FdSetFinite
<1>b. ASSUME sd = NoDriver
      PROVE  Conns = {} /\ Listeners = {handed.listener} \ {NoFd}
  BY <1>b DEF Conns, Listeners
<1>1. CASE SdInitNew
  <2>1. /\ sd = NoDriver /\ old_sd' = NoDriver /\ handed' = Nothing
        /\ inherited' \in Nat /\ orphans' = orphans
    BY <1>a, <1>1 DEF SdInitNew, CountInherited
  <2>2. CASE InitListens(NewDriver) /\ UNCHANGED unopened
    BY <2>1, <2>2, NewDriverIs, InitListensStep
  <2>3. CASE InitWithout(NewDriver) /\ unopened' = TRUE
    <3>1. sd' \in SocketDriver /\ fds' = fds
      BY <1>0, <2>3, NewDriverIs, TookUpIs DEF InitWithout
    <3>2. SourcePhase'
      BY <1>0, <2>1, <2>3, <3>1, NothingIs DEF SourcePhase, AfSocketSourceTypeOK
    <3>. QED
      BY <2>3, <3>2 DEF SourceSocketsOwned
  <2>. QED
    BY <1>1, <2>2, <2>3 DEF SdInitNew
<1>2. CASE SdInitFails
  <2>. DEFINE s == {handed.listener} \ {NoFd}
  <2>1. /\ sd = NoDriver /\ sd' = NoDriver /\ old_sd' = old_sd
        /\ handed' = Nothing /\ orphans' = orphans \cup handed.conns
        /\ inherited' = inherited /\ unopened' = unopened
    BY <1>0, <1>2 DEF SdInitFails
  <2>2. fds' = Closed(fds, s)
    <3>1. CASE ListenerHanded
      BY <1>2, <3>1 DEF SdInitFails, InitFailsFds, ListenerHanded
    <3>2. CASE ~ListenerHanded
      <4>1. s = {} /\ fds' = fds
        BY <1>2, <3>2 DEF SdInitFails, InitFailsFds, ListenerHanded
      <4>2. Closed(fds, {}) = fds
        BY <1>0 DEF Closed
      <4>. QED
        BY <4>1, <4>2, Zenon
    <3>. QED
      BY <3>1, <3>2
  <2>3. fds' \in [Fd -> {"free", "std", "listen", "conn"}]
    BY <1>0, <2>2, ClosedIs
  <2>4. SourcePhase'
    BY <1>0, <2>1, <2>3, NothingIs DEF SourcePhase, AfSocketSourceTypeOK
  <2>5. Conns' = {} /\ Listeners' = {} /\ handed'.conns = {}
    BY <2>1, NothingIs DEF Conns, Listeners
  <2>6. ASSUME ~unopened
        PROVE  /\ SourceOwns(fds, s, handed.conns \cup orphans)
               /\ handed.conns \cap orphans = {}
    BY <1>b, <2>1, <2>6, OwnedIs
  <2>7. ASSUME ~unopened
        PROVE  SourceOwns(fds', {}, handed.conns \cup orphans)
    <3>1. SourceOwns(Closed(fds, s), s \ s, (handed.conns \cup orphans) \ s)
      BY <1>0, <2>6, <2>7, CloseOwned
    <3>2. s \ s = {} /\ (handed.conns \cup orphans) \ s = handed.conns \cup orphans
      BY <1>0, <2>6, <2>7 DEF SourceOwns
    <3>. QED
      BY <2>2, <3>1, <3>2
  <2>8. SourceSocketsOwned'
    BY <2>1, <2>5, <2>7 DEF SourceSocketsOwned, SourceOwns
  <2>. QED
    BY <2>4, <2>8
<1>3. CASE SdRevert
  <2>1. /\ sd = NoDriver /\ old_sd \in SocketDriver /\ old_sd' = NoDriver
        /\ handed' = Nothing /\ inherited' \in Nat /\ orphans' = orphans
    BY <1>0, <1>a, <1>3 DEF SdRevert, CountInherited
  <2>2. CASE InitListens(old_sd) /\ UNCHANGED unopened
    BY <2>1, <2>2, InitListensStep
  <2>3. CASE InitFailsFds /\ sd' = TookUp(old_sd) /\ unopened' = TRUE
    <3>1. sd' \in SocketDriver
      BY <1>0, <2>1, <2>3, TookUpIs
    <3>2. fds' \in [Fd -> {"free", "std", "listen", "conn"}]
      BY <1>0, <2>3, ClosedIs DEF InitFailsFds
    <3>3. SourcePhase'
      BY <1>0, <2>1, <2>3, <3>1, <3>2, NothingIs DEF SourcePhase, AfSocketSourceTypeOK
    <3>. QED
      BY <2>3, <3>3 DEF SourceSocketsOwned
  <2>. QED
    BY <1>3, <2>2, <2>3 DEF SdRevert
<1>4. CASE SdRemoved
  <2>. DEFINE s == handed.conns \cup ({handed.listener} \ {NoFd})
  <2>1. /\ sd = NoDriver /\ sd' = NoDriver /\ old_sd' = NoDriver
        /\ handed' = Nothing /\ orphans' = orphans /\ fds' = Closed(fds, s)
        /\ inherited' = inherited /\ unopened' = unopened
    BY <1>0, <1>4 DEF SdRemoved
  <2>2. fds' \in [Fd -> {"free", "std", "listen", "conn"}]
    BY <1>0, <2>1, ClosedIs
  <2>3. SourcePhase'
    BY <1>0, <2>1, <2>2, NothingIs DEF SourcePhase, AfSocketSourceTypeOK
  <2>4. Conns' = {} /\ Listeners' = {} /\ handed'.conns = {}
    BY <2>1, NothingIs DEF Conns, Listeners
  <2>5. ASSUME ~unopened
        PROVE  SourceOwns(fds', {}, orphans)
    <3>1. /\ SourceOwns(fds, {handed.listener} \ {NoFd}, handed.conns \cup orphans)
          /\ handed.conns \cap orphans = {}
      BY <1>b, <2>1, <2>5, OwnedIs
    <3>2. SourceOwns(Closed(fds, s), ({handed.listener} \ {NoFd}) \ s,
                     (handed.conns \cup orphans) \ s)
      BY <1>0, <3>1, CloseOwned
    <3>3. /\ ({handed.listener} \ {NoFd}) \ s = {}
          /\ (handed.conns \cup orphans) \ s = orphans
      BY <1>0, <3>1 DEF SourceOwns
    <3>. QED
      BY <2>1, <3>2, <3>3
  <2>6. SourceSocketsOwned'
    BY <2>1, <2>4, <2>5 DEF SourceSocketsOwned, SourceOwns
  <2>. QED
    BY <2>3, <2>6
<1>5. CASE SdDeinit
  <2>1. /\ sd \in SocketDriver /\ sd' = NoDriver
        /\ old_sd' = [sd EXCEPT !.conns = {}, !.listens = FALSE]
        /\ handed = Nothing /\ sd.fd \in Fd /\ sd.conns \subseteq Fd
        /\ orphans' = orphans /\ inherited' = inherited /\ unopened' = unopened
    BY <1>0, <1>5 DEF SdDeinit, SocketDriver
  <2>2. old_sd' \in SocketDriver
    BY <2>1 DEF SocketDriver
  <2>3. ASSUME ~unopened
        PROVE  /\ SourceOwns(fds, {sd.fd}, sd.conns \cup orphans)
               /\ sd.conns \cap orphans = {}
    <3>1. Listeners = {sd.fd} /\ Conns = sd.conns /\ handed.conns = {}
      BY <1>0, <2>1, <2>3, NothingIs DEF Listeners, Conns
    <3>. QED
      BY <2>3, <3>1, OwnedIs
  <2>4. Conns' = {}
    BY <2>1 DEF Conns
  <2>5. CASE keep_alive
    <3>1. /\ handed' = [listener |-> sd.fd, conns |-> sd.conns] /\ fds' = fds
      BY <1>5, <2>5 DEF SdDeinit, HandedOpen
    <3>2. /\ handed'.listener = sd.fd /\ handed'.conns = sd.conns
          /\ handed' \in [listener : Fd \cup {NoFd}, conns : SUBSET Fd]
      BY <2>1, <3>1
    <3>3. SourcePhase'
      BY <1>0, <2>1, <2>2, <3>1, <3>2 DEF SourcePhase, AfSocketSourceTypeOK
    <3>4. Listeners' = {sd.fd}
      BY <1>0, <2>1, <3>2 DEF Listeners
    <3>5. SourceSocketsOwned'
      BY <2>1, <2>3, <2>4, <3>1, <3>2, <3>4 DEF SourceSocketsOwned, SourceOwns
    <3>. QED
      BY <3>3, <3>5
  <2>6. CASE ~keep_alive
    <3>. DEFINE s == sd.conns \cup {sd.fd}
    <3>1. fds' = Closed(fds, s) /\ handed' = Nothing
      BY <1>5, <2>1, <2>6 DEF SdDeinit
    <3>2. fds' \in [Fd -> {"free", "std", "listen", "conn"}]
      BY <1>0, <3>1, ClosedIs
    <3>3. SourcePhase'
      BY <1>0, <2>1, <2>2, <3>1, <3>2, NothingIs DEF SourcePhase, AfSocketSourceTypeOK
    <3>4. Listeners' = {} /\ handed'.conns = {}
      BY <2>1, <3>1, NothingIs DEF Listeners
    <3>5. ASSUME ~unopened
          PROVE  SourceOwns(fds', {}, orphans)
      <4>1. SourceOwns(Closed(fds, s), {sd.fd} \ s, (sd.conns \cup orphans) \ s)
        BY <1>0, <2>3, <3>5, CloseOwned
      <4>2. {sd.fd} \ s = {} /\ (sd.conns \cup orphans) \ s = orphans
        BY <2>1, <2>3, <3>5 DEF SourceOwns
      <4>. QED
        BY <3>1, <4>1, <4>2
    <3>6. SourceSocketsOwned'
      BY <2>1, <2>4, <3>4, <3>5 DEF SourceSocketsOwned, SourceOwns
    <3>. QED
      BY <3>3, <3>6
  <2>. QED
    BY <2>5, <2>6
<1>6. CASE Accept
  <2>. DEFINE m == Min(FreeFds(fds))
  <2>1. /\ sd \in SocketDriver /\ FreeFds(fds) # {} /\ fds' = Allocated(fds, "conn")
        /\ sd' = [sd EXCEPT !.conns = @ \cup {m}, !.num_connections = @ + 1]
        /\ handed = Nothing /\ handed' = Nothing /\ old_sd' = old_sd
        /\ orphans' = orphans /\ inherited' = inherited /\ unopened' = unopened
    BY <1>0, <1>6 DEF Accept
  <2>2. /\ m \in Fd /\ fds[m] = "free"
        /\ fds' \in [Fd -> {"free", "std", "listen", "conn"}]
        /\ \A f \in Fd : fds'[f] = IF f = m THEN "conn" ELSE fds[f]
    <3>1. "conn" \in {"listen", "conn"}
      OBVIOUS
    <3>. QED
      BY <1>0, <2>1, <3>1, AllocatedIs
  <2>. HIDE DEF m
  <2>3. /\ sd' \in SocketDriver /\ sd'.fd = sd.fd /\ sd'.listens = sd.listens
        /\ sd'.conns = sd.conns \cup {m}
    <3>. DEFINE s == sd.conns \cup {m}
                n == sd.num_connections + 1
    <3>1. s \in SUBSET Fd /\ n \in Int
      BY <2>1, <2>2 DEF SocketDriver
    <3>2. sd' = [sd EXCEPT !.conns = s, !.num_connections = n]
      BY <2>1
    <3>. HIDE DEF s, n
    <3>3. WithConns([sd EXCEPT !.conns = s, !.num_connections = n], sd, s)
      <4>1. sd \in SocketDriver
        BY <2>1
      <4>. QED
        BY <3>1, <4>1, ConnsSet
    <3>4. WithConns(sd', sd, s)
      BY <3>2, <3>3
    <3>. QED
      BY <3>4 DEF s, WithConns
  <2>4. SourcePhase'
    BY <1>0, <2>1, <2>2, <2>3 DEF SourcePhase, AfSocketSourceTypeOK
  <2>5. /\ Listeners' = Listeners /\ Conns = sd.conns /\ Conns' = sd.conns \cup {m}
        /\ handed.conns = {} /\ handed'.conns = {}
    BY <1>0, <2>1, <2>3, NothingIs DEF Listeners, Conns
  <2>6. ASSUME ~unopened
        PROVE  /\ SourceOwns(fds', Listeners, (sd.conns \cup {m}) \cup orphans)
               /\ (sd.conns \cup {m}) \cap orphans = {}
    <3>1. /\ SourceOwns(fds, Listeners, sd.conns \cup orphans)
          /\ sd.conns \cap orphans = {}
      BY <2>5, <2>6, OwnedIs
    <3>2. 0 \in Fd
      BY AfSocketSourceAssumption DEF Fd
    <3>. QED
      BY <2>2, <3>1, <3>2 DEF SourceOwns
  <2>7. SourceSocketsOwned'
    BY <2>1, <2>5, <2>6 DEF SourceSocketsOwned, SourceOwns
  <2>. QED
    BY <2>4, <2>7
<1>7. ASSUME NEW c \in Fd, CloseConnection(c)
      PROVE  SourcePhase' /\ SourceSocketsOwned'
  <2>1. /\ sd \in SocketDriver /\ c \in sd.conns /\ fds' = Closed(fds, {c})
        /\ sd' = [sd EXCEPT !.conns = @ \ {c}, !.num_connections = @ - 1]
        /\ handed = Nothing /\ handed' = Nothing /\ old_sd' = old_sd
        /\ orphans' = orphans /\ inherited' = inherited /\ unopened' = unopened
    BY <1>0, <1>7 DEF CloseConnection
  <2>2. /\ sd' \in SocketDriver /\ sd'.fd = sd.fd /\ sd'.listens = sd.listens
        /\ sd'.conns = sd.conns \ {c}
    <3>. DEFINE s == sd.conns \ {c}
                n == sd.num_connections - 1
    <3>1. s \in SUBSET Fd /\ n \in Int
      BY <2>1 DEF SocketDriver
    <3>2. sd' = [sd EXCEPT !.conns = s, !.num_connections = n]
      BY <2>1
    <3>. HIDE DEF s, n
    <3>3. WithConns([sd EXCEPT !.conns = s, !.num_connections = n], sd, s)
      <4>1. sd \in SocketDriver
        BY <2>1
      <4>. QED
        BY <3>1, <4>1, ConnsSet
    <3>4. WithConns(sd', sd, s)
      BY <3>2, <3>3
    <3>. QED
      BY <3>4 DEF s, WithConns
  <2>3. fds' \in [Fd -> {"free", "std", "listen", "conn"}]
    BY <1>0, <2>1, ClosedIs
  <2>4. SourcePhase'
    BY <1>0, <2>1, <2>2, <2>3 DEF SourcePhase, AfSocketSourceTypeOK
  <2>5. /\ Listeners' = Listeners /\ Conns = sd.conns /\ Conns' = sd.conns \ {c}
        /\ handed.conns = {} /\ handed'.conns = {}
    BY <1>0, <2>1, <2>2, NothingIs DEF Listeners, Conns
  <2>6. ASSUME ~unopened
        PROVE  /\ SourceOwns(fds', Listeners, (sd.conns \ {c}) \cup orphans)
               /\ (sd.conns \ {c}) \cap orphans = {}
    <3>1. /\ SourceOwns(fds, Listeners, sd.conns \cup orphans)
          /\ sd.conns \cap orphans = {}
      BY <2>5, <2>6, OwnedIs
    <3>2. SourceOwns(Closed(fds, {c}), Listeners \ {c}, (sd.conns \cup orphans) \ {c})
      BY <1>0, <2>1, <3>1, CloseOwned
    <3>3. /\ Listeners \ {c} = Listeners
          /\ (sd.conns \cup orphans) \ {c} = (sd.conns \ {c}) \cup orphans
      BY <2>1, <3>1 DEF SourceOwns
    <3>. QED
      BY <2>1, <3>1, <3>2, <3>3
  <2>7. SourceSocketsOwned'
    BY <2>1, <2>5, <2>6 DEF SourceSocketsOwned, SourceOwns
  <2>. QED
    BY <2>4, <2>7
<1>8. ASSUME NEW c \in Fd, CloseOrphan(c)
      PROVE  SourcePhase' /\ SourceSocketsOwned'
  <2>1. /\ c \in orphans /\ fds' = Closed(fds, {c}) /\ orphans' = orphans \ {c}
        /\ sd' = sd /\ old_sd' = old_sd /\ handed' = handed
        /\ inherited' = inherited /\ unopened' = unopened
    BY <1>8 DEF CloseOrphan
  <2>2. fds' \in [Fd -> {"free", "std", "listen", "conn"}]
    BY <1>0, <2>1, ClosedIs
  <2>3. SourcePhase'
    BY <1>0, <2>1, <2>2 DEF SourcePhase, AfSocketSourceTypeOK
  <2>4. Listeners' = Listeners /\ Conns' = Conns
    BY <2>1 DEF Listeners, Conns
  <2>. DEFINE o == Conns \cup handed.conns
  <2>5. ASSUME ~unopened
        PROVE  /\ SourceOwns(fds', Listeners, o \cup (orphans \ {c}))
               /\ Conns \cap handed.conns = {} /\ o \cap (orphans \ {c}) = {}
    <3>1. /\ SourceOwns(fds, Listeners, o \cup orphans)
          /\ Conns \cap handed.conns = {} /\ o \cap orphans = {}
      BY <2>5, OwnedIs
    <3>2. SourceOwns(Closed(fds, {c}), Listeners \ {c}, (o \cup orphans) \ {c})
      BY <1>0, <2>1, <3>1, CloseOwned
    <3>3. /\ Listeners \ {c} = Listeners
          /\ (o \cup orphans) \ {c} = o \cup (orphans \ {c})
      BY <2>1, <3>1 DEF SourceOwns
    <3>. QED
      BY <2>1, <3>1, <3>2, <3>3
  <2>6. SourceSocketsOwned'
    BY <2>1, <2>4, <2>5 DEF SourceSocketsOwned, SourceOwns
  <2>. QED
    BY <2>3, <2>6
<1>9. CASE UNCHANGED source_vars
  BY <1>9 DEF source_vars, SourcePhase, AfSocketSourceTypeOK, SourceSocketsOwned,
              Listeners, Conns
<1>. QED
  BY <1>1, <1>2, <1>3, <1>4, <1>5, <1>6, <1>7, <1>8, <1>9 DEF AfSocketSourceNext

LEMMA SourceLimitsStep ==
  ASSUME SourcePhase, SourceLimits, [AfSocketSourceNext]_source_vars
  PROVE  SourceLimits'
<1>0. /\ sd \in SocketDriver \cup {NoDriver} /\ old_sd \in SocketDriver \cup {NoDriver}
      /\ old_sd # NoDriver => sd = NoDriver
      /\ handed.conns \subseteq Fd /\ handed.listener \in Fd \cup {NoFd}
      /\ inherited \in Nat /\ MaxConnections \in Nat /\ NoDriver \notin SocketDriver
      /\ fds \in [Fd -> {"free", "std", "listen", "conn"}]
  BY AfSocketSourceAssumption DEF SourcePhase, AfSocketSourceTypeOK
<1>a. Cardinality(handed.conns) \in Nat
  BY <1>0, FdSetFinite
<1>b. \A d \in SocketDriver :
        /\ d.conns \subseteq Fd /\ d.num_connections \in Int
        /\ IsFiniteSet(d.conns) /\ Cardinality(d.conns) \in Nat
  BY FdSetFinite DEF SocketDriver
<1>c. ASSUME NEW d \in SocketDriver, InitListens(d) \/ sd' = TookUp(d)
      PROVE  /\ sd' \in SocketDriver /\ sd'.conns = handed.conns
             /\ sd'.num_connections = d.num_connections
  <2>1. CASE sd' = TookUp(d)
    BY <1>0, <2>1, TookUpIs
  <2>2. CASE InitListens(d)
    <3>1. PICK f \in Fd : sd' = Listens(d, f)
      <4>1. CASE ListenerHanded
        BY <1>0, <2>2, <4>1 DEF InitListens, ListenerHanded
      <4>2. CASE ~ListenerHanded
        <5>1. FreeFds(fds) # {} /\ sd' = Listens(d, Min(FreeFds(fds)))
          BY <2>2, <4>2 DEF InitListens
        <5>2. Min(FreeFds(fds)) \in Fd
          BY <5>1, LowestFree, Zenon DEF FreeFds
        <5>. QED
          BY <5>1, <5>2
      <4>. QED
        BY <4>1, <4>2
    <3>. QED
      BY <1>0, <3>1, ListensIs
  <2>. QED
    BY <1>c, <2>1, <2>2
<1>1. CASE SdInitNew
  <2>1. /\ sd' \in SocketDriver /\ sd'.conns = handed.conns
        /\ sd'.num_connections = 0
    BY <1>1, <1>c, NewDriverIs DEF SdInitNew, InitWithout
  <2>2. inherited' = Cardinality(handed.conns) /\ old_sd' = NoDriver
    BY <1>1, <1>a DEF SdInitNew, CountInherited
  <2>. QED
    BY <1>0, <1>a, <2>1, <2>2 DEF SourceLimits
<1>2. CASE SdInitFails \/ SdRemoved
  BY <1>0, <1>2 DEF SdInitFails, SdRemoved, SourceLimits
<1>3. CASE SdRevert
  <2>1. old_sd \in SocketDriver
    BY <1>0, <1>3 DEF SdRevert
  <2>2. /\ sd' \in SocketDriver /\ sd'.conns = handed.conns
        /\ sd'.num_connections = old_sd.num_connections
    BY <1>3, <1>c, <2>1 DEF SdRevert
  <2>3. inherited' = inherited + Cardinality(handed.conns) /\ old_sd' = NoDriver
    BY <1>3 DEF SdRevert, CountInherited
  <2>4. /\ old_sd.num_connections <= MaxConnections
        /\ 0 <= old_sd.num_connections + inherited
        /\ old_sd.num_connections \in Int
    BY <1>0, <1>b, <2>1 DEF SourceLimits
  <2>. QED
    BY <1>0, <1>a, <2>2, <2>3, <2>4 DEF SourceLimits
<1>4. CASE SdDeinit
  <2>1. /\ sd \in SocketDriver /\ sd' = NoDriver /\ inherited' = inherited
        /\ old_sd' = [sd EXCEPT !.conns = {}, !.listens = FALSE]
    BY <1>0, <1>4 DEF SdDeinit
  <2>2. old_sd'.num_connections = sd.num_connections
    BY <2>1 DEF SocketDriver
  <2>3. /\ sd.num_connections <= MaxConnections /\ sd.num_connections \in Int
        /\ Cardinality(sd.conns) <= sd.num_connections + inherited
        /\ Cardinality(sd.conns) \in Nat
    BY <1>0, <1>b, <2>1 DEF SourceLimits
  <2>. QED
    BY <1>0, <2>1, <2>2, <2>3 DEF SourceLimits
<1>5. CASE Accept
  <2>. DEFINE m == Min(FreeFds(fds))
  <2>1. /\ sd \in SocketDriver /\ old_sd' = old_sd /\ inherited' = inherited
        /\ sd.num_connections < MaxConnections
        /\ sd' = [sd EXCEPT !.conns = @ \cup {m}, !.num_connections = @ + 1]
    BY <1>0, <1>5 DEF Accept, Allowed
  <2>. HIDE DEF m
  <2>2. sd'.conns = sd.conns \cup {m} /\ sd'.num_connections = sd.num_connections + 1
    BY <2>1 DEF SocketDriver
  <2>3. /\ Cardinality(sd'.conns) \in {Cardinality(sd.conns), Cardinality(sd.conns) + 1}
        /\ Cardinality(sd.conns) \in Nat /\ sd.num_connections \in Int
    <3>1. Cardinality(sd.conns \cup {m}) =
            IF m \in sd.conns THEN Cardinality(sd.conns)
            ELSE Cardinality(sd.conns) + 1
      BY <1>b, <2>1, FS_AddElement, Zenon
    <3>. QED
      BY <1>b, <2>1, <2>2, <3>1
  <2>. QED
    BY <1>0, <2>1, <2>2, <2>3 DEF SourceLimits
<1>6. ASSUME NEW c \in Fd, CloseConnection(c)
      PROVE  SourceLimits'
  <2>1. /\ sd \in SocketDriver /\ old_sd' = old_sd /\ inherited' = inherited
        /\ c \in sd.conns
        /\ sd' = [sd EXCEPT !.conns = @ \ {c}, !.num_connections = @ - 1]
    BY <1>0, <1>6 DEF CloseConnection
  <2>2. sd'.conns = sd.conns \ {c} /\ sd'.num_connections = sd.num_connections - 1
    BY <2>1 DEF SocketDriver
  <2>3. /\ Cardinality(sd'.conns) = Cardinality(sd.conns) - 1
        /\ Cardinality(sd.conns) \in Nat /\ sd.num_connections \in Int
    BY <1>b, <2>1, <2>2, FS_RemoveElement
  <2>. QED
    BY <1>0, <2>1, <2>2, <2>3 DEF SourceLimits
<1>7. ASSUME NEW c \in Fd, CloseOrphan(c)
      PROVE  SourceLimits'
  BY <1>7 DEF CloseOrphan, SourceLimits
<1>8. CASE UNCHANGED source_vars
  BY <1>8 DEF source_vars, SourceLimits
<1>. QED
  BY <1>1, <1>2, <1>3, <1>4, <1>5, <1>6, <1>7, <1>8 DEF AfSocketSourceNext

\* For any limits and numbers of descriptors: over reloads that succeed, fail
\* or drop the source, every socket has one owner, as SourceSocketsOwned says.
THEOREM SourceOwnsItsSockets == AfSocketSourceSpec => []SourceSocketsOwned
<1>1. /\ AfSocketSourceInit => SourcePhase /\ SourceSocketsOwned
      /\ SourcePhase /\ SourceSocketsOwned /\ [AfSocketSourceNext]_source_vars
           => SourcePhase' /\ SourceSocketsOwned'
  BY SourceStart, SourcePhaseStep
<1>. QED
  BY <1>1, PTL DEF AfSocketSourceSpec

\* For any limit: a source has no more connections than the limit and those
\* that it took up without counting them.
THEOREM ConnectionsAreLimited == AfSocketSourceSpec => []ConnectionsLimited
<1>. DEFINE Inv == SourcePhase /\ SourceSocketsOwned /\ SourceLimits
<1>1. AfSocketSourceInit => Inv
  BY SourceStart
<1>2. Inv /\ [AfSocketSourceNext]_source_vars => Inv'
  BY SourcePhaseStep, SourceLimitsStep
<1>3. Inv => ConnectionsLimited
  <2>. SUFFICES ASSUME SourcePhase, SourceLimits, sd # NoDriver
                PROVE  Cardinality(sd.conns) <= MaxConnections + inherited
    BY DEF ConnectionsLimited
  <2>1. /\ sd.num_connections \in Int /\ sd.conns \subseteq Fd /\ inherited \in Nat
        /\ MaxConnections \in Nat
    BY AfSocketSourceAssumption DEF SourcePhase, AfSocketSourceTypeOK, SocketDriver
  <2>2. Cardinality(sd.conns) \in Nat
    BY <2>1, FdSetFinite
  <2>. QED
    BY <2>1, <2>2 DEF SourceLimits
<1>. QED
  BY <1>1, <1>2, <1>3, PTL DEF AfSocketSourceSpec

-----------------------------------------------------------------------------
(***************************************************************************)
(* AfFileSource.  What was read of a file is what lies before a position   *)
(* that somebody has: the reader, or the persistent value when no driver   *)
(* runs.  The file at the path is not opened at its start but when nothing *)
(* was read of it; one that was moved away does not come back.             *)
(***************************************************************************)

\* Nothing of i after the position was made part of a message.
UnreadAfter(i, position) ==
  \A b \in 1..MaxSize : b > position => got[i][b] = 0

Remembered(i) == ~sd_running /\ curpos # NoValue /\ last = i
IsRead(i) == reader # NoReader /\ reader.fd = i

FilePositions(i) ==
  /\ \A b \in 1..MaxSize : got[i][b] > 0 => b <= size[i]
  /\ i \notin ignored =>
       /\ \A b \in 1..MaxSize : got[i][b] <= 1
       /\ IsRead(i) => UnreadAfter(i, First)
       /\ Remembered(i) => curpos \in 0..size[i] /\ UnreadAfter(i, curpos)
       /\ path = i => UnreadAfter(i, 0) \/ IsRead(i) \/ Remembered(i)

ReadOnceInv ==
  /\ AfFileSourceTypeOK
  /\ sd_running => curpos = NoValue
  /\ \A i \in Inode : FilePositions(i)

\* The line that begins after n bytes ends further on.
LEMMA LineIsLonger ==
  ASSUME NEW n \in Nat
  PROVE  Complete(n) + LineLength \in Nat /\ n < Complete(n) + LineLength
<1>. DEFINE l == LineLength
            q == n \div l
<1>1. l \in Nat /\ l > 0
  BY AfFileSourceAssumption
<1>. HIDE DEF l
<1>2. q \in Nat /\ n < q * l + l
  BY <1>1
<1>. QED
  BY <1>1, <1>2 DEF Complete, l

LEMMA ReadOnceStart == AfFileSourceInit => ReadOnceInv
<1>. SUFFICES ASSUME AfFileSourceInit
              PROVE  ReadOnceInv
  OBVIOUS
<1>1. \A i \in Inode, b \in 1..MaxSize : got[i][b] = 0
  BY DEF AfFileSourceInit
<1>2. AfFileSourceTypeOK
  <2>1. 0 \in 0..MaxSize /\ 0 \in 0..2
    BY AfFileSourceAssumption
  <2>. QED
    BY <2>1 DEF AfFileSourceInit, AfFileSourceTypeOK
<1>3. ASSUME NEW i \in Inode
      PROVE  FilePositions(i)
  <2>1. ~IsRead(i) /\ ~Remembered(i)
    BY DEF AfFileSourceInit, IsRead, Remembered
  <2>. QED
    BY <1>1, <2>1 DEF FilePositions, UnreadAfter
<1>. QED
  BY <1>2, <1>3 DEF ReadOnceInv, AfFileSourceInit

LEMMA OpenedIs ==
  ASSUME NEW fd \in Inode \cup {Missing}, NEW pos \in Nat
  PROVE  /\ Opened(fd, pos) \in FileReader /\ Opened(fd, pos) # NoReader
         /\ Opened(fd, pos).fd = fd /\ Opened(fd, pos).pos = pos
         /\ Opened(fd, pos).ofs = 0
BY AfFileSourceAssumption DEF Opened, FileReader

\* A reader is made for the file at the path, nothing of which was read after
\* its position.
LEMMA OpenStep ==
  ASSUME ReadOnceInv, NEW p \in Nat, path # Missing, p <= size[path],
         path \notin ignored => UnreadAfter(path, p),
         reader' = Opened(path, p), sd_running' = TRUE, curpos' = NoValue,
         UNCHANGED <<path, size, got, last, ignored>>
  PROVE  ReadOnceInv'
<1>0. /\ path \in Inode /\ AfFileSourceTypeOK /\ \A i \in Inode : FilePositions(i)
  BY DEF ReadOnceInv, AfFileSourceTypeOK
<1>1. /\ reader' \in FileReader /\ reader' # NoReader /\ reader'.fd = path
      /\ reader'.pos = p /\ reader'.ofs = 0
  BY <1>0, OpenedIs
<1>2. AfFileSourceTypeOK'
  BY <1>0, <1>1, AfFileSourceAssumption DEF AfFileSourceTypeOK
<1>3. First' = p
  BY <1>1 DEF First
<1>4. ASSUME NEW i \in Inode
      PROVE  FilePositions(i)'
  <2>1. ~Remembered(i)' /\ (IsRead(i)' <=> i = path)
    BY <1>1 DEF Remembered, IsRead
  <2>2. FilePositions(i)
    BY <1>0
  <2>. QED
    BY <1>3, <2>1, <2>2 DEF FilePositions, UnreadAfter
<1>. QED
  BY <1>2, <1>4 DEF ReadOnceInv

LEMMA ReadOnceStep == ReadOnceInv /\ [AfFileSourceNext]_sd_vars => ReadOnceInv'
<1>. SUFFICES ASSUME ReadOnceInv, [AfFileSourceNext]_sd_vars
              PROVE  ReadOnceInv'
  OBVIOUS
<1>0. /\ path \in Inode \cup {Missing} /\ size \in [Inode -> 0..MaxSize]
      /\ MaxSize \in Nat /\ Missing \notin Inode /\ sd_running \in BOOLEAN
      /\ reader \in FileReader \cup {NoReader} /\ NoReader \notin FileReader
      /\ curpos \in {NoValue} \cup (-1..MaxSize) /\ NoValue \notin Int
      /\ ~sd_running => reader = NoReader
      /\ sd_running => curpos = NoValue
      /\ got \in [Inode -> [1..MaxSize -> 0..2]]
      /\ last \in Inode \cup {Missing} /\ ignored \subseteq Inode \cup {Missing}
  BY AfFileSourceAssumption DEF ReadOnceInv, AfFileSourceTypeOK
<1>a. ASSUME reader # NoReader
      PROVE  /\ reader.fd \in Inode \cup {Missing} /\ reader.pos \in Nat /\ reader.ofs \in Nat
             /\ reader.ofs <= reader.pos
             /\ reader.fd \in Inode => reader.pos <= size[reader.fd]
             /\ reader.fd = Missing => reader.pos = 0
             /\ First \in Nat /\ First <= reader.pos
  <2>1. /\ reader.fd \in Inode \cup {Missing} /\ reader.pos \in Nat /\ reader.ofs \in Nat
    BY <1>0, <1>a DEF FileReader
  <2>2. /\ reader.ofs <= reader.pos
        /\ reader.fd \in Inode => reader.pos <= size[reader.fd]
        /\ reader.fd = Missing => reader.pos = 0
    BY <1>a DEF ReadOnceInv, AfFileSourceTypeOK
  <2>. QED
    BY <2>1, <2>2 DEF First
<1>b. AfFileSourceTypeOK /\ \A i \in Inode : FilePositions(i)
  BY DEF ReadOnceInv
<1>c. \A i \in Inode, b \in 1..MaxSize : got[i][b] \in 0..2
  BY <1>0
<1>1. ASSUME NEW j \in Inode, Grow(j)
      PROVE  ReadOnceInv'
  <2>1. /\ size' = [size EXCEPT ![j] = @ + 1] /\ size[j] < MaxSize
        /\ UNCHANGED <<path, sd_running, reader, curpos, got, last, ignored>>
    BY <1>1 DEF Grow
  <2>2. /\ size' \in [Inode -> 0..MaxSize]
        /\ \A i \in Inode : size[i] <= size'[i] /\ size[i] \in Nat /\ size'[i] \in Nat
    BY <1>0, <2>1
  <2>3. AfFileSourceTypeOK'
    <3>1. reader # NoReader /\ reader.fd \in Inode => reader.pos <= size'[reader.fd]
      BY <1>a, <2>2
    <3>. QED
      BY <1>0, <1>b, <2>1, <2>2, <3>1 DEF AfFileSourceTypeOK
  <2>4. ASSUME NEW i \in Inode
        PROVE  FilePositions(i)'
    <3>1. /\ IsRead(i)' = IsRead(i) /\ Remembered(i)' = Remembered(i) /\ First' = First
      BY <2>1 DEF IsRead, Remembered, First
    <3>2. \A p : UnreadAfter(i, p)' = UnreadAfter(i, p)
      BY <2>1 DEF UnreadAfter
    <3>3. FilePositions(i)
      BY <1>b
    <3>4. \A b \in 1..MaxSize : got'[i][b] > 0 => b <= size'[i]
      BY <2>1, <2>2, <3>3 DEF FilePositions
    <3>5. curpos \in 0..size[i] => curpos' \in 0..size'[i]
      BY <2>1, <2>2
    <3>. QED
      BY <2>1, <3>1, <3>2, <3>3, <3>4, <3>5 DEF FilePositions, UnreadAfter
  <2>. QED
    BY <1>0, <2>1, <2>3, <2>4 DEF ReadOnceInv
<1>2. CASE Rotate
  <2>1. /\ path' \in {i \in Inode : size[i] = 0} \cup {Missing}
        /\ UNCHANGED <<size, sd_running, reader, curpos, got, last, ignored>>
    BY <1>2 DEF Rotate
  <2>2. AfFileSourceTypeOK'
    BY <1>b, <2>1 DEF AfFileSourceTypeOK
  <2>3. ASSUME NEW i \in Inode
        PROVE  FilePositions(i)'
    <3>1. FilePositions(i)
      BY <1>b
    <3>2. path' = i => UnreadAfter(i, 0)
      <4>1. SUFFICES ASSUME path' = i, NEW b \in 1..MaxSize
                     PROVE  got[i][b] = 0
        BY DEF UnreadAfter
      <4>2. size[i] = 0
        BY <1>0, <2>1, <4>1
      <4>. QED
        BY <1>c, <3>1, <4>2 DEF FilePositions
    <3>. QED
      BY <2>1, <3>1, <3>2 DEF FilePositions, UnreadAfter, IsRead, Remembered, First
  <2>. QED
    BY <1>0, <2>1, <2>2, <2>3 DEF ReadOnceInv
<1>3. CASE SdInit
  <2>0. /\ ~sd_running /\ sd_running' = TRUE /\ curpos' = NoValue
        /\ UNCHANGED <<path, size, got, last>> /\ reader = NoReader
    BY <1>0, <1>3 DEF SdInit, disk
  <2>1. CASE InitOpened
    <3>. DEFINE p == IF curpos = NoValue THEN 0 ELSE SetPos(path, curpos)
    <3>1. path # Missing /\ reader' = Opened(path, p) /\ ignored' = ignored
      BY <2>1 DEF InitOpened
    <3>2. path \in Inode /\ size[path] \in Nat /\ FilePositions(path)
      BY <1>0, <1>b, <3>1
    <3>3. p \in Nat /\ p <= size[path]
      BY <1>0, <3>2 DEF SetPos
    <3>4. ASSUME path \notin ignored
          PROVE  UnreadAfter(path, p)
      <4>1. UnreadAfter(path, 0) \/ Remembered(path)
        BY <2>0, <3>2, <3>4 DEF FilePositions, IsRead
      <4>2. CASE UnreadAfter(path, 0)
        BY <3>3, <4>2 DEF UnreadAfter
      <4>3. CASE Remembered(path)
        <5>1. curpos \in 0..size[path] /\ UnreadAfter(path, curpos) /\ curpos # NoValue
          BY <3>2, <3>4, <4>3 DEF FilePositions, Remembered
        <5>2. p = curpos
          BY <3>2, <5>1 DEF SetPos
        <5>. QED
          BY <5>1, <5>2
      <4>. QED
        BY <4>1, <4>2, <4>3
    <3>. HIDE DEF p
    <3>. QED
      BY <2>0, <3>1, <3>3, <3>4, OpenStep
  <2>2. CASE InitDeferred
    <3>1. /\ reader' = Opened(Missing, 0)
          /\ ignored' = IF curpos = NoValue THEN ignored ELSE ignored \cup {last}
      BY <2>2 DEF InitDeferred
    <3>2. /\ reader' \in FileReader /\ reader' # NoReader /\ reader'.fd = Missing
          /\ reader'.pos = 0 /\ reader'.ofs = 0
      BY <3>1, OpenedIs
    <3>3. AfFileSourceTypeOK'
      BY <1>0, <1>b, <2>0, <3>1, <3>2 DEF AfFileSourceTypeOK
    <3>4. ASSUME NEW i \in Inode
          PROVE  FilePositions(i)'
      <4>1. ~IsRead(i)' /\ ~Remembered(i)' /\ ~IsRead(i)
        BY <1>0, <2>0, <3>2 DEF IsRead, Remembered
      <4>2. i \notin ignored' => i \notin ignored /\ ~Remembered(i)
        BY <3>1 DEF Remembered
      <4>3. FilePositions(i)
        BY <1>b
      <4>. QED
        BY <2>0, <4>1, <4>2, <4>3 DEF FilePositions, UnreadAfter
    <3>. QED
      BY <2>0, <3>3, <3>4 DEF ReadOnceInv
  <2>. QED
    BY <1>3, <2>1, <2>2 DEF SdInit
<1>4. CASE FileSdDeinit
  <2>1. /\ sd_running /\ sd_running' = FALSE /\ reader' = NoReader
        /\ UNCHANGED <<path, size, got, ignored>> /\ curpos = NoValue
        /\ IF reader # NoReader THEN curpos' = GetPos /\ last' = reader.fd
           ELSE curpos' = curpos /\ last' = last
    BY <1>0, <1>4 DEF FileSdDeinit, disk
  <2>2. reader # NoReader =>
          /\ reader.fd = Missing => curpos' = -1
          /\ reader.fd \in Inode => curpos' = First /\ First \in 0..size[reader.fd]
    <3>. SUFFICES ASSUME reader # NoReader
                  PROVE  /\ reader.fd = Missing => curpos' = -1
                         /\ reader.fd \in Inode =>
                              curpos' = First /\ First \in 0..size[reader.fd]
      OBVIOUS
    <3>1. reader.fd \in Inode => First \in 0..size[reader.fd]
      BY <1>0, <1>a
    <3>. QED
      BY <1>0, <2>1, <3>1 DEF GetPos, First
  <2>3. /\ curpos' \in {NoValue} \cup (-1..MaxSize) /\ last' \in Inode \cup {Missing}
        /\ reader # NoReader => curpos' # NoValue
    <3>1. CASE reader = NoReader
      BY <1>0, <2>1, <3>1
    <3>2. CASE reader # NoReader
      <4>1. \A i \in Inode : size[i] <= MaxSize /\ size[i] \in Nat
        BY <1>0
      <4>. QED
        BY <1>0, <1>a, <2>1, <2>2, <3>2, <4>1
    <3>. QED
      BY <3>1, <3>2
  <2>4. AfFileSourceTypeOK'
    BY <1>0, <2>1, <2>3 DEF AfFileSourceTypeOK
  <2>5. ASSUME NEW i \in Inode
        PROVE  FilePositions(i)'
    <3>1. FilePositions(i)
      BY <1>b
    <3>2. ~IsRead(i)' /\ ~Remembered(i)
      BY <2>1 DEF IsRead, Remembered
    <3>3. CASE IsRead(i)
      <4>1. /\ reader # NoReader /\ reader.fd = i /\ curpos' = First
            /\ First \in 0..size[i] /\ last' = i /\ curpos' # NoValue
        BY <2>1, <2>2, <2>3, <3>3 DEF IsRead
      <4>2. Remembered(i)'
        BY <2>1, <4>1 DEF Remembered
      <4>. QED
        BY <2>1, <3>1, <3>2, <3>3, <4>1, <4>2 DEF FilePositions, UnreadAfter
    <3>4. CASE ~IsRead(i)
      <4>1. ~Remembered(i)'
        <5>1. CASE reader = NoReader
          BY <2>1, <5>1 DEF Remembered
        <5>2. CASE reader # NoReader
          BY <2>1, <3>4, <5>2 DEF Remembered, IsRead
        <5>. QED
          BY <5>1, <5>2
      <4>. QED
        BY <2>1, <3>1, <3>2, <3>4, <4>1 DEF FilePositions, UnreadAfter
    <3>. QED
      BY <3>3, <3>4
  <2>. QED
    BY <2>1, <2>4, <2>5 DEF ReadOnceInv
<1>5. CASE DeliverLine
  <2>. DEFINE j == reader.fd
              e == LineEnd
              g == [b \in 1..MaxSize |-> IF b \in (First + 1)..e THEN Twice(got[j][b])
                                         ELSE got[j][b]]
  <2>1. /\ reader # NoReader /\ reader.pos >= e
        /\ reader' = [reader EXCEPT !.ofs = reader.pos - e]
        /\ UNCHANGED <<path, size, sd_running, curpos, last, ignored>>
    BY <1>5 DEF DeliverLine, Buffered, disk
  <2>2. e \in Nat /\ First < e
    BY <1>a, <2>1, LineIsLonger DEF LineEnd
  <2>3. j \in Inode /\ reader.pos <= size[j] /\ reader.pos \in Nat
    BY <1>a, <2>1, <2>2
  <2>4. got' = [got EXCEPT ![j] = g]
    <3>1. DOMAIN got[j] = 1..MaxSize
      BY <1>0, <2>3
    <3>. QED
      BY <1>5, <3>1 DEF DeliverLine
  <2>5. /\ reader' \in FileReader /\ reader' # NoReader /\ reader'.fd = j
        /\ reader'.pos = reader.pos /\ reader'.ofs = reader.pos - e
        /\ reader'.ofs \in Nat
    <3>1. reader \in FileReader
      BY <1>0, <2>1
    <3>. DEFINE o == reader.pos - e
    <3>2. o \in Nat /\ reader' = [reader EXCEPT !.ofs = o]
      BY <2>1, <2>2, <2>3
    <3>. HIDE DEF o
    <3>3. /\ reader' \in FileReader /\ reader'.fd = j
          /\ reader'.pos = reader.pos /\ reader'.ofs = o
      BY <3>1, <3>2 DEF FileReader
    <3>. QED
      BY <1>0, <3>2, <3>3 DEF o
  <2>6. First' = e
    BY <2>2, <2>3, <2>5 DEF First
  <2>7. /\ g \in [1..MaxSize -> 0..2]
        /\ \A b \in 1..MaxSize :
             g[b] = IF b > First /\ b <= e THEN Twice(got[j][b]) ELSE got[j][b]
    <3>1. \A n \in 0..2 : Twice(n) \in 0..2
      BY DEF Twice
    <3>2. \A b \in 1..MaxSize : b \in (First + 1)..e <=> b > First /\ b <= e
      BY <1>a, <2>1, <2>2
    <3>. QED
      BY <1>c, <2>3, <3>1, <3>2
  <2>. HIDE DEF g, e
  <2>8. /\ got' \in [Inode -> [1..MaxSize -> 0..2]]
        /\ got'[j] = g /\ \A i \in Inode : i # j => got'[i] = got[i]
    BY <1>0, <2>3, <2>4, <2>7
  <2>9. AfFileSourceTypeOK'
    BY <1>0, <1>b, <2>1, <2>2, <2>3, <2>5, <2>8 DEF AfFileSourceTypeOK
  <2>10. ASSUME NEW i \in Inode
         PROVE  FilePositions(i)'
    <3>1. FilePositions(i)
      BY <1>b
    <3>2. IsRead(i)' = IsRead(i) /\ Remembered(i)' = Remembered(i) /\ (IsRead(i) <=> i = j)
      BY <2>1, <2>5 DEF IsRead, Remembered
    <3>3. CASE i # j
      <4>1. got'[i] = got[i]
        BY <2>8, <3>3
      <4>. QED
        BY <2>1, <3>1, <3>2, <3>3, <4>1 DEF FilePositions, UnreadAfter
    <3>4. CASE i = j
      <4>1. IsRead(i) /\ ~Remembered(i)
        BY <1>0, <2>1, <3>2, <3>4 DEF Remembered
      <4>2. \A b \in 1..MaxSize :
              got'[i][b] = IF b > First /\ b <= e THEN Twice(got[i][b]) ELSE got[i][b]
        BY <2>7, <2>8, <3>4
      <4>3. First \in Nat /\ e \in Nat /\ First < e /\ e <= size[i] /\ size[i] \in Nat
        BY <1>0, <1>a, <2>1, <2>2, <2>3, <3>4
      <4>4. ASSUME NEW b \in 1..MaxSize
            PROVE  got'[i][b] > 0 => b <= size'[i]
        BY <1>c, <2>1, <3>1, <4>2, <4>3 DEF FilePositions
      <4>5. ASSUME i \notin ignored, NEW b \in 1..MaxSize
            PROVE  got'[i][b] <= 1 /\ (b > e => got'[i][b] = 0)
        <5>1. got[i][b] <= 1 /\ (b > First => got[i][b] = 0)
          BY <3>1, <4>1, <4>5 DEF FilePositions, UnreadAfter
        <5>. QED
          BY <4>2, <4>3, <5>1 DEF Twice
      <4>. QED
        BY <2>1, <2>6, <3>2, <4>1, <4>4, <4>5 DEF FilePositions, UnreadAfter
    <3>. QED
      BY <3>3, <3>4
  <2>. QED
    BY <1>0, <2>1, <2>9, <2>10 DEF ReadOnceInv
<1>6. CASE ReadFile
  <2>1. /\ reader # NoReader /\ reader.fd # Missing /\ reader.pos < size[reader.fd]
        /\ UNCHANGED <<path, size, sd_running, curpos, got, last, ignored>>
    BY <1>6 DEF ReadFile, HasInput, disk
  <2>2. PICK n \in 1..(size[reader.fd] - reader.pos) :
          reader' = [reader EXCEPT !.pos = @ + n, !.ofs = @ + n]
    BY <1>6, Zenon DEF ReadFile
  <2>3. /\ reader.fd \in Inode /\ size[reader.fd] \in Nat
        /\ reader.pos \in Nat /\ reader.ofs \in Nat /\ reader.ofs <= reader.pos
    BY <1>0, <1>a, <2>1
  <2>. DEFINE q == reader.pos + n
              o == reader.ofs + n
  <2>4. q \in Nat /\ o \in Nat /\ q <= size[reader.fd] /\ o <= q /\ q - o = First
    BY <2>2, <2>3 DEF First
  <2>5. reader' = [fd |-> reader.fd, pos |-> q, ofs |-> o]
    <3>1. reader \in FileReader
      BY <1>0, <2>1
    <3>2. reader' = [reader EXCEPT !.pos = q, !.ofs = o]
      <4>. DEFINE x == [reader EXCEPT !.pos = q]
      <4>1. x.ofs = reader.ofs
        BY <3>1 DEF FileReader
      <4>. QED
        BY <2>2
    <3>. HIDE DEF q, o
    <3>. QED
      BY <3>1, <3>2 DEF FileReader
  <2>. HIDE DEF q, o
  <2>6. /\ reader' \in FileReader /\ reader' # NoReader /\ reader'.fd = reader.fd
        /\ reader'.pos = q /\ reader'.ofs = o
    BY <1>0, <2>3, <2>4, <2>5 DEF FileReader
  <2>7. First' = First
    BY <2>4, <2>6 DEF First
  <2>8. AfFileSourceTypeOK'
    BY <1>0, <1>b, <2>1, <2>3, <2>4, <2>6 DEF AfFileSourceTypeOK
  <2>9. ASSUME NEW i \in Inode
        PROVE  FilePositions(i)'
    <3>1. IsRead(i)' = IsRead(i) /\ Remembered(i)' = Remembered(i)
      BY <2>1, <2>6 DEF IsRead, Remembered
    <3>2. FilePositions(i)
      BY <1>b
    <3>. QED
      BY <2>1, <2>7, <3>1, <3>2 DEF FilePositions, UnreadAfter
  <2>. QED
    BY <1>0, <2>1, <2>8, <2>9 DEF ReadOnceInv
<1>7. CASE FileMoved
  <2>1. /\ reader # NoReader /\ reader.fd # path /\ path # Missing
        /\ reader' = Opened(path, 0)
        /\ UNCHANGED <<path, size, sd_running, curpos, got, last, ignored>>
    BY <1>7 DEF FileMoved, Moved, disk
  <2>2. sd_running' = TRUE /\ curpos' = NoValue /\ path \in Inode /\ size[path] \in Nat
    BY <1>0, <2>1
  <2>3. path \notin ignored => UnreadAfter(path, 0)
    <3>1. ~IsRead(path) /\ ~Remembered(path) /\ FilePositions(path)
      BY <1>0, <1>b, <2>1, <2>2 DEF IsRead, Remembered
    <3>. QED
      BY <3>1 DEF FilePositions
  <2>4. 0 \in Nat /\ 0 <= size[path]
    BY <2>2
  <2>. QED
    BY <2>1, <2>2, <2>3, <2>4, OpenStep
<1>8. CASE FileMovedUnopened
  <2>1. /\ reader # NoReader /\ reader.fd # path /\ path # Missing
        /\ reader' = NoReader
        /\ UNCHANGED <<path, size, sd_running, curpos, got, last, ignored>>
    BY <1>8 DEF FileMovedUnopened, Moved, disk
  <2>2. AfFileSourceTypeOK'
    BY <1>b, <2>1 DEF AfFileSourceTypeOK
  <2>3. ASSUME NEW i \in Inode
        PROVE  FilePositions(i)'
    <3>1. /\ ~IsRead(i)' /\ Remembered(i)' = Remembered(i) /\ (path = i => ~IsRead(i))
      BY <2>1 DEF IsRead, Remembered
    <3>2. FilePositions(i)
      BY <1>b
    <3>. QED
      BY <2>1, <3>1, <3>2 DEF FilePositions, UnreadAfter
  <2>. QED
    BY <1>0, <2>1, <2>2, <2>3 DEF ReadOnceInv
<1>9. CASE UNCHANGED sd_vars
  <2>1. UNCHANGED <<path, size, sd_running, reader, curpos, got, last, ignored>>
    BY <1>9 DEF sd_vars, disk
  <2>2. AfFileSourceTypeOK'
    BY <1>b, <2>1 DEF AfFileSourceTypeOK
  <2>3. ASSUME NEW i \in Inode
        PROVE  FilePositions(i)'
    <3>1. FilePositions(i)
      BY <1>b
    <3>. QED
      BY <2>1, <3>1 DEF FilePositions, UnreadAfter, IsRead, Remembered, First
  <2>. QED
    BY <1>0, <2>1, <2>2, <2>3 DEF ReadOnceInv
<1>. QED
  BY <1>1, <1>2, <1>3, <1>4, <1>5, <1>6, <1>7, <1>8, <1>9 DEF AfFileSourceNext

\* For any files, sizes and line lengths: a byte becomes part of a message at
\* most once, unless the position of its file was dropped by an init.
THEOREM FilesAreReadOnce == AfFileSourceSpec => []ReadOnce
<1>1. ReadOnceInv => ReadOnce
  <2>. SUFFICES ASSUME ReadOnceInv, NEW i \in Inode, NEW b \in 1..MaxSize, i \notin ignored
                PROVE  ~(got[i][b] > 1)
    BY DEF ReadOnce
  <2>1. got[i][b] <= 1 /\ got[i][b] \in 0..2
    BY DEF ReadOnceInv, FilePositions, AfFileSourceTypeOK
  <2>. QED
    BY <2>1
<1>. QED
  BY ReadOnceStart, ReadOnceStep, <1>1, PTL DEF AfFileSourceSpec

-----------------------------------------------------------------------------
(***************************************************************************)
(* DnsCache.  The dynamic list and the table agree, and the count lacks    *)
(* the persistent entries that replaced a dynamic one, so that what the    *)
(* limit is compared with is the number of dynamic entries and of these.   *)
(***************************************************************************)

NoRepeat(s) == \A i, j \in DOMAIN s : s[i] = s[j] => i = j

LEMMA RangeCardinality ==
  ASSUME NEW S, NEW s \in Seq(S), NoRepeat(s)
  PROVE  IsFiniteSet(ToSet(s)) /\ Cardinality(ToSet(s)) = Len(s)
<1>. DEFINE n == Len(s)
            T == ToSet(s)
            g == [i \in 1..n |-> s[i]]
<1>1. n \in Nat /\ DOMAIN s = 1..n
  OBVIOUS
<1>. HIDE DEF n
<1>2. g \in Bijection(1..n, T)
  <2>1. g \in [1..n -> T]
    BY <1>1 DEF ToSet
  <2>2. \A i, j \in 1..n : g[i] = g[j] => i = j
    BY <1>1 DEF NoRepeat
  <2>3. \A x \in T : \E i \in 1..n : g[i] = x
    BY <1>1 DEF ToSet
  <2>. QED
    BY <2>1, <2>2, <2>3 DEF Bijection, Injection, IsInjective, Surjection
<1>3. ExistsBijection(1..n, T)
  BY <1>2 DEF ExistsBijection
<1>. HIDE DEF T, g
<1>4. IsFiniteSet(1..n)
  BY <1>1, FS_Interval
<1>5. IsFiniteSet(T)
  BY <1>3, <1>4, FS_Bijection
<1>6. Cardinality(T) = n
  BY <1>1, <1>3, FS_CountingElements
<1>. QED
  BY <1>5, <1>6 DEF T, n

LEMMA RemoveFirstIs ==
  ASSUME NEW S, NEW s \in Seq(S), NoRepeat(s), NEW a
  PROVE  /\ RemoveFirst(s, a) \in Seq(S)
         /\ NoRepeat(RemoveFirst(s, a))
         /\ ToSet(RemoveFirst(s, a)) = ToSet(s) \ {a}
<1>. DEFINE n == Len(s)
            I == {i \in 1..n : s[i] = a}
            k == CHOOSE x \in I : \A y \in I : x <= y
            t == SubSeq(s, 1, k - 1) \o SubSeq(s, k + 1, n)
<1>1. n \in Nat /\ DOMAIN s = 1..n /\ s = [i \in 1..n |-> s[i]]
      /\ \A i \in 1..n : s[i] \in S
  OBVIOUS
<1>2. CASE I = {}
  <2>1. RemoveFirst(s, a) = s
    BY <1>2 DEF RemoveFirst
  <2>2. a \notin ToSet(s)
    BY <1>1, <1>2 DEF ToSet
  <2>. QED
    BY <2>1, <2>2
<1>3. CASE I # {}
  <2>1. \E x \in I : \A y \in I : x <= y
    <3>1. I \subseteq Nat
      OBVIOUS
    <3>. QED
      BY <1>3, <3>1, NatMinimum
  <2>2. k \in 1..n /\ s[k] = a
    <3>. HIDE DEF I
    <3>1. k \in I
      BY <2>1
    <3>. QED
      BY <3>1 DEF I
  <2>3. RemoveFirst(s, a) = t
    <3>1. SelectInSeq(s, LAMBDA v : v = a) = k
      BY <1>3, Zenon DEF SelectInSeq, Min
    <3>2. \E i \in 1..Len(s) : s[i] = a
      BY <1>3
    <3>. QED
      BY <3>1, <3>2, Zenon DEF RemoveFirst, RemoveAt
  <2>. HIDE DEF k, I
  <2>4. t \in Seq(S) /\ Len(t) = n - 1
        /\ \A i \in 1..(n - 1) : t[i] = s[IF i < k THEN i ELSE i + 1]
    <3>1. SubSeq(s, 1, k - 1) \in Seq(S) /\ Len(SubSeq(s, 1, k - 1)) = k - 1
          /\ \A i \in 1..(k - 1) : SubSeq(s, 1, k - 1)[i] = s[i]
      BY <1>1, <2>2
    <3>2. SubSeq(s, k + 1, n) \in Seq(S) /\ Len(SubSeq(s, k + 1, n)) = n - k
          /\ \A i \in 1..(n - k) : SubSeq(s, k + 1, n)[i] = s[k + i]
      BY <1>1, <2>2
    <3>. DEFINE u == SubSeq(s, 1, k - 1)
                v == SubSeq(s, k + 1, n)
    <3>. HIDE DEF u, v, n
    <3>3. u \o v \in Seq(S) /\ Len(u \o v) = n - 1
          /\ \A i \in 1..(n - 1) :
               (u \o v)[i] = IF i < k THEN u[i] ELSE v[i - (k - 1)]
      <4>1. /\ u \in Seq(S) /\ Len(u) = k - 1
            /\ v \in Seq(S) /\ Len(v) = n - k
        BY <3>1, <3>2 DEF u, v
      <4>2. /\ u \o v \in Seq(S) /\ Len(u \o v) = Len(u) + Len(v)
            /\ \A i \in 1..(Len(u) + Len(v)) :
                 (u \o v)[i] = IF i <= Len(u) THEN u[i] ELSE v[i - Len(u)]
        BY <4>1, ConcatProperties
      <4>3. Len(u) + Len(v) = n - 1 /\ \A i \in Int : i <= k - 1 <=> i < k
        BY <1>1, <2>2, <4>1
      <4>. QED
        BY <4>1, <4>2, <4>3
    <3>4. ASSUME NEW i \in 1..(n - 1)
          PROVE  (u \o v)[i] = s[IF i < k THEN i ELSE i + 1]
      <4>1. CASE i < k
        BY <1>1, <2>2, <3>1, <3>3, <4>1 DEF u
      <4>2. CASE ~(i < k)
        <5>1. i - (k - 1) \in 1..(n - k) /\ k + (i - (k - 1)) = i + 1
          BY <1>1, <2>2, <4>2
        <5>2. v[i - (k - 1)] = s[i + 1]
          BY <3>2, <5>1 DEF v
        <5>. QED
          BY <3>3, <4>2, <5>2
      <4>. QED
        BY <4>1, <4>2
    <3>. QED
      BY <3>3, <3>4 DEF u, v
  <2>. HIDE DEF t, n
  <2>5. DOMAIN t = 1..(n - 1)
    BY <1>1, <2>4
  <2>6. NoRepeat(t)
    <3>. DEFINE at(i) == IF i < k THEN i ELSE i + 1
    <3>1. \A i \in 1..(n - 1) : at(i) \in 1..n /\ t[i] = s[at(i)]
      BY <1>1, <2>2, <2>4
    <3>2. \A i, j \in 1..(n - 1) : at(i) = at(j) => i = j
      BY <1>1, <2>2
    <3>. HIDE DEF at
    <3>. SUFFICES ASSUME NEW i \in 1..(n - 1), NEW j \in 1..(n - 1),
                         t[i] = t[j]
                  PROVE  i = j
      BY <2>5 DEF NoRepeat
    <3>3. s[at(i)] = s[at(j)] /\ at(i) \in DOMAIN s /\ at(j) \in DOMAIN s
      BY <1>1, <3>1
    <3>4. at(i) = at(j)
      BY <3>3, Zenon DEF NoRepeat
    <3>. QED
      BY <3>2, <3>4
  <2>7. ToSet(t) = ToSet(s) \ {a}
    <3>1. ASSUME NEW i \in 1..(n - 1)
          PROVE  t[i] \in ToSet(s) \ {a}
      <4>1. PICK j \in 1..n : j # k /\ t[i] = s[j]
        <5>1. (IF i < k THEN i ELSE i + 1) \in 1..n
              /\ (IF i < k THEN i ELSE i + 1) # k
          BY <1>1, <2>2
        <5>. QED
          BY <2>4, <5>1, Zenon
      <4>. QED
        BY <1>1, <2>2, <4>1 DEF NoRepeat, ToSet
    <3>2. ASSUME NEW j \in 1..n, s[j] # a
          PROVE  s[j] \in ToSet(t)
      <4>1. j # k
        BY <2>2, <3>2
      <4>2. CASE j < k
        BY <1>1, <2>2, <2>4, <2>5, <4>2 DEF ToSet
      <4>3. CASE ~(j < k)
        <5>1. j - 1 \in 1..(n - 1) /\ ~(j - 1 < k) /\ (j - 1) + 1 = j
          BY <1>1, <2>2, <4>1, <4>3
        <5>2. t[j - 1] = s[j]
          BY <2>4, <5>1
        <5>. QED
          BY <2>5, <5>1, <5>2 DEF ToSet
      <4>. QED
        BY <4>2, <4>3
    <3>. QED
      BY <1>1, <2>5, <3>1, <3>2 DEF ToSet
  <2>. QED
    BY <2>3, <2>4, <2>6, <2>7
<1>. QED
  BY <1>2, <1>3

EntryState ==
  [dynamic : Seq(Addr), cached : Table(Element), persistent : Table(HostName),
   count : Int, replaced : Nat, aborted : BOOLEAN]

Dynamic(e) == DOMAIN e.cached
Persistent(e) == DOMAIN e.persistent

Consistent(e) ==
  /\ e \in EntryState
  /\ NoRepeat(e.dynamic) /\ ToSet(e.dynamic) = Dynamic(e)
  /\ Dynamic(e) \cap Persistent(e) = {}
  /\ e.count = Cardinality(Persistent(e)) - e.replaced
  /\ e.aborted => e.replaced > dns_cache_size

\* No more dynamic entries and places taken from them than dns_cache_size().
Within(e) == Cardinality(Dynamic(e)) + e.replaced <= dns_cache_size

LEMMA TableType ==
  ASSUME NEW V, NEW f \in Table(V)
  PROVE  /\ DOMAIN f \subseteq Addr /\ IsFiniteSet(DOMAIN f)
         /\ Cardinality(DOMAIN f) \in Nat
         /\ f = [a \in DOMAIN f |-> f[a]] /\ \A a \in DOMAIN f : f[a] \in V
<1>1. PICK S \in SUBSET Addr : f \in [S -> V]
  BY DEF Table
<1>2. IsFiniteSet(S)
  BY DnsCacheAssumption, FS_Subset
<1>. QED
  BY <1>1, <1>2, FS_CardinalityType

LEMMA TableMade ==
  ASSUME NEW V, NEW S \in SUBSET Addr, NEW f \in [S -> V]
  PROVE  f \in Table(V)
BY DEF Table

LEMMA TableWithout ==
  ASSUME NEW V, NEW f \in Table(V), NEW a
  PROVE  /\ Restrict(f, DOMAIN f \ {a}) \in Table(V)
         /\ DOMAIN Restrict(f, DOMAIN f \ {a}) = DOMAIN f \ {a}
         /\ a \notin DOMAIN f => Restrict(f, DOMAIN f \ {a}) = f
<1>1. DOMAIN f \subseteq Addr /\ f = [b \in DOMAIN f |-> f[b]]
      /\ \A b \in DOMAIN f : f[b] \in V
  BY TableType
<1>2. Restrict(f, DOMAIN f \ {a}) \in [DOMAIN f \ {a} -> V]
  BY <1>1 DEF Restrict
<1>3. a \notin DOMAIN f => DOMAIN f \ {a} = DOMAIN f
  OBVIOUS
<1>. QED
  BY <1>1, <1>2, <1>3, TableMade DEF Restrict

Extended(f, a, v) == [b \in DOMAIN f \cup {a} |-> IF b = a THEN v ELSE f[b]]

KnowsAlso(g, V, f, a) == g \in Table(V) /\ DOMAIN g = DOMAIN f \cup {a}

LEMMA TableExtended ==
  ASSUME NEW V, NEW f \in Table(V), NEW a \in Addr, NEW v \in V
  PROVE  KnowsAlso(Extended(f, a, v), V, f, a)
<1>1. DOMAIN f \subseteq Addr /\ \A b \in DOMAIN f : f[b] \in V
  BY TableType
<1>2. Extended(f, a, v) \in [DOMAIN f \cup {a} -> V]
  BY <1>1 DEF Extended
<1>. QED
  BY <1>1, <1>2, TableMade DEF KnowsAlso

\* What Forget leaves of e.
LEMMA ForgetIs ==
  ASSUME NEW e, Consistent(e), NEW a, NEW f, f = Forget(e, a)
  PROVE  /\ Consistent(f)
         /\ Dynamic(f) = Dynamic(e) \ {a}
         /\ f.persistent = e.persistent
         /\ f.count = e.count /\ f.replaced = e.replaced /\ f.aborted = e.aborted
<1>. DEFINE d == RemoveFirst(e.dynamic, a)
            c == Restrict(e.cached, DOMAIN e.cached \ {a})
<1>1. e \in EntryState /\ f = [e EXCEPT !.dynamic = d, !.cached = c]
  BY DEF Consistent, Forget
<1>2. /\ d \in Seq(Addr) /\ NoRepeat(d)
      /\ ToSet(d) = Dynamic(e) \ {a}
  BY <1>1, RemoveFirstIs DEF Consistent, EntryState
<1>3. e.cached \in Table(Element)
  BY <1>1 DEF EntryState
<1>4. c \in Table(Element) /\ DOMAIN c = Dynamic(e) \ {a}
  BY <1>3, TableWithout DEF Dynamic
<1>. HIDE DEF d, c
<1>5. /\ f \in EntryState /\ f.dynamic = d /\ f.cached = c
      /\ f.persistent = e.persistent
      /\ f.count = e.count /\ f.replaced = e.replaced /\ f.aborted = e.aborted
  BY <1>1, <1>2, <1>4 DEF EntryState
<1>. QED
  BY <1>2, <1>4, <1>5 DEF Consistent, Dynamic, Persistent

\* The sizes that Bounded compares.
LEMMA SizeIs ==
  ASSUME NEW e, Consistent(e)
  PROVE  /\ IsFiniteSet(Dynamic(e)) /\ Cardinality(Dynamic(e)) \in Nat
         /\ IsFiniteSet(Persistent(e)) /\ Cardinality(Persistent(e)) \in Nat
         /\ Size(e) = Cardinality(Dynamic(e)) + Cardinality(Persistent(e))
         /\ Len(e.dynamic) = Cardinality(Dynamic(e))
         /\ e.count \in Int /\ e.replaced \in Nat
         /\ Size(e) - e.count = Cardinality(Dynamic(e)) + e.replaced
<1>1. e.cached \in Table(Element) /\ e.persistent \in Table(HostName)
      /\ e.dynamic \in Seq(Addr) /\ e.count \in Int /\ e.replaced \in Nat
      /\ e.count = Cardinality(Persistent(e)) - e.replaced
  BY DEF Consistent, EntryState
<1>2. /\ IsFiniteSet(Dynamic(e)) /\ Cardinality(Dynamic(e)) \in Nat
      /\ IsFiniteSet(Persistent(e)) /\ Cardinality(Persistent(e)) \in Nat
  BY <1>1, TableType DEF Dynamic, Persistent
<1>3. Len(e.dynamic) = Cardinality(Dynamic(e))
  BY <1>1, RangeCardinality DEF Consistent
<1>4. Cardinality(Dynamic(e) \cap Persistent(e)) = 0
  BY FS_EmptySet DEF Consistent
<1>5. Size(e) = Cardinality(Dynamic(e)) + Cardinality(Persistent(e))
  <2>1. Cardinality(Dynamic(e) \cup Persistent(e)) =
          Cardinality(Dynamic(e)) + Cardinality(Persistent(e)) - 0
    BY <1>2, <1>4, FS_Union
  <2>2. Size(e) = Cardinality(Dynamic(e) \cup Persistent(e))
    BY DEF Size, Dynamic, Persistent
  <2>. QED
    BY <1>2, <2>1, <2>2
<1>. QED
  BY <1>1, <1>2, <1>3, <1>5

\* One entry more than the limit is brought back to it, if there is one.
LEMMA BoundedIs ==
  ASSUME NEW e, Consistent(e), dns_cache_size \in Nat,
         NEW b, b = Bounded(e)
  PROVE  /\ Consistent(b) /\ b.persistent = e.persistent /\ b.replaced = e.replaced
         /\ Within(e) => b = e
         /\ e.dynamic # <<>> => b.aborted = e.aborted
         /\ e.dynamic # <<>> /\ Cardinality(Dynamic(e)) + e.replaced <= dns_cache_size + 1
              => Within(b)
<1>. DEFINE n == Cardinality(Dynamic(e))
<1>1. n \in Nat /\ e.replaced \in Nat
      /\ IsFiniteSet(Dynamic(e)) /\ Size(e) - e.count = n + e.replaced /\ Len(e.dynamic) = n
  BY SizeIs
<1>. HIDE DEF n
<1>2. CASE ~(Size(e) - e.count > dns_cache_size)
  <2>1. b = e /\ n + e.replaced <= dns_cache_size
    BY <1>1, <1>2 DEF Bounded
  <2>. QED
    BY <1>1, <2>1 DEF Within, n
<1>3. CASE Size(e) - e.count > dns_cache_size /\ e.dynamic = <<>>
  <2>1. b = [e EXCEPT !.aborted = TRUE]
    BY <1>3 DEF Bounded, Evicted
  <2>2. /\ b \in EntryState /\ b.dynamic = e.dynamic /\ b.cached = e.cached
        /\ b.persistent = e.persistent /\ b.count = e.count /\ b.replaced = e.replaced
    BY <2>1 DEF Consistent, EntryState
  <2>3. n = 0
    BY <1>1, <1>3
  <2>4. e.replaced > dns_cache_size
    BY <1>1, <1>3, <2>3
  <2>5. Consistent(b) /\ Dynamic(b) = Dynamic(e)
    BY <2>2, <2>4 DEF Consistent, Dynamic, Persistent
  <2>6. ~Within(e)
    BY <1>1, <1>3 DEF Within, n
  <2>. QED
    BY <1>3, <2>2, <2>5, <2>6
<1>4. CASE Size(e) - e.count > dns_cache_size /\ e.dynamic # <<>>
  <2>. DEFINE a == Head(e.dynamic)
  <2>1. b = Forget(e, a)
    BY <1>4 DEF Bounded, Evicted
  <2>2. a \in Dynamic(e)
    <3>1. e.dynamic \in Seq(Addr)
      BY DEF Consistent, EntryState
    <3>2. 1 \in DOMAIN e.dynamic /\ a = e.dynamic[1]
      BY <1>4, <3>1
    <3>. QED
      BY <3>2 DEF Consistent, ToSet
  <2>. HIDE DEF a
  <2>3. Consistent(b) /\ b.persistent = e.persistent /\ b.replaced = e.replaced
        /\ b.aborted = e.aborted /\ Dynamic(b) = Dynamic(e) \ {a}
    BY <2>1, ForgetIs
  <2>4. Cardinality(Dynamic(b)) = n - 1
    BY <1>1, <2>2, <2>3, FS_RemoveElement DEF n
  <2>5. ~Within(e)
    BY <1>1, <1>4 DEF Within, n
  <2>6. n + e.replaced <= dns_cache_size + 1 => Within(b)
    BY <1>1, <2>3, <2>4 DEF Within
  <2>. QED
    BY <2>3, <2>5, <2>6 DEF n
<1>. QED
  BY <1>2, <1>3, <1>4

\* A line of the hosts file is stored: where it replaces a dynamic entry, that
\* one's place is taken.
LEMMA StorePersistentIs ==
  ASSUME NEW e, Consistent(e), dns_cache_size \in Nat,
         NEW a \in Addr, NEW name \in HostName,
         NEW b, b = StorePersistent(e, a, name)
  PROVE  /\ Consistent(b)
         /\ b.persistent = Extended(e.persistent, a, name)
         /\ Within(e) => Within(b) /\ b.aborted = e.aborted
<1>. DEFINE f == Forget(e, a)
            p == Extended(f.persistent, a, name)
            m == IF a \in DOMAIN e.cached THEN f.replaced + 1 ELSE f.replaced
            n == IF a \in DOMAIN e.cached \cup DOMAIN e.persistent
                 THEN f.count ELSE f.count + 1
            g == [f EXCEPT !.persistent = p, !.replaced = m, !.count = n]
<1>1. b = Bounded(g)
  <2>1. g = [f EXCEPT !.persistent = [x \in DOMAIN @ \cup {a} |->
                                        IF x = a THEN name ELSE @[x]],
                      !.replaced = IF a \in DOMAIN e.cached THEN @ + 1 ELSE @,
                      !.count = IF a \in DOMAIN e.cached \cup DOMAIN e.persistent
                                THEN @ ELSE @ + 1]
    BY DEF Extended
  <2>. QED
    BY <2>1 DEF StorePersistent
<1>2. /\ Consistent(f) /\ Dynamic(f) = Dynamic(e) \ {a}
      /\ f.persistent = e.persistent /\ f.count = e.count /\ f.replaced = e.replaced
      /\ f.aborted = e.aborted
  BY ForgetIs
<1>3. /\ e.count \in Int /\ e.count = Cardinality(Persistent(e)) - e.replaced
      /\ e.replaced \in Nat
      /\ IsFiniteSet(Persistent(e)) /\ Cardinality(Persistent(e)) \in Nat
      /\ IsFiniteSet(Dynamic(e)) /\ Cardinality(Dynamic(e)) \in Nat
      /\ Dynamic(e) \cap Persistent(e) = {}
      /\ e.aborted => e.replaced > dns_cache_size
  BY SizeIs DEF Consistent
<1>4. e.persistent \in Table(HostName) /\ f \in EntryState
  BY <1>2 DEF Consistent, EntryState
<1>5. p \in Table(HostName) /\ DOMAIN p = Persistent(e) \cup {a}
  <2>1. KnowsAlso(Extended(e.persistent, a, name), HostName, e.persistent, a)
    BY <1>4, TableExtended
  <2>2. p = Extended(e.persistent, a, name)
    BY <1>2
  <2>. HIDE DEF p
  <2>. QED
    BY <2>1, <2>2 DEF Persistent, KnowsAlso
<1>6. Cardinality(DOMAIN p) =
        IF a \in Persistent(e) THEN Cardinality(Persistent(e))
        ELSE Cardinality(Persistent(e)) + 1
  BY <1>3, <1>5, FS_AddElement
<1>7. Cardinality(Dynamic(f)) =
        IF a \in Dynamic(e) THEN Cardinality(Dynamic(e)) - 1 ELSE Cardinality(Dynamic(e))
  BY <1>2, <1>3, FS_RemoveElement
<1>8. /\ m = IF a \in Dynamic(e) THEN e.replaced + 1 ELSE e.replaced
      /\ n = IF a \in Dynamic(e) \cup Persistent(e) THEN e.count ELSE e.count + 1
  BY <1>2 DEF Dynamic, Persistent
<1>. HIDE DEF m, n, p
<1>9. n \in Int /\ m \in Nat /\ n = Cardinality(DOMAIN p) - m
  <2>1. a \in Dynamic(e) => a \notin Persistent(e)
    BY <1>3
  <2>. QED
    BY <1>3, <1>6, <1>8, <2>1
<1>10. Cardinality(Dynamic(f)) + m = Cardinality(Dynamic(e)) + e.replaced
  BY <1>3, <1>7, <1>8
<1>11. e.aborted => m > dns_cache_size
  BY <1>3, <1>8
<1>. HIDE DEF f
<1>12. /\ g \in EntryState /\ g.dynamic = f.dynamic /\ g.cached = f.cached
       /\ g.persistent = p /\ g.count = n /\ g.replaced = m /\ g.aborted = f.aborted
  BY <1>4, <1>5, <1>9 DEF EntryState
<1>. HIDE DEF g
<1>13. Consistent(g) /\ Dynamic(g) = Dynamic(f)
  BY <1>2, <1>5, <1>9, <1>11, <1>12 DEF Consistent, Dynamic, Persistent
<1>14. Within(e) => Within(g)
  BY <1>10, <1>12, <1>13, Zenon DEF Within
<1>15. /\ Consistent(b) /\ b.persistent = p
       /\ Within(g) => b = g
  BY <1>1, <1>12, <1>13, BoundedIs
<1>16. p = Extended(e.persistent, a, name)
  BY <1>2 DEF p
<1>. QED
  BY <1>2, <1>12, <1>14, <1>15, <1>16

\* A name that was looked up is stored, and the oldest one removed if need be.
LEMMA StoreDynamicIs ==
  ASSUME NEW e, Consistent(e), dns_cache_size \in Nat,
         NEW a \in Addr, a \notin Persistent(e),
         NEW name \in HostName \cup {Failed}, now \in 0..MaxNow,
         NEW b, b = StoreDynamic(e, a, name)
  PROVE  /\ Consistent(b) /\ b.persistent = e.persistent
         /\ b.aborted = e.aborted
         /\ Within(e) => Within(b)
<1>. DEFINE f == Forget(e, a)
            d == Append(f.dynamic, a)
            c == Extended(f.cached, a, [name |-> name, resolved |-> now])
            p == Restrict(f.persistent, DOMAIN f.persistent \ {a})
            g == [f EXCEPT !.dynamic = d, !.cached = c, !.persistent = p]
<1>1. b = Bounded(g)
  <2>1. g = [f EXCEPT !.dynamic = Append(@, a),
                      !.cached = [x \in DOMAIN @ \cup {a} |->
                         IF x = a THEN [name |-> name, resolved |-> now] ELSE @[x]],
                      !.persistent = Restrict(@, DOMAIN @ \ {a})]
    BY DEF Extended
  <2>. QED
    BY <2>1 DEF StoreDynamic
<1>2. /\ Consistent(f) /\ Dynamic(f) = Dynamic(e) \ {a}
      /\ f.persistent = e.persistent /\ f.count = e.count /\ f.replaced = e.replaced
      /\ f.aborted = e.aborted /\ e.replaced \in Nat
  BY ForgetIs, SizeIs
<1>3. /\ IsFiniteSet(Dynamic(e)) /\ Cardinality(Dynamic(e)) \in Nat
      /\ IsFiniteSet(Dynamic(f)) /\ Cardinality(Dynamic(f)) \in Nat
  BY <1>2, SizeIs
<1>4. /\ f \in EntryState /\ f.dynamic \in Seq(Addr)
      /\ f.cached \in Table(Element) /\ f.persistent \in Table(HostName)
      /\ NoRepeat(f.dynamic) /\ ToSet(f.dynamic) = Dynamic(e) \ {a}
  BY <1>2 DEF Consistent, EntryState
<1>5. p = e.persistent
  BY <1>2, <1>4, TableWithout DEF Persistent
<1>6. c \in Table(Element) /\ DOMAIN c = (Dynamic(e) \ {a}) \cup {a}
  <2>1. [name |-> name, resolved |-> now] \in Element
    BY DEF Element
  <2>. QED
    <3>. HIDE DEF f
    <3>1. KnowsAlso(c, Element, f.cached, a)
      BY <1>4, <2>1, TableExtended
    <3>. HIDE DEF c
    <3>. QED
      BY <1>2, <3>1 DEF Dynamic, KnowsAlso
<1>7. /\ d \in Seq(Addr) /\ NoRepeat(d) /\ d # <<>>
      /\ ToSet(d) = (Dynamic(e) \ {a}) \cup {a}
  <2>1. /\ d \in Seq(Addr) /\ d # <<>> /\ DOMAIN d = DOMAIN f.dynamic \cup {Len(d)}
        /\ Len(d) \notin DOMAIN f.dynamic /\ d[Len(d)] = a
        /\ \A i \in DOMAIN f.dynamic : d[i] = f.dynamic[i]
    BY <1>4
  <2>2. \A i \in DOMAIN f.dynamic : f.dynamic[i] # a
    BY <1>4 DEF ToSet
  <2>. HIDE DEF d, f
  <2>3. ToSet(d) = ToSet(f.dynamic) \cup {a}
    <3>1. ASSUME NEW i \in DOMAIN d
          PROVE  d[i] \in {f.dynamic[j] : j \in DOMAIN f.dynamic} \cup {a}
      <4>1. CASE i \in DOMAIN f.dynamic
        BY <2>1, <4>1, Zenon
      <4>2. CASE i = Len(d)
        BY <2>1, <4>2, Zenon
      <4>. QED
        BY <2>1, <4>1, <4>2, Zenon
    <3>2. ASSUME NEW i \in DOMAIN f.dynamic
          PROVE  f.dynamic[i] \in {d[j] : j \in DOMAIN d}
      BY <2>1, Zenon
    <3>3. a \in {d[j] : j \in DOMAIN d}
      BY <2>1, Zenon
    <3>. QED
      BY <3>1, <3>2, <3>3, Zenon DEF ToSet
  <2>4. NoRepeat(d)
    BY <1>4, <2>1, <2>2 DEF NoRepeat
  <2>. QED
    BY <1>4, <2>1, <2>3, <2>4
<1>. HIDE DEF f, d, c, p
<1>8. /\ g \in EntryState /\ g.dynamic = d /\ g.cached = c
      /\ g.persistent = e.persistent /\ g.count = f.count
      /\ g.replaced = f.replaced /\ g.aborted = f.aborted
  BY <1>2, <1>4, <1>5, <1>6, <1>7 DEF EntryState
<1>. HIDE DEF g
<1>9. Dynamic(g) = Dynamic(f) \cup {a}
  BY <1>2, <1>6, <1>8 DEF Dynamic
<1>10. Consistent(g)
  BY <1>2, <1>6, <1>7, <1>8 DEF Consistent, Dynamic, Persistent
<1>11. /\ Consistent(b) /\ b.persistent = e.persistent /\ b.aborted = e.aborted
       /\ Cardinality(Dynamic(g)) + e.replaced <= dns_cache_size + 1 => Within(b)
  BY <1>1, <1>2, <1>7, <1>8, <1>10, BoundedIs
<1>12. Cardinality(Dynamic(g)) <= Cardinality(Dynamic(f)) + 1
       /\ Cardinality(Dynamic(g)) \in Nat
  <2>1. a \notin Dynamic(f)
    BY <1>2
  <2>2. Cardinality(Dynamic(f) \cup {a}) = Cardinality(Dynamic(f)) + 1
    BY <1>3, <2>1, FS_AddElement
  <2>. QED
    BY <1>3, <1>9, <2>2
<1>13. Cardinality(Dynamic(f)) <= Cardinality(Dynamic(e))
  BY <1>2, <1>3, FS_Subset
<1>14. Within(e) => Cardinality(Dynamic(g)) + e.replaced <= dns_cache_size + 1
  BY <1>2, <1>3, <1>12, <1>13 DEF Within
<1>. QED
  BY <1>11, <1>14

LEMMA CleanedIs ==
  ASSUME NEW e, Consistent(e), NEW b, b = Cleaned(e)
  PROVE  /\ Consistent(b) /\ b.persistent = Empty /\ b.aborted = e.aborted
         /\ Dynamic(b) = Dynamic(e) /\ b.replaced = e.replaced
<1>1. /\ e \in EntryState /\ e.count \in Int /\ Cardinality(Persistent(e)) \in Nat
      /\ e.replaced \in Nat /\ e.count = Cardinality(Persistent(e)) - e.replaced
  BY SizeIs DEF Consistent
<1>. DEFINE n == e.count - Cardinality(DOMAIN e.persistent)
<1>2. n \in Int /\ n = 0 - e.replaced
  BY <1>1 DEF Persistent
<1>3. b = [e EXCEPT !.persistent = Empty, !.count = n]
  BY DEF Cleaned
<1>4. Empty \in Table(HostName) /\ DOMAIN Empty = {}
  <2>1. Empty \in [{} -> HostName]
    BY DEF Empty
  <2>. QED
    BY <2>1, TableMade
<1>. HIDE DEF n
<1>5. /\ b \in EntryState /\ b.dynamic = e.dynamic /\ b.cached = e.cached
      /\ b.persistent = Empty /\ b.count = n /\ b.replaced = e.replaced
      /\ b.aborted = e.aborted
  BY <1>1, <1>2, <1>3, <1>4 DEF EntryState
<1>6. Cardinality(Persistent(b)) = 0
  BY <1>4, <1>5, FS_EmptySet DEF Persistent
<1>. QED
  BY <1>2, <1>4, <1>5, <1>6 DEF Consistent, Dynamic, Persistent

-----------------------------------------------------------------------------
(***************************************************************************)
(* The loop over the lines of the hosts file.                              *)
(***************************************************************************)

AfterLines(f, e, names, lines, n) ==
  f = [k \in 0..n |->
         IF k = 0 THEN Cleaned(e)
         ELSE StorePersistent(f[k - 1], lines[k], names[lines[k]])]

LEMMA AfterLinesExists ==
  ASSUME NEW e, NEW names, NEW lines, NEW n \in Nat
  PROVE  \E f : AfterLines(f, e, names, lines, n)
<1>. DEFINE Line(x, k) == StorePersistent(x, lines[k], names[lines[k]])
            Start == Cleaned(e)
            Is(f, m) == f = [k \in 0..m |-> IF k = 0 THEN Start
                                            ELSE Line(f[k - 1], k)]
            T == {m \in Nat : ~ \E f : Is(f, m)}
<1>. HIDE DEF Line, Start
<1>1. SUFFICES ASSUME T # {}
               PROVE  FALSE
  BY DEF AfterLines, Line, Start
<1>2. PICK m \in T : \A l \in T : m <= l
  BY <1>1, NatMinimum
<1>3. CASE m = 0
  <2>. DEFINE f == [k \in 0..m |-> Start]
  <2>1. Is(f, m)
    BY <1>3
  <2>. QED
    BY <1>2, <2>1
<1>4. CASE m # 0
  <2>1. m \in Nat /\ m - 1 \in Nat /\ m - 1 \notin T
    BY <1>2, <1>4
  <2>2. PICK f : Is(f, m - 1)
    BY <2>1
  <2>3. \A k \in 0..(m - 1) : f[k] = IF k = 0 THEN Start ELSE Line(f[k - 1], k)
    BY <2>2, Zenon
  <2>. DEFINE g == [k \in 0..m |-> IF k = m THEN Line(f[m - 1], m) ELSE f[k]]
  <2>4. ASSUME NEW k \in 0..m
        PROVE  g[k] = IF k = 0 THEN Start ELSE Line(g[k - 1], k)
    <3>1. k # 0 => k - 1 \in 0..m /\ k - 1 # m
      BY <2>1
    <3>2. k # 0 => g[k - 1] = f[k - 1]
      BY <3>1
    <3>3. k # m => k \in 0..(m - 1)
      BY <2>1
    <3>. QED
      BY <1>4, <2>1, <2>3, <3>2, <3>3
  <2>5. Is(g, m)
    <3>1. g = [k \in 0..m |-> g[k]]
      OBVIOUS
    <3>. HIDE DEF g
    <3>. QED
      BY <2>4, <3>1
  <2>. HIDE DEF Is
  <2>. QED
    BY <1>2, <2>5
<1>. QED
  BY <1>3, <1>4

\* Every address of the file once.
LEMMA LinesAre ==
  ASSUME NEW S, IsFiniteSet(S)
  PROVE  /\ SetToSeq(S) \in Seq(S) /\ Len(SetToSeq(S)) \in Nat
         /\ \A k \in 1..Len(SetToSeq(S)) : SetToSeq(S)[k] \in S
         /\ \A a \in S : \E k \in 1..Len(SetToSeq(S)) : SetToSeq(S)[k] = a
<1>. DEFINE n == Cardinality(S)
            F == {f \in [1..n -> S] : IsInjective(f)}
<1>1. n \in Nat /\ ExistsBijection(1..n, S)
  BY FS_CardinalityType
<1>2. PICK g : g \in Bijection(1..n, S)
  BY <1>1 DEF ExistsBijection
<1>3. g \in F
  BY <1>2 DEF Bijection, Injection
<1>4. SetToSeq(S) \in F
  BY <1>3, Zenon DEF SetToSeq
<1>. HIDE DEF n
<1>5. SetToSeq(S) \in [1..n -> S] /\ SetToSeq(S) \in Injection(1..n, S)
  BY <1>4 DEF Injection
<1>6. IsFiniteSet(1..n) /\ Cardinality(1..n) = n
  BY <1>1, FS_Interval
<1>7. SetToSeq(S) \in Surjection(1..n, S)
  BY <1>5, <1>6, FS_Injection DEF n
<1>8. SetToSeq(S) \in Seq(S) /\ Len(SetToSeq(S)) = n
  BY <1>1, <1>5
<1>. QED
  BY <1>1, <1>5, <1>7, <1>8 DEF Surjection

\* What is loaded after some lines: the entries of these.
Read(b, e, names, lines, k) ==
  /\ Consistent(b)
  /\ DOMAIN b.persistent = {lines[i] : i \in 1..k}
  /\ \A a \in DOMAIN b.persistent : b.persistent[a] = names[a]
  /\ Within(e) => Within(b) /\ b.aborted = e.aborted

LEMMA ReadOn ==
  ASSUME NEW e, dns_cache_size \in Nat,
         NEW names \in Table(HostName), NEW lines, NEW k \in Nat,
         lines[k + 1] \in DOMAIN names,
         NEW b, Read(b, e, names, lines, k),
         NEW c, c = StorePersistent(b, lines[k + 1], names[lines[k + 1]])
  PROVE  Read(c, e, names, lines, k + 1)
<1>. DEFINE a == lines[k + 1]
<1>1. a \in Addr /\ names[a] \in HostName
  BY TableType
<1>. HIDE DEF a
<1>2. Consistent(b) /\ (Within(e) => Within(b) /\ b.aborted = e.aborted)
  BY DEF Read
<1>3. c = StorePersistent(b, a, names[a])
  BY DEF a
<1>4. /\ Consistent(c) /\ (Within(b) => Within(c) /\ c.aborted = b.aborted)
      /\ c.persistent = Extended(b.persistent, a, names[a])
  BY <1>1, <1>2, <1>3, StorePersistentIs
<1>5. DOMAIN c.persistent = {lines[i] : i \in 1..k} \cup {a}
  BY <1>4 DEF Extended, Read
<1>6. {lines[i] : i \in 1..k} \cup {a} = {lines[i] : i \in 1..(k + 1)}
  <2>1. 1..(k + 1) = (1..k) \cup {k + 1}
    OBVIOUS
  <2>. QED
    BY <2>1 DEF a
<1>7. \A x \in DOMAIN c.persistent : c.persistent[x] = names[x]
  BY <1>4 DEF Extended, Read
<1>. QED
  BY <1>2, <1>4, <1>5, <1>6, <1>7 DEF Read

\* The persistent entries become those of the file.
LEMMA LoadedIs ==
  ASSUME NEW e, Consistent(e), dns_cache_size \in Nat,
         NEW names \in Table(HostName), NEW b, b = Loaded(e, names)
  PROVE  /\ Consistent(b) /\ b.persistent = names
         /\ Within(e) => Within(b) /\ b.aborted = e.aborted
<1>. DEFINE lines == SetToSeq(DOMAIN names)
            n == Len(lines)
            f == CHOOSE g : AfterLines(g, e, names, lines, n)
<1>1. IsFiniteSet(DOMAIN names)
  BY TableType
<1>2. /\ n \in Nat
      /\ \A k \in 1..n : lines[k] \in DOMAIN names
      /\ \A a \in DOMAIN names : \E k \in 1..n : lines[k] = a
  BY <1>1, LinesAre
<1>3. b = f[n]
  BY Zenon DEF Loaded, AfterLines
<1>. HIDE DEF lines, n
<1>4. AfterLines(f, e, names, lines, n)
  BY <1>2, AfterLinesExists
<1>. HIDE DEF f
<1>5. \A k \in 0..n :
        f[k] = IF k = 0 THEN Cleaned(e)
               ELSE StorePersistent(f[k - 1], lines[k], names[lines[k]])
  BY <1>4, Zenon DEF AfterLines
<1>. DEFINE T == {k \in 0..n : ~Read(f[k], e, names, lines, k)}
<1>6. T = {}
  <2>1. SUFFICES ASSUME T # {}
                 PROVE  FALSE
    OBVIOUS
  <2>2. PICK k \in T : \A l \in T : k <= l
    <3>1. T \subseteq Nat
      OBVIOUS
    <3>. QED
      BY <2>1, <3>1, NatMinimum
  <2>3. CASE k = 0
    <3>1. f[0] = Cleaned(e)
      BY <1>2, <1>5
    <3>2. /\ Consistent(f[0]) /\ f[0].persistent = Empty
          /\ Dynamic(f[0]) = Dynamic(e) /\ f[0].replaced = e.replaced
          /\ f[0].aborted = e.aborted
      BY <3>1, CleanedIs
    <3>3. DOMAIN Empty = {} /\ {lines[i] : i \in 1..0} = {}
      BY DEF Empty
    <3>4. Read(f[0], e, names, lines, 0)
      BY <3>2, <3>3 DEF Read, Within
    <3>. QED
      BY <2>2, <2>3, <3>4
  <2>4. CASE k # 0
    <3>1. k - 1 \in 0..n /\ k - 1 \in Nat /\ (k - 1) + 1 = k /\ k \in 1..n
      BY <1>2, <2>2, <2>4
    <3>2. Read(f[k - 1], e, names, lines, k - 1)
      BY <2>2, <3>1
    <3>3. f[k] = StorePersistent(f[k - 1], lines[k], names[lines[k]])
      BY <1>5, <2>2, <2>4
    <3>4. lines[k] \in DOMAIN names
      BY <1>2, <3>1
    <3>. DEFINE j == k - 1
    <3>5. j \in Nat /\ j + 1 = k
      BY <3>1
    <3>. HIDE DEF j, T
    <3>6. Read(f[k], e, names, lines, j + 1)
      BY <3>2, <3>3, <3>4, <3>5, ReadOn DEF j
    <3>. QED
      BY <2>2, <3>5, <3>6 DEF T
  <2>. QED
    BY <2>3, <2>4
<1>7. Read(b, e, names, lines, n)
  BY <1>2, <1>3, <1>6
<1>8. DOMAIN b.persistent = DOMAIN names
  BY <1>2, <1>7 DEF Read
<1>9. b.persistent = names
  <2>1. b.persistent = [a \in DOMAIN b.persistent |-> b.persistent[a]]
        /\ names = [a \in DOMAIN names |-> names[a]]
    <3>1. b.persistent \in Table(HostName)
      BY <1>7 DEF Read, Consistent, EntryState
    <3>. QED
      BY <3>1, TableType
  <2>. QED
    BY <1>7, <1>8, <2>1 DEF Read
<1>. QED
  BY <1>7, <1>9 DEF Read


-----------------------------------------------------------------------------
(***************************************************************************)
(* The entries between two calls.                                          *)
(***************************************************************************)

Stored(e) == Consistent(e) /\ (~overfull => Within(e) /\ ~e.aborted)

\* The file that was looked at last is still there, or is newer.
FileSeen ==
  /\ hosts_mtime <= looked /\ looked <= now
  /\ hosts # <<>> => hosts.mtime <= now
  /\ ~overlooked => /\ loaded = seen
                    /\ hosts # <<>> => Names = seen \/ hosts.mtime > looked

DnsInv ==
  /\ DnsCacheTypeOK
  /\ Stored(Entries)
  /\ persistent = loaded
  /\ FileSeen

LEMMA DnsStart == DnsCacheInit => DnsInv
<1>. SUFFICES ASSUME DnsCacheInit
              PROVE  DnsInv
  OBVIOUS
<1>1. Empty \in Table(Element) /\ Empty \in Table(HostName)
  <2>1. \A V : Empty \in [{} -> V]
    BY DEF Empty
  <2>. QED
    BY <2>1, TableMade
<1>2. DOMAIN Empty = {} /\ Cardinality({}) = 0
  BY FS_EmptySet DEF Empty
<1>. HIDE DEF Empty
<1>3. DnsCacheTypeOK
  <2>1. <<>> \in Seq(Addr) /\ 0 \in 0..MaxNow /\ -1 \in -1..MaxNow
        /\ 0 \in 0..MaxHostsChanges /\ 0 \in 0..MaxParams /\ 0 \in Int /\ 0 \in Nat
        /\ FALSE \in BOOLEAN
    BY DnsCacheAssumption
  <2>. QED
    BY <1>1, <2>1, Zenon DEF DnsCacheInit, DnsCacheTypeOK
<1>4. Entries \in EntryState /\ Entries.dynamic = <<>> /\ Entries.cached = Empty
      /\ Entries.persistent = Empty /\ Entries.count = 0 /\ Entries.replaced = 0
      /\ ~Entries.aborted
  <2>1. /\ dynamic = <<>> /\ dynamic \in Seq(Addr)
        /\ cached = Empty /\ cached \in Table(Element)
        /\ persistent = Empty /\ persistent \in Table(HostName)
        /\ persistent_count = 0 /\ replaced = 0 /\ aborted = FALSE
    BY <1>3 DEF DnsCacheInit, DnsCacheTypeOK
  <2>2. Entries = [dynamic |-> <<>>, cached |-> Empty, persistent |-> Empty,
                   count |-> 0, replaced |-> 0, aborted |-> FALSE]
    BY <2>1, Zenon DEF Entries
  <2>3. <<>> \in Seq(Addr) /\ Empty \in Table(Element) /\ Empty \in Table(HostName)
    BY <1>1
  <2>. QED
    BY <2>2, <2>3 DEF EntryState
<1>5. NoRepeat(<<>>) /\ ToSet(<<>>) = {}
  BY DEF NoRepeat, ToSet
<1>6. dns_cache_size \in Nat
  BY DnsCacheAssumption DEF DnsCacheInit
<1>7. Consistent(Entries) /\ Within(Entries)
  BY <1>2, <1>4, <1>5, <1>6 DEF Consistent, Within, Dynamic, Persistent
<1>8. FileSeen
  BY DEF DnsCacheInit, FileSeen
<1>. QED
  BY <1>3, <1>4, <1>7, <1>8 DEF DnsInv, Stored, DnsCacheInit

\* dns_cache_check_hosts: the entries are those of the file, none if it cannot be
\* opened, or those there were.
LEMMA CheckedIs ==
  ASSUME DnsInv, NEW opened \in BOOLEAN, CheckHosts(opened), NEW e, e = Checked(opened)
  PROVE  Stored(e) /\ e.persistent = loaded'
<1>. DEFINE names == IF opened THEN Names ELSE Empty
<1>1. Stored(Entries) /\ Entries.persistent = loaded
  BY DEF DnsInv, Entries
<1>2. dns_cache_size \in Nat
  BY DnsCacheAssumption DEF DnsInv, DnsCacheTypeOK
<1>3. Empty \in Table(HostName)
  <2>1. Empty \in [{} -> HostName]
    BY DEF Empty
  <2>. QED
    BY <2>1, TableMade
<1>4. names \in Table(HostName)
  BY <1>3 DEF Names, DnsInv, DnsCacheTypeOK
<1>5. loaded' = IF hosts # <<>> /\ ~Newer THEN loaded ELSE names
  BY Zenon DEF CheckHosts
<1>6. CASE hosts # <<>> /\ ~Newer
  <2>1. e = Entries
    BY <1>6, Zenon DEF Checked
  <2>. QED
    BY <1>1, <1>5, <1>6, <2>1, Zenon
<1>7. CASE ~(hosts # <<>> /\ ~Newer)
  <2>1. e = Loaded(Entries, names)
    BY <1>7, Zenon DEF Checked
  <2>. HIDE DEF names
  <2>2. /\ Consistent(e) /\ e.persistent = names
        /\ Within(Entries) => Within(e) /\ e.aborted = Entries.aborted
    BY <1>1, <1>2, <1>4, <2>1, LoadedIs, Zenon DEF Stored
  <2>. QED
    BY <1>1, <1>5, <1>7, <2>2, Zenon DEF Stored
<1>. QED
  BY <1>6, <1>7

LEMMA CheckHostsSees ==
  ASSUME DnsInv, NEW opened \in BOOLEAN, CheckHosts(opened), UNCHANGED <<file_vars, now>>
  PROVE  FileSeen'
<1>1. /\ ~Newer => opened
      /\ hosts_mtime' = IF Newer THEN hosts.mtime ELSE hosts_mtime
      /\ loaded' = IF hosts # <<>> /\ ~Newer THEN loaded ELSE IF opened THEN Names ELSE Empty
      /\ seen' = Names /\ looked' = now
      /\ overlooked' = IF Newer THEN ~opened ELSE hosts # <<>> /\ overlooked
      /\ hosts' = hosts /\ now' = now
  BY Zenon DEF CheckHosts, file_vars
<1>2. /\ hosts_mtime <= looked /\ looked <= now /\ (hosts # <<>> => hosts.mtime <= now)
      /\ ~overlooked => /\ loaded = seen
                        /\ hosts # <<>> => Names = seen \/ hosts.mtime > looked
  BY Zenon DEF DnsInv, FileSeen
<1>3. /\ hosts_mtime \in Int /\ looked \in Int /\ now \in Int
      /\ hosts # <<>> => hosts.mtime \in Int
  BY DnsCacheAssumption DEF DnsInv, DnsCacheTypeOK
<1>4. hosts_mtime' <= looked' /\ looked' <= now'
  <2>1. Newer => hosts_mtime' <= looked'
    BY <1>1, <1>2 DEF Newer
  <2>2. ~Newer => hosts_mtime' <= looked'
    BY <1>1, <1>2, <1>3
  <2>3. looked' <= now'
    BY <1>1, <1>3
  <2>. QED
    BY <2>1, <2>2, <2>3
<1>5. Names' = Names
  BY <1>1 DEF Names
<1>6. ~overlooked' => loaded' = seen'
  <2>1. CASE Newer \/ hosts = <<>>
    <3>1. hosts = <<>> => ~Newer
      BY Zenon DEF Newer
    <3>. QED
      BY <1>1, <2>1, <3>1, Zenon
  <2>2. CASE hosts # <<>> /\ ~Newer
    <3>1. ~(hosts.mtime > looked)
      BY <1>2, <1>3, <2>2 DEF Newer
    <3>. QED
      BY <1>1, <1>2, <2>2, <3>1, Zenon
  <2>. QED
    BY <2>1, <2>2
<1>. QED
  BY <1>1, <1>2, <1>4, <1>5, <1>6, Zenon DEF FileSeen

LEMMA ResolveStep ==
  ASSUME DnsInv, NEW a \in Addr, NEW resolved \in HostName \cup {Failed},
         NEW opened \in BOOLEAN, Resolve(a, resolved, opened)
  PROVE  DnsInv'
<1>. DEFINE e == Checked(opened)
            hit == a \in DOMAIN e.persistent \/ (a \in DOMAIN e.cached /\ Fresh(e.cached[a]))
            asked == ~hit /\ ~persist_only
            b == IF asked /\ ~e.aborted THEN StoreDynamic(e, a, resolved) ELSE e
<1>1. /\ SetEntries(b) /\ CheckHosts(opened)
      /\ UNCHANGED <<param_vars, file_vars, now>>
  BY Zenon DEF Resolve
<1>2. Stored(e) /\ e.persistent = loaded'
  BY <1>1, CheckedIs
<1>3. dns_cache_size \in Nat /\ now \in 0..MaxNow
  BY DnsCacheAssumption DEF DnsInv, DnsCacheTypeOK
<1>. HIDE DEF e
<1>4. Stored(b) /\ b.persistent = loaded'
  <2>1. CASE ~(asked /\ ~e.aborted)
    <3>1. b = e
      BY <2>1, Zenon
    <3>. QED
      BY <1>2, <3>1, Zenon
  <2>2. CASE asked /\ ~e.aborted
    <3>1. a \notin Persistent(e)
      BY <2>2 DEF Persistent
    <3>2. b = StoreDynamic(e, a, resolved)
      BY <2>2, Zenon
    <3>3. Consistent(e)
      BY <1>2, Zenon DEF Stored
    <3>. HIDE DEF b
    <3>4. /\ Consistent(b) /\ b.persistent = e.persistent /\ b.aborted = e.aborted
          /\ Within(e) => Within(b)
      BY <1>3, <3>1, <3>2, <3>3, StoreDynamicIs
    <3>. QED
      BY <1>2, <3>4, Zenon DEF Stored
  <2>. QED
    BY <2>1, <2>2
<1>. HIDE DEF b
<1>5. /\ b \in EntryState /\ b.dynamic = dynamic' /\ b.cached = cached'
      /\ b.persistent = persistent' /\ b.count = persistent_count'
      /\ b.replaced = replaced' /\ b.aborted = aborted'
  BY <1>1, <1>4 DEF SetEntries, Stored, Consistent
<1>6. b = Entries'
  BY <1>5 DEF Entries, EntryState
<1>7. Stored(Entries)'
  <2>1. /\ Consistent(Entries') /\ dns_cache_size' = dns_cache_size
        /\ ~overfull' => Within(Entries') /\ ~(Entries').aborted
    BY <1>1, <1>4, <1>6 DEF Stored, param_vars
  <2>. QED
    BY <2>1 DEF Stored, Within, Consistent, Dynamic, Persistent
<1>8. FileSeen'
  BY <1>1, CheckHostsSees
<1>9. DnsCacheTypeOK'
  <2>1. loaded' \in Table(HostName)
    BY <1>4, <1>5 DEF EntryState
  <2>2. /\ dynamic' \in Seq(Addr) /\ cached' \in Table(Element)
        /\ persistent' \in Table(HostName) /\ persistent_count' \in Int
        /\ replaced' \in Nat /\ aborted' \in BOOLEAN
    BY <1>5 DEF EntryState
  <2>3. /\ hosts_mtime' \in -1..MaxNow /\ looked' \in -1..MaxNow /\ overlooked' \in BOOLEAN
    <3>1. /\ hosts_mtime' = IF Newer THEN hosts.mtime ELSE hosts_mtime
          /\ looked' = now
          /\ overlooked' = IF Newer THEN ~opened ELSE hosts # <<>> /\ overlooked
      BY <1>1, Zenon DEF CheckHosts
    <3>2. Newer => hosts.mtime \in 0..MaxNow
      BY DEF DnsInv, DnsCacheTypeOK, Newer
    <3>3. hosts_mtime \in -1..MaxNow /\ overlooked \in BOOLEAN
      BY DEF DnsInv, DnsCacheTypeOK
    <3>4. hosts_mtime' \in -1..MaxNow
      BY <3>1, <3>2, <3>3
    <3>5. looked' \in -1..MaxNow
      BY <1>3, <3>1
    <3>6. overlooked' \in BOOLEAN
      <4>1. (hosts # <<>> /\ overlooked) \in BOOLEAN /\ (~opened) \in BOOLEAN
        BY <3>3
      <4>. QED
        BY <3>1, <4>1, Zenon
    <3>. QED
      BY <3>4, <3>5, <3>6
  <2>4. seen' \in Table(HostName)
    <3>1. Empty \in [{} -> HostName]
      BY DEF Empty
    <3>2. Empty \in Table(HostName) /\ seen' = Names
      BY <1>1, <3>1, TableMade DEF CheckHosts
    <3>. QED
      BY <3>2 DEF Names, DnsInv, DnsCacheTypeOK
  <2>5. UNCHANGED <<dns_cache_size, persist_only, params, overfull, hosts, hosts_changes, now>>
    BY <1>1 DEF param_vars, file_vars
  <2>. QED
    BY <2>1, <2>2, <2>3, <2>4, <2>5 DEF DnsInv, DnsCacheTypeOK
<1>. QED
  BY <1>4, <1>5, <1>7, <1>8, <1>9 DEF DnsInv

\* What a step that leaves the entries and the limit alone has to keep.
LEMMA DnsKept ==
  ASSUME DnsInv, UNCHANGED <<entry_vars, loaded, dns_cache_size, overfull>>,
         DnsCacheTypeOK', FileSeen'
  PROVE  DnsInv'
<1>1. /\ Entries' = Entries /\ dns_cache_size' = dns_cache_size /\ overfull' = overfull
      /\ persistent' = loaded'
  BY DEF entry_vars, Entries, DnsInv
<1>2. Stored(Entries)'
  BY <1>1 DEF DnsInv, Stored, Within, Consistent, Dynamic, Persistent
<1>. QED
  BY <1>1, <1>2 DEF DnsInv

LEMMA DnsStep == DnsInv /\ [DnsCacheNext]_dns_vars => DnsInv'
<1>. SUFFICES ASSUME DnsInv, [DnsCacheNext]_dns_vars
              PROVE  DnsInv'
  OBVIOUS
<1>1. ASSUME NEW a \in Addr, NEW n \in HostName \cup {Failed}, NEW opened \in BOOLEAN,
             Resolve(a, n, opened)
      PROVE  DnsInv'
  BY <1>1, ResolveStep
<1>2. /\ hosts_mtime \in -1..MaxNow /\ looked \in -1..MaxNow /\ now \in 0..MaxNow
      /\ hosts # <<>> => hosts.mtime \in 0..MaxNow
      /\ hosts_mtime <= looked /\ looked <= now /\ (hosts # <<>> => hosts.mtime <= now)
      /\ MaxNow \in Nat
  BY DnsCacheAssumption DEF DnsInv, DnsCacheTypeOK, FileSeen
<1>3. CASE UNCHANGED dns_vars
  <2>1. UNCHANGED <<entry_vars, dynamic, cached, persistent, persistent_count, replaced, aborted,
                    dns_cache_size, persist_only, params, overfull, hosts, hosts_changes,
                    loaded, seen, looked, overlooked, hosts_mtime, now>>
    BY <1>3 DEF dns_vars, entry_vars, param_vars, file_vars, seen_vars
  <2>2. DnsCacheTypeOK'
    BY <2>1 DEF DnsInv, DnsCacheTypeOK
  <2>3. FileSeen'
    BY <2>1 DEF DnsInv, FileSeen, Names
  <2>. QED
    BY <2>1, <2>2, <2>3, DnsKept
<1>4. CASE DnsClock
  <2>1. /\ UNCHANGED <<entry_vars, dynamic, cached, persistent, persistent_count, replaced, aborted,
                       dns_cache_size, persist_only, params, overfull, hosts, hosts_changes,
                       loaded, seen, looked, overlooked, hosts_mtime>>
        /\ now < MaxNow /\ now' = now + 1
    BY <1>4 DEF DnsClock, entry_vars, param_vars, file_vars, seen_vars
  <2>2. now' \in 0..MaxNow /\ looked <= now' /\ (hosts # <<>> => hosts.mtime <= now')
    BY <1>2, <2>1
  <2>3. DnsCacheTypeOK'
    BY <2>1, <2>2 DEF DnsInv, DnsCacheTypeOK
  <2>4. FileSeen'
    BY <2>1, <2>2 DEF DnsInv, FileSeen, Names
  <2>. QED
    BY <2>1, <2>3, <2>4, DnsKept
<1>5. ASSUME NEW limit \in CacheSize, NEW only \in BOOLEAN, SetParams(limit, only)
      PROVE  DnsInv'
  <2>1. /\ UNCHANGED <<entry_vars, dynamic, cached, persistent, persistent_count, replaced, aborted,
                       hosts, hosts_changes, loaded, seen, looked, overlooked, now>>
        /\ params < MaxParams /\ params' = params + 1 /\ hosts_mtime' = -1
        /\ dns_cache_size' = limit /\ persist_only' = only
        /\ overfull' = (overfull \/ limit < dns_cache_size) /\ ~aborted
    BY <1>5 DEF SetParams, entry_vars, file_vars, seen_vars
  <2>2. /\ Cardinality(Dynamic(Entries)) \in Nat /\ Entries.replaced \in Nat
        /\ dns_cache_size \in Nat /\ limit \in Nat /\ overfull \in BOOLEAN
        /\ params' \in 0..MaxParams
    BY <2>1, SizeIs, DnsCacheAssumption DEF DnsInv, DnsCacheTypeOK, Stored
  <2>3. DnsCacheTypeOK'
    <3>1. hosts_mtime' \in -1..MaxNow /\ overfull' \in BOOLEAN
      BY <1>2, <2>1, <2>2
    <3>. QED
      BY <2>1, <2>2, <3>1 DEF DnsInv, DnsCacheTypeOK
  <2>4. FileSeen'
    <3>1. hosts_mtime' <= looked'
      BY <1>2, <2>1
    <3>. QED
      BY <2>1, <3>1 DEF DnsInv, FileSeen, Names
  <2>5. Entries' = Entries /\ ~Entries.aborted
    BY <2>1 DEF Entries
  <2>6. ~overfull' => Cardinality(Dynamic(Entries)) + Entries.replaced <= limit
    <3>1. ~overfull' => ~overfull /\ ~(limit < dns_cache_size)
      BY <2>1, Zenon
    <3>2. ~overfull => Cardinality(Dynamic(Entries)) + Entries.replaced <= dns_cache_size
      BY DEF DnsInv, Stored, Within
    <3>. QED
      BY <2>2, <3>1, <3>2
  <2>7. Stored(Entries)'
    <3>1. Consistent(Entries)'
      BY <2>5 DEF DnsInv, Stored, Consistent, Dynamic, Persistent
    <3>2. (~overfull => Within(Entries) /\ ~Entries.aborted)'
      BY <2>1, <2>5, <2>6 DEF Within, Dynamic
    <3>. QED
      BY <3>1, <3>2 DEF Stored
  <2>. QED
    BY <2>1, <2>3, <2>4, <2>7 DEF DnsInv
<1>6. ASSUME NEW names \in Table(HostName), NEW mtime \in 0..now, ChangeHosts(names, mtime)
      PROVE  DnsInv'
  <2>1. /\ UNCHANGED <<entry_vars, dynamic, cached, persistent, persistent_count, replaced, aborted,
                       dns_cache_size, persist_only, params, overfull,
                       loaded, seen, looked, hosts_mtime, now>>
        /\ hosts_changes < MaxHostsChanges /\ hosts_changes' = hosts_changes + 1
        /\ hosts' = IF names = Empty THEN <<>> ELSE [names |-> names, mtime |-> mtime]
        /\ overlooked' = (overlooked \/ (names # Empty /\ mtime <= looked))
    BY <1>6 DEF ChangeHosts, entry_vars, param_vars, seen_vars
  <2>2. mtime \in 0..MaxNow /\ mtime <= now
    BY <1>2
  <2>3. /\ hosts' = <<>> \/ hosts' \in [names : Table(HostName), mtime : 0..MaxNow]
        /\ hosts' # <<>> => hosts'.mtime = mtime /\ names # Empty
    BY <2>1, <2>2
  <2>4. DnsCacheTypeOK'
    <3>1. hosts_changes' \in 0..MaxHostsChanges
      BY <2>1, DnsCacheAssumption DEF DnsInv, DnsCacheTypeOK
    <3>2. overlooked' \in BOOLEAN
      BY <2>1 DEF DnsInv, DnsCacheTypeOK
    <3>. QED
      BY <2>1, <2>3, <3>1, <3>2 DEF DnsInv, DnsCacheTypeOK
  <2>5. FileSeen'
    <3>1. ~overlooked' => ~overlooked /\ (hosts' # <<>> => hosts'.mtime > looked')
      <4>1. ~overlooked' => ~overlooked /\ ~(names # Empty /\ mtime <= looked)
        BY <2>1, Zenon
      <4>2. looked' = looked /\ (~(mtime <= looked) => mtime > looked)
        BY <1>2, <2>1, <2>2
      <4>. QED
        BY <2>3, <4>1, <4>2
    <3>2. hosts' # <<>> => hosts'.mtime <= now'
      BY <2>1, <2>2, <2>3
    <3>. QED
      BY <2>1, <3>1, <3>2 DEF DnsInv, FileSeen
  <2>. QED
    BY <2>1, <2>4, <2>5, DnsKept
<1>7. ASSUME NEW S \in SUBSET Addr, NEW n \in HostName, NEW mtime \in 0..now,
             ChangeHosts([a \in S |-> n], mtime)
      PROVE  DnsInv'
  <2>1. [a \in S |-> n] \in Table(HostName)
    BY TableMade
  <2>. QED
    BY <1>6, <1>7, <2>1
<1>. QED
  BY <1>1, <1>3, <1>4, <1>5, <1>7 DEF DnsCacheNext

\* For any addresses, files and limits.  The persistent entries are those of the
\* hosts file as it was last read, whatever failures of fopen() come between; and
\* they are what the last lookup found in the file, unless it could not be opened,
\* or was since given a time no later than that lookup: dns_cache_check_hosts
\* records the time of the file that it could not open, and reads only a newer one.
\* The count that dns_cache_store subtracts lacks each persistent entry that
\* replaced a dynamic one, so that no more dynamic names are cached than
\* dns_cache_size() less these, unless a reload lowered it; and the assertion of
\* dns_cache_key_hash fails only where these alone are more than such a size.
THEOREM CacheIsConsistent == DnsCacheSpec => []CacheConsistent
<1>1. DnsInv => HostsLoaded
  BY DEF DnsInv, FileSeen, HostsLoaded
<1>2. DnsInv => PlacesTaken
  <2>. SUFFICES ASSUME DnsInv
                PROVE  PlacesTaken
    OBVIOUS
  <2>1. Consistent(Entries) /\ (~overfull => Within(Entries) /\ ~Entries.aborted)
    BY DEF DnsInv, Stored
  <2>2. Entries.replaced = replaced /\ Entries.aborted = aborted
        /\ Entries.count = persistent_count /\ Entries.dynamic = dynamic
        /\ Persistent(Entries) = DOMAIN persistent
    BY DEF Entries, Persistent
  <2>3. Cardinality(Dynamic(Entries)) = Len(dynamic)
    BY <2>1, <2>2, SizeIs
  <2>4. aborted => overfull /\ replaced > dns_cache_size
    BY <2>1, <2>2 DEF Consistent
  <2>5. persistent_count = Cardinality(DOMAIN persistent) - replaced
    BY <2>1, <2>2 DEF Consistent
  <2>6. ~overfull => Len(dynamic) + replaced <= dns_cache_size
    BY <2>1, <2>2, <2>3 DEF Within
  <2>. QED
    BY <2>4, <2>5, <2>6 DEF PlacesTaken
<1>3. DnsInv => CacheConsistent
  BY <1>1, <1>2 DEF CacheConsistent
<1>. QED
  BY <1>3, DnsStart, DnsStep, PTL DEF DnsCacheSpec
=============================================================================
