---------------------------- MODULE LogCenterProofs ----------------------------
(***************************************************************************)
(* Theorems about LogCenter, for any configurations and messages.          *)
(***************************************************************************)
EXTENDS LogCenter, SequenceLemmas

-----------------------------------------------------------------------------
(***************************************************************************)
(* The deliveries of the first statements.                                 *)
(***************************************************************************)

\* A statement of the kind accepts the message.
Hit(i, kind) ==
  i \in DOMAIN conns /\ IsFallback(conns[i]) = kind /\ Accepts(conns[i], lm)

Final(i) == "final" \in conns[i].flags

Chosen(kind) == Dispatching(conns, lm, kind)

LEMMA ChosenIs ==
  ASSUME NEW kind, NEW i
  PROVE  i \in Chosen(kind) <=>
           Hit(i, kind) /\ \A j : Hit(j, kind) /\ j < i => ~Final(j)
BY Zenon DEF Chosen, Dispatching, Hit, Final

\* What the first n statements contribute when those of used dispatch.
Part(used, i) == IF i \in used THEN Deliveries(conns[i]) ELSE <<>>
Made(used, n) == FlattenSeq([i \in 1..n |-> Part(used, i)])

Typed == conns \in Configuration

Names == UNION {ToSet(conns[i].dests) : i \in DOMAIN conns}
DeliveryOf == [group : Names, flow : BOOLEAN]

LEMMA ConnsType ==
  ASSUME Typed
  PROVE  /\ Len(conns) \in Nat /\ DOMAIN conns = 1..Len(conns)
         /\ \A i \in DOMAIN conns : Deliveries(conns[i]) \in Seq(DeliveryOf)
<1>1. conns \in Seq(ToSet(conns))
  BY LogCenterAssumption DEF Typed
<1>2. ASSUME NEW i \in DOMAIN conns
      PROVE  Deliveries(conns[i]) \in Seq(DeliveryOf)
  <2>. DEFINE ds == conns[i].dests
              f == [k \in DOMAIN ds |-> [group |-> ds[k],
                                         flow |-> "flow-control" \in conns[i].flags]]
  <2>1. ds \in Seq(ToSet(ds))
    BY LogCenterAssumption DEF Typed
  <2>2. ToSet(ds) \subseteq Names
    BY DEF Names
  <2>3. ("flow-control" \in conns[i].flags) \in BOOLEAN
    OBVIOUS
  <2>4. f = Deliveries(conns[i])
    BY DEF Deliveries
  <2>. HIDE DEF ds
  <2>5. Len(ds) \in Nat /\ DOMAIN ds = 1..Len(ds)
        /\ \A k \in 1..Len(ds) : ds[k] \in Names
    BY <2>1, <2>2
  <2>6. f \in [1..Len(ds) -> DeliveryOf]
    BY <2>3, <2>5 DEF DeliveryOf
  <2>. HIDE DEF f
  <2>. QED
    BY <2>4, <2>5, <2>6
<1>. QED
  BY <1>1, <1>2

LEMMA PartsType ==
  ASSUME Typed, NEW used, NEW n \in 0..Len(conns)
  PROVE  /\ [i \in 1..n |-> Part(used, i)] \in Seq(Seq(DeliveryOf))
         /\ Made(used, n) \in Seq(DeliveryOf)
<1>. DEFINE f == [i \in 1..n |-> Part(used, i)]
<1>1. Len(conns) \in Nat /\ DOMAIN conns = 1..Len(conns) /\ n \in Nat
  BY ConnsType
<1>2. \A i \in 1..n : Part(used, i) \in Seq(DeliveryOf)
  BY <1>1, ConnsType DEF Part
<1>3. f \in [1..n -> Seq(DeliveryOf)]
  BY <1>2
<1>. HIDE DEF f
<1>4. f \in Seq(Seq(DeliveryOf))
  BY <1>1, <1>3
<1>. QED
  BY <1>4, FlattenType DEF f, Made

LEMMA MadeNone == \A used : Made(used, 0) = <<>>
BY FlattenEmpty DEF Made

\* One statement more.
LEMMA MadeNext ==
  ASSUME Typed, NEW used, NEW n \in Nat, n < Len(conns)
  PROVE  Made(used, n + 1) = Made(used, n) \o Part(used, n + 1)
<1>. DEFINE f == [i \in 1..n |-> Part(used, i)]
            g == [i \in 1..(n + 1) |-> Part(used, i)]
            e == Part(used, n + 1)
<1>1. /\ Len(conns) \in Nat /\ n \in 0..Len(conns)
      /\ n + 1 \in 0..Len(conns) /\ n + 1 \in DOMAIN conns
  BY ConnsType
<1>2. f \in Seq(Seq(DeliveryOf)) /\ g \in Seq(Seq(DeliveryOf))
  BY <1>1, PartsType
<1>3. e \in Seq(DeliveryOf)
  BY <1>1, ConnsType DEF Part
<1>4. /\ Len(f) = n /\ Len(g) = n + 1
      /\ \A i \in 1..n : f[i] = g[i]
      /\ g[n + 1] = e
  OBVIOUS
<1>. HIDE DEF f, g, e
<1>5. g = Append(f, e)
  <2>. DEFINE h == Append(f, e)
  <2>1. /\ h \in Seq(Seq(DeliveryOf)) /\ Len(h) = n + 1
        /\ \A i \in 1..n : h[i] = f[i]
        /\ h[n + 1] = e
    BY <1>2, <1>3, <1>4, AppendProperties
  <2>. HIDE DEF h
  <2>2. ASSUME NEW i \in 1..Len(g)
        PROVE  g[i] = h[i]
    <3>1. i \in 1..n \/ i = n + 1
      BY <1>4
    <3>. QED
      BY <1>4, <2>1, <3>1
  <2>. QED
    BY <1>2, <1>4, <2>1, <2>2, SeqEqual DEF h
<1>6. FlattenSeq(Append(f, e)) = FlattenSeq(f) \o e
  BY <1>2, <1>3, FlattenAppend
<1>. QED
  BY <1>5, <1>6 DEF Made, f, g, e

\* Statements that do not dispatch contribute nothing.
LEMMA MadeSkip ==
  ASSUME Typed, NEW used, NEW n \in Nat, n < Len(conns), n + 1 \notin used
  PROVE  Made(used, n + 1) = Made(used, n)
<1>1. n \in 0..Len(conns)
  BY ConnsType
<1>2. Made(used, n) \in Seq(DeliveryOf)
  BY <1>1, PartsType
<1>3. Part(used, n + 1) = <<>>
  BY DEF Part
<1>. QED
  BY <1>2, <1>3, MadeNext, ConcatEmptySeq

LEMMA MadeRest ==
  ASSUME Typed, NEW used, NEW n \in Nat, n <= Len(conns),
         \A i \in (n + 1)..Len(conns) : i \notin used
  PROVE  Made(used, Len(conns)) = Made(used, n)
<1>. DEFINE T == {k \in n..Len(conns) : Made(used, k) # Made(used, n)}
<1>1. SUFFICES ASSUME T # {}
               PROVE  FALSE
  <2>1. Len(conns) \in n..Len(conns)
    BY ConnsType
  <2>. QED
    BY <2>1
<1>2. PICK k \in T : \A l \in T : k <= l
  <2>1. T \subseteq Nat
    OBVIOUS
  <2>. QED
    BY <1>1, <2>1, NatMinimum
<1>3. k # n
  OBVIOUS
<1>. DEFINE j == k - 1
<1>4. /\ j \in Nat /\ j \in n..Len(conns) /\ j < Len(conns) /\ j < k
      /\ j + 1 = k /\ k \in (n + 1)..Len(conns)
  BY <1>3, ConnsType
<1>. HIDE DEF j
<1>5. Made(used, j) = Made(used, n)
  BY <1>2, <1>4
<1>6. Made(used, j + 1) = Made(used, j)
  BY <1>4, MadeSkip
<1>. QED
  BY <1>4, <1>5, <1>6

\* The answer without the loops.
LEMMA RouteIs ==
  ASSUME Typed
  PROVE  RouteOf(conns, lm)
           = Made(IF Chosen(FALSE) # {} THEN Chosen(FALSE) ELSE Chosen(TRUE),
                  Len(conns))
BY ConnsType, Zenon DEF RouteOf, Made, Part, Chosen

-----------------------------------------------------------------------------
(***************************************************************************)
(* The loops.  Before a pass is over it has made the deliveries of the     *)
(* statements of its kind behind it, and no final statement is among them; *)
(* a final statement ends the pass with nothing left to deliver.           *)
(***************************************************************************)

\* What is known of a pass that stands at statement ci.
Passed(kind) ==
  /\ sent = Made(Chosen(kind), ci - 1)
  /\ match <=> \E i \in 1..(ci - 1) : i \in Chosen(kind)
  /\ ci <= Len(conns) => \A i \in 1..(ci - 1) : Hit(i, kind) => ~Final(i)

\* The first pass takes note of the fallback statements it skips.
Noted ==
  match \/ (have_fallbacks <=> \E i \in 1..(ci - 1) : IsFallback(conns[i]))

Progress ==
  \/ ~done /\ fallbacks = 0 /\ Passed(FALSE) /\ Noted
  \/ ~done /\ fallbacks = 1 /\ Passed(TRUE) /\ Chosen(FALSE) = {}
  \/ done /\ sent = RouteOf(conns, lm)

IInv == Typed /\ TypeOK /\ Progress

LEMMA TypedStep == Typed /\ TypeOK /\ Progress /\ [Next]_vars => Typed' /\ TypeOK'
<1>. SUFFICES ASSUME Typed, TypeOK, Progress, [Next]_vars
              PROVE  Typed' /\ TypeOK'
  OBVIOUS
<1>. USE DEF Typed, TypeOK
<1>0. Len(conns) \in Nat
  BY ConnsType
<1>1. CASE PostponeFallback
  BY <1>0, <1>1 DEF PostponeFallback, AtStatement
<1>2. CASE NextConnection
  BY <1>0, <1>2 DEF NextConnection, AtStatement
<1>3. CASE Dispatch
  BY <1>0, <1>3 DEF Dispatch, AtStatement
<1>4. CASE EndPass
  <2>1. ~done /\ fallbacks' = fallbacks + 1 /\ UNCHANGED <<conns, lm, match>>
    BY <1>4 DEF EndPass
  <2>2. fallbacks' \in 0..2
    <3>1. fallbacks = 0 \/ fallbacks = 1
      BY <2>1, Zenon DEF Progress
    <3>2. CASE fallbacks = 0
      BY <2>1, <3>2
    <3>3. CASE fallbacks = 1
      BY <2>1, <3>3
    <3>. QED
      BY <3>1, <3>2, <3>3
  <2>3. have_fallbacks' \in BOOLEAN /\ done' \in BOOLEAN
    <3>1. \/ have_fallbacks' = FALSE /\ done' = done
          \/ done' = TRUE /\ have_fallbacks' = have_fallbacks
      BY <1>4, Zenon DEF EndPass
    <3>. QED
      BY <3>1
  <2>4. ci' \in 1..(Len(conns) + 1)
    <3>1. ci' = 1 \/ ci' = ci
      BY <1>4, Zenon DEF EndPass
    <3>2. 1 \in 1..(Len(conns) + 1)
      BY <1>0
    <3>. QED
      BY <3>1, <3>2
  <2>. QED
    BY <2>1, <2>2, <2>3, <2>4
<1>5. CASE UNCHANGED vars
  BY <1>5 DEF vars
<1>. QED
  BY <1>1, <1>2, <1>3, <1>4, <1>5 DEF Next

\* A statement of the pass that accepts the message dispatches it, as long as
\* no final one came before.
LEMMA AtHit ==
  ASSUME Typed, TypeOK, AtStatement, NEW kind \in BOOLEAN, Passed(kind)
  PROVE  ci \in Chosen(kind) <=> Hit(ci, kind)
<1>1. ASSUME NEW j, Hit(j, kind), j < ci
      PROVE  ~Final(j)
  <2>1. j \in 1..(ci - 1)
    BY <1>1, ConnsType DEF Hit, TypeOK
  <2>. QED
    BY <1>1, <2>1 DEF Passed, AtStatement
<1>. QED
  BY <1>1, ChosenIs

LEMMA SameChoice ==
  ASSUME UNCHANGED <<conns, lm>>, NEW kind
  PROVE  /\ Chosen(kind)' = Chosen(kind)
         /\ \A i : Hit(i, kind)' = Hit(i, kind)
         /\ \A i : Final(i)' = Final(i)
BY DEF Chosen, Hit, Final

LEMMA MadeThen ==
  ASSUME UNCHANGED <<conns, lm>>, NEW kind, NEW n, ci' - 1 = n
  PROVE  Made(Chosen(kind), ci - 1)' = Made(Chosen(kind), n)
<1>. DEFINE used == Chosen(kind)
<1>1. used' = used
  BY SameChoice
<1>. HIDE DEF used
<1>2. Made(used, ci - 1)' = Made(used, ci' - 1)
  BY <1>1, Zenon DEF Made, Part, Deliveries
<1>. QED
  BY <1>2, Zenon DEF used

\* A statement that does not dispatch is passed.
LEMMA SkipPassed ==
  ASSUME Typed, TypeOK, AtStatement, NEW kind \in BOOLEAN, Passed(kind),
         ~Hit(ci, kind), ci' = ci + 1, UNCHANGED <<conns, lm, match, sent>>
  PROVE  Passed(kind)'
<1>1. ci \in Nat /\ ci \in 1..Len(conns) /\ Len(conns) \in Nat
  BY ConnsType DEF TypeOK, AtStatement
<1>2. ci \notin Chosen(kind)
  BY AtHit
<1>3. /\ Chosen(kind)' = Chosen(kind)
      /\ \A i : Hit(i, kind)' = Hit(i, kind)
      /\ \A i : Final(i)' = Final(i)
  BY SameChoice
<1>4. Made(Chosen(kind), ci) = Made(Chosen(kind), ci - 1)
  <2>. DEFINE used == Chosen(kind)
              n == ci - 1
  <2>1. n \in Nat /\ n < Len(conns) /\ n + 1 = ci
    BY <1>1
  <2>. HIDE DEF n, used
  <2>2. Made(used, n + 1) = Made(used, n)
    BY <1>2, <2>1, MadeSkip DEF used
  <2>. QED
    BY <2>1, <2>2 DEF n, used
<1>5. ci' - 1 = ci
  BY <1>1
<1>6. 1..(ci' - 1) = 1..(ci - 1) \cup {ci}
  BY <1>1
<1>7. sent' = Made(Chosen(kind), ci - 1)'
  BY <1>4, <1>5, MadeThen DEF Passed
<1>8. match' <=> \E i \in 1..(ci' - 1) : i \in Chosen(kind)
  BY <1>2, <1>6 DEF Passed
<1>9. ci' <= Len(conns) =>
        \A i \in 1..(ci' - 1) : Hit(i, kind) => ~Final(i)
  BY <1>1, <1>6 DEF Passed, AtStatement
<1>. QED
  BY <1>3, <1>7, <1>8, <1>9 DEF Passed

\* A statement of the pass that accepts the message makes its deliveries, and
\* when it is final nothing after it makes any.
LEMMA HitPassed ==
  ASSUME Typed, TypeOK, NEW kind \in BOOLEAN, Passed(kind),
         Hit(ci, kind), Dispatch
  PROVE  Passed(kind)'
<1>1. /\ ci \in Nat /\ ci \in 1..Len(conns) /\ Len(conns) \in Nat
      /\ AtStatement /\ UNCHANGED <<conns, lm>>
      /\ match' /\ sent' = sent \o Deliveries(conns[ci])
      /\ ci' = IF Final(ci) THEN Len(conns) + 1 ELSE ci + 1
  BY ConnsType DEF TypeOK, AtStatement, Dispatch, Final
<1>2. ci \in Chosen(kind)
  BY <1>1, AtHit
<1>3. /\ Chosen(kind)' = Chosen(kind)
      /\ \A i : Hit(i, kind)' = Hit(i, kind)
      /\ \A i : Final(i)' = Final(i)
  BY <1>1, SameChoice
<1>4. sent' = Made(Chosen(kind), ci)
  <2>. DEFINE used == Chosen(kind)
              n == ci - 1
  <2>1. n \in Nat /\ n < Len(conns) /\ n + 1 = ci
    BY <1>1
  <2>2. sent = Made(used, n) /\ ci \in used
    BY <1>2, Zenon DEF Passed
  <2>. HIDE DEF n, used
  <2>3. Made(used, n + 1) = Made(used, n) \o Part(used, n + 1)
    BY <2>1, MadeNext
  <2>4. Part(used, n + 1) = Deliveries(conns[ci])
    BY <2>1, <2>2 DEF Part
  <2>5. sent' = Made(used, n + 1)
    BY <1>1, <2>2, <2>3, <2>4, Zenon
  <2>. QED
    BY <2>1, <2>5 DEF n, used
<1>5. ci' \in Nat /\ ci < ci' /\ ci \in 1..(ci' - 1)
  <2>1. CASE Final(ci)
    BY <1>1, <2>1
  <2>2. CASE ~Final(ci)
    BY <1>1, <2>2
  <2>. QED
    BY <2>1, <2>2
<1>6. sent' = Made(Chosen(kind), ci - 1)'
  <2>1. CASE Final(ci)
    <3>1. \A i \in (ci + 1)..Len(conns) : i \notin Chosen(kind)
      BY <1>1, <2>1, ChosenIs
    <3>2. Made(Chosen(kind), Len(conns)) = Made(Chosen(kind), ci)
      BY <1>1, <3>1, MadeRest
    <3>3. ci' - 1 = Len(conns)
      BY <1>1, <2>1
    <3>. QED
      BY <1>1, <1>4, <3>2, <3>3, MadeThen
  <2>2. CASE ~Final(ci)
    <3>1. ci' - 1 = ci
      BY <1>1, <2>2
    <3>. QED
      BY <1>1, <1>4, <3>1, MadeThen
  <2>. QED
    BY <2>1, <2>2
<1>7. match' <=> \E i \in 1..(ci' - 1) : i \in Chosen(kind)
  BY <1>1, <1>2, <1>5
<1>8. ci' <= Len(conns) =>
        \A i \in 1..(ci' - 1) : Hit(i, kind) => ~Final(i)
  <2>1. SUFFICES ASSUME ci' <= Len(conns), NEW i \in 1..(ci' - 1),
                        Hit(i, kind)
                 PROVE  ~Final(i)
    OBVIOUS
  <2>2. ~Final(ci) /\ ci' = ci + 1
    BY <1>1, <2>1
  <2>3. i = ci \/ i \in 1..(ci - 1)
    BY <1>1, <2>2
  <2>. QED
    BY <1>1, <2>1, <2>2, <2>3 DEF Passed, AtStatement
<1>9. UNCHANGED conns
  BY <1>1
<1>. QED
  BY <1>3, <1>6, <1>7, <1>8, <1>9 DEF Passed

\* Where a pass has ended all its deliveries are made.
LEMMA PassEnds ==
  ASSUME Typed, TypeOK, ci > Len(conns), NEW kind \in BOOLEAN, Passed(kind)
  PROVE  /\ sent = Made(Chosen(kind), Len(conns))
         /\ match <=> Chosen(kind) # {}
<1>1. ci - 1 = Len(conns) /\ Len(conns) \in Nat
  BY ConnsType DEF TypeOK
<1>2. \A i \in Chosen(kind) : i \in 1..Len(conns)
  BY ChosenIs, ConnsType DEF Hit
<1>3. sent = Made(Chosen(kind), Len(conns))
  BY <1>1, Zenon DEF Passed
<1>4. match <=> \E i \in 1..Len(conns) : i \in Chosen(kind)
  BY <1>1, Zenon DEF Passed
<1>. QED
  BY <1>2, <1>3, <1>4

LEMMA NotedStep ==
  ASSUME Typed, TypeOK, Noted, fallbacks = 0,
         PostponeFallback \/ NextConnection
  PROVE  Noted'
<1>1. ci \in Nat /\ ci \in 1..Len(conns) /\ ci' = ci + 1
      /\ UNCHANGED <<conns, match>>
  BY ConnsType DEF TypeOK, PostponeFallback, NextConnection, AtStatement
<1>2. 1..(ci' - 1) = 1..(ci - 1) \cup {ci}
  BY <1>1
<1>3. CASE PostponeFallback
  <2>1. have_fallbacks' /\ IsFallback(conns[ci])
    BY <1>3 DEF PostponeFallback
  <2>2. \E i \in 1..(ci' - 1) : IsFallback(conns[i])
    BY <1>2, <2>1
  <2>. QED
    BY <1>1, <2>1, <2>2 DEF Noted, IsFallback
<1>4. CASE NextConnection
  <2>1. have_fallbacks' = have_fallbacks /\ ~IsFallback(conns[ci])
    BY <1>4 DEF NextConnection
  <2>2. (\E i \in 1..(ci' - 1) : IsFallback(conns[i]))
          <=> (\E i \in 1..(ci - 1) : IsFallback(conns[i]))
    BY <1>2, <2>1
  <2>. QED
    BY <1>1, <2>1, <2>2 DEF Noted, IsFallback
<1>. QED
  BY <1>3, <1>4

\* The deliveries of no statement at all.
LEMMA MadeByNone ==
  ASSUME Typed
  PROVE  Made({}, Len(conns)) = <<>>
<1>1. 0 \in Nat /\ 0 <= Len(conns)
  BY ConnsType
<1>2. \A i \in (0 + 1)..Len(conns) : i \notin {}
  OBVIOUS
<1>3. Made({}, Len(conns)) = Made({}, 0)
  BY <1>1, <1>2, MadeRest
<1>. QED
  BY <1>3, MadeNone

\* The end of a pass: another one, or the answer.
LEMMA EndStep ==
  ASSUME Typed, TypeOK, Progress, EndPass
  PROVE  Progress'
<1>1. /\ ~done /\ ci > Len(conns) /\ fallbacks' = fallbacks + 1
      /\ UNCHANGED <<conns, lm, match, sent>>
  BY DEF EndPass
<1>2. RouteOf(conns, lm)' = RouteOf(conns, lm)
  BY <1>1, Zenon
<1>3. CASE fallbacks = 0 /\ Passed(FALSE) /\ Noted
  <2>1. sent = Made(Chosen(FALSE), Len(conns)) /\ (match <=> Chosen(FALSE) # {})
    BY <1>1, <1>3, PassEnds
  <2>2. fallbacks' = 1
    BY <1>1, <1>3
  <2>3. CASE ~match /\ have_fallbacks
    <3>1. ci' = 1 /\ ~done'
      <4>1. fallbacks' <= 1
        BY <2>2
      <4>2. ci' = 1 /\ UNCHANGED done
        BY <2>3, <4>1, Zenon DEF EndPass
      <4>. QED
        BY <1>1, <4>2
    <3>2. Chosen(FALSE)' = {}
      BY <1>1, <2>1, <2>3, SameChoice
    <3>3. sent' = <<>>
      BY <1>1, <2>1, <2>3, MadeByNone
    <3>4. ci' - 1 = 0
      BY <3>1
    <3>5. Made(Chosen(TRUE), ci - 1)' = <<>>
      BY <1>1, <3>4, MadeThen, MadeNone
    <3>6. 1..(ci' - 1) = {}
      BY <3>4
    <3>7. Passed(TRUE)'
      BY <1>1, <2>3, <3>3, <3>5, <3>6 DEF Passed
    <3>. QED
      BY <2>2, <3>1, <3>2, <3>7 DEF Progress
  <2>4. CASE match
    <3>1. done'
      BY <1>1, <2>4 DEF EndPass
    <3>2. sent = RouteOf(conns, lm)
      BY <2>1, <2>4, RouteIs
    <3>. QED
      BY <1>1, <1>2, <3>1, <3>2 DEF Progress
  <2>5. CASE ~match /\ ~have_fallbacks
    <3>1. done'
      BY <1>1, <2>5 DEF EndPass
    <3>2. ci - 1 = Len(conns) /\ DOMAIN conns = 1..Len(conns)
      BY <1>1, ConnsType DEF TypeOK
    <3>3. \A i \in DOMAIN conns : ~IsFallback(conns[i])
      BY <1>3, <2>5, <3>2, Zenon DEF Noted
    <3>4. Chosen(TRUE) = {}
      BY <3>3, ChosenIs DEF Hit
    <3>5. sent = RouteOf(conns, lm)
      BY <2>1, <2>5, <3>4, RouteIs
    <3>. QED
      BY <1>1, <1>2, <3>1, <3>5 DEF Progress
  <2>. QED
    BY <2>3, <2>4, <2>5
<1>4. CASE fallbacks = 1 /\ Passed(TRUE) /\ Chosen(FALSE) = {}
  <2>1. sent = Made(Chosen(TRUE), Len(conns))
    BY <1>1, <1>4, PassEnds
  <2>2. ~(fallbacks' <= 1)
    BY <1>1, <1>4
  <2>3. done'
    BY <2>2 DEF EndPass
  <2>4. sent = RouteOf(conns, lm)
    BY <1>4, <2>1, RouteIs
  <2>. QED
    BY <1>1, <1>2, <2>3, <2>4 DEF Progress
<1>. QED
  BY <1>1, <1>3, <1>4, Zenon DEF Progress

LEMMA ProgressStep ==
  ASSUME Typed, TypeOK, Progress, [Next]_vars
  PROVE  Progress'
<1>0. ASSUME Typed, TypeOK, AtStatement
      PROVE  ci \in DOMAIN conns
  BY <1>0, ConnsType DEF TypeOK, AtStatement
<1>1. CASE PostponeFallback
  <2>1. /\ ~done /\ fallbacks = 0 /\ AtStatement /\ IsFallback(conns[ci])
        /\ ci' = ci + 1 /\ UNCHANGED <<conns, lm, fallbacks, match, sent, done>>
    BY <1>1 DEF PostponeFallback, AtStatement
  <2>2. Passed(FALSE) /\ Noted
    <3>1. fallbacks # 1
      BY <2>1
    <3>. QED
      BY <2>1, <3>1, Zenon DEF Progress
  <2>3. ~Hit(ci, FALSE)
    BY <2>1 DEF Hit
  <2>4. Passed(FALSE)'
    BY <2>1, <2>2, <2>3, SkipPassed
  <2>5. Noted'
    BY <1>1, <2>1, <2>2, NotedStep
  <2>. QED
    BY <2>1, <2>4, <2>5 DEF Progress
<1>2. CASE NextConnection
  <2>1. /\ ~done /\ AtStatement /\ ci' = ci + 1
        /\ UNCHANGED <<conns, lm, fallbacks, match, sent, done>>
        /\ ~(fallbacks = 0 /\ IsFallback(conns[ci]))
        /\ ~ThisPass \/ ~Accepts(conns[ci], lm)
    BY <1>2 DEF NextConnection, AtStatement
  <2>2. CASE fallbacks = 0 /\ Passed(FALSE) /\ Noted
    <3>1. ~Hit(ci, FALSE)
      <4>1. (fallbacks = 1) = FALSE
        BY <2>2
      <4>2. IsFallback(conns[ci]) \/ ThisPass
        BY <4>1 DEF ThisPass, IsFallback
      <4>. QED
        BY <2>1, <2>2, <4>2, Zenon DEF Hit
    <3>2. Passed(FALSE)'
      BY <2>1, <2>2, <3>1, SkipPassed
    <3>3. Noted'
      BY <1>2, <2>2, NotedStep
    <3>. QED
      BY <2>1, <2>2, <3>2, <3>3 DEF Progress
  <2>3. CASE fallbacks = 1 /\ Passed(TRUE) /\ Chosen(FALSE) = {}
    <3>1. ~Hit(ci, TRUE)
      BY <2>1, <2>3 DEF Hit, ThisPass
    <3>2. Passed(TRUE)'
      BY <2>1, <2>3, <3>1, SkipPassed
    <3>3. Chosen(FALSE)' = {}
      BY <2>1, <2>3, SameChoice
    <3>. QED
      BY <2>1, <2>3, <3>2, <3>3 DEF Progress
  <2>. QED
    BY <2>1, <2>2, <2>3, Zenon DEF Progress
<1>3. CASE Dispatch
  <2>1. /\ ~done /\ AtStatement /\ match'
        /\ UNCHANGED <<conns, lm, fallbacks, done>>
        /\ ThisPass /\ Accepts(conns[ci], lm)
    BY <1>3 DEF Dispatch, AtStatement
  <2>2. ci \in DOMAIN conns
    BY <1>0, <2>1
  <2>3. CASE fallbacks = 0 /\ Passed(FALSE) /\ Noted
    <3>1. Hit(ci, FALSE)
      <4>1. (fallbacks = 1) = FALSE
        BY <2>3
      <4>2. IsFallback(conns[ci]) = FALSE
        BY <2>1, <4>1, Zenon DEF ThisPass
      <4>. QED
        BY <2>1, <2>2, <4>2, Zenon DEF Hit
    <3>2. Passed(FALSE)'
      BY <1>3, <2>3, <3>1, HitPassed
    <3>. QED
      BY <2>1, <2>3, <3>2 DEF Progress, Noted
  <2>4. CASE fallbacks = 1 /\ Passed(TRUE) /\ Chosen(FALSE) = {}
    <3>1. Hit(ci, TRUE)
      BY <2>1, <2>2, <2>4 DEF Hit, ThisPass
    <3>2. Passed(TRUE)'
      BY <1>3, <2>4, <3>1, HitPassed
    <3>3. Chosen(FALSE)' = {}
      BY <2>1, <2>4, SameChoice
    <3>. QED
      BY <2>1, <2>4, <3>2, <3>3 DEF Progress
  <2>. QED
    BY <2>1, <2>3, <2>4, Zenon DEF Progress
<1>4. CASE EndPass
  BY <1>4, EndStep
<1>5. CASE UNCHANGED vars
  BY <1>5, Zenon DEF vars, Progress, Passed, Noted, Chosen, Hit, Final, Made,
                     Part, IsFallback
<1>. QED
  BY <1>1, <1>2, <1>3, <1>4, <1>5 DEF Next

LEMMA Starts == Init => IInv
<1>. SUFFICES ASSUME Init
              PROVE  IInv
  OBVIOUS
<1>1. /\ conns \in Configuration /\ lm \in Message /\ fallbacks = 0
      /\ have_fallbacks = FALSE /\ match = FALSE /\ ci = 1 /\ sent = <<>>
      /\ done = FALSE
  BY DEF Init
<1>2. Typed
  BY <1>1 DEF Typed
<1>3. TypeOK
  <2>1. Len(conns) \in Nat
    BY <1>2, ConnsType
  <2>2. 1 \in 1..(Len(conns) + 1)
    BY <2>1
  <2>3. 0 \in 0..2
    OBVIOUS
  <2>4. FALSE \in BOOLEAN
    OBVIOUS
  <2>. QED
    BY <1>1, <2>2, <2>3, <2>4, Zenon DEF TypeOK
<1>4. ci - 1 = 0
  BY <1>1
<1>5. 1..(ci - 1) = {}
  BY <1>4
<1>6. Made(Chosen(FALSE), ci - 1) = <<>>
  BY <1>4, MadeNone
<1>7. Passed(FALSE) /\ Noted
  BY <1>1, <1>5, <1>6 DEF Passed, Noted
<1>. QED
  BY <1>1, <1>2, <1>3, <1>7 DEF IInv, Progress

\* The walk over the log statements keeps its invariant.
THEOREM Walks == Spec => []IInv
<1>1. IInv /\ [Next]_vars => IInv'
  BY TypedStep, ProgressStep DEF IInv
<1>. QED
  BY Starts, <1>1, PTL DEF Spec

\* The variables of log_center_queue keep to their types: at most two passes
\* are made, and the walk never leaves the statements.
THEOREM TypeCorrect == Spec => []TypeOK
BY Walks, PTL DEF IInv

\* Whatever the configuration and the message, what log_center_queue has sent
\* when its loops end is the route that the flags of the log statements,
\* catchall, fallback, final and flow-control, mean taken one by one.
THEOREM SendsTheRoute == Spec => []SentIsRoute
<1>1. IInv => SentIsRoute
  BY DEF IInv, Progress, SentIsRoute
<1>. QED
  BY Walks, <1>1, PTL

=============================================================================
