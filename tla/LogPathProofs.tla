---------------------------- MODULE LogPathProofs ----------------------------
(***************************************************************************)
(* Theorems about LogPath, for any number of messages, readers, drivers,   *)
(* destinations and groups.                                                *)
(***************************************************************************)
EXTENDS LogPath, TLAPS, FiniteSetTheorems, SequenceTheorems,
        WellFoundedInduction, NaturalsInduction

-----------------------------------------------------------------------------
(***************************************************************************)
(* Operations on one message.                                              *)
(***************************************************************************)

\* A set of natural numbers that is not empty has a least element.
LEMMA NatMinimum ==
  ASSUME NEW T, T \subseteq Nat, T # {}
  PROVE  \E n \in T : \A k \in T : n <= k
<1>. DEFINE lt == {p \in Nat \X Nat : p[1] < p[2]}
<1>1. IsWellFoundedOn(lt, Nat)
  BY NatLessThanWellFounded DEF OpToRel
<1>2. PICK n \in T : \A k \in T : ~(<<k, n>> \in lt)
  BY <1>1, WFMin
<1>3. ASSUME NEW k \in T
      PROVE  n <= k
  <2>1. ~(k < n)
    BY <1>2
  <2>. QED
    BY <2>1
<1>. QED
  BY <1>3

\* log_msg_ack stops at a block that lacks another acknowledgement; all the
\* blocks above it are complete with this one.
LEMMA StopProperties ==
  ASSUME NEW bs \in Seq(Block)
  PROVE  /\ Stop(bs) \in 0..Len(bs)
         /\ Stop(bs) > 0 => ~Due(bs[Stop(bs)])
         /\ \A i \in 1..Len(bs) : i > Stop(bs) => Due(bs[i])
<1>. DEFINE T == {j \in Nat : j < Len(bs) /\ ~Due(bs[Len(bs) - j])}
<1>1. CASE \A i \in DOMAIN bs : Due(bs[i])
  BY <1>1 DEF Stop
<1>2. CASE \E i \in DOMAIN bs : ~Due(bs[i])
  <2>1. PICK i \in 1..Len(bs) : ~Due(bs[i])
    BY <1>2
  <2>2. Len(bs) - i \in T
    BY <2>1
  <2>3. PICK j \in T : \A k \in T : j <= k
    BY <2>2, NatMinimum
  <2>. DEFINE k == Len(bs) - j
  <2>4. k \in DOMAIN bs /\ ~Due(bs[k])
    BY <2>3
  <2>5. ASSUME NEW l \in DOMAIN bs, l > k, ~Due(bs[l])
        PROVE  FALSE
    <3>1. Len(bs) - l \in T
      BY <2>5
    <3>. QED
      BY <2>3, <2>5, <3>1
  <2>6. \E s \in DOMAIN bs :
          ~Due(bs[s]) /\ \A l \in DOMAIN bs : l > s => Due(bs[l])
    BY <2>4, <2>5
  <2>7. /\ Stop(bs) \in DOMAIN bs
        /\ ~Due(bs[Stop(bs)])
        /\ \A l \in DOMAIN bs : l > Stop(bs) => Due(bs[l])
    BY <1>2, <2>6 DEF Stop
  <2>. QED
    BY <2>7
<1>. QED
  BY <1>1, <1>2

\* Differences that count the references left after a cascade.
LEMMA Remainder ==
  ASSUME NEW a \in Nat, NEW b \in Nat, NEW p \in Nat
  PROVE  /\ (a + p) - (a - b) = b + p
         /\ (a + p + 1) - (a - b) - 1 = b + p
         /\ (a + p) - (a - b) - 1 = b + (p - 1) + 0
OBVIOUS

\* What the fields of a block are.
LEMMA BlockType ==
  ASSUME NEW bs \in Seq(Block), NEW i \in 1..Len(bs)
  PROVE  bs[i] \in Block /\ bs[i].ack \in Nat /\ bs[i].req \in Nat
<1>1. bs[i] \in Block
  OBVIOUS
<1>. QED
  BY <1>1 DEF Block

\* Counting a reference up or down leaves the blocks alone.
LEMMA RefUnref ==
  ASSUME NEW lm \in LogMessage
  PROVE  /\ Ref(lm) \in LogMessage /\ Unref(lm) \in LogMessage
         /\ Ref(lm).refs = lm.refs + 1 /\ Unref(lm).refs = lm.refs - 1
         /\ Ref(lm).blocks = lm.blocks /\ Unref(lm).blocks = lm.blocks
BY DEF LogMessage, Ref, Unref

\* log_msg_ack_block_start puts a block that lacks one acknowledgement on top.
LEMMA BlockStartProperties ==
  ASSUME NEW lm \in LogMessage, NEW by,
         by \in Pusher(Len(lm.blocks) + 1), Nested(lm.blocks)
  PROVE  LET new == BlockStart(lm, by) IN
         /\ new \in LogMessage
         /\ new.refs = lm.refs
         /\ new.blocks = Append(lm.blocks, [by |-> by, req |-> 1, ack |-> 0])
         /\ Nested(new.blocks)
<1>. DEFINE new == BlockStart(lm, by)
            b == [by |-> by, req |-> 1, ack |-> 0]
<1>1. lm.blocks \in Seq(Block) /\ lm.refs \in Int
  BY DEF LogMessage
<1>2. by \in Reader \cup {"center", "group"}
  BY <1>1 DEF Pusher
<1>3. /\ new \in LogMessage
      /\ new.refs = lm.refs
      /\ new.blocks = Append(lm.blocks, b)
  <2>1. b \in Block
    BY <1>2 DEF Block
  <2>2. Append(lm.blocks, b) \in Seq(Block)
    BY <1>1, <2>1
  <2>3. new = [lm EXCEPT !.blocks = Append(lm.blocks, b)]
    BY DEF BlockStart
  <2>. HIDE DEF new, b
  <2>. QED
    BY <2>2, <2>3 DEF LogMessage
<1>4. Nested(new.blocks)
  BY <1>1, <1>3 DEF Nested
<1>. QED
  BY <1>3, <1>4

\* log_msg_ack_block_inc makes the block on top wait for one more.
LEMMA BlockIncProperties ==
  ASSUME NEW lm \in LogMessage, lm.blocks # <<>>, Nested(lm.blocks)
  PROVE  LET new == BlockInc(lm)
             n   == Len(lm.blocks)
         IN /\ new \in LogMessage
            /\ new.refs = lm.refs
            /\ Len(new.blocks) = n
            /\ new.blocks[n].by = lm.blocks[n].by
            /\ new.blocks[n].req = lm.blocks[n].req + 1
            /\ new.blocks[n].ack = lm.blocks[n].ack
            /\ \A i \in 1..(n - 1) : new.blocks[i] = lm.blocks[i]
            /\ Nested(new.blocks)
<1>. DEFINE new == BlockInc(lm)
            n   == Len(lm.blocks)
            top == [lm.blocks[n] EXCEPT !.req = @ + 1]
<1>1. lm.blocks \in Seq(Block) /\ lm.refs \in Int /\ n \in DOMAIN lm.blocks
  BY DEF LogMessage
<1>2. lm.blocks[n] \in Block
  BY <1>1
<1>3. /\ top \in Block
      /\ top.by = lm.blocks[n].by
      /\ top.req = lm.blocks[n].req + 1
      /\ top.ack = lm.blocks[n].ack
  BY <1>2 DEF Block
<1>4. new = [lm EXCEPT !.blocks = [lm.blocks EXCEPT ![n] = top]]
  BY DEF BlockInc
<1>5. [lm.blocks EXCEPT ![n] = top] \in Seq(Block)
  <2>. HIDE DEF top
  <2>. QED
    BY <1>1, <1>3, ExceptSeq
<1>. HIDE DEF new, top
<1>6. new \in LogMessage /\ new.refs = lm.refs
  BY <1>4, <1>5 DEF LogMessage
<1>7. new.blocks = [lm.blocks EXCEPT ![n] = top]
  BY <1>4 DEF LogMessage
<1>8. /\ Len(new.blocks) = n
      /\ new.blocks[n] = top
      /\ \A i \in 1..(n - 1) : new.blocks[i] = lm.blocks[i]
  BY <1>1, <1>3, <1>7
<1>9. Nested(new.blocks)
  <2>. SUFFICES ASSUME NEW i \in 1..n
                PROVE  /\ new.blocks[i].by \in Pusher(i)
                       /\ new.blocks[i].ack < new.blocks[i].req
    BY <1>6, <1>8 DEF Nested, LogMessage
  <2>1. lm.blocks[i].by \in Pusher(i) /\ lm.blocks[i].ack < lm.blocks[i].req
    BY <1>1 DEF Nested
  <2>2. lm.blocks[n].req \in Nat /\ lm.blocks[n].ack \in Nat
    BY <1>2 DEF Block
  <2>3. i = n \/ i \in 1..(n - 1)
    BY <1>1
  <2>. QED
    BY <1>3, <1>8, <2>1, <2>2, <2>3
<1>. QED
  BY <1>3, <1>6, <1>8, <1>9 DEF new

\* log_msg_ack pops the blocks above the one it stops at, with the reference
\* each of them held, and counts one more acknowledgement there.
LEMMA AckProperties ==
  ASSUME NEW lm \in LogMessage, Nested(lm.blocks)
  PROVE  LET new == Ack(lm)
             k   == Stop(lm.blocks)
         IN /\ new \in LogMessage
            /\ k \in 0..Len(lm.blocks)
            /\ new.refs = lm.refs - (Len(lm.blocks) - k)
            /\ Len(new.blocks) = k
            /\ k > 0 => /\ new.blocks[k].by = lm.blocks[k].by
                        /\ new.blocks[k].req = lm.blocks[k].req
                        /\ new.blocks[k].ack = lm.blocks[k].ack + 1
                        /\ ~Due(lm.blocks[k])
            /\ \A i \in 1..(k - 1) : new.blocks[i] = lm.blocks[i]
            /\ \A i \in 1..Len(lm.blocks) : i > k => Due(lm.blocks[i])
            /\ Nested(new.blocks)
<1>. DEFINE new == Ack(lm)
            k   == Stop(lm.blocks)
            top == [lm.blocks[k] EXCEPT !.ack = @ + 1]
            rest == [i \in 1..k |-> IF i = k THEN top ELSE lm.blocks[i]]
<1>1. lm.blocks \in Seq(Block) /\ lm.refs \in Int
  BY DEF LogMessage
<1>2. /\ k \in 0..Len(lm.blocks)
      /\ k > 0 => ~Due(lm.blocks[k])
      /\ \A i \in 1..Len(lm.blocks) : i > k => Due(lm.blocks[i])
  BY <1>1, StopProperties
<1>3. \A i \in 1..Len(lm.blocks) : lm.blocks[i] \in Block
  BY <1>1
<1>4. k > 0 => /\ top \in Block
               /\ top.by = lm.blocks[k].by
               /\ top.req = lm.blocks[k].req
               /\ top.ack = lm.blocks[k].ack + 1
  BY <1>2, <1>3 DEF Block
<1>5. new = [lm EXCEPT !.refs = @ - (Len(lm.blocks) - k), !.blocks = rest]
  BY <1>2, <1>3 DEF Ack
<1>. HIDE DEF new, k, top
<1>6. rest \in Seq(Block) /\ Len(rest) = k
  BY <1>2, <1>3, <1>4
<1>7. /\ new.refs = lm.refs - (Len(lm.blocks) - k)
      /\ new.blocks = rest
      /\ new \in LogMessage
  <2>. DEFINE left == lm.refs - (Len(lm.blocks) - k)
  <2>1. left \in Int
    BY <1>1, <1>2
  <2>2. new = [lm EXCEPT !.refs = left, !.blocks = rest]
    BY <1>5
  <2>. HIDE DEF rest, left
  <2>3. new.refs = left /\ new.blocks = rest /\ new \in LogMessage
    BY <1>6, <2>1, <2>2 DEF LogMessage
  <2>. QED
    BY <2>3 DEF left
<1>8. /\ k > 0 => new.blocks[k] = top
      /\ \A i \in 1..(k - 1) : new.blocks[i] = lm.blocks[i]
  BY <1>2, <1>7
<1>9. Nested(new.blocks)
  <2>. SUFFICES ASSUME NEW i \in 1..k
                PROVE  /\ new.blocks[i].by \in Pusher(i)
                       /\ new.blocks[i].ack < new.blocks[i].req
    BY <1>2, <1>6, <1>7 DEF Nested
  <2>1. lm.blocks[i].by \in Pusher(i) /\ lm.blocks[i].ack < lm.blocks[i].req
    BY <1>1, <1>2 DEF Nested
  <2>2. /\ lm.blocks[i].req \in Nat /\ lm.blocks[i].ack \in Nat
    BY <1>2, <1>3 DEF Block
  <2>3. CASE i = k
    <3>1. new.blocks[i] = top /\ top.by = lm.blocks[i].by
          /\ top.req = lm.blocks[i].req /\ top.ack = lm.blocks[i].ack + 1
          /\ ~Due(lm.blocks[i])
      BY <1>2, <1>4, <1>8, <2>3
    <3>. QED
      BY <2>1, <2>2, <3>1 DEF Due
  <2>4. CASE i # k
    BY <1>2, <1>8, <2>1, <2>4
  <2>. QED
    BY <2>3, <2>4
<1>. QED
  BY <1>2, <1>4, <1>6, <1>7, <1>8, <1>9 DEF new, k

-----------------------------------------------------------------------------
(***************************************************************************)
(* Counting places in the output queues.                                   *)
(***************************************************************************)

\* A member of PlacesIn is a driver and an index of its queue.
LEMMA PlacesInMember ==
  ASSUME NEW q, NEW entries, NEW p
  PROVE  p \in PlacesIn(q, entries) <=>
           \E d \in Dest : \E i \in DOMAIN q[d] :
             p = <<d, i>> /\ q[d][i] \in entries
BY DEF PlacesIn

\* A message that is queued has one more place.
LEMMA AppendPlaces ==
  ASSUME NEW q \in [Dest -> Seq(Entry)], NEW d \in Dest, NEW e \in Entry,
         NEW entries, IsFiniteSet(PlacesIn(q, entries))
  PROVE  LET q2 == [q EXCEPT ![d] = Append(@, e)] IN
         /\ IsFiniteSet(PlacesIn(q2, entries))
         /\ Cardinality(PlacesIn(q2, entries)) =
              Cardinality(PlacesIn(q, entries)) + One(e \in entries)
<1>. DEFINE q2  == [q EXCEPT ![d] = Append(@, e)]
            new == <<d, Len(q[d]) + 1>>
            P   == PlacesIn(q, entries)
            P2  == PlacesIn(q2, entries)
<1>1. /\ DOMAIN q2[d] = DOMAIN q[d] \cup {Len(q[d]) + 1}
      /\ q2[d][Len(q[d]) + 1] = e
      /\ Len(q[d]) + 1 \notin DOMAIN q[d]
      /\ \A i \in DOMAIN q[d] : q2[d][i] = q[d][i]
      /\ \A c \in Dest : c # d => q2[c] = q[c]
  OBVIOUS
<1>. HIDE DEF q2
<1>2. new \notin P
  BY <1>1, PlacesInMember
<1>3. CASE e \in entries
  <2>1. P2 = P \cup {new}
    BY <1>1, <1>3, PlacesInMember
  <2>. QED
    BY <1>2, <1>3, <2>1, FS_AddElement DEF One, q2
<1>4. CASE e \notin entries
  <2>1. P2 = P
    <3>1. ASSUME NEW c \in Dest, NEW i
          PROVE  i \in DOMAIN q2[c] /\ q2[c][i] \in entries <=>
                   i \in DOMAIN q[c] /\ q[c][i] \in entries
      BY <1>1, <1>4
    <3>2. ASSUME NEW p
          PROVE  p \in P2 <=> p \in P
      BY <3>1, PlacesInMember
    <3>. QED
      BY <3>2
  <2>2. Cardinality(P) \in Nat
    BY FS_CardinalityType
  <2>. QED
    BY <1>4, <2>1, <2>2 DEF One, q2
<1>. QED
  BY <1>3, <1>4

\* A message that is taken from the head of a queue has one place less.
LEMMA TailPlaces ==
  ASSUME NEW q \in [Dest -> Seq(Entry)], NEW d \in Dest, q[d] # <<>>,
         NEW entries, IsFiniteSet(PlacesIn(q, entries))
  PROVE  LET q2 == [q EXCEPT ![d] = Tail(@)] IN
         /\ IsFiniteSet(PlacesIn(q2, entries))
         /\ Cardinality(PlacesIn(q2, entries)) =
              Cardinality(PlacesIn(q, entries)) - One(Head(q[d]) \in entries)
<1>. DEFINE q2   == [q EXCEPT ![d] = Tail(@)]
            P    == PlacesIn(q, entries)
            rest == P \ {<<d, 1>>}
            P2   == PlacesIn(q2, entries)
            f    == [p \in rest |->
                       <<p[1], IF p[1] = d THEN p[2] - 1 ELSE p[2]>>]
<1>1. /\ q[d] \in Seq(Entry)
      /\ Len(q[d]) \in Nat \ {0}
      /\ DOMAIN q[d] = 1..Len(q[d])
      /\ q2[d] = Tail(q[d])
      /\ DOMAIN q2[d] = 1..(Len(q[d]) - 1)
      /\ \A i \in 1..(Len(q[d]) - 1) : q2[d][i] = q[d][i + 1]
      /\ \A c \in Dest : c # d => q2[c] = q[c]
      /\ Head(q[d]) = q[d][1]
  OBVIOUS
<1>. HIDE DEF q2
<1>2. /\ IsFiniteSet(rest)
      /\ Cardinality(rest) = Cardinality(P) - One(Head(q[d]) \in entries)
  <2>1. <<d, 1>> \in P <=> Head(q[d]) \in entries
    BY <1>1, PlacesInMember
  <2>2. Cardinality(P) \in Nat
    BY FS_CardinalityType
  <2>. QED
    BY <2>1, <2>2, FS_RemoveElement DEF One
<1>3. \A p \in rest : \E c \in Dest, i \in Nat :
        /\ p = <<c, i>> /\ i \in DOMAIN q[c] /\ q[c][i] \in entries
        /\ c = d => i \in 2..Len(q[d])
  BY <1>1, PlacesInMember
<1>4. \A p \in rest : f[p] \in P2
  <2>. SUFFICES ASSUME NEW p \in rest
                PROVE  f[p] \in P2
    OBVIOUS
  <2>1. PICK c \in Dest, i \in Nat :
          /\ p = <<c, i>> /\ i \in DOMAIN q[c] /\ q[c][i] \in entries
          /\ c = d => i \in 2..Len(q[d])
    BY <1>3
  <2>2. CASE c = d
    <3>1. /\ f[p] = <<d, i - 1>>
          /\ i - 1 \in DOMAIN q2[d]
          /\ q2[d][i - 1] \in entries
      BY <1>1, <2>1, <2>2
    <3>. QED
      BY <3>1, PlacesInMember
  <2>3. CASE c # d
    <3>1. f[p] = <<c, i>> /\ i \in DOMAIN q2[c] /\ q2[c][i] \in entries
      BY <1>1, <2>1, <2>3
    <3>. QED
      BY <3>1, PlacesInMember
  <2>. QED
    BY <2>2, <2>3
<1>5. \A p \in rest, r \in rest : f[p] = f[r] => p = r
  <2>. SUFFICES ASSUME NEW p \in rest, NEW r \in rest, f[p] = f[r]
                PROVE  p = r
    OBVIOUS
  <2>1. PICK c \in Dest, i \in Nat :
          p = <<c, i>> /\ (c = d => i \in 2..Len(q[d]))
    BY <1>3
  <2>2. PICK b \in Dest, j \in Nat :
          r = <<b, j>> /\ (b = d => j \in 2..Len(q[d]))
    BY <1>3
  <2>3. /\ f[p] = <<c, IF c = d THEN i - 1 ELSE i>>
        /\ f[r] = <<b, IF b = d THEN j - 1 ELSE j>>
    BY <2>1, <2>2
  <2>. QED
    BY <2>1, <2>2, <2>3
<1>6. \A r \in P2 : \E p \in rest : f[p] = r
  <2>. SUFFICES ASSUME NEW r \in P2
                PROVE  \E p \in rest : f[p] = r
    OBVIOUS
  <2>1. PICK c \in Dest, i \in Nat :
          r = <<c, i>> /\ i \in DOMAIN q2[c] /\ q2[c][i] \in entries
    BY <1>1, PlacesInMember
  <2>2. CASE c = d
    <3>0. i \in 1..(Len(q[d]) - 1) /\ q2[d][i] \in entries
      BY <1>1, <2>1, <2>2
    <3>1. /\ i + 1 \in DOMAIN q[d] /\ q[d][i + 1] \in entries
          /\ i + 1 # 1 /\ (i + 1) - 1 = i
      BY <1>1, <3>0
    <3>2. <<d, i + 1>> \in rest
      BY <3>1, PlacesInMember
    <3>3. f[<<d, i + 1>>] = r
      BY <2>1, <2>2, <3>1, <3>2
    <3>. QED
      BY <3>2, <3>3
  <2>3. CASE c # d
    <3>1. <<c, i>> \in rest
      BY <1>1, <2>1, <2>3, PlacesInMember
    <3>. QED
      BY <2>1, <2>3, <3>1
  <2>. QED
    BY <2>2, <2>3
<1>7. f \in Bijection(rest, P2)
  BY <1>4, <1>5, <1>6 
     DEF Bijection, Injection, Surjection, IsInjective
<1>8. IsFiniteSet(P2) /\ Cardinality(P2) = Cardinality(rest)
  BY <1>2, <1>7, FS_Bijection DEF ExistsBijection
<1>. QED
  BY <1>2, <1>8 DEF q2

-----------------------------------------------------------------------------
(***************************************************************************)
(* The inductive invariant.  The window is conserved because the source's  *)
(* block is popped once for every message accepted; that it is neither     *)
(* lost nor pushed twice needs the nesting of the blocks, and that a       *)
(* message that is reused has none needs the reference count.              *)
(***************************************************************************)

PlacesFinite == \A m \in Msg : IsFiniteSet(Places(m))

IInv ==
  TypeOK /\ PlacesFinite /\ RefsCounted /\ BlocksNested /\ WindowConserved

\* What call is while a chain is running.
LEMMA CallType ==
  ASSUME TypeOK, call.at # "main"
  PROVE  /\ call.at \in {"center", "group"}
         /\ call.msg \in Msg
         /\ call.todo \in Seq(Delivery)
         /\ call.dests \in Seq(Dest)
         /\ call.flow \in BOOLEAN
BY DEF TypeOK, Call, InMain

\* Nothing is in flight when the program starts.
LEMMA InitIInv == Init => IInv
<1>. SUFFICES ASSUME Init
              PROVE  IInv
  OBVIOUS
<1>. USE LogPathAssumption
<1>1. TypeOK
  BY DEF Init, TypeOK, LogMessage, Call, InMain
<1>2. \A m \in Msg : Places(m) = {}
  BY DEF Init, Places, PlacesIn
<1>3. PlacesFinite
  BY <1>2, FS_EmptySet DEF PlacesFinite
<1>4. RefsCounted
  <2>1. \A m \in Msg : One(InGroup(m)) = 0
    BY DEF Init, InGroup, InMain, One
  <2>2. \A m \in Msg : Cardinality(Places(m)) = 0
    BY <1>2, FS_EmptySet
  <2>. QED
    BY <2>1, <2>2 DEF RefsCounted, Init
<1>5. BlocksNested
  BY DEF BlocksNested, Init, Nested, InChain, InGroup, InMain
<1>6. WindowConserved
  <2>1. \A d \in Driver : Outstanding(d) = {}
    BY DEF Outstanding, Init
  <2>2. \A d \in Driver : Cardinality(Outstanding(d)) = 0
    BY <2>1, FS_EmptySet
  <2>. QED
    BY <2>2 DEF WindowConserved, Init
<1>. QED
  BY <1>1, <1>3, <1>4, <1>5, <1>6 DEF IInv

\* The oldest block of a message in flight was pushed by a source.
LEMMA OriginType ==
  ASSUME NEW lm \in LogMessage, Nested(lm.blocks), lm.blocks # <<>>
  PROVE  Origin(lm) \in Reader /\ DriverOf[Origin(lm)] \in Driver
<1>1. 1 \in DOMAIN lm.blocks
  BY DEF LogMessage
<1>. QED
  BY <1>1, LogPathAssumption DEF Nested, Pusher, Origin

\* A message whose blocks all go takes its driver's unit of window with it.
LEMMA WindowStep ==
  ASSUME TypeOK, WindowConserved,
         NEW m \in Msg, NEW new \in LogMessage, Nested(msg[m].blocks),
         Update(m, new),
         new.blocks # <<>> => /\ msg[m].blocks # <<>>
                              /\ Origin(new) = Origin(msg[m])
  PROVE  window' \in [Driver -> Int] /\ WindowConserved'
<1>1. /\ msg \in [Msg -> LogMessage]
      /\ window \in [Driver -> Int]
      /\ msg' = [msg EXCEPT ![m] = new]
  BY DEF TypeOK, Update
<1>2. \A d \in Driver : IsFiniteSet(Outstanding(d))
                        /\ Cardinality(Outstanding(d)) \in Nat
  BY LogPathAssumption, FS_Subset, FS_CardinalityType DEF Outstanding
<1>3. CASE Acked(msg[m], new)
  <2>1. PICK o \in Driver : o = DriverOf[Origin(msg[m])]
    BY <1>1, <1>3, OriginType DEF Acked
  <2>2. window' = [window EXCEPT ![o] = @ + 1]
    BY <1>3, <2>1 DEF Update
  <2>3. m \in Outstanding(o) /\ Outstanding(o)' = Outstanding(o) \ {m}
    BY <1>1, <1>3, <2>1 DEF Outstanding, Acked
  <2>4. Cardinality(Outstanding(o)') = Cardinality(Outstanding(o)) - 1
    <3>1. IsFiniteSet(Outstanding(o))
      BY <1>2
    <3>. QED
      BY <2>3, <3>1, FS_RemoveElement, Zenon
  <2>5. \A d \in Driver : d # o => Outstanding(d)' = Outstanding(d)
    BY <1>1, <1>3, <2>1 DEF Outstanding, Acked
  <2>6. /\ window' \in [Driver -> Int]
        /\ window'[o] = window[o] + 1
        /\ \A d \in Driver : d # o => window'[d] = window[d]
    BY <1>1, <2>1, <2>2
  <2>7. window'[o] + Cardinality(Outstanding(o)') = InitWindow[o]
    BY <1>1, <1>2, <2>4, <2>6 DEF WindowConserved
  <2>8. ASSUME NEW d \in Driver, d # o
        PROVE  window'[d] + Cardinality(Outstanding(d)') = InitWindow[d]
    BY <2>5, <2>6, <2>8 DEF WindowConserved
  <2>. QED
    BY <2>6, <2>7, <2>8 DEF WindowConserved
<1>4. CASE ~Acked(msg[m], new)
  <2>1. window' = window
    BY <1>4 DEF Update
  <2>2. \A d \in Driver : Outstanding(d)' = Outstanding(d)
    BY <1>1, <1>4 DEF Outstanding, Acked, Origin
  <2>. QED
    BY <1>1, <2>1, <2>2 DEF WindowConserved
<1>. QED
  BY <1>3, <1>4

\* A step that turns the message m into new, and touches no other.
LEMMA MessageStep ==
  ASSUME IInv,
         NEW m \in Msg, NEW new \in LogMessage, Nested(new.blocks),
         Update(m, new),
         new.blocks # <<>> => /\ msg[m].blocks # <<>>
                              /\ Origin(new) = Origin(msg[m]),
         queue' \in [Dest -> Seq(Entry)],
         \A d \in Dest : Len(queue'[d]) <= Fifo[d],
         call' \in Call,
         \A n \in Msg : n # m => ~InChain(n) /\ ~InChain(n)',
         \A n \in Msg : IsFiniteSet(Places(n)'),
         \A n \in Msg : n # m => Cardinality(Places(n)') = Cardinality(Places(n)),
         new.refs = Len(new.blocks) + Cardinality(Places(m)') + One(InGroup(m)'),
         InChain(m)' => Len(new.blocks) >= 2,
         InGroup(m)' /\ call'.flow =>
           /\ Len(new.blocks) >= 3
           /\ new.blocks[Len(new.blocks) - 1].ack + 1 <
                new.blocks[Len(new.blocks) - 1].req
  PROVE  IInv'
<1>1. /\ TypeOK
      /\ msg \in [Msg -> LogMessage]
      /\ msg' = [msg EXCEPT ![m] = new]
  BY DEF IInv, TypeOK, Update
<1>2. \A n \in Msg : Nested(msg[n].blocks)
  BY DEF IInv, BlocksNested
<1>3. window' \in [Driver -> Int] /\ WindowConserved'
  BY <1>1, <1>2, WindowStep DEF IInv
<1>4. TypeOK'
  BY <1>1, <1>3 DEF TypeOK
<1>5. PlacesFinite'
  BY DEF PlacesFinite
<1>6. \A n \in Msg : n # m => ~InGroup(n) /\ ~InGroup(n)'
  BY DEF InChain, InGroup
<1>7. RefsCounted'
  <2>. SUFFICES ASSUME NEW n \in Msg
                PROVE  msg'[n].refs = Len(msg'[n].blocks)
                         + Cardinality(Places(n)') + One(InGroup(n)')
    BY DEF RefsCounted
  <2>1. CASE n = m
    BY <1>1, <2>1
  <2>2. CASE n # m
    <3>1. msg'[n] = msg[n]
      BY <1>1, <2>2
    <3>2. One(InGroup(n)') = One(InGroup(n))
      BY <1>6, <2>2 DEF One
    <3>. QED
      BY <2>2, <3>1, <3>2 DEF IInv, RefsCounted
  <2>. QED
    BY <2>1, <2>2
<1>8. BlocksNested'
  <2>1. msg'[m] = new /\ \A n \in Msg : n # m => msg'[n] = msg[n]
    BY <1>1
  <2>. QED
    BY <1>2, <1>6, <2>1 DEF BlocksNested
<1>. QED
  BY <1>3, <1>4, <1>5, <1>7, <1>8 DEF IInv

\* The oldest block is the source's as long as there is one.
LEMMA AckOrigin ==
  ASSUME NEW lm \in LogMessage, Nested(lm.blocks), Ack(lm).blocks # <<>>
  PROVE  lm.blocks # <<>> /\ Origin(Ack(lm)) = Origin(lm)
<1>. DEFINE k == Stop(lm.blocks)
<1>1. /\ Ack(lm) \in LogMessage
      /\ Len(Ack(lm).blocks) = k
      /\ k \in 0..Len(lm.blocks)
      /\ k > 0 => Ack(lm).blocks[k].by = lm.blocks[k].by
      /\ \A i \in 1..(k - 1) : Ack(lm).blocks[i] = lm.blocks[i]
  BY AckProperties
<1>2. Ack(lm).blocks \in Seq(Block) /\ lm.blocks \in Seq(Block)
  BY <1>1 DEF LogMessage
<1>. HIDE DEF k
<1>3. k > 0
  BY <1>1, <1>2
<1>4. k = 1 \/ 1 \in 1..(k - 1)
  BY <1>1, <1>3
<1>. QED
  BY <1>1, <1>2, <1>3, <1>4 DEF Origin

\* What the acknowledgement makes of a message, in terms of what is left.
Answered(lm, new) ==
  /\ new \in LogMessage /\ Nested(new.blocks)
  /\ new.refs = lm.refs - (Len(lm.blocks) - Len(new.blocks))
  /\ new.blocks # <<>> => lm.blocks # <<>> /\ Origin(new) = Origin(lm)

LEMMA AckAnswers ==
  ASSUME NEW lm \in LogMessage, Nested(lm.blocks)
  PROVE  Answered(lm, Ack(lm))
<1>1. /\ Ack(lm) \in LogMessage /\ Nested(Ack(lm).blocks)
      /\ Len(Ack(lm).blocks) = Stop(lm.blocks)
      /\ Ack(lm).refs = lm.refs - (Len(lm.blocks) - Stop(lm.blocks))
  BY AckProperties
<1>2. Ack(lm).blocks # <<>> => lm.blocks # <<>> /\ Origin(Ack(lm)) = Origin(lm)
  BY AckOrigin, Zenon
<1>. QED
  BY <1>1, <1>2, Zenon DEF Answered

\* The message as a flow-controlled group pushes its block: the block under
\* it waits for one more acknowledgement, that of the group.
LEMMA EnterProperties ==
  ASSUME NEW lm \in LogMessage, Nested(lm.blocks), Len(lm.blocks) >= 2
  PROVE  LET new == BlockStart(Ref(Ref(BlockInc(lm))), "group")
             n   == Len(lm.blocks)
         IN /\ new \in LogMessage
            /\ new.refs = lm.refs + 2
            /\ Len(new.blocks) = n + 1
            /\ new.blocks[n].ack + 1 < new.blocks[n].req
            /\ Nested(new.blocks)
            /\ Origin(new) = Origin(lm)
<1>. DEFINE inc == BlockInc(lm)
            ref == Ref(Ref(inc))
            new == BlockStart(ref, "group")
            n   == Len(lm.blocks)
            b   == [by |-> "group", req |-> 1, ack |-> 0]
<1>1. lm.blocks \in Seq(Block) /\ lm.refs \in Int /\ n \in Nat
  BY DEF LogMessage
<1>2. lm.blocks # <<>>
  BY <1>1
<1>3. /\ inc \in LogMessage /\ inc.refs = lm.refs /\ Len(inc.blocks) = n
      /\ inc.blocks[n].req = lm.blocks[n].req + 1
      /\ inc.blocks[n].ack = lm.blocks[n].ack
      /\ \A i \in 1..(n - 1) : inc.blocks[i] = lm.blocks[i]
      /\ Nested(inc.blocks)
  BY <1>2, BlockIncProperties
<1>. HIDE DEF inc
<1>4. /\ ref \in LogMessage /\ ref.refs = lm.refs + 2
      /\ ref.blocks = inc.blocks
  BY <1>1, <1>3, RefUnref
<1>. HIDE DEF ref
<1>5. "group" \in Pusher(Len(ref.blocks) + 1)
  BY <1>1, <1>3, <1>4 DEF Pusher
<1>6. /\ new \in LogMessage
      /\ new.refs = lm.refs + 2
      /\ new.blocks = Append(inc.blocks, b)
      /\ Nested(new.blocks)
  BY <1>3, <1>4, <1>5, BlockStartProperties
<1>. HIDE DEF new, b
<1>7. /\ Len(new.blocks) = n + 1
      /\ new.blocks[n] = inc.blocks[n]
      /\ new.blocks[1] = inc.blocks[1]
  BY <1>1, <1>3, <1>6 DEF LogMessage
<1>8. new.blocks[n].ack + 1 < new.blocks[n].req
  <2>1. lm.blocks[n] \in Block /\ lm.blocks[n].ack < lm.blocks[n].req
    BY <1>1 DEF Nested
  <2>2. /\ lm.blocks[n].ack \in Nat /\ lm.blocks[n].req \in Nat
    BY <2>1 DEF Block
  <2>3. /\ new.blocks[n].ack = lm.blocks[n].ack
        /\ new.blocks[n].req = lm.blocks[n].req + 1
    BY <1>3, <1>7
  <2>. QED
    BY <2>1, <2>2, <2>3
<1>9. Origin(new) = Origin(lm)
  BY <1>1, <1>3, <1>7 DEF Origin
<1>. QED
  BY <1>6, <1>7, <1>8, <1>9 DEF new, ref, inc

\* What a step of the call chain knows of its message.
LEMMA ChainMessage ==
  ASSUME IInv, NEW m \in Msg, NEW lm, InChain(m), lm = msg[m]
  PROVE  /\ lm \in LogMessage
         /\ lm.blocks \in Seq(Block) /\ lm.refs \in Int
         /\ Nested(lm.blocks)
         /\ Len(lm.blocks) >= 2
         /\ lm.blocks # <<>>
         /\ lm.refs = Len(lm.blocks) + Cardinality(Places(m)) + One(InGroup(m))
         /\ call.at = "center" => One(InGroup(m)) = 0
         /\ call.at = "group" => One(InGroup(m)) = 1
         /\ \A n \in Msg : /\ IsFiniteSet(Places(n))
                           /\ Cardinality(Places(n)) \in Nat
                           /\ n # m => ~InChain(n)
<1>1. lm \in LogMessage
  BY DEF IInv, TypeOK
<1>2. lm.blocks \in Seq(Block) /\ lm.refs \in Int
  BY <1>1 DEF LogMessage
<1>3. /\ Nested(lm.blocks) /\ Len(lm.blocks) >= 2
      /\ lm.refs = Len(lm.blocks) + Cardinality(Places(m)) + One(InGroup(m))
  BY DEF IInv, BlocksNested, RefsCounted
<1>4. /\ call.at = "center" => One(InGroup(m)) = 0
      /\ call.at = "group" => One(InGroup(m)) = 1
  BY DEF InChain, InGroup, One
<1>5. \A n \in Msg : /\ IsFiniteSet(Places(n))
                     /\ Cardinality(Places(n)) \in Nat
                     /\ n # m => ~InChain(n)
  BY FS_CardinalityType DEF IInv, PlacesFinite, InChain
<1>. QED
  BY <1>1, <1>2, <1>3, <1>4, <1>5

\* The center's increment keeps its block open before the group pushes its own.
LEMMA EnterGroupStep == IInv /\ EnterGroup => IInv'
<1>. SUFFICES ASSUME IInv, EnterGroup, NEW m \in Msg, m = call.msg
              PROVE  IInv'
  BY CallType DEF IInv, EnterGroup
<1>0. PICK next \in Delivery : next = Head(call.todo)
  BY CallType DEF IInv, EnterGroup
<1>1. PICK lm, new :
        /\ lm = msg[m]
        /\ new = IF next.flow
                 THEN BlockStart(Ref(Ref(BlockInc(lm))), "group")
                 ELSE Ref(lm)
        /\ msg' = [msg EXCEPT ![m] = new]
        /\ call' = [call EXCEPT !.at = "group", !.todo = Tail(@),
                                !.dests = Members[next.group],
                                !.flow = next.flow]
        /\ window' = window /\ queue' = queue
  BY <1>0 DEF EnterGroup
<1>2. InChain(m) /\ call.at = "center"
  BY DEF EnterGroup, InChain
<1>3. /\ call.todo \in Seq(Delivery) /\ call.todo # <<>> /\ call.msg \in Msg
      /\ call = [at |-> call.at, msg |-> m, todo |-> call.todo,
                 dests |-> call.dests, flow |-> call.flow]
  BY <1>2 DEF IInv, TypeOK, Call, InMain, EnterGroup
<1>4. /\ call' \in Call /\ call'.at = "group"
      /\ call'.msg = m /\ call'.flow = next.flow
  <2>1. Members[next.group] \in Seq(Dest) /\ next.flow \in BOOLEAN
    BY LogPathAssumption DEF Delivery
  <2>2. Tail(call.todo) \in Seq(Delivery)
    BY <1>3
  <2>3. call' = [at |-> "group", msg |-> m, todo |-> Tail(call.todo),
                 dests |-> Members[next.group], flow |-> next.flow]
    BY <1>1, <1>3
  <2>. QED
    BY <2>1, <2>2, <2>3 DEF Call
<1>5. /\ \A n \in Msg : Places(n)' = Places(n)
      /\ \A n \in Msg : n # m => ~InChain(n)'
      /\ One(InGroup(m)') = 1
  BY <1>1, <1>4 DEF Places, InChain, InGroup, One
<1>6. /\ lm \in LogMessage
      /\ lm.blocks \in Seq(Block) /\ lm.refs \in Int
      /\ Nested(lm.blocks) /\ Len(lm.blocks) >= 2 /\ lm.blocks # <<>>
      /\ lm.refs = Len(lm.blocks) + Cardinality(Places(m))
      /\ \A n \in Msg : /\ IsFiniteSet(Places(n))
                        /\ Cardinality(Places(n)) \in Nat
                        /\ n # m => ~InChain(n)
  BY <1>1, <1>2, ChainMessage
<1>7. /\ new \in LogMessage /\ Nested(new.blocks)
      /\ Len(new.blocks) >= 2
      /\ new.blocks # <<>>
      /\ Origin(new) = Origin(lm)
      /\ new.refs = Len(new.blocks) + Cardinality(Places(m)) + 1
      /\ next.flow => /\ Len(new.blocks) >= 3
                      /\ new.blocks[Len(new.blocks) - 1].ack + 1 <
                           new.blocks[Len(new.blocks) - 1].req
  <2>1. CASE next.flow
    <3>1. /\ new \in LogMessage
          /\ new.refs = lm.refs + 2
          /\ Len(new.blocks) = Len(lm.blocks) + 1
          /\ new.blocks[Len(lm.blocks)].ack + 1 <
               new.blocks[Len(lm.blocks)].req
          /\ Nested(new.blocks)
          /\ Origin(new) = Origin(lm)
      BY <1>1, <1>6, <2>1, EnterProperties
    <3>2. PICK p \in Nat : p = Cardinality(Places(m))
      BY <1>6
    <3>3. new.refs = Len(new.blocks) + p + 1
      BY <1>6, <3>1, <3>2
    <3>4. new.blocks # <<>> /\ Len(new.blocks) - 1 = Len(lm.blocks)
      BY <1>6, <3>1
    <3>. QED
      BY <1>6, <3>1, <3>2, <3>3, <3>4
  <2>2. CASE ~next.flow
    <3>1. /\ new \in LogMessage /\ new.refs = lm.refs + 1
          /\ new.blocks = lm.blocks
      BY <1>1, <1>6, <2>2, RefUnref
    <3>. QED
      BY <1>6, <2>2, <3>1 DEF Origin
  <2>. QED
    BY <2>1, <2>2
<1>8. Update(m, new)
  BY <1>1, <1>7 DEF Update, Acked
<1>. QED
  <2>1. queue' \in [Dest -> Seq(Entry)] /\ \A d \in Dest : Len(queue'[d]) <= Fifo[d]
    BY <1>1 DEF IInv, TypeOK
  <2>. QED
    BY <1>1, <1>4, <1>5, <1>6, <1>7, <1>8, <2>1, MessageStep

\* The message as a group passes it to a driver.
LEMMA GivenProperties ==
  ASSUME NEW lm \in LogMessage, Nested(lm.blocks), Len(lm.blocks) >= 2
  PROVE  LET new == Ref(BlockInc(lm))
             n   == Len(lm.blocks)
         IN /\ new \in LogMessage
            /\ new.refs = lm.refs + 1
            /\ Len(new.blocks) = n
            /\ new.blocks[n].ack = lm.blocks[n].ack
            /\ new.blocks[n].req = lm.blocks[n].req + 1
            /\ \A i \in 1..(n - 1) : new.blocks[i] = lm.blocks[i]
            /\ Nested(new.blocks)
            /\ Origin(new) = Origin(lm)
<1>. DEFINE inc == BlockInc(lm)
            n   == Len(lm.blocks)
<1>1. lm.blocks \in Seq(Block) /\ lm.refs \in Int /\ n \in Nat
  BY DEF LogMessage
<1>2. lm.blocks # <<>>
  BY <1>1
<1>3. /\ inc \in LogMessage /\ inc.refs = lm.refs /\ Len(inc.blocks) = n
      /\ inc.blocks[n].ack = lm.blocks[n].ack
      /\ inc.blocks[n].req = lm.blocks[n].req + 1
      /\ \A i \in 1..(n - 1) : inc.blocks[i] = lm.blocks[i]
      /\ Nested(inc.blocks)
  BY <1>2, BlockIncProperties
<1>. HIDE DEF inc
<1>4. /\ Ref(inc) \in LogMessage /\ Ref(inc).refs = lm.refs + 1
      /\ Ref(inc).blocks = inc.blocks
  BY <1>1, <1>3, RefUnref
<1>5. Origin(Ref(inc)) = Origin(lm)
  BY <1>1, <1>3, <1>4 DEF Origin
<1>. QED
  BY <1>3, <1>4, <1>5 DEF inc

\* A driver that settles the message at once leaves every count but those of
\* the block on top, which waits for as much as before.
LEMMA RefusedProperties ==
  ASSUME NEW lm \in LogMessage, Nested(lm.blocks), Len(lm.blocks) >= 2
  PROVE  LET new == Unref(Ack(Ref(BlockInc(lm))))
             n   == Len(lm.blocks)
         IN /\ new \in LogMessage
            /\ new.refs = lm.refs
            /\ Len(new.blocks) = n
            /\ new.blocks[n].ack = lm.blocks[n].ack + 1
            /\ new.blocks[n].req = lm.blocks[n].req + 1
            /\ \A i \in 1..(n - 1) : new.blocks[i] = lm.blocks[i]
            /\ Nested(new.blocks)
            /\ Origin(new) = Origin(lm)
<1>. DEFINE giv == Ref(BlockInc(lm))
            n   == Len(lm.blocks)
            k   == Stop(giv.blocks)
            new == Unref(Ack(giv))
<1>1. lm.blocks \in Seq(Block) /\ lm.refs \in Int /\ n \in Nat /\ n >= 2
  BY DEF LogMessage
<1>2. /\ giv \in LogMessage
      /\ giv.refs = lm.refs + 1
      /\ Len(giv.blocks) = n
      /\ giv.blocks[n].ack = lm.blocks[n].ack
      /\ giv.blocks[n].req = lm.blocks[n].req + 1
      /\ \A i \in 1..(n - 1) : giv.blocks[i] = lm.blocks[i]
      /\ Nested(giv.blocks)
      /\ Origin(giv) = Origin(lm)
  BY GivenProperties
<1>. HIDE DEF giv
<1>3. lm.blocks[n].ack \in Nat /\ lm.blocks[n].req \in Nat
      /\ lm.blocks[n].ack < lm.blocks[n].req
  BY <1>1, BlockType DEF Nested
<1>4. ~Due(giv.blocks[n])
  BY <1>2, <1>3 DEF Due
<1>5. /\ Ack(giv) \in LogMessage
      /\ k \in 0..n
      /\ Ack(giv).refs = giv.refs - (n - k)
      /\ Len(Ack(giv).blocks) = k
      /\ k > 0 => /\ Ack(giv).blocks[k].req = giv.blocks[k].req
                  /\ Ack(giv).blocks[k].ack = giv.blocks[k].ack + 1
      /\ \A i \in 1..(k - 1) : Ack(giv).blocks[i] = giv.blocks[i]
      /\ \A i \in 1..n : i > k => Due(giv.blocks[i])
      /\ Nested(Ack(giv).blocks)
  BY <1>2, AckProperties
<1>. HIDE DEF k
<1>6. k = n
  BY <1>1, <1>4, <1>5
<1>7. /\ new \in LogMessage
      /\ new.refs = Ack(giv).refs - 1
      /\ new.blocks = Ack(giv).blocks
  BY <1>5, RefUnref
<1>8. new.refs = lm.refs
  BY <1>1, <1>2, <1>5, <1>6, <1>7
<1>. HIDE DEF new
<1>9. Origin(new) = Origin(lm)
  BY <1>1, <1>2, <1>5, <1>6, <1>7 DEF Origin
<1>10. /\ Len(new.blocks) = n
       /\ new.blocks[n].ack = lm.blocks[n].ack + 1
       /\ new.blocks[n].req = lm.blocks[n].req + 1
       /\ \A i \in 1..(n - 1) : new.blocks[i] = lm.blocks[i]
       /\ Nested(new.blocks)
  BY <1>1, <1>2, <1>5, <1>6, <1>7
<1>. QED
  BY <1>7, <1>8, <1>9, <1>10 DEF new, giv

\* The acknowledgement of a group goes to its own block or, when that is
\* complete, to the one under it, and no further.
LEMMA LeaveProperties ==
  ASSUME NEW lm \in LogMessage, Nested(lm.blocks), Len(lm.blocks) >= 3,
         lm.blocks[Len(lm.blocks) - 1].ack + 1 <
           lm.blocks[Len(lm.blocks) - 1].req
  PROVE  LET new == Unref(Ack(lm))
         IN /\ new \in LogMessage
            /\ new.refs = lm.refs - (Len(lm.blocks) - Len(new.blocks)) - 1
            /\ Len(new.blocks) >= 2
            /\ Nested(new.blocks)
            /\ Origin(new) = Origin(lm)
<1>. DEFINE n   == Len(lm.blocks)
            k   == Stop(lm.blocks)
            new == Unref(Ack(lm))
<1>1. lm.blocks \in Seq(Block) /\ lm.refs \in Int /\ n \in Nat /\ n >= 3
  BY DEF LogMessage
<1>2. /\ lm.blocks[n - 1].ack \in Nat /\ lm.blocks[n - 1].req \in Nat
  BY <1>1, BlockType
<1>3. ~Due(lm.blocks[n - 1])
  BY <1>2 DEF Due
<1>4. /\ Ack(lm) \in LogMessage
      /\ k \in 0..n
      /\ Ack(lm).refs = lm.refs - (n - k)
      /\ Len(Ack(lm).blocks) = k
      /\ \A i \in 1..(k - 1) : Ack(lm).blocks[i] = lm.blocks[i]
      /\ \A i \in 1..n : i > k => Due(lm.blocks[i])
      /\ Nested(Ack(lm).blocks)
  BY AckProperties
<1>. HIDE DEF k
<1>5. k >= n - 1
  <2>1. n - 1 \in 1..n /\ k \in Int
    BY <1>1, <1>4
  <2>2. ~(n - 1 > k)
    BY <1>3, <1>4, <2>1, Zenon
  <2>. QED
    BY <1>1, <2>1, <2>2
<1>6. /\ new \in LogMessage
      /\ new.refs = Ack(lm).refs - 1
      /\ new.blocks = Ack(lm).blocks
  BY <1>4, RefUnref
<1>. HIDE DEF new
<1>7. new.refs = lm.refs - (n - Len(new.blocks)) - 1
  BY <1>4, <1>6
<1>8. Len(new.blocks) >= 2
  BY <1>1, <1>4, <1>5, <1>6
<1>9. Origin(new) = Origin(lm)
  BY <1>1, <1>4, <1>5, <1>6 DEF Origin
<1>. QED
  BY <1>4, <1>6, <1>7, <1>8, <1>9 DEF new

\* While a group calls its drivers, the call and the block under the group's
\* own are as they were when it started.
LEMMA GroupCall ==
  ASSUME IInv, NEW m \in Msg, m = call.msg, call.at = "group"
  PROVE  /\ InChain(m)
         /\ call.dests \in Seq(Dest) /\ call.flow \in BOOLEAN
         /\ [call EXCEPT !.dests = Tail(@)] =
              [at |-> "group", msg |-> m, todo |-> call.todo,
               dests |-> Tail(call.dests), flow |-> call.flow]
         /\ call.dests # <<>> => /\ [call EXCEPT !.dests = Tail(@)] \in Call
                                 /\ Head(call.dests) \in Dest
         /\ [call EXCEPT !.at = "center"] \in Call
         /\ [call EXCEPT !.at = "center"].at = "center"
         /\ [call EXCEPT !.at = "center"].msg = m
         /\ call.flow =>
              /\ Len(msg[m].blocks) >= 3
              /\ msg[m].blocks[Len(msg[m].blocks) - 1].ack + 1 <
                   msg[m].blocks[Len(msg[m].blocks) - 1].req
<1>1. /\ call = [at |-> "group", msg |-> m, todo |-> call.todo,
                 dests |-> call.dests, flow |-> call.flow]
      /\ call.todo \in Seq(Delivery) /\ call.dests \in Seq(Dest)
      /\ call.flow \in BOOLEAN
  BY DEF IInv, TypeOK, Call, InMain
<1>2. InChain(m) /\ InGroup(m)
  BY DEF InChain, InGroup
<1>3. [call EXCEPT !.dests = Tail(@)] =
        [at |-> "group", msg |-> m, todo |-> call.todo,
         dests |-> Tail(call.dests), flow |-> call.flow]
  <2>1. PICK rest : rest = Tail(call.dests)
    OBVIOUS
  <2>2. [call EXCEPT !.dests = rest] =
          [at |-> "group", msg |-> m, todo |-> call.todo,
           dests |-> rest, flow |-> call.flow]
    BY <1>1
  <2>. QED
    BY <2>1, <2>2
<1>4. [call EXCEPT !.at = "center"] =
        [at |-> "center", msg |-> m, todo |-> call.todo,
         dests |-> call.dests, flow |-> call.flow]
  BY <1>1
<1>5. call.dests # <<>> =>
        Tail(call.dests) \in Seq(Dest) /\ Head(call.dests) \in Dest
  BY <1>1
<1>6. call.flow =>
        /\ Len(msg[m].blocks) >= 3
        /\ msg[m].blocks[Len(msg[m].blocks) - 1].ack + 1 <
             msg[m].blocks[Len(msg[m].blocks) - 1].req
  BY <1>2 DEF IInv, BlocksNested
<1>. QED
  BY <1>1, <1>2, <1>3, <1>4, <1>5, <1>6 DEF Call

\* The next call of a group leaves the chain as it is but for its driver.
LEMMA NextDriver ==
  ASSUME IInv, NEW m \in Msg, m = call.msg, call.at = "group",
         call.dests # <<>>, call' = [call EXCEPT !.dests = Tail(@)]
  PROVE  /\ call' \in Call /\ call'.flow = call.flow
         /\ One(InGroup(m)') = 1
         /\ \A n \in Msg : n # m => ~InChain(n)'
<1>1. call' = [at |-> "group", msg |-> m, todo |-> call.todo,
               dests |-> Tail(call.dests), flow |-> call.flow]
      /\ call' \in Call
  BY GroupCall
<1>. QED
  BY <1>1 DEF InGroup, InChain, One

\* A message queued gains one reference and one place.
LEMMA EnqueueStep == IInv /\ Enqueue => IInv'
<1>. SUFFICES ASSUME IInv, Enqueue, NEW m \in Msg, m = call.msg
              PROVE  IInv'
  BY CallType DEF IInv, Enqueue
<1>1. call.at = "group" /\ call.dests # <<>>
      /\ call' = [call EXCEPT !.dests = Tail(@)] /\ window' = window
  BY DEF Enqueue
<1>2a. PICK d \in Dest : d = Head(call.dests)
  BY <1>1, GroupCall
<1>2b. PICK e \in Entry : e = [msg |-> m, flow |-> call.flow]
  BY <1>1, GroupCall DEF Entry
<1>2. PICK lm, new :
        /\ lm = msg[m] /\ ~Refuses(d)
        /\ new = Ref(IF call.flow THEN BlockInc(lm) ELSE lm)
        /\ msg' = [msg EXCEPT ![m] = new]
        /\ queue' = [queue EXCEPT ![d] = Append(@, e)]
  BY <1>2a, <1>2b DEF Enqueue, Given
<1>3. /\ InChain(m) /\ call.flow \in BOOLEAN
      /\ call.flow =>
           /\ Len(lm.blocks) >= 3
           /\ lm.blocks[Len(lm.blocks) - 1].ack + 1 <
                lm.blocks[Len(lm.blocks) - 1].req
  BY <1>1, <1>2, GroupCall
<1>4. /\ lm \in LogMessage
      /\ lm.blocks \in Seq(Block) /\ lm.refs \in Int
      /\ Nested(lm.blocks) /\ Len(lm.blocks) >= 2 /\ lm.blocks # <<>>
      /\ lm.refs = Len(lm.blocks) + Cardinality(Places(m)) + 1
      /\ \A n \in Msg : /\ IsFiniteSet(Places(n))
                        /\ Cardinality(Places(n)) \in Nat
                        /\ n # m => ~InChain(n)
  BY <1>1, <1>2, <1>3, ChainMessage
<1>5. /\ call' \in Call /\ call'.flow = call.flow
      /\ One(InGroup(m)') = 1
      /\ \A n \in Msg : n # m => ~InChain(n)'
  BY <1>1, NextDriver
<1>6. /\ queue \in [Dest -> Seq(Entry)]
      /\ queue' \in [Dest -> Seq(Entry)]
      /\ \A c \in Dest : Len(queue'[c]) <= Fifo[c]
  <2>1. /\ queue \in [Dest -> Seq(Entry)]
        /\ \A c \in Dest : Len(queue[c]) <= Fifo[c]
    BY DEF IInv, TypeOK
  <2>2. Len(queue[d]) # Fifo[d] /\ Fifo[d] \in Nat
    BY <1>2, LogPathAssumption DEF Refuses
  <2>. QED
    BY <1>2, <2>1, <2>2
<1>7. \A n \in Msg :
        /\ IsFiniteSet(Places(n)')
        /\ Cardinality(Places(n)') =
             Cardinality(Places(n)) + (IF n = m THEN 1 ELSE 0)
  <2>. SUFFICES ASSUME NEW n \in Msg
                PROVE  /\ IsFiniteSet(Places(n)')
                       /\ Cardinality(Places(n)') =
                            Cardinality(Places(n)) + (IF n = m THEN 1 ELSE 0)
    OBVIOUS
  <2>. DEFINE its == [msg : {n}, flow : BOOLEAN]
  <2>1. e \in its <=> n = m
    BY <1>2b, <1>3
  <2>2. IsFiniteSet(PlacesIn(queue, its))
    BY <1>4 DEF Places
  <2>3. /\ IsFiniteSet(PlacesIn(queue', its))
        /\ Cardinality(PlacesIn(queue', its)) =
             Cardinality(PlacesIn(queue, its)) + One(e \in its)
    <3>. HIDE DEF its
    <3>1. queue' = [queue EXCEPT ![d] = Append(@, e)]
      BY <1>2
    <3>2. queue \in [Dest -> Seq(Entry)]
      BY <1>6
    <3>. QED
      BY <2>2, <3>1, <3>2, AppendPlaces
  <2>. QED
    BY <2>1, <2>3 DEF Places, One
<1>8. /\ new \in LogMessage /\ Nested(new.blocks)
      /\ Len(new.blocks) = Len(lm.blocks)
      /\ new.blocks # <<>>
      /\ Origin(new) = Origin(lm)
      /\ new.refs = lm.refs + 1
      /\ call.flow => /\ Len(new.blocks) >= 3
                      /\ new.blocks[Len(new.blocks) - 1].ack + 1 <
                           new.blocks[Len(new.blocks) - 1].req
  <2>1. CASE call.flow
    <3>1. /\ new \in LogMessage
          /\ new.refs = lm.refs + 1
          /\ Len(new.blocks) = Len(lm.blocks)
          /\ \A i \in 1..(Len(lm.blocks) - 1) : new.blocks[i] = lm.blocks[i]
          /\ Nested(new.blocks)
          /\ Origin(new) = Origin(lm)
      BY <1>2, <1>4, <2>1, GivenProperties
    <3>2. Len(lm.blocks) - 1 \in 1..(Len(lm.blocks) - 1)
      BY <1>3, <1>4, <2>1
    <3>3. Len(new.blocks) >= 3 /\ new.blocks # <<>>
          /\ new.blocks[Len(new.blocks) - 1] = lm.blocks[Len(lm.blocks) - 1]
      BY <1>3, <1>4, <2>1, <3>1, <3>2
    <3>. QED
      BY <1>3, <2>1, <3>1, <3>3
  <2>2. CASE ~call.flow
    <3>1. /\ new \in LogMessage /\ new.refs = lm.refs + 1
          /\ new.blocks = lm.blocks
      BY <1>2, <1>4, <2>2, RefUnref
    <3>. QED
      BY <1>4, <2>2, <3>1 DEF Origin
  <2>. QED
    BY <2>1, <2>2
<1>9. Update(m, new)
  BY <1>1, <1>2, <1>8 DEF Update, Acked
<1>10. new.refs = Len(new.blocks) + Cardinality(Places(m)') + 1
  BY <1>4, <1>7, <1>8
<1>11. \A n \in Msg : n # m => Cardinality(Places(n)') = Cardinality(Places(n))
  BY <1>4, <1>7
<1>12. /\ \A n \in Msg : n # m => ~InChain(n) /\ ~InChain(n)'
       /\ \A n \in Msg : IsFiniteSet(Places(n)')
  BY <1>4, <1>5, <1>6, <1>7
<1>13. new.blocks # <<>> => /\ msg[m].blocks # <<>>
                            /\ Origin(new) = Origin(msg[m])
  BY <1>2, <1>4, <1>8, Zenon
<1>14. new.refs = Len(new.blocks) + Cardinality(Places(m)') + One(InGroup(m)')
  BY <1>5, <1>10
<1>15. /\ InChain(m)' => Len(new.blocks) >= 2
       /\ InGroup(m)' /\ call'.flow =>
            /\ Len(new.blocks) >= 3
            /\ new.blocks[Len(new.blocks) - 1].ack + 1 <
                 new.blocks[Len(new.blocks) - 1].req
  BY <1>4, <1>5, <1>8
<1>. QED
  BY <1>5, <1>6, <1>8, <1>9, <1>11, <1>12, <1>13, <1>14, <1>15, MessageStep

\* Steps that leave the queues alone.
LEMMA QueueUnchanged ==
  ASSUME IInv, queue' = queue
  PROVE  /\ queue' \in [Dest -> Seq(Entry)]
         /\ \A d \in Dest : Len(queue'[d]) <= Fifo[d]
         /\ \A n \in Msg : Places(n)' = Places(n)
BY DEF IInv, TypeOK, Places

\* A drop takes back the increment and the reference made for the driver.
LEMMA DropStep == IInv /\ Drop => IInv'
<1>. SUFFICES ASSUME IInv, Drop, NEW m \in Msg, m = call.msg
              PROVE  IInv'
  BY CallType DEF IInv, Drop
<1>1. PICK lm, new :
        /\ lm = msg[m]
        /\ new = Unref(IF call.flow THEN Ack(Ref(BlockInc(lm))) ELSE Ref(lm))
        /\ Update(m, new)
  BY DEF Drop, Given
<1>2. /\ call.at = "group" /\ call.dests # <<>>
      /\ call' = [call EXCEPT !.dests = Tail(@)] /\ queue' = queue
  BY DEF Drop
<1>3. /\ InChain(m) /\ call.flow \in BOOLEAN
      /\ call.flow =>
           /\ Len(lm.blocks) >= 3
           /\ lm.blocks[Len(lm.blocks) - 1].ack + 1 <
                lm.blocks[Len(lm.blocks) - 1].req
  BY <1>1, <1>2, GroupCall
<1>4. /\ lm \in LogMessage
      /\ lm.blocks \in Seq(Block) /\ lm.refs \in Int
      /\ Nested(lm.blocks) /\ Len(lm.blocks) >= 2 /\ lm.blocks # <<>>
      /\ lm.refs = Len(lm.blocks) + Cardinality(Places(m)) + 1
      /\ \A n \in Msg : /\ IsFiniteSet(Places(n))
                        /\ Cardinality(Places(n)) \in Nat
                        /\ n # m => ~InChain(n)
  BY <1>1, <1>2, <1>3, ChainMessage
<1>5. /\ call' \in Call /\ call'.flow = call.flow
      /\ One(InGroup(m)') = 1
      /\ \A n \in Msg : n # m => ~InChain(n)'
  BY <1>2, NextDriver
<1>6. /\ queue' \in [Dest -> Seq(Entry)]
      /\ \A d \in Dest : Len(queue'[d]) <= Fifo[d]
      /\ \A n \in Msg : Places(n)' = Places(n)
  BY <1>2, QueueUnchanged
<1>7. /\ new \in LogMessage /\ Nested(new.blocks)
      /\ Len(new.blocks) = Len(lm.blocks)
      /\ Origin(new) = Origin(lm)
      /\ new.refs = lm.refs
      /\ call.flow => /\ Len(new.blocks) >= 3
                      /\ new.blocks[Len(new.blocks) - 1].ack + 1 <
                           new.blocks[Len(new.blocks) - 1].req
  <2>1. CASE call.flow
    <3>1. /\ new \in LogMessage
          /\ new.refs = lm.refs
          /\ Len(new.blocks) = Len(lm.blocks)
          /\ \A i \in 1..(Len(lm.blocks) - 1) : new.blocks[i] = lm.blocks[i]
          /\ Nested(new.blocks)
          /\ Origin(new) = Origin(lm)
      BY <1>1, <1>4, <2>1, RefusedProperties
    <3>2. Len(lm.blocks) - 1 \in 1..(Len(lm.blocks) - 1)
      BY <1>3, <1>4, <2>1
    <3>3. Len(new.blocks) >= 3
          /\ new.blocks[Len(new.blocks) - 1] = lm.blocks[Len(lm.blocks) - 1]
      BY <1>3, <1>4, <2>1, <3>1, <3>2
    <3>. QED
      BY <1>3, <2>1, <3>1, <3>3
  <2>2. CASE ~call.flow
    <3>1. /\ Ref(lm) \in LogMessage /\ Ref(lm).refs = lm.refs + 1
          /\ Ref(lm).blocks = lm.blocks
      BY <1>4, RefUnref
    <3>2. /\ new \in LogMessage /\ new.refs = Ref(lm).refs - 1
          /\ new.blocks = Ref(lm).blocks
      BY <1>1, <2>2, <3>1, RefUnref
    <3>. QED
      BY <1>4, <2>2, <3>1, <3>2 DEF Origin
  <2>. QED
    BY <1>3, <2>1, <2>2
<1>8. new.refs = Len(new.blocks) + Cardinality(Places(m)') + 1
      /\ Len(new.blocks) >= 2
  BY <1>4, <1>6, <1>7
<1>. QED
  BY <1>1, <1>4, <1>5, <1>6, <1>7, <1>8, MessageStep

\* The group's acknowledgement may complete its block, and only blocks above
\* the center's.
LEMMA LeaveGroupStep == IInv /\ LeaveGroup => IInv'
<1>. SUFFICES ASSUME IInv, LeaveGroup, NEW m \in Msg, m = call.msg
              PROVE  IInv'
  BY CallType DEF IInv, LeaveGroup
<1>1. PICK lm, new :
        /\ lm = msg[m]
        /\ new = Unref(IF call.flow THEN Ack(lm) ELSE lm)
        /\ Update(m, new)
  BY DEF LeaveGroup
<1>2. /\ call.at = "group"
      /\ call' = [call EXCEPT !.at = "center"] /\ queue' = queue
  BY DEF LeaveGroup
<1>3. /\ InChain(m) /\ call.flow \in BOOLEAN
      /\ call' \in Call /\ call'.at = "center" /\ call'.msg = m
      /\ call.flow =>
           /\ Len(lm.blocks) >= 3
           /\ lm.blocks[Len(lm.blocks) - 1].ack + 1 <
                lm.blocks[Len(lm.blocks) - 1].req
  BY <1>1, <1>2, GroupCall
<1>4. /\ lm \in LogMessage
      /\ lm.blocks \in Seq(Block) /\ lm.refs \in Int
      /\ Nested(lm.blocks) /\ Len(lm.blocks) >= 2 /\ lm.blocks # <<>>
      /\ lm.refs = Len(lm.blocks) + Cardinality(Places(m)) + 1
      /\ \A n \in Msg : /\ IsFiniteSet(Places(n))
                        /\ Cardinality(Places(n)) \in Nat
                        /\ n # m => ~InChain(n)
  BY <1>1, <1>2, <1>3, ChainMessage
<1>5. /\ One(InGroup(m)') = 0 /\ ~InGroup(m)'
      /\ \A n \in Msg : n # m => ~InChain(n)'
  BY <1>3 DEF InGroup, InChain, One
<1>6. /\ queue' \in [Dest -> Seq(Entry)]
      /\ \A d \in Dest : Len(queue'[d]) <= Fifo[d]
      /\ \A n \in Msg : Places(n)' = Places(n)
  BY <1>2, QueueUnchanged
<1>7. /\ new \in LogMessage /\ Nested(new.blocks)
      /\ Len(new.blocks) >= 2
      /\ Origin(new) = Origin(lm)
      /\ new.refs = lm.refs - (Len(lm.blocks) - Len(new.blocks)) - 1
  <2>1. CASE call.flow
    BY <1>1, <1>3, <1>4, <2>1, LeaveProperties
  <2>2. CASE ~call.flow
    <3>1. /\ new \in LogMessage /\ new.refs = lm.refs - 1
          /\ new.blocks = lm.blocks
      BY <1>1, <1>4, <2>2, RefUnref
    <3>. QED
      BY <1>4, <2>2, <3>1 DEF Origin
  <2>. QED
    BY <1>3, <2>1, <2>2
<1>8. new.refs = Len(new.blocks) + Cardinality(Places(m)') + 0
  <2>1. Len(new.blocks) \in Nat /\ Len(lm.blocks) \in Nat
    <3>1. new.blocks \in Seq(Block)
      BY <1>7 DEF LogMessage
    <3>. QED
      BY <1>4, <3>1, LenProperties, Zenon
  <2>2. PICK p \in Nat : p = Cardinality(Places(m))
    BY <1>4, Zenon
  <2>3. Cardinality(Places(m)') = p
    BY <1>6, <2>2
  <2>4. PICK a \in Nat, b \in Nat : a = Len(lm.blocks) /\ b = Len(new.blocks)
    BY <2>1
  <2>5. lm.refs = a + p + 1
    BY <1>4, <2>2, <2>4
  <2>6. new.refs = lm.refs - (a - b) - 1
    BY <1>7, <2>4
  <2>7. new.refs = b + p
    BY <2>5, <2>6, Remainder
  <2>. QED
    BY <2>3, <2>4, <2>7
<1>. QED
  BY <1>1, <1>3, <1>4, <1>5, <1>6, <1>7, <1>8, MessageStep

\* The center's acknowledgement may complete every block, and return the unit.
LEMMA LeaveCenterStep == IInv /\ LeaveCenter => IInv'
<1>. SUFFICES ASSUME IInv, LeaveCenter, NEW m \in Msg, m = call.msg
              PROVE  IInv'
  BY CallType DEF IInv, LeaveCenter
<1>1. PICK lm, new : lm = msg[m] /\ new = Ack(lm) /\ Update(m, new)
  BY DEF LeaveCenter
<1>2. call.at = "center" /\ call' = InMain /\ queue' = queue
  BY DEF LeaveCenter
<1>3. InChain(m)
  BY <1>2 DEF InChain
<1>4. /\ lm \in LogMessage
      /\ lm.blocks \in Seq(Block) /\ lm.refs \in Int
      /\ Nested(lm.blocks)
      /\ lm.refs = Len(lm.blocks) + Cardinality(Places(m))
      /\ \A n \in Msg : /\ IsFiniteSet(Places(n))
                        /\ Cardinality(Places(n)) \in Nat
                        /\ n # m => ~InChain(n)
  BY <1>1, <1>2, <1>3, ChainMessage
<1>5. /\ call' \in Call
      /\ \A n \in Msg : ~InChain(n)' /\ ~InGroup(n)' /\ One(InGroup(n)') = 0
  BY <1>2 DEF Call, InMain, InChain, InGroup, One
<1>6. /\ queue' \in [Dest -> Seq(Entry)]
      /\ \A d \in Dest : Len(queue'[d]) <= Fifo[d]
      /\ \A n \in Msg : Places(n)' = Places(n)
  BY <1>2, QueueUnchanged
<1>7. /\ new \in LogMessage /\ Nested(new.blocks)
      /\ new.refs = lm.refs - (Len(lm.blocks) - Len(new.blocks))
      /\ new.blocks # <<>> => lm.blocks # <<>> /\ Origin(new) = Origin(lm)
  <2>1. Answered(lm, Ack(lm))
    BY <1>4, AckAnswers, Zenon
  <2>. QED
    BY <1>1, <2>1, Zenon DEF Answered
<1>8. new.refs = Len(new.blocks) + Cardinality(Places(m)') + 0
  <2>1. Len(new.blocks) \in Nat /\ Len(lm.blocks) \in Nat
    <3>1. new.blocks \in Seq(Block)
      BY <1>7 DEF LogMessage
    <3>. QED
      BY <1>4, <3>1, LenProperties, Zenon
  <2>2. PICK p \in Nat : p = Cardinality(Places(m))
    BY <1>4, Zenon
  <2>3. Cardinality(Places(m)') = p
    BY <1>6, <2>2
  <2>4. PICK a \in Nat, b \in Nat : a = Len(lm.blocks) /\ b = Len(new.blocks)
    BY <2>1
  <2>5. lm.refs = a + p
    BY <1>4, <2>2, <2>4
  <2>6. new.refs = lm.refs - (a - b)
    BY <1>7, <2>4
  <2>7. new.refs = b + p
    BY <2>5, <2>6, Remainder
  <2>. QED
    BY <2>3, <2>4, <2>7
<1>. QED
  BY <1>1, <1>4, <1>5, <1>6, <1>7, <1>8, MessageStep

\* A flushed message loses a reference and a place, and perhaps its blocks.
LEMMA FlushStep ==
  ASSUME IInv, NEW d \in Dest, Flush(d)
  PROVE  IInv'
<1>1. /\ call.at = "main" /\ call' = call
      /\ queue[d] # <<>> /\ queue' = [queue EXCEPT ![d] = Tail(@)]
      /\ queue \in [Dest -> Seq(Entry)]
  BY DEF Flush, IInv, TypeOK
<1>2. PICK e \in Entry : e = Head(queue[d])
  BY <1>1
<1>3. PICK m \in Msg : m = e.msg
  BY DEF Entry
<1>4. PICK lm, new :
        /\ lm = msg[m]
        /\ new = Unref(IF e.flow THEN Ack(lm) ELSE lm)
        /\ Update(m, new)
  BY <1>2, <1>3 DEF Flush
<1>5. \A n \in Msg : /\ ~InChain(n) /\ ~InGroup(n)
                     /\ ~InChain(n)' /\ ~InGroup(n)'
                     /\ One(InGroup(n)) = 0 /\ One(InGroup(n)') = 0
  BY <1>1 DEF InChain, InGroup, One
<1>6. /\ lm \in LogMessage
      /\ lm.blocks \in Seq(Block) /\ lm.refs \in Int
      /\ Nested(lm.blocks)
  BY <1>4 DEF IInv, TypeOK, BlocksNested, LogMessage
<1>7. \A n \in Msg : /\ IsFiniteSet(Places(n))
                     /\ Cardinality(Places(n)) \in Nat
  BY FS_CardinalityType DEF IInv, PlacesFinite
<1>8. /\ call' \in Call
      /\ queue' \in [Dest -> Seq(Entry)]
      /\ \A c \in Dest : Len(queue'[c]) <= Fifo[c]
  <2>1. /\ \A c \in Dest : Len(queue[c]) <= Fifo[c] /\ Fifo[c] \in Nat
        /\ call \in Call
    BY LogPathAssumption DEF IInv, TypeOK
  <2>2. Tail(queue[d]) \in Seq(Entry) /\ Len(Tail(queue[d])) = Len(queue[d]) - 1
    BY <1>1
  <2>. QED
    BY <1>1, <2>1, <2>2
<1>9. \A n \in Msg :
        /\ IsFiniteSet(Places(n)')
        /\ Cardinality(Places(n)') =
             Cardinality(Places(n)) - (IF n = m THEN 1 ELSE 0)
  <2>. SUFFICES ASSUME NEW n \in Msg
                PROVE  /\ IsFiniteSet(Places(n)')
                       /\ Cardinality(Places(n)') =
                            Cardinality(Places(n)) - (IF n = m THEN 1 ELSE 0)
    OBVIOUS
  <2>. DEFINE its == [msg : {n}, flow : BOOLEAN]
  <2>1. Head(queue[d]) \in its <=> n = m
    BY <1>2, <1>3 DEF Entry
  <2>2. IsFiniteSet(PlacesIn(queue, its))
    BY <1>7 DEF Places
  <2>3. /\ IsFiniteSet(PlacesIn(queue', its))
        /\ Cardinality(PlacesIn(queue', its)) =
             Cardinality(PlacesIn(queue, its)) - One(Head(queue[d]) \in its)
    <3>. HIDE DEF its
    <3>. QED
      BY <1>1, <2>2, TailPlaces
  <2>. QED
    BY <2>1, <2>3 DEF Places, One
<1>10. \A n \in Msg : n # m => Cardinality(Places(n)') = Cardinality(Places(n))
  BY <1>7, <1>9
<1>11. /\ new \in LogMessage /\ Nested(new.blocks)
       /\ new.refs = lm.refs - (Len(lm.blocks) - Len(new.blocks)) - 1
       /\ new.blocks # <<>> => lm.blocks # <<>> /\ Origin(new) = Origin(lm)
  <2>1. PICK acked : /\ acked = IF e.flow THEN Ack(lm) ELSE lm
                     /\ new = Unref(acked)
    BY <1>4
  <2>2. /\ acked \in LogMessage /\ Nested(acked.blocks)
        /\ acked.refs = lm.refs - (Len(lm.blocks) - Len(acked.blocks))
        /\ acked.blocks # <<>> => lm.blocks # <<>> /\ Origin(acked) = Origin(lm)
    <3>1. CASE e.flow
      <4>1. Answered(lm, Ack(lm))
        BY <1>6, AckAnswers, Zenon
      <4>. QED
        BY <2>1, <3>1, <4>1, Zenon DEF Answered
    <3>2. CASE ~e.flow
      BY <1>6, <2>1, <3>2
    <3>. QED
      BY <3>1, <3>2
  <2>3. /\ new \in LogMessage /\ new.refs = acked.refs - 1
        /\ new.blocks = acked.blocks
    BY <2>1, <2>2, RefUnref
  <2>. QED
    BY <2>2, <2>3 DEF Origin
<1>12. new.refs = Len(new.blocks) + Cardinality(Places(m)') + 0
  <2>1. PICK a \in Nat, b \in Nat : a = Len(lm.blocks) /\ b = Len(new.blocks)
    BY <1>6, <1>11 DEF LogMessage
  <2>2. PICK p \in Nat : p = Cardinality(Places(m))
    BY <1>7
  <2>3. Cardinality(Places(m)') = p - 1
    BY <1>9, <2>2
  <2>4. lm.refs = a + p
    BY <1>4, <1>5, <2>1, <2>2 DEF IInv, RefsCounted
  <2>5. new.refs = lm.refs - (a - b) - 1
    BY <1>11, <2>1
  <2>6. new.refs = b + (p - 1) + 0
    BY <2>4, <2>5, Remainder
  <2>. QED
    BY <2>1, <2>3, <2>6
<1>. QED
  BY <1>4, <1>5, <1>8, <1>9, <1>10, <1>11, <1>12, MessageStep

\* A message that is free has no block and no place in a queue.
LEMMA FreeMessage ==
  ASSUME IInv, NEW m \in Msg, msg[m].refs = 0, call.at = "main"
  PROVE  msg[m].blocks = <<>> /\ Cardinality(Places(m)) = 0
<1>1. PICK p \in Nat : p = Cardinality(Places(m))
  BY FS_CardinalityType DEF IInv, PlacesFinite
<1>2. One(InGroup(m)) = 0
  BY DEF InGroup, One
<1>3. msg[m].blocks \in Seq(Block)
  BY DEF IInv, TypeOK, LogMessage
<1>4. PICK n \in Nat : n = Len(msg[m].blocks)
  BY <1>3
<1>5. 0 = n + p + 0
  BY <1>1, <1>2, <1>4 DEF IInv, RefsCounted
<1>6. n = 0 /\ p = 0
  BY <1>5
<1>7. Len(msg[m].blocks) = 0
  BY <1>4, <1>6
<1>8. msg[m].blocks = <<>>
  BY <1>3, <1>7
<1>. QED
  BY <1>1, <1>6, <1>8

\* A structure that is reused is in no queue and has no block.
LEMMA FetchStep ==
  ASSUME IInv, NEW r \in Reader, NEW m \in Msg, NEW route \in Route,
         Fetch(r, m, route)
  PROVE  IInv'
<1>. DEFINE made == [refs |-> 1, blocks |-> <<>>]
<1>1. PICK new :
        /\ new = BlockStart(Ref(BlockStart(made, r)), "center")
        /\ msg' = [msg EXCEPT ![m] = new]
  BY DEF Fetch
<1>2. PICK o \in Driver : o = DriverOf[r]
  BY LogPathAssumption
<1>3. /\ call.at = "main" /\ msg[m].refs = 0
      /\ window' = [window EXCEPT ![o] = @ - 1]
      /\ call' = [at |-> "center", msg |-> m, todo |-> route,
                  dests |-> <<>>, flow |-> FALSE]
      /\ queue' = queue
  BY <1>2 DEF Fetch
<1>4. /\ msg \in [Msg -> LogMessage] /\ window \in [Driver -> Int]
  BY DEF IInv, TypeOK
<1>5. msg[m].blocks = <<>> /\ Cardinality(Places(m)) = 0
  BY <1>3, FreeMessage
<1>6. /\ new \in LogMessage /\ new.refs = 2
      /\ Len(new.blocks) = 2 /\ new.blocks[1].by = r
      /\ new.blocks # <<>>
      /\ Nested(new.blocks)
  <2>. DEFINE one == BlockStart(made, r)
  <2>1. /\ made \in LogMessage /\ made.refs = 1 /\ made.blocks = <<>>
        /\ Nested(made.blocks) /\ r \in Pusher(Len(made.blocks) + 1)
    BY DEF LogMessage, Nested, Pusher
  <2>. HIDE DEF made
  <2>2. /\ one \in LogMessage /\ one.refs = 1
        /\ one.blocks = Append(<<>>, [by |-> r, req |-> 1, ack |-> 0])
        /\ Nested(one.blocks)
    BY <2>1, BlockStartProperties
  <2>. HIDE DEF one
  <2>3. /\ Ref(one) \in LogMessage /\ Ref(one).refs = 2
        /\ Ref(one).blocks = one.blocks
    BY <2>2, RefUnref
  <2>4. Len(one.blocks) = 1 /\ one.blocks[1].by = r
    BY <2>2
  <2>5. "center" \in Pusher(Len(Ref(one).blocks) + 1)
    BY <2>3, <2>4 DEF Pusher
  <2>6. /\ new \in LogMessage /\ new.refs = 2
        /\ new.blocks =
             Append(one.blocks, [by |-> "center", req |-> 1, ack |-> 0])
        /\ Nested(new.blocks)
    BY <1>1, <2>2, <2>3, <2>5, BlockStartProperties DEF one
  <2>7. Len(new.blocks) = 2 /\ new.blocks[1].by = r /\ new.blocks # <<>>
    <3>1. one.blocks \in Seq(Block)
      BY <2>2 DEF LogMessage
    <3>. QED
      BY <2>4, <2>6, <3>1
  <2>. QED
    BY <2>6, <2>7
<1>7. /\ queue' \in [Dest -> Seq(Entry)]
      /\ \A d \in Dest : Len(queue'[d]) <= Fifo[d]
      /\ \A n \in Msg : Places(n)' = Places(n)
  BY <1>3, QueueUnchanged
<1>8. TypeOK'
  <2>1. call' \in Call
    BY <1>3, LogPathAssumption DEF Call
  <2>2. msg' \in [Msg -> LogMessage] /\ window' \in [Driver -> Int]
    BY <1>1, <1>3, <1>4, <1>6
  <2>. QED
    BY <1>7, <2>1, <2>2 DEF TypeOK
<1>9. PlacesFinite'
  BY <1>7 DEF IInv, PlacesFinite
<1>10. \A n \in Msg : /\ ~InGroup(n) /\ ~InGroup(n)'
                      /\ One(InGroup(n)) = 0 /\ One(InGroup(n)') = 0
  BY <1>3 DEF InGroup, One
<1>11. msg'[m] = new /\ \A n \in Msg : n # m => msg'[n] = msg[n]
  BY <1>1, <1>4
<1>12. RefsCounted'
  <2>. SUFFICES ASSUME NEW n \in Msg
                PROVE  msg'[n].refs = Len(msg'[n].blocks)
                         + Cardinality(Places(n)') + One(InGroup(n)')
    BY DEF RefsCounted
  <2>1. CASE n = m
    <3>1. msg'[n].refs = 2 /\ Len(msg'[n].blocks) = 2
      BY <1>6, <1>11, <2>1
    <3>2. Cardinality(Places(n)') = 0 /\ One(InGroup(n)') = 0
      BY <1>5, <1>7, <1>10, <2>1
    <3>. QED
      BY <3>1, <3>2
  <2>2. CASE n # m
    BY <1>7, <1>10, <1>11, <2>2 DEF IInv, RefsCounted
  <2>. QED
    BY <2>1, <2>2
<1>13. BlocksNested'
  <2>1. \A n \in Msg : n # m => ~InChain(n)'
    BY <1>3 DEF InChain
  <2>2. \A n \in Msg : Nested(msg'[n].blocks)
    BY <1>6, <1>11 DEF IInv, BlocksNested
  <2>3. ASSUME NEW n \in Msg, InChain(n)'
        PROVE  Len(msg'[n].blocks) >= 2
    <3>1. n = m
      BY <2>1, <2>3
    <3>2. Len(msg'[n].blocks) = 2
      BY <1>6, <1>11, <3>1
    <3>. QED
      BY <3>2
  <2>. QED
    BY <1>10, <2>2, <2>3 DEF BlocksNested
<1>14. WindowConserved'
  <2>1. /\ Outstanding(o)' = Outstanding(o) \cup {m} /\ m \notin Outstanding(o)
        /\ \A d \in Driver : d # o => Outstanding(d)' = Outstanding(d)
    BY <1>2, <1>5, <1>6, <1>11 DEF Outstanding, Origin
  <2>2. IsFiniteSet(Outstanding(o))
    BY LogPathAssumption, FS_Subset DEF Outstanding
  <2>3. PICK k \in Nat : k = Cardinality(Outstanding(o))
    BY <2>2, FS_CardinalityType
  <2>4. Cardinality(Outstanding(o)') = k + 1
    BY <2>1, <2>2, <2>3, FS_AddElement
  <2>5. /\ window'[o] = window[o] - 1 /\ window[o] \in Int
        /\ \A d \in Driver : d # o => window'[d] = window[d]
    BY <1>3, <1>4
  <2>6. window'[o] + Cardinality(Outstanding(o)') = InitWindow[o]
    <3>1. window[o] + k = InitWindow[o]
      BY <2>3 DEF IInv, WindowConserved
    <3>. QED
      BY <2>4, <2>5, <3>1
  <2>7. ASSUME NEW d \in Driver, d # o
        PROVE  window'[d] + Cardinality(Outstanding(d)') = InitWindow[d]
    BY <2>1, <2>5, <2>7 DEF IInv, WindowConserved
  <2>. QED
    BY <2>6, <2>7 DEF WindowConserved
<1>. QED
  BY <1>8, <1>9, <1>12, <1>13, <1>14 DEF IInv

\* The invariant speaks of the variables only.
LEMMA StutterStep == IInv /\ UNCHANGED vars => IInv'
BY DEF IInv, vars, TypeOK, PlacesFinite, RefsCounted, BlocksNested,
       WindowConserved, Places, InGroup, InChain, Outstanding, One

\* The invariant is inductive.
LEMMA NextIInv == IInv /\ [Next]_vars => IInv'
BY EnterGroupStep, EnqueueStep, DropStep, LeaveGroupStep, LeaveCenterStep,
   FlushStep, FetchStep, StutterStep
   DEF Next, Chain

\* The invariant holds in every state of every behaviour of the log path.
THEOREM Invariance == Spec => []IInv
<1>1. Init => IInv
  BY InitIInv
<1>2. IInv /\ [Next]_vars => IInv'
  BY NextIInv
<1>. QED
  BY <1>1, <1>2, PTL DEF Spec

\* Messages, windows, queues and the call chain keep their types, and no
\* queue exceeds log_fifo_size().
THEOREM TypeCorrect == Spec => []TypeOK
BY Invariance, PTL DEF IInv

\* log_source_msg_ack returns every unit of window that log_source_queue
\* took, once: window_size and the messages in flight add up to
\* log_iw_size() for any set of log statements, groups and queue lengths.
THEOREM WindowIsConserved == Spec => []WindowConserved
BY Invariance, PTL DEF IInv

\* log_msg_ref and log_msg_unref are balanced: a message is freed when its
\* last ack block and its last place in a queue are gone, and not before.
THEOREM ReferencesAreCounted == Spec => []RefsCounted
BY Invariance, PTL DEF IInv

\* The block on top is always one that the running call, or one it returned
\* to, has pushed; the center's is not popped while log_center_queue runs.
THEOREM BlocksAreNested == Spec => []BlocksNested
BY Invariance, PTL DEF IInv

-----------------------------------------------------------------------------
(***************************************************************************)
(* What the stack of blocks waits for.                                     *)
(***************************************************************************)

\* A member of Extra is a block and the number of an acknowledgement.
LEMMA ExtraMember ==
  ASSUME NEW bs, NEW p
  PROVE  p \in Extra(bs) <=>
           \E i \in DOMAIN bs : \E j \in (bs[i].ack + 2)..bs[i].req :
             p = <<i, j>>
BY DEF Extra

\* A stack lacks finitely many acknowledgements.
LEMMA ExtraFinite ==
  ASSUME NEW bs \in Seq(Block)
  PROVE  /\ IsFiniteSet(Extra(bs))
         /\ Cardinality(Extra(bs)) \in Nat
         /\ StackDebt(bs) \in Nat
         /\ StackDebt(bs) = 0 <=> bs = <<>>
<1>. DEFINE part(i) == {i} \X ((bs[i].ack + 2)..bs[i].req)
            f == [i \in DOMAIN bs |-> part(i)]
            T == {part(i) : i \in DOMAIN bs}
<1>1. \A i \in DOMAIN bs : IsFiniteSet(part(i))
  <2>. SUFFICES ASSUME NEW i \in DOMAIN bs
                PROVE  IsFiniteSet(part(i))
    OBVIOUS
  <2>1. bs[i].ack \in Nat /\ bs[i].req \in Nat
    BY BlockType
  <2>2. bs[i].ack + 2 \in Int /\ bs[i].req \in Int
    BY <2>1
  <2>3. IsFiniteSet((bs[i].ack + 2)..bs[i].req)
    <3>. DEFINE a == bs[i].ack + 2
                b == bs[i].req
    <3>. HIDE DEF a, b
    <3>1. IsFiniteSet(a..b)
      BY <2>2, FS_Interval DEF a, b
    <3>. QED
      BY <3>1 DEF a, b
  <2>. QED
    BY <2>3, FS_Product, FS_Singleton
<1>. HIDE DEF part
<1>2. f \in Surjection(DOMAIN bs, T)
  BY DEF Surjection
<1>3. IsFiniteSet(DOMAIN bs)
  BY FS_Interval
<1>4. IsFiniteSet(T)
  <2>. HIDE DEF f, T
  <2>. QED
    BY <1>2, <1>3, FS_Surjection
<1>5. IsFiniteSet(UNION T)
  <2>1. \A t \in T : IsFiniteSet(t)
    BY <1>1
  <2>. HIDE DEF T
  <2>. QED
    BY <1>4, <2>1, FS_UNION
<1>6. Extra(bs) = UNION T
  BY DEF Extra, part
<1>. QED
  BY <1>5, <1>6, FS_CardinalityType DEF StackDebt

\* Only the first block that is pushed makes a stack wait for more: a block
\* pushed on another waits for one acknowledgement and gives one.
LEMMA DebtStart ==
  ASSUME NEW lm \in LogMessage, NEW by
  PROVE  StackDebt(BlockStart(lm, by).blocks) =
           IF lm.blocks = <<>> THEN 1 ELSE StackDebt(lm.blocks)
<1>. DEFINE bs  == lm.blocks
            new == Append(bs, [by |-> by, req |-> 1, ack |-> 0])
<1>1. bs \in Seq(Block) /\ BlockStart(lm, by).blocks = new
  BY DEF LogMessage, BlockStart
<1>2. /\ DOMAIN new = DOMAIN bs \cup {Len(bs) + 1}
      /\ \A i \in DOMAIN bs : new[i] = bs[i]
      /\ new[Len(bs) + 1].req = 1 /\ new[Len(bs) + 1].ack = 0
      /\ new # <<>>
  BY <1>1
<1>. HIDE DEF new, bs
<1>3. Extra(new) = Extra(bs)
  <2>1. ASSUME NEW p
        PROVE  p \in Extra(new) <=> p \in Extra(bs)
    BY <1>2, ExtraMember
  <2>. QED
    BY <2>1
<1>4. ASSUME bs = <<>>
      PROVE  Cardinality(Extra(bs)) = 0
  <2>1. Extra(bs) = {}
    BY <1>4, ExtraMember
  <2>. QED
    BY <2>1, FS_EmptySet
<1>5. new # <<>> /\ Cardinality(Extra(new)) = Cardinality(Extra(bs))
  BY <1>2, <1>3
<1>6. StackDebt(new) = IF bs = <<>> THEN 1 ELSE StackDebt(bs)
  BY <1>4, <1>5 DEF StackDebt
<1>. QED
  BY <1>1, <1>6 DEF bs

\* log_msg_ack_block_inc makes the stack wait for one more.
LEMMA DebtInc ==
  ASSUME NEW lm \in LogMessage, lm.blocks # <<>>, Nested(lm.blocks)
  PROVE  StackDebt(BlockInc(lm).blocks) = StackDebt(lm.blocks) + 1
<1>. DEFINE bs  == lm.blocks
            new == BlockInc(lm).blocks
            n   == Len(bs)
            top == <<n, bs[n].req + 1>>
<1>1. bs \in Seq(Block) /\ n \in DOMAIN bs /\ n \in Nat
  BY DEF LogMessage
<1>2. /\ new \in Seq(Block) /\ Len(new) = n
      /\ new[n].req = bs[n].req + 1 /\ new[n].ack = bs[n].ack
      /\ \A i \in 1..(n - 1) : new[i] = bs[i]
      /\ new # <<>> /\ bs # <<>>
  BY <1>1, BlockIncProperties DEF LogMessage
<1>3. /\ bs[n].ack \in Nat /\ bs[n].req \in Nat
      /\ bs[n].ack < bs[n].req
  BY <1>1, BlockType DEF Nested
<1>. HIDE DEF new, bs
<1>4. /\ DOMAIN new = 1..n /\ DOMAIN bs = 1..n
      /\ \A i \in 1..n : i = n \/ i \in 1..(n - 1)
  BY <1>1, <1>2
<1>5. (new[n].ack + 2)..new[n].req =
        ((bs[n].ack + 2)..bs[n].req) \cup {bs[n].req + 1}
  BY <1>2, <1>3
<1>6. Extra(new) = Extra(bs) \cup {top}
  <2>1. ASSUME NEW p
        PROVE  p \in Extra(new) <=> p \in Extra(bs) \/ p = top
    <3>1. ASSUME NEW i \in 1..n, NEW j
          PROVE  j \in (new[i].ack + 2)..new[i].req <=>
                   \/ j \in (bs[i].ack + 2)..bs[i].req
                   \/ i = n /\ j = bs[n].req + 1
      BY <1>2, <1>4, <1>5
    <3>2. p \in Extra(new) <=> \E i \in DOMAIN new :
            \E j \in (new[i].ack + 2)..new[i].req : p = <<i, j>>
      BY ExtraMember
    <3>3. p \in Extra(bs) <=> \E i \in DOMAIN bs :
            \E j \in (bs[i].ack + 2)..bs[i].req : p = <<i, j>>
      BY ExtraMember
    <3>4. ASSUME p \in Extra(new)
          PROVE  p \in Extra(bs) \/ p = top
      BY <1>4, <3>1, <3>2, <3>3, <3>4
    <3>5. ASSUME p \in Extra(bs)
          PROVE  p \in Extra(new)
      BY <1>4, <3>1, <3>2, <3>3, <3>5
    <3>6. ASSUME p = top
          PROVE  p \in Extra(new)
      <4>1. n \in 1..n /\ bs[n].req + 1 \in (new[n].ack + 2)..new[n].req
        BY <1>1, <1>4, <3>1
      <4>. QED
        BY <1>4, <3>2, <3>6, <4>1
    <3>. QED
      BY <3>4, <3>5, <3>6
  <2>. QED
    BY <2>1
<1>7. top \notin Extra(bs)
  BY <1>3, ExtraMember
<1>9. /\ IsFiniteSet(Extra(bs)) /\ Cardinality(Extra(bs)) \in Nat
  BY <1>1, ExtraFinite
<1>10. Cardinality(Extra(new)) = Cardinality(Extra(bs)) + 1
  BY <1>6, <1>7, <1>9, FS_AddElement
<1>. QED
  BY <1>2, <1>9, <1>10 DEF StackDebt, new, bs

\* log_msg_ack settles exactly one, however many blocks it completes.
LEMMA DebtAck ==
  ASSUME NEW lm \in LogMessage, lm.blocks # <<>>, Nested(lm.blocks)
  PROVE  StackDebt(Ack(lm).blocks) = StackDebt(lm.blocks) - 1
<1>. DEFINE bs  == lm.blocks
            new == Ack(lm).blocks
            k   == Stop(bs)
            one == <<k, bs[k].ack + 2>>
<1>1. bs \in Seq(Block)
  BY DEF LogMessage
<1>2. /\ new \in Seq(Block) /\ k \in 0..Len(bs) /\ Len(new) = k
      /\ k > 0 => /\ new[k].req = bs[k].req /\ new[k].ack = bs[k].ack + 1
                  /\ ~Due(bs[k])
      /\ \A i \in 1..(k - 1) : new[i] = bs[i]
      /\ \A i \in 1..Len(bs) : i > k => Due(bs[i])
  BY AckProperties DEF LogMessage
<1>3. \A i \in DOMAIN bs : /\ bs[i].ack \in Nat /\ bs[i].req \in Nat
                           /\ bs[i].ack < bs[i].req
  BY <1>1, BlockType DEF Nested
<1>4. ASSUME NEW i \in DOMAIN bs, i > k
      PROVE  (bs[i].ack + 2)..bs[i].req = {}
  <2>. HIDE DEF k, new, bs
  <2>1. Due(bs[i])
    BY <1>1, <1>2, <1>4
  <2>. QED
    BY <1>3, <2>1 DEF Due
<1>5. /\ IsFiniteSet(Extra(bs)) /\ Cardinality(Extra(bs)) \in Nat
      /\ bs # <<>>
  BY <1>1, ExtraFinite
<1>. HIDE DEF new, bs, k
<1>6. CASE k = 0
  <2>1. Extra(bs) = {}
    BY <1>1, <1>4, <1>6, ExtraMember
  <2>2. new = <<>>
    BY <1>2, <1>6
  <2>. QED
    BY <1>5, <2>1, <2>2, FS_EmptySet DEF StackDebt, new, bs
<1>7. CASE k > 0
  <2>1. /\ k \in DOMAIN bs /\ DOMAIN new = 1..k /\ new # <<>>
        /\ k \in Nat /\ \A i \in DOMAIN bs : i = k \/ i > k \/ i \in 1..(k - 1)
        /\ 1..k \subseteq DOMAIN bs
    BY <1>1, <1>2, <1>7
  <2>2. /\ (new[k].ack + 2)..new[k].req =
             ((bs[k].ack + 2)..bs[k].req) \ {bs[k].ack + 2}
        /\ bs[k].ack + 2 \in (bs[k].ack + 2)..bs[k].req
    <3>1. /\ bs[k].ack \in Nat /\ bs[k].req \in Nat /\ bs[k].ack < bs[k].req
          /\ bs[k].ack + 1 # bs[k].req
      BY <1>2, <1>3, <1>7, <2>1, Zenon DEF Due
    <3>2. new[k].req = bs[k].req /\ new[k].ack = bs[k].ack + 1
      BY <1>2, <1>7, Zenon
    <3>. QED
      BY <3>1, <3>2
  <2>3. Extra(new) = Extra(bs) \ {one}
    <3>1. ASSUME NEW p
          PROVE  p \in Extra(new) <=> p \in Extra(bs) /\ p # one
      <4>1. ASSUME NEW i \in DOMAIN bs, NEW j
            PROVE  /\ j \in (bs[i].ack + 2)..bs[i].req => i \in 1..k
                   /\ i \in 1..k =>
                        (j \in (new[i].ack + 2)..new[i].req <=>
                           /\ j \in (bs[i].ack + 2)..bs[i].req
                           /\ <<i, j>> # one)
        BY <1>2, <1>4, <2>1, <2>2
      <4>. QED
        BY <2>1, <4>1, ExtraMember
    <3>. QED
      BY <3>1
  <2>4. one \in Extra(bs)
    BY <2>1, <2>2, ExtraMember
  <2>5. Cardinality(Extra(new)) = Cardinality(Extra(bs)) - 1
    <3>. HIDE DEF one
    <3>. QED
      BY <1>5, <2>3, <2>4, FS_RemoveElement
  <2>. QED
    BY <1>5, <2>1, <2>5 DEF StackDebt, new, bs
<1>. QED
  BY <1>2, <1>6, <1>7

\* What log_dest_group_queue makes of a message, for a flow-controlled
\* delivery and for another.
LEMMA EnterDebt ==
  ASSUME NEW lm \in LogMessage, Nested(lm.blocks), Len(lm.blocks) >= 2,
         NEW flow \in BOOLEAN,
         NEW new,
         new = IF flow THEN BlockStart(Ref(Ref(BlockInc(lm))), "group")
               ELSE Ref(lm)
  PROVE  /\ new \in LogMessage /\ new.blocks # <<>> /\ lm.blocks # <<>>
         /\ Origin(new) = Origin(lm)
         /\ StackDebt(new.blocks) = StackDebt(lm.blocks) + One(flow)
<1>. DEFINE inc == BlockInc(lm)
<1>1. /\ lm.blocks \in Seq(Block) /\ lm.blocks # <<>>
      /\ StackDebt(lm.blocks) \in Nat
  BY ExtraFinite DEF LogMessage
<1>2. CASE flow
  <2>1. /\ inc \in LogMessage /\ Len(inc.blocks) = Len(lm.blocks)
        /\ StackDebt(inc.blocks) = StackDebt(lm.blocks) + 1
    BY <1>1, BlockIncProperties, DebtInc
  <2>2. inc.blocks \in Seq(Block) /\ inc.blocks # <<>>
    BY <2>1 DEF LogMessage
  <2>. HIDE DEF inc
  <2>3. Ref(Ref(inc)) \in LogMessage /\ Ref(Ref(inc)).blocks = inc.blocks
    BY <2>1, RefUnref
  <2>4. StackDebt(new.blocks) = StackDebt(inc.blocks)
    BY <1>2, <2>2, <2>3, DebtStart DEF inc
  <2>5. /\ new \in LogMessage /\ Origin(new) = Origin(lm)
        /\ Len(new.blocks) = Len(lm.blocks) + 1
    BY <1>2, EnterProperties
  <2>6. new.blocks # <<>>
    BY <1>1, <2>5
  <2>. QED
    BY <1>1, <1>2, <2>1, <2>4, <2>5, <2>6 DEF One
<1>3. CASE ~flow
  <2>1. new \in LogMessage /\ new.blocks = lm.blocks
    BY <1>3, RefUnref
  <2>. QED
    BY <1>1, <1>3, <2>1 DEF Origin, One
<1>. QED
  BY <1>2, <1>3

\* What a group makes of a message it passes to a driver.
LEMMA GivenDebt ==
  ASSUME NEW lm \in LogMessage, Nested(lm.blocks), Len(lm.blocks) >= 2,
         NEW flow \in BOOLEAN,
         NEW new, new = Ref(IF flow THEN BlockInc(lm) ELSE lm)
  PROVE  /\ new \in LogMessage /\ Nested(new.blocks)
         /\ new.blocks # <<>> /\ lm.blocks # <<>>
         /\ Origin(new) = Origin(lm)
         /\ StackDebt(new.blocks) = StackDebt(lm.blocks) + One(flow)
<1>. DEFINE inc == BlockInc(lm)
<1>1. /\ lm.blocks \in Seq(Block) /\ lm.blocks # <<>>
      /\ StackDebt(lm.blocks) \in Nat
  BY ExtraFinite DEF LogMessage
<1>2. CASE flow
  <2>1. /\ inc \in LogMessage
        /\ StackDebt(inc.blocks) = StackDebt(lm.blocks) + 1
    BY <1>1, BlockIncProperties, DebtInc
  <2>. HIDE DEF inc
  <2>2. Ref(inc).blocks = inc.blocks
    BY <2>1, RefUnref
  <2>3. /\ new \in LogMessage /\ Nested(new.blocks)
        /\ Origin(new) = Origin(lm)
        /\ Len(new.blocks) = Len(lm.blocks)
    BY <1>2, GivenProperties
  <2>4. new.blocks # <<>>
    BY <1>1, <2>3
  <2>5. StackDebt(new.blocks) = StackDebt(lm.blocks) + 1
    BY <1>2, <2>1, <2>2 DEF inc
  <2>. QED
    BY <1>1, <1>2, <2>3, <2>4, <2>5 DEF One
<1>3. CASE ~flow
  <2>1. new \in LogMessage /\ new.blocks = lm.blocks
    BY <1>3, RefUnref
  <2>. QED
    BY <1>1, <1>3, <2>1 DEF Origin, One
<1>. QED
  BY <1>2, <1>3

\* What log_msg_drop, a group that is done and a writer that flushes make of it.
LEMMA DoneDebt ==
  ASSUME NEW lm \in LogMessage, Nested(lm.blocks),
         NEW flow \in BOOLEAN, flow => lm.blocks # <<>>,
         NEW new, new = Unref(IF flow THEN Ack(lm) ELSE lm)
  PROVE  /\ new \in LogMessage
         /\ new.blocks # <<>> =>
              lm.blocks # <<>> /\ Origin(new) = Origin(lm)
         /\ StackDebt(new.blocks) = StackDebt(lm.blocks) - One(flow)
<1>1. lm.blocks \in Seq(Block) /\ StackDebt(lm.blocks) \in Nat
  BY ExtraFinite DEF LogMessage
<1>2. CASE flow
  <2>1. Ack(lm) \in LogMessage
    BY AckProperties
  <2>2. new \in LogMessage /\ new.blocks = Ack(lm).blocks
    BY <1>2, <2>1, RefUnref
  <2>3. StackDebt(new.blocks) = StackDebt(lm.blocks) - 1
    BY <1>2, <2>2, DebtAck
  <2>4. new.blocks # <<>> => lm.blocks # <<>> /\ Origin(new) = Origin(lm)
    BY <2>2, AckOrigin DEF Origin
  <2>. QED
    BY <1>2, <2>2, <2>3, <2>4 DEF One
<1>3. CASE ~flow
  <2>1. new \in LogMessage /\ new.blocks = lm.blocks
    BY <1>3, RefUnref
  <2>. QED
    BY <1>1, <1>3, <2>1 DEF Origin, One
<1>. QED
  BY <1>2, <1>3

-----------------------------------------------------------------------------
(***************************************************************************)
(* A step of the log path changes the acknowledgements that are pending    *)
(* for one message, by as much as it changes what its blocks wait for.     *)
(***************************************************************************)

\* The stack of every message waits for what is pending.
Debts == \A m \in Msg : StackDebt(msg[m].blocks) = Pending(m)

Moves(m, new, delta) ==
  /\ new \in LogMessage
  /\ Update(m, new)
  /\ new.blocks # <<>> =>
       msg[m].blocks # <<>> /\ Origin(new) = Origin(msg[m])
  /\ StackDebt(new.blocks) = StackDebt(msg[m].blocks) + delta
  /\ \A n \in Msg :
       Pending(n)' = Pending(n) + (IF n = m THEN delta ELSE 0)

\* The flow-controlled places of a message are finitely many, and so is what
\* is pending for it.
LEMMA PendingType ==
  ASSUME IInv, NEW n \in Msg
  PROVE  /\ IsFiniteSet(FlowPlaces(n))
         /\ Cardinality(FlowPlaces(n)) \in Nat
         /\ Pending(n) \in Nat
<1>1. FlowPlaces(n) \subseteq Places(n)
  <2>1. [msg : {n}, flow : {TRUE}] \subseteq [msg : {n}, flow : BOOLEAN]
    OBVIOUS
  <2>2. ASSUME NEW p \in FlowPlaces(n)
        PROVE  p \in Places(n)
    <3>1. p \in PlacesIn(queue, [msg : {n}, flow : {TRUE}])
      BY <2>2 DEF FlowPlaces
    <3>2. PICK d \in Dest : \E i \in DOMAIN queue[d] :
             p = <<d, i>> /\ queue[d][i] \in [msg : {n}, flow : {TRUE}]
      BY <3>1, PlacesInMember, Zenon
    <3>. QED
      BY <2>1, <3>2, PlacesInMember, Zenon DEF Places
  <2>. QED
    BY <2>2
<1>2. IsFiniteSet(Places(n))
  BY DEF IInv, PlacesFinite
<1>3. IsFiniteSet(FlowPlaces(n)) /\ Cardinality(FlowPlaces(n)) \in Nat
  BY <1>1, <1>2, FS_Subset, FS_CardinalityType
<1>. QED
  BY <1>3 DEF Pending, One

\* An entry that is queued is pending if it is flow-controlled.
LEMMA FlowQueued ==
  ASSUME IInv, NEW d \in Dest, NEW e \in Entry,
         queue' = [queue EXCEPT ![d] = Append(@, e)],
         NEW n \in Msg
  PROVE  Cardinality(FlowPlaces(n)') =
           Cardinality(FlowPlaces(n)) + One(n = e.msg /\ e.flow)
<1>. DEFINE its == [msg : {n}, flow : {TRUE}]
<1>1. e \in its <=> n = e.msg /\ e.flow
  BY DEF Entry
<1>2. IsFiniteSet(PlacesIn(queue, its)) /\ queue \in [Dest -> Seq(Entry)]
  BY PendingType DEF FlowPlaces, IInv, TypeOK
<1>. HIDE DEF its
<1>3. Cardinality(PlacesIn(queue', its)) =
        Cardinality(PlacesIn(queue, its)) + One(e \in its)
  BY <1>2, AppendPlaces
<1>. QED
  BY <1>1, <1>3 DEF FlowPlaces, One, its

\* So it is until it is taken from the queue.
LEMMA FlowTaken ==
  ASSUME IInv, NEW d \in Dest, NEW e \in Entry,
         queue[d] # <<>>, e = Head(queue[d]),
         queue' = [queue EXCEPT ![d] = Tail(@)],
         NEW n \in Msg
  PROVE  Cardinality(FlowPlaces(n)') =
           Cardinality(FlowPlaces(n)) - One(n = e.msg /\ e.flow)
<1>. DEFINE its == [msg : {n}, flow : {TRUE}]
<1>1. e \in its <=> n = e.msg /\ e.flow
  BY DEF Entry
<1>2. IsFiniteSet(PlacesIn(queue, its)) /\ queue \in [Dest -> Seq(Entry)]
  BY PendingType DEF FlowPlaces, IInv, TypeOK
<1>. HIDE DEF its
<1>3. Cardinality(PlacesIn(queue', its)) =
        Cardinality(PlacesIn(queue, its)) - One(e \in its)
  BY <1>2, TailPlaces
<1>. QED
  BY <1>1, <1>3 DEF FlowPlaces, One, its

\* What a step of the call chain knows of the blocks of its message.
LEMMA CalledMessage ==
  ASSUME IInv, NEW m \in Msg, m = call.msg, call.at # "main"
  PROVE  /\ msg[m] \in LogMessage
         /\ Nested(msg[m].blocks)
         /\ Len(msg[m].blocks) >= 2
         /\ msg[m].blocks # <<>>
         /\ call.flow \in BOOLEAN
         /\ \A n \in Msg : InChain(n) <=> n = m
<1>1. InChain(m) /\ \A n \in Msg : InChain(n) <=> n = m
  BY DEF InChain
<1>2. call.flow \in BOOLEAN
  BY CallType DEF IInv
<1>. QED
  BY <1>1, <1>2, ChainMessage

\* With the queues unchanged, what is pending depends on the call.
LEMMA SameQueues ==
  ASSUME IInv, queue' = queue, NEW n \in Msg
  PROVE  /\ Cardinality(FlowPlaces(n)') = Cardinality(FlowPlaces(n))
         /\ Cardinality(FlowPlaces(n)) \in Nat
BY PendingType DEF FlowPlaces

LEMMA EnterGroupMoves ==
  ASSUME IInv, EnterGroup, NEW m \in Msg, m = call.msg
  PROVE  \E new : \E delta \in {0, 1} : Moves(m, new, delta)
<1>1. PICK next \in Delivery : next = Head(call.todo)
  BY CallType DEF IInv, EnterGroup
<1>2. next.flow \in BOOLEAN
  BY DEF Delivery
<1>3. PICK new :
        /\ new = IF next.flow
                 THEN BlockStart(Ref(Ref(BlockInc(msg[m]))), "group")
                 ELSE Ref(msg[m])
        /\ msg' = [msg EXCEPT ![m] = new]
        /\ window' = window /\ queue' = queue
  BY <1>1 DEF EnterGroup
<1>4. /\ call.at = "center" /\ call'.at = "group"
      /\ call'.msg = m /\ call'.flow = next.flow
  <2>1. /\ call = [at |-> call.at, msg |-> m, todo |-> call.todo,
                   dests |-> call.dests, flow |-> call.flow]
        /\ call.at = "center"
    BY DEF IInv, TypeOK, Call, InMain, EnterGroup
  <2>2. call' = [call EXCEPT !.at = "group", !.todo = Tail(@),
                             !.dests = Members[next.group],
                             !.flow = next.flow]
    BY <1>1 DEF EnterGroup
  <2>. QED
    BY <2>1, <2>2
<1>5. /\ new \in LogMessage /\ new.blocks # <<>>
      /\ msg[m].blocks # <<>> /\ Origin(new) = Origin(msg[m])
      /\ StackDebt(new.blocks) = StackDebt(msg[m].blocks) + One(next.flow)
  BY <1>2, <1>3, <1>4, CalledMessage, EnterDebt
<1>6. Update(m, new)
  BY <1>3, <1>5 DEF Update, Acked
<1>7. ASSUME NEW n \in Msg
      PROVE  Pending(n)' = Pending(n) + (IF n = m THEN One(next.flow) ELSE 0)
  <2>1. /\ Cardinality(FlowPlaces(n)') = Cardinality(FlowPlaces(n))
        /\ Cardinality(FlowPlaces(n)) \in Nat
    BY <1>3, SameQueues
  <2>. QED
    BY <1>4, <2>1 DEF Pending, One, InChain, InGroup
<1>8. Moves(m, new, One(next.flow))
  BY <1>5, <1>6, <1>7 DEF Moves
<1>9. One(next.flow) \in {0, 1}
  BY DEF One
<1>. QED
  BY <1>8, <1>9

LEMMA EnqueueMoves ==
  ASSUME IInv, Enqueue, NEW m \in Msg, m = call.msg
  PROVE  \E new : \E delta \in {0, 1} : Moves(m, new, delta)
<1>1. /\ call.at = "group" /\ call.dests # <<>>
      /\ call' = [call EXCEPT !.dests = Tail(@)] /\ window' = window
  BY DEF Enqueue
<1>2. /\ call.flow \in BOOLEAN /\ Head(call.dests) \in Dest
      /\ call'.at = "group" /\ call'.msg = m /\ call'.flow = call.flow
  BY <1>1, GroupCall
<1>3. PICK d, e, new :
        /\ d \in Dest /\ e \in Entry
        /\ e = [msg |-> m, flow |-> call.flow]
        /\ new = Ref(IF call.flow THEN BlockInc(msg[m]) ELSE msg[m])
        /\ msg' = [msg EXCEPT ![m] = new]
        /\ queue' = [queue EXCEPT ![d] = Append(@, e)]
  BY <1>2 DEF Enqueue, Given, Entry
<1>4. /\ new \in LogMessage /\ new.blocks # <<>>
      /\ msg[m].blocks # <<>> /\ Origin(new) = Origin(msg[m])
      /\ StackDebt(new.blocks) = StackDebt(msg[m].blocks) + One(call.flow)
  BY <1>1, <1>3, CalledMessage, GivenDebt
<1>5. Update(m, new)
  BY <1>1, <1>3, <1>4 DEF Update, Acked
<1>6. ASSUME NEW n \in Msg
      PROVE  Pending(n)' = Pending(n) + (IF n = m THEN One(call.flow) ELSE 0)
  <2>1. /\ Cardinality(FlowPlaces(n)') =
             Cardinality(FlowPlaces(n)) + One(n = e.msg /\ e.flow)
        /\ Cardinality(FlowPlaces(n)) \in Nat
    BY <1>3, FlowQueued, PendingType
  <2>2. One(n = e.msg /\ e.flow) = IF n = m THEN One(call.flow) ELSE 0
    BY <1>3 DEF One
  <2>3. One(InChain(n)') = One(InChain(n)) /\ One(InChain(n)) \in Nat
    BY <1>1, <1>2 DEF One, InChain
  <2>4. /\ One(InGroup(n)' /\ call'.flow) = One(InGroup(n) /\ call.flow)
        /\ One(InGroup(n) /\ call.flow) \in Nat
    BY <1>1, <1>2 DEF One, InGroup
  <2>5. One(call.flow) \in Nat
    BY DEF One
  <2>. QED
    BY <2>1, <2>2, <2>3, <2>4, <2>5 DEF Pending
<1>7. Moves(m, new, One(call.flow))
  BY <1>4, <1>5, <1>6 DEF Moves
<1>8. One(call.flow) \in {0, 1}
  BY DEF One
<1>. QED
  BY <1>7, <1>8

LEMMA DropMoves ==
  ASSUME IInv, Drop, NEW m \in Msg, m = call.msg
  PROVE  \E new : Moves(m, new, 0)
<1>1. /\ call.at = "group" /\ call.dests # <<>>
      /\ call' = [call EXCEPT !.dests = Tail(@)] /\ queue' = queue
  BY DEF Drop
<1>2. /\ call.flow \in BOOLEAN
      /\ call'.at = "group" /\ call'.msg = m /\ call'.flow = call.flow
  BY <1>1, GroupCall
<1>3. PICK giv, new :
        /\ giv = Ref(IF call.flow THEN BlockInc(msg[m]) ELSE msg[m])
        /\ new = Unref(IF call.flow THEN Ack(giv) ELSE giv)
        /\ Update(m, new)
  BY DEF Drop, Given
<1>4. /\ giv \in LogMessage /\ Nested(giv.blocks) /\ giv.blocks # <<>>
      /\ msg[m].blocks # <<>> /\ Origin(giv) = Origin(msg[m])
      /\ StackDebt(giv.blocks) = StackDebt(msg[m].blocks) + One(call.flow)
  BY <1>1, <1>3, CalledMessage, GivenDebt
<1>5. /\ new \in LogMessage
      /\ new.blocks # <<>> => Origin(new) = Origin(giv)
      /\ StackDebt(new.blocks) = StackDebt(giv.blocks) - One(call.flow)
  BY <1>2, <1>3, <1>4, DoneDebt
<1>6. StackDebt(new.blocks) = StackDebt(msg[m].blocks) + 0
  <2>1. msg[m].blocks \in Seq(Block)
    BY <1>1, CalledMessage DEF LogMessage
  <2>2. StackDebt(msg[m].blocks) \in Nat /\ One(call.flow) \in Nat
    BY <2>1, ExtraFinite DEF One
  <2>. QED
    BY <1>4, <1>5, <2>2
<1>7. ASSUME NEW n \in Msg
      PROVE  Pending(n)' = Pending(n) + (IF n = m THEN 0 ELSE 0)
  <2>1. /\ Cardinality(FlowPlaces(n)') = Cardinality(FlowPlaces(n))
        /\ Cardinality(FlowPlaces(n)) \in Nat
    BY <1>1, SameQueues
  <2>. QED
    BY <1>1, <1>2, <2>1 DEF Pending, One, InChain, InGroup
<1>. QED
  BY <1>3, <1>4, <1>5, <1>6, <1>7 DEF Moves

LEMMA LeaveGroupMoves ==
  ASSUME IInv, LeaveGroup, NEW m \in Msg, m = call.msg
  PROVE  \E new : \E delta \in {-1, 0} : Moves(m, new, delta)
<1>1. /\ call.at = "group" /\ queue' = queue
      /\ call' = [call EXCEPT !.at = "center"]
  BY DEF LeaveGroup
<1>2. /\ call.flow \in BOOLEAN
      /\ call'.at = "center" /\ call'.msg = m
  BY <1>1, GroupCall
<1>3. PICK new :
        /\ new = Unref(IF call.flow THEN Ack(msg[m]) ELSE msg[m])
        /\ Update(m, new)
  BY DEF LeaveGroup
<1>4. /\ new \in LogMessage
      /\ new.blocks # <<>> =>
           msg[m].blocks # <<>> /\ Origin(new) = Origin(msg[m])
      /\ StackDebt(new.blocks) = StackDebt(msg[m].blocks) - One(call.flow)
  BY <1>1, <1>3, CalledMessage, DoneDebt
<1>5. PICK delta \in {-1, 0} : delta = 0 - One(call.flow)
  <2>1. One(call.flow) = 0 \/ One(call.flow) = 1
    BY DEF One
  <2>. QED
    BY <2>1
<1>6. StackDebt(new.blocks) = StackDebt(msg[m].blocks) + delta
  <2>1. msg[m].blocks \in Seq(Block)
    BY <1>1, CalledMessage DEF LogMessage
  <2>2. StackDebt(msg[m].blocks) \in Nat /\ One(call.flow) \in Nat
    BY <2>1, ExtraFinite DEF One
  <2>. QED
    BY <1>4, <1>5, <2>2
<1>7. ASSUME NEW n \in Msg
      PROVE  Pending(n)' = Pending(n) + (IF n = m THEN delta ELSE 0)
  <2>1. /\ Cardinality(FlowPlaces(n)') = Cardinality(FlowPlaces(n))
        /\ Cardinality(FlowPlaces(n)) \in Nat
    BY <1>1, SameQueues
  <2>. QED
    BY <1>1, <1>2, <1>5, <2>1 DEF Pending, One, InChain, InGroup
<1>. QED
  BY <1>3, <1>4, <1>6, <1>7 DEF Moves

LEMMA LeaveCenterMoves ==
  ASSUME IInv, LeaveCenter, NEW m \in Msg, m = call.msg
  PROVE  \E new : Moves(m, new, -1)
<1>1. /\ call.at = "center" /\ queue' = queue /\ call'.at = "main"
  BY DEF LeaveCenter, InMain
<1>2. PICK new : new = Ack(msg[m]) /\ Update(m, new)
  BY DEF LeaveCenter
<1>3. /\ msg[m] \in LogMessage /\ Nested(msg[m].blocks)
      /\ msg[m].blocks # <<>>
  BY <1>1, CalledMessage
<1>4. /\ new \in LogMessage
      /\ new.blocks # <<>> => Origin(new) = Origin(msg[m])
      /\ StackDebt(new.blocks) = StackDebt(msg[m].blocks) - 1
  <2>1. Answered(msg[m], Ack(msg[m]))
    BY <1>3, AckAnswers, Zenon
  <2>2. StackDebt(Ack(msg[m]).blocks) = StackDebt(msg[m].blocks) - 1
    BY <1>3, DebtAck
  <2>. QED
    BY <1>2, <2>1, <2>2, Zenon DEF Answered
<1>5. StackDebt(new.blocks) = StackDebt(msg[m].blocks) + (-1)
  <2>1. msg[m].blocks \in Seq(Block)
    BY <1>3 DEF LogMessage
  <2>2. StackDebt(msg[m].blocks) \in Nat
    BY <2>1, ExtraFinite
  <2>. QED
    BY <1>4, <2>2
<1>6. ASSUME NEW n \in Msg
      PROVE  Pending(n)' = Pending(n) + (IF n = m THEN -1 ELSE 0)
  <2>1. /\ Cardinality(FlowPlaces(n)') = Cardinality(FlowPlaces(n))
        /\ Cardinality(FlowPlaces(n)) \in Nat
    BY <1>1, SameQueues
  <2>. QED
    BY <1>1, <2>1 DEF Pending, One, InChain, InGroup
<1>. QED
  BY <1>2, <1>3, <1>4, <1>5, <1>6 DEF Moves

LEMMA FlushMoves ==
  ASSUME IInv, Debts, NEW d \in Dest, Flush(d)
  PROVE  \E m \in Msg : \E new : \E delta \in {-1, 0} : Moves(m, new, delta)
<1>1. /\ call.at = "main" /\ call' = call
      /\ queue[d] # <<>> /\ queue' = [queue EXCEPT ![d] = Tail(@)]
      /\ queue \in [Dest -> Seq(Entry)]
  BY DEF Flush, IInv, TypeOK
<1>2. PICK e \in Entry : e = Head(queue[d])
  BY <1>1
<1>3. PICK m \in Msg : m = e.msg
  BY DEF Entry
<1>4. PICK new :
        /\ new = Unref(IF e.flow THEN Ack(msg[m]) ELSE msg[m])
        /\ Update(m, new)
  BY <1>2, <1>3 DEF Flush
<1>5. /\ msg[m] \in LogMessage /\ Nested(msg[m].blocks)
      /\ e.flow \in BOOLEAN
      /\ msg[m].blocks \in Seq(Block)
  BY DEF IInv, TypeOK, BlocksNested, LogMessage, Entry
<1>6. \A n \in Msg :
        Pending(n)' = Pending(n) - (IF n = m THEN One(e.flow) ELSE 0)
  <2>. SUFFICES ASSUME NEW n \in Msg
                PROVE  Pending(n)' =
                         Pending(n) - (IF n = m THEN One(e.flow) ELSE 0)
    OBVIOUS
  <2>1. /\ Cardinality(FlowPlaces(n)') =
             Cardinality(FlowPlaces(n)) - One(n = e.msg /\ e.flow)
        /\ Cardinality(FlowPlaces(n)) \in Nat
    BY <1>1, <1>2, FlowTaken, PendingType
  <2>2. One(n = e.msg /\ e.flow) = IF n = m THEN One(e.flow) ELSE 0
    BY <1>3 DEF One
  <2>3. One(e.flow) \in Nat
    BY DEF One
  <2>4. /\ One(InChain(n)') = One(InChain(n)) /\ One(InChain(n)) = 0
        /\ One(InGroup(n)' /\ call'.flow) = One(InGroup(n) /\ call.flow)
        /\ One(InGroup(n) /\ call.flow) = 0
    BY <1>1 DEF One, InChain, InGroup
  <2>. QED
    BY <2>1, <2>2, <2>3, <2>4 DEF Pending
<1>7. e.flow => msg[m].blocks # <<>>
  <2>. SUFFICES ASSUME e.flow
                PROVE  msg[m].blocks # <<>>
    OBVIOUS
  <2>1. FlowPlaces(m) # {}
    <3>1. 1 \in DOMAIN queue[d] /\ queue[d][1] = e
      BY <1>1, <1>2
    <3>2. e \in [msg : {m}, flow : {TRUE}]
      BY <1>3 DEF Entry
    <3>3. <<d, 1>> \in FlowPlaces(m)
      BY <3>1, <3>2, PlacesInMember DEF FlowPlaces
    <3>. QED
      BY <3>3
  <2>2. Cardinality(FlowPlaces(m)) # 0 /\ Cardinality(FlowPlaces(m)) \in Nat
    BY <2>1, PendingType, FS_EmptySet
  <2>3. StackDebt(msg[m].blocks) # 0
    BY <2>2 DEF Debts, Pending, One
  <2>. QED
    BY <2>3 DEF StackDebt
<1>8. /\ new \in LogMessage
      /\ new.blocks # <<>> =>
           msg[m].blocks # <<>> /\ Origin(new) = Origin(msg[m])
      /\ StackDebt(new.blocks) = StackDebt(msg[m].blocks) - One(e.flow)
  BY <1>4, <1>5, <1>7, DoneDebt
<1>9. PICK delta \in {-1, 0} : delta = 0 - One(e.flow)
  <2>1. One(e.flow) = 0 \/ One(e.flow) = 1
    BY DEF One
  <2>. QED
    BY <2>1
<1>10. /\ One(e.flow) \in Nat /\ StackDebt(msg[m].blocks) \in Nat
       /\ \A n \in Msg : Pending(n) \in Nat
  BY <1>5, ExtraFinite, PendingType DEF One
<1>11. StackDebt(new.blocks) = StackDebt(msg[m].blocks) + delta
  BY <1>8, <1>9, <1>10
<1>12. \A n \in Msg : Pending(n)' = Pending(n) + (IF n = m THEN delta ELSE 0)
  BY <1>6, <1>9, <1>10
<1>. QED
  BY <1>4, <1>8, <1>11, <1>12 DEF Moves

\* Fetch starts anew, with one acknowledgement pending: the center's.
LEMMA FetchMoves ==
  ASSUME IInv, Debts, NEW r \in Reader, NEW m \in Msg, NEW route \in Route,
         Fetch(r, m, route)
  PROVE  \E new :
           /\ msg' = [msg EXCEPT ![m] = new]
           /\ window' = [window EXCEPT ![DriverOf[r]] = @ - 1]
           /\ new.blocks # <<>> /\ Origin(new) = r
           /\ StackDebt(new.blocks) = 1
           /\ Pending(m) = 0
           /\ \A n \in Msg : Pending(n)' = IF n = m THEN 1 ELSE Pending(n)
<1>. DEFINE made == [refs |-> 1, blocks |-> <<>>]
            one  == BlockStart(made, r)
<1>1. PICK new :
        /\ new = BlockStart(Ref(one), "center")
        /\ msg' = [msg EXCEPT ![m] = new]
        /\ window' = [window EXCEPT ![DriverOf[r]] = @ - 1]
        /\ queue' = queue /\ call.at = "main" /\ msg[m].refs = 0
        /\ call'.at = "center" /\ call'.msg = m
  BY DEF Fetch
<1>2. /\ made \in LogMessage /\ made.blocks = <<>>
      /\ Nested(made.blocks) /\ r \in Pusher(Len(made.blocks) + 1)
  BY DEF LogMessage, Nested, Pusher
<1>. HIDE DEF made
<1>3. /\ one \in LogMessage /\ Nested(one.blocks)
      /\ one.blocks = Append(<<>>, [by |-> r, req |-> 1, ack |-> 0])
      /\ StackDebt(one.blocks) = 1
  BY <1>2, BlockStartProperties, DebtStart
<1>4. /\ Len(one.blocks) = 1 /\ one.blocks[1].by = r /\ one.blocks # <<>>
      /\ one.blocks \in Seq(Block)
  BY <1>3 DEF LogMessage
<1>. HIDE DEF one
<1>5. /\ Ref(one) \in LogMessage /\ Ref(one).blocks = one.blocks
  BY <1>3, RefUnref
<1>6. "center" \in Pusher(Len(Ref(one).blocks) + 1)
  <2>1. Len(one.blocks) = 1 /\ Ref(one).blocks = one.blocks
    BY <1>4, <1>5
  <2>2. Len(Ref(one).blocks) = 1
    BY <2>1, Zenon
  <2>. QED
    BY <2>2 DEF Pusher
<1>7. /\ new.blocks =
           Append(one.blocks, [by |-> "center", req |-> 1, ack |-> 0])
      /\ StackDebt(new.blocks) = 1
  <2>. DEFINE ref == Ref(one)
  <2>1. /\ ref \in LogMessage /\ ref.blocks = one.blocks
        /\ ref.blocks # <<>> /\ StackDebt(ref.blocks) = 1
        /\ Nested(ref.blocks) /\ "center" \in Pusher(Len(ref.blocks) + 1)
        /\ new = BlockStart(ref, "center")
    BY <1>1, <1>3, <1>4, <1>5, <1>6
  <2>. HIDE DEF ref
  <2>2. StackDebt(new.blocks) = 1
    BY <2>1, DebtStart
  <2>. QED
    BY <2>1, <2>2, BlockStartProperties
<1>8. new.blocks # <<>> /\ Origin(new) = r
  BY <1>4, <1>7 DEF Origin
<1>9. Pending(m) = 0
  <2>1. msg[m].blocks = <<>>
    BY <1>1, FreeMessage
  <2>. QED
    BY <2>1 DEF Debts, StackDebt
<1>10. ASSUME NEW n \in Msg
       PROVE  Pending(n)' = IF n = m THEN 1 ELSE Pending(n)
  <2>1. /\ Cardinality(FlowPlaces(n)') = Cardinality(FlowPlaces(n))
        /\ Cardinality(FlowPlaces(n)) \in Nat
    BY <1>1, SameQueues
  <2>2. /\ One(InChain(n)) = 0 /\ One(InGroup(n) /\ call.flow) = 0
        /\ One(InChain(n)') = (IF n = m THEN 1 ELSE 0)
        /\ One(InGroup(n)' /\ call'.flow) = 0
    BY <1>1 DEF One, InChain, InGroup
  <2>. QED
    BY <1>9, <2>1, <2>2 DEF Pending
<1>. QED
  BY <1>1, <1>7, <1>8, <1>9, <1>10

-----------------------------------------------------------------------------
(***************************************************************************)
(* What the blocks wait for is what is pending, and the ledger is kept.    *)
(***************************************************************************)

LEMMA InitDebts == Init => Debts
<1>. SUFFICES ASSUME Init, NEW m \in Msg
              PROVE  StackDebt(msg[m].blocks) = Pending(m)
  BY DEF Debts
<1>1. Pending(m) = 0
  <2>1. FlowPlaces(m) = {}
    <3>1. \A p : p \notin FlowPlaces(m)
      BY PlacesInMember DEF Init, FlowPlaces
    <3>. QED
      BY <3>1
  <2>2. Cardinality(FlowPlaces(m)) = 0
    BY <2>1, FS_EmptySet
  <2>. QED
    BY <2>2 DEF Pending, One, InChain, InGroup, Init, InMain
<1>. QED
  BY <1>1 DEF Init, StackDebt

\* A move keeps the debts, and is a step of the ledger or none.
LEMMA MoveStep ==
  ASSUME IInv, Debts, NEW m \in Msg, NEW new, NEW delta \in {-1, 0, 1},
         Moves(m, new, delta)
  PROVE  Debts' /\ [Ledger!Next]_(Ledger!vars)
<1>. DEFINE owed  == [n \in Msg |-> Pending(n)]
            owner == [n \in Msg |-> IF msg[n].blocks = <<>> THEN "nobody"
                                    ELSE DriverOf[Origin(msg[n])]]
<1>1. /\ msg \in [Msg -> LogMessage] /\ new \in LogMessage
      /\ msg' = [msg EXCEPT ![m] = new]
      /\ msg'[m] = new /\ \A n \in Msg : n # m => msg'[n] = msg[n]
  BY DEF Moves, Update, IInv, TypeOK
<1>2. \A n \in Msg : /\ StackDebt(msg[n].blocks) = Pending(n)
                     /\ Pending(n) \in Nat
                     /\ Pending(n) = 0 <=> msg[n].blocks = <<>>
  BY <1>1, ExtraFinite, PendingType DEF Debts, LogMessage
<1>3. /\ StackDebt(new.blocks) = Pending(m) + delta
      /\ StackDebt(new.blocks) \in Nat
      /\ StackDebt(new.blocks) = 0 <=> new.blocks = <<>>
  BY <1>1, <1>2, ExtraFinite DEF Moves, LogMessage
<1>4. \A n \in Msg :
        Pending(n)' = Pending(n) + (IF n = m THEN delta ELSE 0)
  BY DEF Moves
<1>5. Debts'
  <2>. SUFFICES ASSUME NEW n \in Msg
                PROVE  StackDebt(msg'[n].blocks) = Pending(n)'
    BY DEF Debts
  <2>1. CASE n = m
    BY <1>1, <1>3, <1>4, <2>1
  <2>2. CASE n # m
    BY <1>1, <1>2, <1>4, <2>2
  <2>. QED
    BY <2>1, <2>2
<1>6. owed' = [owed EXCEPT ![m] = @ + delta]
  <2>1. owed' = [n \in Msg |-> Pending(n)']
    OBVIOUS
  <2>2. \A n \in Msg : Pending(n)' = IF n = m THEN Pending(m) + delta
                                     ELSE Pending(n)
    BY <1>2, <1>4
  <2>. QED
    BY <2>1, <2>2
<1>7. /\ new.blocks # <<>> =>
           msg[m].blocks # <<>> /\ Origin(new) = Origin(msg[m])
      /\ window' = IF Acked(msg[m], new)
                   THEN [window EXCEPT ![DriverOf[Origin(msg[m])]] = @ + 1]
                   ELSE window
  BY DEF Moves, Update
<1>8. CASE new.blocks = <<>> /\ msg[m].blocks # <<>>
  <2>1. Pending(m) = 1 /\ Pending(m) + delta = 0
    BY <1>2, <1>3, <1>8
  <2>2. owner[m] = DriverOf[Origin(msg[m])]
    BY <1>8
  <2>3. window' = [window EXCEPT ![owner[m]] = @ + 1]
    BY <1>7, <1>8, <2>2 DEF Acked
  <2>4. owner' = [owner EXCEPT ![m] = "nobody"]
    BY <1>1, <1>8
  <2>5. owed[m] = 1 /\ owed' = [owed EXCEPT ![m] = 0]
    BY <1>6, <2>1
  <2>6. Ledger!Return(m)
    BY <2>3, <2>4, <2>5 DEF Ledger!Return
  <2>. QED
    BY <1>5, <2>6 DEF Ledger!Next
<1>9. CASE new.blocks # <<>> \/ msg[m].blocks = <<>>
  <2>1. window' = window
    BY <1>7, <1>9 DEF Acked
  <2>2. owner' = owner
    BY <1>1, <1>7, <1>9
  <2>3. CASE delta = 0
    <3>1. owed' = owed
      BY <1>2, <1>4, <2>3
    <3>. QED
      BY <1>5, <2>1, <2>2, <3>1 DEF Ledger!vars
  <2>4. CASE delta = 1
    <3>1. Pending(m) > 0
      BY <1>2, <1>3, <1>7, <2>4
    <3>2. owed[m] > 0 /\ owed' = [owed EXCEPT ![m] = @ + 1]
      BY <1>6, <2>4, <3>1
    <3>3. Ledger!Claim(m)
      BY <2>1, <2>2, <3>2 DEF Ledger!Claim
    <3>. QED
      BY <1>5, <3>3 DEF Ledger!Next
  <2>5. CASE delta = -1
    <3>1. Pending(m) > 1
      BY <1>2, <1>3, <1>9, <2>5
    <3>2. owed[m] > 1 /\ owed' = [owed EXCEPT ![m] = @ - 1]
      BY <1>2, <1>6, <2>5, <3>1
    <3>3. Ledger!Settle(m)
      BY <2>1, <2>2, <3>2 DEF Ledger!Settle
    <3>. QED
      BY <1>5, <3>3 DEF Ledger!Next
  <2>. QED
    BY <2>3, <2>4, <2>5
<1>. QED
  BY <1>8, <1>9

\* Fetch is the acceptance of a message.
LEMMA AcceptStep ==
  ASSUME IInv, Debts, NEW r \in Reader, NEW m \in Msg, NEW route \in Route,
         Fetch(r, m, route)
  PROVE  Debts' /\ Ledger!Next
<1>. DEFINE owed  == [n \in Msg |-> Pending(n)]
            owner == [n \in Msg |-> IF msg[n].blocks = <<>> THEN "nobody"
                                    ELSE DriverOf[Origin(msg[n])]]
<1>1. PICK new :
        /\ msg' = [msg EXCEPT ![m] = new]
        /\ window' = [window EXCEPT ![DriverOf[r]] = @ - 1]
        /\ new.blocks # <<>> /\ Origin(new) = r
        /\ StackDebt(new.blocks) = 1
        /\ Pending(m) = 0
        /\ \A n \in Msg : Pending(n)' = IF n = m THEN 1 ELSE Pending(n)
  BY FetchMoves
<1>2. msg \in [Msg -> LogMessage]
  BY DEF IInv, TypeOK
<1>3. msg'[m] = new /\ \A n \in Msg : n # m => msg'[n] = msg[n]
  BY <1>1, <1>2
<1>4. Debts'
  BY <1>1, <1>3 DEF Debts
<1>5. DriverOf[r] \in Driver
  BY LogPathAssumption
<1>6. owner' = [owner EXCEPT ![m] = DriverOf[r]]
  <2>1. \A n \in Msg :
          (IF msg'[n].blocks = <<>> THEN "nobody"
           ELSE DriverOf[Origin(msg'[n])])
            = IF n = m THEN DriverOf[r] ELSE owner[n]
    BY <1>1, <1>3
  <2>2. owner' = [n \in Msg |-> IF msg'[n].blocks = <<>> THEN "nobody"
                               ELSE DriverOf[Origin(msg'[n])]]
    BY DEF Origin
  <2>. QED
    BY <2>1, <2>2
<1>7. owed[m] = 0 /\ owed' = [owed EXCEPT ![m] = 1]
  BY <1>1
<1>8. Ledger!Accept(m, DriverOf[r])
  BY <1>1, <1>6, <1>7 DEF Ledger!Accept
<1>. QED
  BY <1>4, <1>5, <1>8 DEF Ledger!Next

\* So it is for every step of the log path.
LEMMA NextDebts ==
  ASSUME IInv, Debts, [Next]_vars
  PROVE  Debts' /\ [Ledger!Next]_(Ledger!vars)
<1>1. CASE Chain
  <2>1. call.at # "main"
    BY <1>1 DEF Chain, EnterGroup, Enqueue, Drop, LeaveGroup, LeaveCenter
  <2>2. PICK m \in Msg : m = call.msg
    BY <2>1, CallType DEF IInv
  <2>3. \E new : \E delta \in {-1, 0, 1} : Moves(m, new, delta)
    BY <1>1, <2>2, EnterGroupMoves, EnqueueMoves, DropMoves,
       LeaveGroupMoves, LeaveCenterMoves DEF Chain
  <2>. QED
    BY <2>3, MoveStep
<1>2. CASE \E d \in Dest : Flush(d)
  <2>1. \E m \in Msg : \E new : \E delta \in {-1, 0, 1} : Moves(m, new, delta)
    BY <1>2, FlushMoves
  <2>. QED
    BY <2>1, MoveStep
<1>3. CASE \E r \in Reader, m \in Msg, route \in Route : Fetch(r, m, route)
  BY <1>3, AcceptStep
<1>4. CASE UNCHANGED vars
  <2>1. \A n \in Msg : Pending(n)' = Pending(n)
    BY <1>4 DEF vars, Pending, FlowPlaces, InChain, InGroup, One
  <2>2. Debts'
    BY <1>4, <2>1 DEF vars, Debts
  <2>3. UNCHANGED Ledger!vars
    BY <1>4, <2>1 DEF vars, Ledger!vars
  <2>. QED
    BY <2>2, <2>3
<1>. QED
  BY <1>1, <1>2, <1>3, <1>4 DEF Next

LEMMA DebtsInvariant == Spec => []Debts
<1>1. Init => Debts
  BY InitDebts
<1>2. IInv /\ Debts /\ [Next]_vars => Debts'
  BY NextDebts
<1>. QED
  BY <1>1, <1>2, Invariance, PTL DEF Spec

\* A message has a block exactly if something is pending for it.
LEMMA AwaitedState == IInv /\ Debts => AwaitedIffHeld
<1>. SUFFICES ASSUME IInv, Debts, NEW m \in Msg
              PROVE  /\ StackDebt(msg[m].blocks) = Pending(m)
                     /\ msg[m].blocks # <<>> <=>
                          InChain(m) \/ FlowPlaces(m) # {}
  BY DEF AwaitedIffHeld
<1>1. msg[m].blocks \in Seq(Block)
  BY DEF IInv, TypeOK, LogMessage
<1>2. msg[m].blocks = <<>> <=> Pending(m) = 0
  BY <1>1, ExtraFinite DEF Debts
<1>3. /\ Cardinality(FlowPlaces(m)) \in Nat
      /\ Cardinality(FlowPlaces(m)) = 0 <=> FlowPlaces(m) = {}
  BY PendingType, FS_EmptySet
<1>4. Pending(m) = 0 <=> ~InChain(m) /\ FlowPlaces(m) = {}
  BY <1>3 DEF Pending, One, InGroup, InChain
<1>. QED
  BY <1>2, <1>4 DEF Debts

\* Whichever block an increment or an acknowledgement hits, the blocks of a
\* message wait for as many acknowledgements as log_center_queue, a
\* flow-controlled log_dest_group_queue and the flow-controlled writers that
\* hold it are still to give, and the source waits no longer.
THEOREM AwaitedWhileHeld == Spec => []AwaitedIffHeld
BY DebtsInvariant, Invariance, AwaitedState, PTL

\* The stacks of acknowledgement blocks implement the ledger: the window of a
\* driver changes when a message is accepted and when the last one that is
\* responsible for it lets go, by one unit, and at no other step.
THEOREM ImplementsLedger == Spec => LedgerSpec
<1>1. Init => Ledger!Init
  <2>1. ASSUME Init
        PROVE  Ledger!Init
    <3>1. \A m \in Msg : msg[m].blocks = <<>> /\ Pending(m) = 0
      BY <2>1, InitDebts DEF Init, Debts, StackDebt
    <3>. QED
      BY <2>1, <3>1 DEF Ledger!Init, Init
  <2>. QED
    BY <2>1
<1>2. IInv /\ Debts /\ [Next]_vars => [Ledger!Next]_(Ledger!vars)
  BY NextDebts
<1>. QED
  BY <1>1, <1>2, Invariance, DebtsInvariant, PTL
     DEF Spec, LedgerSpec, Ledger!Spec
=============================================================================
