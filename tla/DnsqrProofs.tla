------------------------------ MODULE DnsqrProofs ------------------------------
(***************************************************************************)
(* The state table of the dnsqr module keeps its promise for a table of    *)
(* any size, any hash function and any packets: what is in it is found,    *)
(* every probe ends, and queries are paired and given up as DnsqrQueue     *)
(* says.                                                                   *)
(***************************************************************************)
EXTENDS Dnsqr, IpReasmProofs

\* The slot a query in slot s hashes to.
Home(s) == NaturalOf(table[s])

(***************************************************************************)
(* The inductive invariant of the table.  While dnsqr_remove() closes a    *)
(* gap, the slots from the hole to where it has come are full, and only a  *)
(* query further up may have the hole in its way.  Queries of the same     *)
(* natural slot lie along the probe in the order in which they came.       *)
(***************************************************************************)
Shape ==
    /\ \E S : asked \in Seq(S)
    /\ \A k \in 1..Len(asked) : asked[k].key \in Keys
    /\ table \in [Slots -> 0..Len(asked)]
    /\ linked \subseteq 1..Len(asked)
    /\ he \in [linked -> Slots]
    /\ shifting \in BOOLEAN /\ hole \in Slots /\ scan \in Slots

Links ==
    /\ \A k \in linked : table[he[k]] = k
    /\ \A s \in Slots : table[s] # Empty => table[s] \in linked /\ he[table[s]] = s

Counted == IsFiniteSet(linked) /\ count = Cardinality(linked)

Gap ==
    shifting =>
        /\ table[hole] = Empty
        /\ \A u \in Slots :
             u # hole /\ Dist(hole, u) <= Dist(hole, scan) => table[u] # Empty

Paths ==
    \A s, u \in Slots :
        table[s] # Empty /\ Dist(Home(s), u) < Dist(Home(s), s) =>
            \/ table[u] # Empty
            \/ shifting /\ u = hole /\ Dist(hole, s) > Dist(hole, scan)

Order ==
    \A s, t \in Slots :
        table[s] # Empty /\ table[t] # Empty /\ Home(s) = Home(t) /\ table[s] < table[t] =>
            Dist(Home(s), s) < Dist(Home(s), t)

TableInv == Shape /\ Links /\ Counted /\ Gap /\ Paths /\ Order

CallInv ==
    /\ shifting = (pc = "shift")
    /\ count <= MaxValues \/ (pc = "call" /\ count = MaxValues + 1)
    /\ res = "eof" => linked = {} /\ pc \in {"call", "closed"}
    /\ now \in Int

IInv == TableInv /\ CallInv

-----------------------------------------------------------------------------
LEMMA NumSlotsPos == NumSlots \in Nat \ {0}
  BY TableAssumption DEF NumSlots

\* hash % num_slots is a slot.
LEMMA NaturalSlot == ASSUME NEW key \in Keys PROVE Natural(key) \in Slots
<1>1. Hash[key] \in Nat
  BY TableAssumption
<1>2. \A a \in Nat, n \in Nat \ {0} : a % n \in 0..(n - 1)
  OBVIOUS
<1> QED
  BY <1>1, <1>2, NumSlotsPos DEF Natural, Slots

LEMMA HomeSlot ==
    ASSUME Shape, NEW k \in 1..Len(asked) PROVE NaturalOf(k) \in Slots
  BY NaturalSlot DEF Shape, NaturalOf

LEMMA SuccSlot == ASSUME NEW s \in Slots PROVE Succ(s) \in Slots
  BY NumSlotsPos DEF Succ, Slots

-----------------------------------------------------------------------------
\* A list that is not empty has a head.
LEMMA HeadExists ==
    ASSUME Shape, linked # {} PROVE Head1 # {}
<1>1. linked \subseteq Nat
  BY DEF Shape
<1>2. PICK k \in linked : \A l \in linked : k <= l
  BY <1>1, LeastNat
<1> QED
  BY <1>2 DEF Head1

-----------------------------------------------------------------------------
(***************************************************************************)
(* The steps of the table                                                  *)
(***************************************************************************)
LEMMA RemoveStep ==
    ASSUME TableInv, ~shifting, NEW s \in Slots, table[s] # Empty, RemoveAt(s)
    PROVE  TableInv' /\ shifting' /\ count' = count - 1
<1> DEFINE k == table[s]
<1> USE DEF TableInv, Empty
<1>1. k \in linked /\ k \in 1..Len(asked)
  BY DEF Links, Shape
<1>2. /\ table' = [table EXCEPT ![s] = 0] /\ linked' = linked \ {k}
      /\ he' = [l \in linked' |-> he[l]] /\ count' = count - 1
      /\ shifting' = TRUE /\ hole' = s /\ scan' = s /\ asked' = asked
  BY DEF RemoveAt
<1>3. Shape'
  <2>1. (\E S : asked \in Seq(S))'
    BY <1>2 DEF Shape
  <2>2. table' \in [Slots -> 0..Len(asked)]
    BY <1>2, <1>1 DEF Shape
  <2>4. linked' \subseteq 1..Len(asked)
    BY <1>2 DEF Shape
  <2>3. he' \in [linked' -> Slots]
    BY <1>2 DEF Shape
  <2> QED
    BY <1>2, <2>1, <2>2, <2>3, <2>4 DEF Shape
<1>4. Links'
  BY <1>1, <1>2 DEF Links, Shape
<1>5. Counted'
  BY <1>1, <1>2, FS_RemoveElement DEF Counted
<1>6. Gap'
  BY <1>2, NumSlotsPos DEF Gap, Shape, Dist, Slots
<1>7. Paths'
  <2> SUFFICES ASSUME NEW t \in Slots, NEW u \in Slots,
                      table'[t] # 0, Dist(Home(t)', u) < Dist(Home(t)', t), table'[u] = 0
               PROVE  u = s /\ Dist(s, t) > Dist(s, s)
    BY <1>2 DEF Paths, Dist
  <2>1. t # s /\ table'[t] = table[t] /\ Home(t)' = Home(t)
    BY <1>2 DEF Shape, Home, NaturalOf
  <2>2. u = s
    BY <2>1, <1>2 DEF Paths, Shape
  <2> QED
    BY <2>1, <2>2, NumSlotsPos DEF Dist, Slots
<1>8. Order'
  <2> SUFFICES ASSUME NEW a \in Slots, NEW b \in Slots,
                      table'[a] # 0, table'[b] # 0, Home(a)' = Home(b)', table'[a] < table'[b]
               PROVE  Dist(Home(a)', a) < Dist(Home(a)', b)
    BY DEF Order, Dist
  <2>1. /\ table'[a] = table[a] /\ Home(a)' = Home(a)
        /\ table'[b] = table[b] /\ Home(b)' = Home(b)
    BY <1>2 DEF Shape, Home, NaturalOf
  <2> QED
    BY <2>1 DEF Order
<1> QED
  BY <1>2, <1>3, <1>4, <1>5, <1>6, <1>7, <1>8

LEMMA InsertStep ==
    ASSUME TableInv, ~shifting, NEW q, q.key \in Keys, InsertQuery(q)
    PROVE  /\ TableInv' /\ ~shifting' /\ count' = count + 1
           /\ asked' = Append(asked, q) /\ Len(asked') = Len(asked) + 1
           /\ asked'[Len(asked) + 1] = q
           /\ linked' = linked \cup {Len(asked) + 1}
<1> DEFINE k == Len(asked) + 1
           h == Natural(q.key)
<1> USE DEF TableInv, Empty
<1>0. PICK s \in First(h, Free) : InsertAt(q, s)
  BY DEF InsertQuery
<1>1. /\ asked' = Append(asked, q)
      /\ table' = [table EXCEPT ![s] = k] /\ linked' = linked \cup {k}
      /\ he' = [l \in linked' |-> IF l = k THEN s ELSE he[l]] /\ count' = count + 1
      /\ shifting' = shifting /\ hole' = hole /\ scan' = scan
  BY <1>0 DEF InsertAt
<1>2. /\ s \in Slots /\ table[s] = 0
      /\ \A u \in Slots : table[u] = 0 => Dist(h, s) <= Dist(h, u)
  BY <1>0 DEF First, Free
<1>3. PICK S : asked \in Seq(S)
  BY DEF Shape
<1>4. /\ asked \in Seq(S \cup {q}) /\ asked' \in Seq(S \cup {q}) /\ Len(asked') = k
      /\ k \in Nat \ {0}
      /\ asked'[k] = q /\ \A i \in 1..Len(asked) : asked'[i] = asked[i]
  <2>1. asked \in Seq(S \cup {q}) /\ q \in S \cup {q}
    BY <1>3
  <2> QED
    BY <2>1, <1>1
<1>5. h \in Slots
  BY NaturalSlot
<1>6. /\ table'[s] = k
      /\ \A t \in Slots : t # s => table'[t] = table[t]
      /\ \A t \in Slots : table[t] \in 0..Len(asked)
  BY <1>1, <1>2 DEF Shape
<1>7. /\ Home(s)' = h
      /\ \A t \in Slots : table[t] # 0 => t # s /\ Home(t)' = Home(t) /\ Home(t) \in Slots
  <2>1. Home(s)' = h
    BY <1>4, <1>6 DEF Home, NaturalOf
  <2>2. ASSUME NEW t \in Slots, table[t] # 0
        PROVE  t # s /\ Home(t)' = Home(t) /\ Home(t) \in Slots
    <3>1. t # s /\ table'[t] = table[t] /\ table[t] \in 1..Len(asked)
      BY <2>2, <1>2, <1>6
    <3> QED
      BY <3>1, <1>4, HomeSlot DEF Home, NaturalOf
  <2> QED
    BY <2>1, <2>2
<1>8. Shape'
  <2>1. \A i \in 1..Len(asked') : asked'[i].key \in Keys
    BY <1>4 DEF Shape
  <2>0. Len(asked) \in Nat /\ Len(asked') = Len(asked) + 1
    BY <1>3, <1>4
  <2>2. table' \in [Slots -> 0..Len(asked')]
    <3>1. \A t \in Slots : table'[t] \in 0..(Len(asked) + 1)
      BY <2>0, <1>6
    <3> QED
      BY <3>1, <2>0, <1>1 DEF Shape
  <2>3. linked' \subseteq 1..Len(asked')
    <3>1. linked \subseteq 1..Len(asked) /\ linked' = linked \cup {Len(asked) + 1}
      BY <1>1 DEF Shape
    <3>2. \A l \in linked' : l \in linked \/ l = Len(asked) + 1
      BY <3>1
    <3>3. ASSUME NEW l \in linked' PROVE l \in 1..(Len(asked) + 1)
      <4>1. CASE l \in linked
        <5>1. l \in 1..Len(asked)
          BY <3>1, <4>1
        <5> QED
          BY ONLY <5>1, <2>0
      <4>2. CASE l = Len(asked) + 1
        BY <4>2, <2>0
      <4> QED
        BY <3>2, <4>1, <4>2
    <3> QED
      BY <3>3, <2>0
  <2>4. he' \in [linked' -> Slots]
    BY <1>1, <1>2, <1>4 DEF Shape
  <2> QED
    BY <2>1, <2>2, <2>3, <2>4, <1>1, <1>4 DEF Shape
<1>9. k \notin linked
  BY <1>4 DEF Shape
<1>10. Links'
  <2>1. ASSUME NEW l \in linked' PROVE table'[he'[l]] = l
    <3>1. CASE l = k
      BY <3>1, <1>1, <1>6
    <3>2. CASE l # k
      <4>1. l \in linked /\ he'[l] = he[l] /\ he[l] \in Slots /\ table[he[l]] = l
        BY <3>2, <1>1 DEF Links, Shape
      <4>2. l # 0
        BY <4>1 DEF Shape
      <4> QED
        BY <4>1, <4>2, <1>2, <1>6
    <3> QED
      BY <3>1, <3>2
  <2>2. ASSUME NEW t \in Slots, table'[t] # 0
        PROVE  table'[t] \in linked' /\ he'[table'[t]] = t
    <3>1. CASE t = s
      BY <3>1, <1>1, <1>6
    <3>2. CASE t # s
      <4>1. table'[t] = table[t] /\ table[t] \in linked /\ he[table[t]] = t
        BY <3>2, <2>2, <1>6 DEF Links
      <4> QED
        BY <4>1, <1>1, <1>9
    <3> QED
      BY <3>1, <3>2
  <2> QED
    BY <2>1, <2>2 DEF Links
<1>11. Counted'
  BY <1>1, <1>9, FS_AddElement DEF Counted
<1>12. Gap'
  BY <1>1 DEF Gap
<1>13. Paths'
  <2> SUFFICES ASSUME NEW t \in Slots, NEW u \in Slots,
                      table'[t] # 0, Dist(Home(t)', u) < Dist(Home(t)', t)
               PROVE  table'[u] # 0
    BY <1>1 DEF Paths, Dist
  <2>1. CASE u = s
    BY <2>1, <1>4, <1>6
  <2>2. CASE u # s /\ t = s
    <3>1. Dist(h, u) < Dist(h, s)
      BY <2>2, <1>7
    <3>2. table[u] # 0
      <4>1. Dist(h, s) \in Int /\ Dist(h, u) \in Int
        BY <1>2, <1>5, NumSlotsPos DEF Dist, Slots
      <4> QED
        BY <3>1, <4>1, <1>2
    <3> QED
      BY <3>2, <2>2, <1>6
  <2>3. CASE u # s /\ t # s
    <3>1. table[t] # 0 /\ Home(t)' = Home(t)
      BY <2>3, <1>6, <1>7
    <3> QED
      BY <3>1, <2>3, <1>6 DEF Paths
  <2> QED
    BY <2>1, <2>2, <2>3
<1>14. Order'
  <2> SUFFICES ASSUME NEW a \in Slots, NEW b \in Slots,
                      table'[a] # 0, table'[b] # 0, Home(a)' = Home(b)', table'[a] < table'[b]
               PROVE  Dist(Home(a)', a) < Dist(Home(a)', b)
    BY DEF Order, Dist
  <2>1. a # s
    BY <1>4, <1>6, SMT
  <2>2. table[a] # 0 /\ Home(a)' = Home(a) /\ Home(a) \in Slots
    BY <2>1, <1>6, <1>7
  <2>3. CASE b = s
    <3>1. Home(a) = h
      BY <2>2, <2>3, <1>7
    <3>2. ~(Dist(h, s) < Dist(h, a))
      BY <3>1, <2>2, <1>2 DEF Paths
    <3> QED
      BY <3>1, <3>2, <2>1, <2>2, <2>3, <1>2, <1>5, NumSlotsPos DEF Dist, Slots
  <2>4. CASE b # s
    <3>1. table[b] # 0 /\ Home(b)' = Home(b) /\ table'[b] = table[b] /\ table'[a] = table[a]
      BY <2>4, <2>1, <1>6, <1>7
    <3> QED
      BY <3>1, <2>2 DEF Order
  <2> QED
    BY <2>3, <2>4
<1> QED
  BY <1>1, <1>4, <1>8, <1>10, <1>11, <1>12, <1>13, <1>14

(***************************************************************************)
(* Distances along the probe, for a natural slot k, the hole h, the slot j *)
(* above the scanned ones and another slot t.                              *)
(***************************************************************************)
LEMMA DistType ==
    ASSUME NEW a \in Slots, NEW b \in Slots
    PROVE  Dist(a, b) \in Nat /\ Dist(a, b) < NumSlots /\ (Dist(a, b) = 0 <=> a = b)
  BY NumSlotsPos DEF Dist, Slots

LEMMA DistInjective ==
    ASSUME NEW k \in Slots, NEW a \in Slots, NEW b \in Slots, a # b
    PROVE  Dist(k, a) # Dist(k, b)
  BY NumSlotsPos DEF Dist, Slots

LEMMA DistSucc ==
    ASSUME NEW h \in Slots, NEW s \in Slots, Succ(s) # h
    PROVE  Dist(h, Succ(s)) = Dist(h, s) + 1
  BY NumSlotsPos DEF Dist, Slots, Succ

LEMMA MovesUpDist ==
    ASSUME NEW h \in Slots, NEW j \in Slots, NEW k \in Slots, h # j
    PROVE  MovesUp(h, j, k) <=> Dist(k, h) < Dist(k, j)
  BY NumSlotsPos DEF Dist, Slots, MovesUp

LEMMA DistBetween ==
    ASSUME NEW h \in Slots, NEW j \in Slots, NEW k \in Slots, NEW t \in Slots,
           Dist(k, h) < Dist(k, t), Dist(k, t) < Dist(k, j)
    PROVE  Dist(h, t) < Dist(h, j)
  BY NumSlotsPos DEF Dist, Slots

LEMMA DistBeyond ==
    ASSUME NEW h \in Slots, NEW j \in Slots, NEW k \in Slots, NEW t \in Slots,
           Dist(k, h) < Dist(k, t), Dist(h, j) < Dist(h, t), j # h
    PROVE  Dist(k, j) < Dist(k, t)
  BY NumSlotsPos DEF Dist, Slots

\* One round of dnsqr_remove(): the query above the hole is moved into it.
LEMMA MoveStep ==
    ASSUME TableInv, ShiftMove
    PROVE  TableInv' /\ shifting' /\ UNCHANGED <<asked, linked, count>>
<1> USE DEF TableInv, Empty
<1>0. PICK h \in Slots, j \in Slots : h = hole /\ j = Succ(scan)
  BY SuccSlot DEF Shape
<1> DEFINE k == table[j]
<1>1. /\ shifting /\ k # 0 /\ MovesUp(h, j, NaturalOf(k))
      /\ table' = [table EXCEPT ![h] = k, ![j] = 0]
      /\ he' = [he EXCEPT ![k] = h]
      /\ hole' = j /\ scan' = j
      /\ asked' = asked /\ linked' = linked /\ count' = count /\ shifting' = shifting
  BY <1>0 DEF ShiftMove
<1>2. /\ j \in Slots /\ h \in Slots /\ scan \in Slots /\ table[h] = 0 /\ j # h /\ h = hole
      /\ k \in linked /\ he[k] = j /\ k \in 1..Len(asked) /\ NaturalOf(k) = Home(j)
      /\ Home(j) \in Slots
  BY <1>0, <1>1, SuccSlot, HomeSlot DEF Shape, Gap, Links, Home
<1>3. /\ table'[h] = k /\ table'[j] = 0
      /\ \A t \in Slots : t # h /\ t # j => table'[t] = table[t]
  BY <1>1, <1>2 DEF Shape
<1>4. /\ Home(h)' = Home(j)
      /\ \A t \in Slots : t # h /\ t # j => Home(t)' = Home(t)
  BY <1>1, <1>3 DEF Home, NaturalOf
<1>5. \A t \in Slots : table[t] # 0 => Home(t) \in Slots
  BY HomeSlot DEF Home, Shape
<1>6. Dist(Home(j), h) < Dist(Home(j), j) /\ Dist(h, j) = Dist(h, scan) + 1
  <2>1. MovesUp(h, j, Home(j))
    BY <1>1, <1>2
  <2> QED
    BY <2>1, <1>0, <1>2, MovesUpDist, DistSucc
<1>7. Shape'
  <2>1. (\E S : asked \in Seq(S))'
    BY <1>1 DEF Shape
  <2>2. table' \in [Slots -> 0..Len(asked)]
    BY <1>1, <1>2 DEF Shape
  <2>3. he' \in [linked' -> Slots]
    BY <1>1, <1>2 DEF Shape
  <2> QED
    BY <1>1, <1>2, <2>1, <2>2, <2>3 DEF Shape
<1>8. Links'
  <2>1. ASSUME NEW l \in linked' PROVE table'[he'[l]] = l
    <3>1. CASE l = k
      BY <3>1, <1>1, <1>2, <1>3 DEF Shape
    <3>2. CASE l # k
      <4>1. l \in linked /\ he'[l] = he[l] /\ he[l] \in Slots /\ table[he[l]] = l /\ l # 0
        BY <3>2, <1>1 DEF Links, Shape
      <4> QED
        BY <4>1, <3>2, <1>2, <1>3
    <3> QED
      BY <3>1, <3>2
  <2>2. ASSUME NEW t \in Slots, table'[t] # 0
        PROVE  table'[t] \in linked' /\ he'[table'[t]] = t
    <3>1. CASE t = h
      BY <3>1, <1>1, <1>2, <1>3 DEF Shape
    <3>2. CASE t # h
      <4>1. t # j /\ table'[t] = table[t]
        BY <3>2, <2>2, <1>3
      <4>2. table[t] \in linked /\ he[table[t]] = t /\ table[t] # k
        BY <4>1, <2>2, <1>2 DEF Links
      <4> QED
        BY <4>1, <4>2, <1>1 DEF Shape
    <3> QED
      BY <3>1, <3>2
  <2> QED
    BY <2>1, <2>2 DEF Links
<1>9. Counted'
  BY <1>1 DEF Counted
<1>10. Gap'
  BY <1>1, <1>2, <1>3, NumSlotsPos DEF Gap, Dist, Slots
<1>11. Paths'
  <2> SUFFICES ASSUME NEW t \in Slots, NEW u \in Slots, table'[t] # 0,
                      Dist(Home(t)', u) < Dist(Home(t)', t), table'[u] = 0
               PROVE  u = j /\ Dist(j, t) > Dist(j, j)
    BY <1>1 DEF Paths, Dist
  <2>1. t # j /\ u # h
    BY <1>2, <1>3
  <2>2. u = j
    <3> SUFFICES ASSUME u # j PROVE FALSE
      OBVIOUS
    <3>1. table[u] = 0
      BY <2>1, <1>3
    <3>2. CASE t = h
      <4>1. Dist(Home(j), u) < Dist(Home(j), h)
        BY <3>2, <1>4
      <4>3. Dist(Home(j), u) \in Nat /\ Dist(Home(j), h) \in Nat /\ Dist(Home(j), j) \in Nat
        BY <1>2, DistType
      <4>2. Dist(Home(j), u) < Dist(Home(j), j)
        BY <4>1, <4>3, <1>6
      <4> QED
        BY <4>2, <3>1, <2>1, <1>1, <1>2 DEF Paths
    <3>3. CASE t # h
      <4>1. table[t] # 0 /\ Dist(Home(t), u) < Dist(Home(t), t)
        BY <3>3, <2>1, <1>3, <1>4
      <4> QED
        BY <4>1, <3>1, <2>1, <1>2 DEF Paths
    <3> QED
      BY <3>2, <3>3
  <2> QED
    BY <2>1, <2>2, <1>2, NumSlotsPos DEF Dist, Slots
<1>12. ASSUME NEW t \in Slots, t # h, t # j, table[t] # 0, Home(t) = Home(j)
       PROVE  Dist(Home(j), t) < Dist(Home(j), h) \/ Dist(Home(j), t) > Dist(Home(j), j)
  \* A query between the hole and j of the same natural slot would have the hole
  \* in its way.
  <2> SUFFICES ASSUME ~(Dist(Home(j), t) < Dist(Home(j), h)),
                      ~(Dist(Home(j), t) > Dist(Home(j), j))
               PROVE  FALSE
    OBVIOUS
  <2>4. Dist(Home(j), t) \in Nat /\ Dist(Home(j), h) \in Nat /\ Dist(Home(j), j) \in Nat
    BY <1>2, DistType
  <2>5. Dist(Home(j), t) # Dist(Home(j), h) /\ Dist(Home(j), t) # Dist(Home(j), j)
    BY <1>2, <1>12, DistInjective
  <2>1. Dist(Home(j), h) < Dist(Home(j), t) /\ Dist(Home(j), t) < Dist(Home(j), j)
    BY <2>4, <2>5
  <2>3. Dist(h, t) < Dist(h, j)
    BY <2>1, <1>2, DistBetween
  <2>2. Dist(Home(t), h) < Dist(Home(t), t) /\ ~(Dist(h, t) > Dist(h, scan))
    <3>1. Dist(h, t) \in Nat /\ Dist(h, scan) \in Nat
      BY <1>2, DistType
    <3> QED
      BY <3>1, <2>1, <2>3, <1>6, <1>12
  <2> QED
    BY <2>2, <1>2, <1>12 DEF Paths
<1>13. Order'
  <2> SUFFICES ASSUME NEW a \in Slots, NEW b \in Slots,
                      table'[a] # 0, table'[b] # 0, Home(a)' = Home(b)', table'[a] < table'[b]
               PROVE  Dist(Home(a)', a) < Dist(Home(a)', b)
    BY DEF Order, Dist
  <2>1. a # j /\ b # j /\ a # b
    BY <1>3, <1>2 DEF Shape
  <2>2. CASE a # h /\ b # h
    BY <2>1, <2>2, <1>3, <1>4 DEF Order
  <2>3. CASE a = h
    <3>1. table[b] # 0 /\ Home(b) = Home(j) /\ table[j] < table[b]
      BY <2>1, <2>3, <1>3, <1>4
    <3>2. Dist(Home(j), j) < Dist(Home(j), b)
      BY <3>1, <1>1, <1>2 DEF Order
    <3> QED
      <4>1. Dist(Home(j), h) \in Nat /\ Dist(Home(j), j) \in Nat /\ Dist(Home(j), b) \in Nat
        BY <1>2, DistType
      <4>2. Dist(Home(j), h) < Dist(Home(j), b)
        BY <4>1, <3>2, <1>6
      <4>3. Home(a)' = Home(j)
        BY <2>3, <1>4
      <4> QED
        BY <4>2, <4>3, <2>3
  <2>4. CASE b = h
    <3>1. table[a] # 0 /\ Home(a) = Home(j) /\ table[a] < table[j]
      BY <2>1, <2>4, <1>3, <1>4
    <3>2. Dist(Home(j), a) < Dist(Home(j), j)
      BY <3>1, <1>1, <1>2 DEF Order
    <3>3. Dist(Home(j), a) < Dist(Home(j), h)
      <4>1. Dist(Home(j), a) \in Nat /\ Dist(Home(j), j) \in Nat
        BY <1>2, DistType
      <4> QED
        BY <3>1, <3>2, <4>1, <2>1, <2>4, <1>12
    <3> QED
      BY <3>1, <3>3, <2>1, <2>4, <1>4
  <2> QED
    BY <2>2, <2>3, <2>4
<1> QED
  BY <1>1, <1>7, <1>8, <1>9, <1>10, <1>11, <1>13

\* One round of dnsqr_remove(): the query stays where it is.
LEMMA KeepStep ==
    ASSUME TableInv, ShiftKeep
    PROVE  TableInv' /\ shifting' /\ UNCHANGED <<asked, linked, count>>
<1> DEFINE j == Succ(scan)
<1> USE DEF TableInv, Empty
<1>1. /\ shifting /\ table[j] # 0 /\ ~MovesUp(hole, j, Home(j)) /\ scan' = j
      /\ table' = table /\ he' = he /\ hole' = hole
      /\ asked' = asked /\ linked' = linked /\ count' = count /\ shifting' = shifting
  BY DEF ShiftKeep, Home
<1>2. /\ j \in Slots /\ hole \in Slots /\ scan \in Slots /\ table[hole] = 0 /\ j # hole
      /\ table[j] \in 1..Len(asked) /\ Home(j) \in Slots
  BY <1>1, SuccSlot, HomeSlot DEF Shape, Gap, Home
<1>3. ~(Dist(Home(j), hole) < Dist(Home(j), j)) /\ Dist(hole, j) = Dist(hole, scan) + 1
  BY <1>1, <1>2, MovesUpDist, DistSucc
<1>4. Shape' /\ Links' /\ Counted' /\ Order'
  BY <1>1, <1>2 DEF Shape, Links, Counted, Order, Home, NaturalOf
<1>5. Gap'
  <2> SUFFICES ASSUME NEW u \in Slots, u # hole, Dist(hole, u) <= Dist(hole, j)
               PROVE  table[u] # 0
    BY <1>1, <1>2 DEF Gap
  <2>1. CASE u = j
    BY <2>1, <1>1
  <2>2. CASE u # j
    <3>1. Dist(hole, u) <= Dist(hole, scan)
      <4>1. Dist(hole, u) \in Nat /\ Dist(hole, scan) \in Nat /\ Dist(hole, u) # Dist(hole, j)
        BY <2>2, <1>2, DistType, DistInjective
      <4> QED
        BY <4>1, <1>3
    <3> QED
      BY <3>1, <1>1 DEF Gap
  <2> QED
    BY <2>1, <2>2
<1>6. Paths'
  <2> SUFFICES ASSUME NEW t \in Slots, NEW u \in Slots, table[t] # 0,
                      Dist(Home(t), u) < Dist(Home(t), t), table[u] = 0
               PROVE  u = hole /\ Dist(hole, t) > Dist(hole, j)
    BY <1>1 DEF Paths, Home, NaturalOf
  <2>1. u = hole /\ Dist(hole, t) > Dist(hole, scan)
    BY DEF Paths
  <2>2. t # j
    BY <2>1, <1>3
  <2>3. Dist(hole, t) \in Nat /\ Dist(hole, scan) \in Nat /\ Dist(hole, t) # Dist(hole, j)
    BY <2>2, <1>2, DistType, DistInjective
  <2> QED
    BY <2>1, <2>3, <1>3
<1> QED
  BY <1>1, <1>4, <1>5, <1>6

\* The rounds of dnsqr_remove() are over: no query has a gap in its way.
LEMMA DoneStep ==
    ASSUME TableInv, ShiftDone
    PROVE  TableInv' /\ ~shifting' /\ UNCHANGED <<asked, linked, count>>
<1> DEFINE j == Succ(scan)
<1> USE DEF TableInv, Empty
<1>1. /\ shifting /\ table[j] = 0 /\ shifting' = FALSE
      /\ table' = table /\ he' = he /\ hole' = hole /\ scan' = scan
      /\ asked' = asked /\ linked' = linked /\ count' = count
  BY DEF ShiftDone
<1>2. j \in Slots /\ hole \in Slots /\ scan \in Slots /\ table[hole] = 0
  BY <1>1, SuccSlot DEF Shape, Gap
<1>4. Shape' /\ Links' /\ Counted' /\ Order' /\ Gap'
  BY <1>1 DEF Shape, Links, Counted, Order, Home, NaturalOf, Gap
<1>6. Paths'
  <2> SUFFICES ASSUME NEW t \in Slots, NEW u \in Slots, table[t] # 0,
                      Dist(Home(t), u) < Dist(Home(t), t), table[u] = 0
               PROVE  FALSE
    BY <1>1 DEF Paths, Home, NaturalOf
  <2>1. u = hole /\ Dist(hole, t) > Dist(hole, scan)
    BY DEF Paths
  <2>2. Home(t) \in Slots
    BY HomeSlot DEF Shape, Home
  <2>3. CASE j = hole
    BY <2>1, <2>3, <1>2, NumSlotsPos DEF Dist, Slots, Succ
  <2>4. CASE j # hole
    <3>1. Dist(Home(t), j) < Dist(Home(t), t) /\ j # t
      <4>1. t # j
        BY <1>1
      <4> QED
        BY <4>1, <2>1, <2>2, <2>4, <1>2, DistSucc, DistType, DistInjective, DistBeyond
    <3> QED
      BY <3>1, <2>4, <1>1, <1>2 DEF Paths
  <2> QED
    BY <2>3, <2>4
<1> QED
  BY <1>1, <1>4, <1>6

\* A probe that ends in a query ends in the oldest one the response answers.
LEMMA ProbeAnswers ==
    ASSUME TableInv, NEW r, r.key \in Keys, NEW s \in Probe(r), table[s] # Empty
    PROVE  /\ s \in Slots /\ table[s] \in linked /\ Eq(r, asked[table[s]])
           /\ \A l \in linked : Eq(r, asked[l]) => table[s] <= l
<1> DEFINE h == Natural(r.key)
<1> USE DEF TableInv, Empty
<1>1. /\ s \in Slots /\ Eq(r, asked[table[s]])
      /\ \A u \in Answers(r) : Dist(h, s) <= Dist(h, u)
  BY DEF Probe, First, Answers, Free
<1>2. table[s] \in linked /\ table[s] \in Nat /\ Home(s) = h
  BY <1>1 DEF Links, Shape, Eq, Home, NaturalOf
<1>3. ASSUME NEW l \in linked, Eq(r, asked[l]), l < table[s] PROVE FALSE
  <2> DEFINE u == he[l]
  <2>1. u \in Slots /\ table[u] = l /\ l \in Nat \ {0}
    BY DEF Links, Shape
  <2>2. u \in Answers(r) /\ Home(u) = h
    BY <2>1, <1>3 DEF Answers, Eq, Home, NaturalOf
  <2>3. Dist(h, u) < Dist(h, s)
    BY <2>1, <2>2, <1>1, <1>2, <1>3 DEF Order
  <2>4. Dist(h, u) \in Nat /\ Dist(h, s) \in Nat
    BY <2>1, <1>1, NaturalSlot, DistType
  <2> QED
    BY <2>2, <2>3, <2>4, <1>1
<1>4. linked \subseteq Nat
  BY DEF Shape
<1> QED
  BY <1>1, <1>2, <1>3, <1>4

\* A probe ends in an empty slot only when no query waits for the response.
LEMMA ProbeFindsNone ==
    ASSUME TableInv, ~shifting, NEW r, r.key \in Keys, NEW s \in Probe(r), table[s] = Empty,
           NEW l \in linked, Eq(r, asked[l])
    PROVE  FALSE
<1> DEFINE h == Natural(r.key)
           u == he[l]
<1> USE DEF TableInv, Empty
<1>1. u \in Slots /\ table[u] = l /\ l \in Nat \ {0}
  BY DEF Links, Shape
<1>2. u \in Answers(r) /\ Home(u) = h /\ h \in Slots
  BY <1>1, NaturalSlot DEF Answers, Eq, Home, NaturalOf
<1>3. s \in Slots /\ Dist(h, s) <= Dist(h, u)
  BY <1>2 DEF Probe, First, Answers, Free
<1>4. s # u
  BY <1>1
<1>5. Dist(h, s) \in Nat /\ Dist(h, u) \in Nat /\ Dist(h, s) # Dist(h, u)
  BY <1>1, <1>2, <1>3, <1>4, DistType, DistInjective
<1>6. Dist(h, s) < Dist(h, u)
  BY <1>3, <1>5
<1> QED
  BY <1>1, <1>2, <1>3, <1>6 DEF Paths

-----------------------------------------------------------------------------
(***************************************************************************)
(* What the packets do to the table                                        *)
(***************************************************************************)

\* What a packet that has been read is to the queue.
QueueStep ==
    /\ \/ /\ asked' = Append(asked, asked'[Len(asked) + 1]) /\ Len(asked') = Len(asked) + 1
          /\ linked' = linked \cup {Len(asked) + 1} /\ report' = Nothing
       \/ /\ report'.what = "answered" /\ report'.query \in linked
          /\ \A r \in report'.response : report'.query \in
                 {k \in linked : Eq(r, asked[k]) /\
                     \A l \in linked : Eq(r, asked[l]) => k <= l}
          /\ linked' = linked \ {report'.query} /\ asked' = asked
       \/ /\ report'.what = "unsolicited"
          /\ \A r \in report'.response : \A k \in linked : ~Eq(r, asked[k])
          /\ asked' = asked /\ linked' = linked
       \/ report' = Nothing /\ asked' = asked /\ linked' = linked

PacketOK ==
    /\ TableInv' /\ res' # "eof" /\ shifting' = (pc' = "shift")
    /\ count' <= MaxValues \/ (pc' = "call" /\ count' = MaxValues + 1)
    /\ QueueStep

\* Nothing changes in the table.
LEMMA TableStutter ==
    ASSUME TableInv, UNCHANGED tableVars PROVE TableInv'
  BY DEF TableInv, tableVars, Shape, Links, Counted, Gap, Paths, Order, Home, NaturalOf

LEMMA CountNat == ASSUME TableInv PROVE count \in Nat
  BY FS_CardinalityType DEF TableInv, Counted

LEMMA AgainOK == ASSUME IInv, pc = "read", Again PROVE PacketOK
<1>1. TableInv' /\ UNCHANGED tableVars
  BY TableStutter DEF IInv, Again
<1>2. count <= MaxValues /\ shifting = FALSE
  BY DEF IInv, CallInv
<1>3. shifting' = (pc' = "shift")
  BY <1>1, <1>2 DEF Again, Return, tableVars
<1> QED
  BY <1>1, <1>2, <1>3 DEF PacketOK, QueueStep, Again, Return, tableVars

LEMMA SingleOK == ASSUME IInv, pc = "read", NEW m, Single(m) PROVE PacketOK
<1>1. TableInv' /\ UNCHANGED tableVars
  BY TableStutter DEF IInv, Single
<1>2. count <= MaxValues /\ shifting = FALSE
  BY DEF IInv, CallInv
<1>3. shifting' = (pc' = "shift")
  BY <1>1, <1>2 DEF Single, Return, tableVars
<1> QED
  BY <1>1, <1>2, <1>3 DEF PacketOK, QueueStep, Single, Return, tableVars

LEMMA ArriveOK ==
    ASSUME IInv, pc = "read", NEW d \in Datagram, NEW t, NEW ts, NEW whole, NEW pieces,
           Arrive(d, t, ts, whole, pieces)
    PROVE  PacketOK
<1>0. TableInv /\ shifting = FALSE /\ count <= MaxValues /\ res # "eof" /\ d.key \in Keys
  BY DEF IInv, CallInv, Datagram
<1>1. count \in Nat /\ MaxValues \in Nat
  BY <1>0, CountNat, TableAssumption
<1>2. CASE ArriveQuery(d, t, whole)
  <2> DEFINE q == AsQuery(d, t, whole)
  <2>1. q.key \in Keys /\ InsertQuery(q)
    BY <1>0, <1>2 DEF ArriveQuery, AsQuery
  <2> HIDE DEF q
  <2>2. /\ TableInv' /\ ~shifting' /\ count' = count + 1
        /\ asked' = Append(asked, q) /\ Len(asked') = Len(asked) + 1
        /\ asked'[Len(asked) + 1] = q /\ linked' = linked \cup {Len(asked) + 1}
    BY <2>1, <1>0, InsertStep
  <2>3. pc' = "call" /\ res' = "again" /\ report' = Nothing
    BY <1>2 DEF ArriveQuery, Return
  <2>4. QueueStep
    BY <2>2, <2>3 DEF QueueStep
  <2>5. shifting' = (pc' = "shift")
    BY <2>2, <2>3 DEF TableInv, Shape
  <2>6. count' <= MaxValues \/ count' = MaxValues + 1
    BY <2>2, <1>0, <1>1
  <2> QED
    BY <2>2, <2>3, <2>4, <2>5, <2>6 DEF PacketOK
<1>3. CASE ArriveAnswer(d, t, pieces)
  <2> DEFINE r == AsResponse(d, t)
  <2>1. r.key \in Keys
    BY <1>0 DEF AsResponse
  <2>2. PICK s \in Probe(r) :
           /\ table[s] # Empty /\ RemoveAt(s)
           /\ report' = [what |-> "answered", query |-> table[s], response |-> {r}]
    BY <1>3 DEF ArriveAnswer
  <2>3. pc' = "shift" /\ res' = res
    BY <1>3 DEF ArriveAnswer
  <2> HIDE DEF r
  <2>4. /\ s \in Slots /\ table[s] \in linked /\ Eq(r, asked[table[s]])
        /\ \A l \in linked : Eq(r, asked[l]) => table[s] <= l
    BY <2>1, <2>2, <1>0, ProbeAnswers
  <2>5. TableInv' /\ shifting' /\ count' = count - 1
    BY <2>2, <2>4, <1>0, RemoveStep
  <2>6. asked' = asked /\ linked' = linked \ {table[s]} /\ shifting' = TRUE
    BY <2>2 DEF RemoveAt
  <2>7. QueueStep
    BY <2>2, <2>4, <2>6 DEF QueueStep
  <2>8. count' <= MaxValues
    BY <2>5, <1>0, <1>1
  <2> QED
    BY <2>3, <2>5, <2>6, <2>7, <2>8, <1>0 DEF PacketOK
<1>4. CASE ArriveUnsolicited(d, t, pieces)
  <2> DEFINE r == AsResponse(d, t)
  <2>1. r.key \in Keys
    BY <1>0 DEF AsResponse
  <2>2. PICK s \in Probe(r) : table[s] = Empty
    BY <1>4 DEF ArriveUnsolicited
  <2>3. /\ report' = [what |-> "unsolicited", query |-> 0, response |-> {r}]
        /\ pc' = "call" /\ res' # "eof" /\ UNCHANGED tableVars
    BY <1>4 DEF ArriveUnsolicited, Return
  <2> HIDE DEF r
  <2>4. \A k \in linked : ~Eq(r, asked[k])
    BY <2>1, <2>2, <1>0, ProbeFindsNone
  <2>5. QueueStep
    BY <2>3, <2>4 DEF QueueStep, tableVars
  <2>6. shifting' = (pc' = "shift") /\ count' = count
    BY <2>3, <1>0 DEF tableVars
  <2> QED
    BY <2>3, <2>5, <2>6, <1>0, TableStutter DEF PacketOK
<1>5. CASE ArriveSingle(d, t, ts, pieces)
  BY <1>5, AgainOK, SingleOK DEF ArriveSingle
<1> QED
  BY <1>2, <1>3, <1>4, <1>5 DEF Arrive

LEMMA PacketStep ==
    ASSUME IInv, Packet
    PROVE  PacketOK /\ now' \in Int /\ stop' = stop
<1>1. PICK p \in Frames :
         \/ FrameOther(p)
         \/ \E ts \in Times :
               FrameWhole(p, ts) \/ FrameShort(p, ts) \/ FrameMore(p, ts) \/ FrameDone(p, ts)
  BY DEF Packet
<1>2. Datagrams[p.frag.id] \in Datagram
  BY DnsqrAssumption DEF Fragment
<1> DEFINE d == Datagrams[p.frag.id]
<1> HIDE DEF d
<1>3. d \in Datagram
  BY <1>2 DEF d
<1>4. now \in Int
  BY DEF IInv, CallInv
<1>5. CASE FrameOther(p)
  <2>1. pc = "read" /\ stop' = stop /\ now' = now /\ Again
    BY <1>5 DEF FrameOther, ReadFrame
  <2> QED
    BY <2>1, <1>4, AgainOK
<1>6. ASSUME NEW ts \in Times, FrameWhole(p, ts) \/ FrameShort(p, ts) \/ FrameMore(p, ts) \/ FrameDone(p, ts)
      PROVE  PacketOK /\ now' \in Int /\ stop' = stop
  <2>1. pc = "read" /\ stop' = stop /\ now' = ts
    BY <1>6 DEF FrameWhole, FrameShort, FrameMore, FrameDone, ReadFrame, Tick
  <2>2. ts \in Int
    BY DnsqrAssumption
  <2>3. CASE FrameWhole(p, ts)
    <3>1. Again \/ Arrive(d, ts, ts, TRUE, {})
      BY <2>3 DEF FrameWhole, d
    <3> QED
      BY <3>1, <2>1, <2>2, <1>3, AgainOK, ArriveOK
  <2>4. CASE FrameShort(p, ts)
    <3>1. Again \/ Arrive(d, ts, ts, FALSE, {})
      BY <2>4 DEF FrameShort, d
    <3> QED
      BY <3>1, <2>1, <2>2, <1>3, AgainOK, ArriveOK
  <2>5. CASE FrameMore(p, ts)
    BY <2>5, <2>1, <2>2, AgainOK DEF FrameMore
  <2>6. CASE FrameDone(p, ts)
    <3>1. Again \/ \E ent \in out' : Arrive(d, FirstPiece(ent).ts, ts, FALSE, ent.frags)
      BY <2>6 DEF FrameDone, d
    <3>2. CASE Again
      BY <3>2, <2>1, <2>2, AgainOK
    <3>3. ASSUME NEW ent \in out', Arrive(d, FirstPiece(ent).ts, ts, FALSE, ent.frags)
          PROVE  PacketOK
      BY <3>3, <2>1, <1>3, ArriveOK
    <3> QED
      BY <3>1, <3>2, <3>3, <2>1, <2>2
  <2> QED
    BY <1>6, <2>3, <2>4, <2>5, <2>6
<1> QED
  BY <1>1, <1>5, <1>6

-----------------------------------------------------------------------------
(***************************************************************************)
(* Every step of the module                                                *)
(***************************************************************************)
LEMMA InitIInv == Init => IInv
<1> SUFFICES ASSUME Init PROVE IInv
  OBVIOUS
<1>1. /\ asked = <<>> /\ linked = {} /\ he = <<>> /\ count = 0 /\ table = [s \in Slots |-> 0]
      /\ shifting = FALSE /\ hole = 0 /\ scan = 0 /\ now = 0 /\ pc = "call" /\ res = "again"
  BY DEF Init, TableInit, Empty
<1>2. 0 \in Slots
  BY NumSlotsPos DEF Slots
<1>3. Shape
  <2>1. \E S : asked \in Seq(S)
    <3>1. asked \in Seq({})
      BY <1>1
    <3> QED
      BY <3>1
  <2>2. he \in [linked -> Slots]
    BY <1>1
  <2> QED
    BY <1>1, <1>2, <2>1, <2>2 DEF Shape
<1>4. Links /\ Gap /\ Paths /\ Order
  BY <1>1 DEF Links, Gap, Paths, Order, Empty
<1>5. Counted
  BY <1>1, FS_EmptySet DEF Counted
<1>6. CallInv
  <2>1. shifting = (pc = "shift") /\ res # "eof"
    BY <1>1
  <2>2. count <= MaxValues /\ now \in Int
    BY <1>1, TableAssumption
  <2> QED
    BY <2>1, <2>2 DEF CallInv
<1> QED
  BY <1>3, <1>4, <1>5, <1>6 DEF IInv, TableInv

\* dnsqr_trim()
LEMMA TrimStep ==
    ASSUME IInv, Trim
    PROVE  IInv' /\ Queue!GiveUp
<1>1. TableInv /\ shifting = FALSE /\ count <= MaxValues + 1
  <2>1. TableInv /\ count \in Nat /\ MaxValues \in Nat
    BY CountNat, TableAssumption DEF IInv
  <2>2. shifting = FALSE /\ (count <= MaxValues \/ count = MaxValues + 1)
    BY DEF IInv, CallInv, Trim
  <2> QED
    BY <2>1, <2>2
<1>2. PICK k \in Head1 :
         /\ Overdue(table[he[k]]) /\ RemoveAt(he[k])
         /\ report' = [what |-> "unanswered", query |-> table[he[k]], response |-> {}]
  BY DEF Trim
<1>3. k \in linked /\ he[k] \in Slots /\ table[he[k]] = k /\ k # 0 /\ \A l \in linked : k <= l
  BY <1>1, <1>2 DEF Head1, TableInv, Links, Shape
<1>4. TableInv' /\ shifting' /\ count' = count - 1
  BY <1>1, <1>2, <1>3, RemoveStep DEF Empty
<1>5. asked' = asked /\ linked' = linked \ {k} /\ shifting' = TRUE
  BY <1>2, <1>3 DEF RemoveAt
<1>6. pc' = "shift" /\ res' = "again" /\ now' = now /\ stop' = stop
  BY DEF Trim
<1>7. count' <= MaxValues
  BY <1>1, <1>4, CountNat, TableAssumption
<1>8. IInv'
  BY <1>4, <1>5, <1>6, <1>7 DEF IInv, CallInv
<1>9. Queue!GiveUp
  <2>1. Cardinality(linked) > MaxValues \/ stop \/ now - asked[k].time > QueryTimeout
    BY <1>1, <1>2, <1>3 DEF Overdue, TableInv, Counted
  <2>2. Queue!Cardinality(linked) = Cardinality(linked)
    BY DEF Queue!Cardinality, Cardinality
  <2>3. k \in Queue!Oldest(linked)
    BY <1>3 DEF Queue!Oldest
  <2>4. report' = [what |-> "unanswered", query |-> k, response |-> {}]
    BY <1>2, <1>3
  <2> QED
    BY <2>1, <2>2, <2>3, <2>4, <1>5, <1>6 DEF Queue!GiveUp
<1> QED
  BY <1>8, <1>9

\* dnsqr_trim() takes a query out whenever there are too many or no more packets.
LEMMA NoTrimCount ==
    ASSUME IInv, NoTrim
    PROVE  count <= MaxValues /\ (stop => linked = {})
<1>0. TableInv /\ Shape /\ count = Cardinality(linked) /\ count \in Nat /\ MaxValues \in Nat \ {0}
  BY CountNat, TableAssumption DEF IInv, TableInv, Counted
<1>1. ASSUME stop \/ count > MaxValues, linked # {} PROVE FALSE
  <2>1. PICK k \in Head1 : TRUE
    BY <1>0, <1>1, HeadExists
  <2>2. ~Overdue(table[he[k]])
    BY <2>1 DEF NoTrim
  <2> QED
    BY <2>2, <1>1 DEF Overdue
<1>2. linked = {} => count <= MaxValues
  BY <1>0, FS_EmptySet
<1> QED
  BY <1>0, <1>1, <1>2

\* Every step keeps the invariant, and is a step of the queue or none.
LEMMA NextStep ==
    ASSUME IInv, [Next]_vars
    PROVE  IInv' /\ [Queue!Next]_(Queue!vars)
<1>0. /\ TableInv /\ CallInv /\ count \in Nat /\ MaxValues \in Nat \ {0} /\ now \in Int
      /\ shifting = (pc = "shift")
  BY CountNat, TableAssumption DEF IInv, CallInv
<1>1. CASE Trim
  BY <1>1, TrimStep DEF Queue!Next
<1>2. CASE NoTrim
  <2>1. /\ UNCHANGED tableVars /\ pc = "call" /\ now' = now /\ stop' = stop /\ report' = Nothing
        /\ (stop /\ pc' = "call" /\ res' = "eof") \/ (pc' = "read" /\ res' = "again")
    BY <1>2 DEF NoTrim, Return
  <2>2. TableInv'
    BY <2>1, <1>0, TableStutter
  <2>3. CallInv'
    <3>1. count' <= MaxValues /\ (stop => linked' = {})
      BY <2>1, <1>2, NoTrimCount DEF tableVars
    <3>2. shifting' = (pc' = "shift")
      BY <2>1, <1>0 DEF tableVars
    <3> QED
      BY <3>1, <3>2, <2>1, <1>0 DEF CallInv
  <2>4. Queue!Other
    BY <2>1, <1>0 DEF Queue!Other, Queue!Nothing, Nothing, tableVars
  <2> QED
    BY <2>2, <2>3, <2>4 DEF IInv, Queue!Next
<1>3. CASE Shift
  <2>1. UNCHANGED <<now, stop, res, report>> /\ pc = "shift"
    BY <1>3 DEF Shift
  <2>2. /\ TableInv' /\ UNCHANGED <<asked, linked, count>> /\ shifting' = (pc' = "shift")
    <3>1. CASE ShiftMove /\ pc' = pc
      BY <3>1, <2>1, <1>0, MoveStep DEF TableInv, Shape
    <3>2. CASE ShiftKeep /\ pc' = pc
      BY <3>2, <2>1, <1>0, KeepStep DEF TableInv, Shape
    <3>3. CASE ShiftDone /\ pc' \in {"merge", "unanswered"}
      BY <3>3, <1>0, DoneStep DEF TableInv, Shape
    <3> QED
      BY <3>1, <3>2, <3>3, <1>3 DEF Shift
  <2>3. CallInv'
    BY <2>1, <2>2, <1>0 DEF CallInv
  <2>4. UNCHANGED Queue!vars
    BY <2>1, <2>2 DEF Queue!vars
  <2> QED
    BY <2>2, <2>3, <2>4 DEF IInv
<1>4. CASE Unanswered \/ Merge
  <2>1. UNCHANGED <<tableVars, now, stop, report>> /\ pc \in {"unanswered", "merge"}
    BY <1>4 DEF Unanswered, Merge
  <2>2. res' \in {res, "again", "success"} /\ pc' \in {"read", "call"}
    BY <1>4 DEF Unanswered, Merge, Return
  <2>3. TableInv'
    BY <2>1, <1>0, TableStutter
  <2>4. CallInv'
    BY <2>1, <2>2, <1>0 DEF CallInv, tableVars
  <2>5. UNCHANGED Queue!vars
    BY <2>1 DEF Queue!vars, tableVars
  <2> QED
    BY <2>3, <2>4, <2>5 DEF IInv
<1>5. CASE Packet
  <2>1. PacketOK /\ now' \in Int /\ stop' = stop
    BY <1>5, PacketStep
  <2>2. IInv'
    BY <2>1 DEF PacketOK, IInv, CallInv
  <2>3. Queue!Ask \/ Queue!Answer \/ Queue!Unsolicited \/ Queue!Other
    <3>1. CASE /\ asked' = Append(asked, asked'[Len(asked) + 1]) /\ Len(asked') = Len(asked) + 1
               /\ linked' = linked \cup {Len(asked) + 1} /\ report' = Nothing
      BY <3>1, <2>1 DEF Queue!Ask, Queue!Nothing, Nothing
    <3>2. CASE /\ report'.what = "answered" /\ report'.query \in linked
               /\ \A r \in report'.response : report'.query \in
                      {k \in linked : Eq(r, asked[k]) /\
                          \A l \in linked : Eq(r, asked[l]) => k <= l}
               /\ linked' = linked \ {report'.query} /\ asked' = asked
      <4>1. \A r \in report'.response : report'.query \in Queue!Oldest(Queue!Answered(r))
        BY <3>2 DEF Queue!Oldest, Queue!Answered
      <4> QED
        BY <4>1, <3>2, <2>1 DEF Queue!Answer
    <3>3. CASE /\ report'.what = "unsolicited"
               /\ \A r \in report'.response : \A k \in linked : ~Eq(r, asked[k])
               /\ asked' = asked /\ linked' = linked
      <4>1. \A r \in report'.response : Queue!Answered(r) = {}
        BY <3>3 DEF Queue!Answered
      <4> QED
        BY <4>1, <3>3, <2>1 DEF Queue!Unsolicited
    <3>4. CASE report' = Nothing /\ asked' = asked /\ linked' = linked
      BY <3>4, <2>1 DEF Queue!Other, Queue!Nothing, Nothing
    <3> QED
      BY <3>1, <3>2, <3>3, <3>4, <2>1 DEF PacketOK, QueueStep
  <2> QED
    BY <2>2, <2>3 DEF Queue!Next
<1>6. CASE ReadNone
  <2>1. /\ UNCHANGED <<tableVars, now>> /\ pc = "read" /\ pc' = "call" /\ report' = Nothing
        /\ res' \in {"again", "error"} /\ stop' \in {stop, TRUE}
    BY <1>6 DEF ReadNone
  <2>2. TableInv'
    BY <2>1, <1>0, TableStutter
  <2>3. CallInv'
    BY <2>1, <1>0 DEF CallInv, tableVars
  <2>4. Queue!Other
    BY <2>1, <1>0 DEF Queue!Other, Queue!Nothing, Nothing, tableVars
  <2> QED
    BY <2>2, <2>3, <2>4 DEF IInv, Queue!Next
<1>7. CASE Fini
  <2>1. /\ pc = "call" /\ pc' = "closed" /\ report' = Nothing /\ table' = [s \in Slots |-> 0]
        /\ linked' = {} /\ he' = <<>> /\ count' = 0
        /\ UNCHANGED <<asked, shifting, hole, scan, now, stop, res>>
    BY <1>7 DEF Fini, Empty
  <2>2. shifting = FALSE
    BY <2>1, <1>0
  <2>3. Shape'
    <3>1. he' \in [{} -> Slots]
      BY <2>1
    <3>2. table' \in [Slots -> 0..Len(asked)]
      <4>1. Len(asked) \in Nat
        BY <1>0 DEF TableInv, Shape
      <4> QED
        BY <4>1, <2>1
    <3> QED
      BY <3>1, <3>2, <2>1, <1>0 DEF TableInv, Shape
  <2>4. Links' /\ Gap' /\ Paths' /\ Order'
    BY <2>1, <2>2 DEF Links, Gap, Paths, Order, Empty
  <2>5. Counted'
    BY <2>1, FS_EmptySet DEF Counted
  <2>6. CallInv'
    BY <2>1, <2>2, <1>0 DEF CallInv
  <2>7. Queue!Drop
    BY <2>1 DEF Queue!Drop, Queue!Nothing, Nothing
  <2> QED
    BY <2>3, <2>4, <2>5, <2>6, <2>7 DEF IInv, TableInv, Queue!Next
<1>8. CASE UNCHANGED vars
  <2>1. TableInv'
    BY <1>8, <1>0, TableStutter DEF vars
  <2>2. CallInv'
    BY <1>8, <1>0 DEF vars, callVars, tableVars, CallInv
  <2>3. UNCHANGED Queue!vars
    BY <1>8 DEF vars, callVars, tableVars, Queue!vars
  <2> QED
    BY <2>1, <2>2, <2>3 DEF IInv
<1> QED
  BY <1>1, <1>2, <1>3, <1>4, <1>5, <1>6, <1>7, <1>8 DEF Next, Work, Closed

-----------------------------------------------------------------------------
(***************************************************************************)
(* The theorems                                                            *)
(***************************************************************************)

\* The table stays in order, between and within the rounds of dnsqr_remove().
THEOREM Inductive == Spec => []IInv
<1>1. IInv /\ [Next]_vars => IInv'
  BY NextStep
<1> QED
  BY <1>1, InitIInv, PTL DEF Spec

\* dnsqr_retrieve() never stops short of a query: whatever the table has been
\* through, no query has an empty slot between it and the slot it hashes to.
THEOREM Findable == Spec => []ProbeFindsAll
<1>1. IInv => ProbeFindsAll
  BY DEF IInv, TableInv, Paths, ProbeFindsAll, Home
<1> QED
  BY <1>1, Inductive, PTL

\* The list, its pointers into the table, the table and the count agree, even
\* while dnsqr_remove() moves queries.
THEOREM ListAndTable == Spec => []ListMatchesTable
<1>1. IInv => ListMatchesTable
  BY DEF IInv, TableInv, Links, Counted, ListMatchesTable
<1> QED
  BY <1>1, Inductive, PTL

\* A table with as many queries as slots would make dnsqr_insert_query() fail
\* its assertion: there is always a free slot when a packet is read.
THEOREM RoomForOne == Spec => []RoomLeft
<1>1. ASSUME IInv, pc = "read" PROVE count <= MaxValues /\ Free # {}
  <2>1. /\ count <= MaxValues /\ Shape /\ Links /\ IsFiniteSet(linked) /\ count \in Nat
        /\ count = Cardinality(linked) /\ MaxValues \in Nat \ {0}
    BY <1>1, CountNat, TableAssumption DEF IInv, TableInv, CallInv, Counted
  <2>2. SUFFICES ASSUME Free = {} PROVE FALSE
    BY <2>1
  <2>3. \A s \in Slots : table[s] \in linked /\ he[table[s]] = s
    BY <2>1, <2>2 DEF Free, Links
  <2> DEFINE f == [s \in Slots |-> table[s]]
  <2>4. f \in Injection(Slots, linked)
    BY <2>3 DEF Injection, IsInjective
  <2>5. IsFiniteSet(Slots) /\ Cardinality(Slots) = NumSlots
    BY NumSlotsPos, FS_Interval DEF Slots
  <2>6. Cardinality(Slots) <= Cardinality(linked)
    BY <2>1, <2>4, <2>5, FS_Injection
  <2> QED
    BY <2>1, <2>5, <2>6 DEF NumSlots
<1>2. IInv => RoomLeft
  BY <1>1 DEF RoomLeft
<1> QED
  BY <1>2, Inductive, PTL

\* eof is returned only when every query has been taken out of the table.
THEOREM Drained == Spec => []EofDrained
<1>1. IInv => EofDrained
  BY DEF IInv, CallInv, EofDrained
<1> QED
  BY <1>1, Inductive, PTL

\* The hash table with its list, whatever it hashes and however it is probed,
\* implements the queue: a response goes to the oldest query it answers, and is
\* unsolicited only when it answers none.
THEOREM Refines == Spec => PairsOldestFirst
<1>1. Init => Queue!Init
  BY DEF Init, TableInit, Queue!Init, Queue!Nothing, Nothing
<1>2. IInv /\ [Next]_vars => [Queue!Next]_(Queue!vars)
  BY NextStep
<1> QED
  BY <1>1, <1>2, Inductive, PTL DEF Spec, PairsOldestFirst, Queue!Spec

-----------------------------------------------------------------------------
(***************************************************************************)
(* The ages of the queries                                                 *)
(*                                                                         *)
(* dnsqr_trim() looks at the head of the list only.  That nothing behind   *)
(* it is older needs that queries are inserted in the order of their       *)
(* times.  A fragmented query has the time of its first fragment, not of   *)
(* the packet that completes it; since the module's reassembly has no time *)
(* of its own to wait, Timeout = 0, those are the same.                    *)
(***************************************************************************)
StampedEntry ==
    [id : Ids \cup {"none"}, len : Nat, holes : Int, count : Nat, timeout : Nat,
     state : {"active", "invalid"}, frags : SUBSET StampedPiece, early : BOOLEAN]

\* All there is of an entry came at time t; one without fragments has its hole.
Current(ent, t) ==
    /\ ent \in StampedEntry
    /\ ent.timeout = t
    /\ \A p \in ent.frags : p.ts = t
    /\ ent.frags = {} => ent.holes = 1

AllCurrent(es, t) ==
    /\ es \in Seq(StampedEntry)
    /\ \A i \in DOMAIN es : Current(es[i], t)

\* Queries are in the order of their times, none of them in the future.
InOrder ==
    /\ \A k \in 1..Len(asked) : asked[k].time \in Int /\ asked[k].time <= now
    /\ \A k, l \in 1..Len(asked) : k <= l => asked[k].time <= asked[l].time

\* A response that has been paired, before and after it is merged.
Paired(query, response, pieces) ==
    /\ query \in 1..Len(asked)
    /\ \E r : response = {r} /\ r.time = now
    /\ \A p \in pieces : p.ts = now

AgeInv ==
    /\ now \in Nat /\ late \in BOOLEAN
    /\ pc = "shift" => report.what \in {"answered", "unanswered"}
    /\ pc = "unanswered" => report.what = "unanswered"
    /\ pc = "merge" => report.what = "answered"
    /\ msg # {} => pc = "call"
    /\ ~late => /\ AllCurrent(entries, now)
                /\ InOrder
                /\ pc \in {"shift", "merge"} /\ report.what = "answered" =>
                     Paired(report.query, report.response, parts)
                /\ \A m \in msg : m.type = "UDP_QUERY_RESPONSE" =>
                     Paired(m.query, m.response, m.pieces)

\* The entries of a list.
LEMMA StampedAt ==
    ASSUME NEW es \in Seq(StampedEntry)
    PROVE  /\ Len(es) \in Nat /\ DOMAIN es = 1..Len(es)
           /\ \A i \in DOMAIN es : es[i] \in StampedEntry
  OBVIOUS

\* With no time to wait, the entries go as soon as time does.
LEMMA LiveCurrent ==
    ASSUME NEW t \in Nat, AllCurrent(entries, t), NEW ts \in Nat, t <= ts
    PROVE  AllCurrent(Live(ts), ts)
<1> DEFINE n == Len(entries)
<1>1. /\ entries \in Seq(StampedEntry) /\ n \in Nat /\ DOMAIN entries = 1..n
      /\ \A i \in 1..n : entries[i].timeout = t
  BY DEF AllCurrent, Current
<1>2. CASE t = ts
  <2>1. Expired(ts) = {}
    <3> SUFFICES ASSUME NEW i \in Expired(ts) PROVE FALSE
      OBVIOUS
    <3>1. i \in 1..n /\ \A j \in 1..i : entries[j].timeout < ts
      BY <1>1 DEF Expired
    <3>2. entries[i].timeout < ts /\ entries[i].timeout = t
      BY <1>1, <3>1
    <3> QED
      BY <1>2, <3>2
  <2>2. Cardinality(Expired(ts)) = 0
    BY <2>1, FS_EmptySet
  <2>3. Live(ts) = SubSeq(entries, 1, n)
    BY <2>2 DEF Live
  <2>4. SubSeq(entries, 1, n) = entries
    BY <1>1
  <2> QED
    BY <1>2, <2>3, <2>4
<1>3. CASE t < ts
  <2>1. Expired(ts) = 1..n
    <3>1. \A i \in 1..n : \A j \in 1..i : j \in 1..n
      BY <1>1
    <3> QED
      BY <1>1, <1>3, <3>1 DEF Expired
  <2>2. Cardinality(1..n) = n
    <3> HIDE DEF n
    <3>1. Cardinality(1..n) = IF 1 > n THEN 0 ELSE n - 1 + 1
      BY <1>1, FS_Interval
    <3> QED
      BY <1>1, <3>1
  <2>3. Live(ts) = SubSeq(entries, n + 1, n)
    BY <2>1, <2>2 DEF Live
  <2>4. SubSeq(entries, n + 1, n) = <<>>
    BY <1>1
  <2> QED
    BY <2>3, <2>4 DEF AllCurrent
<1> QED
  BY <1>2, <1>3

\* A new entry.
LEMMA NewStamped ==
    ASSUME NEW id \in Ids \cup {"none"}, NEW ts \in Nat
    PROVE  NewEntry(id, ts) \in StampedEntry
<1>1. ts + Timeout \in Nat
  BY DnsqrAssumption
<1> DEFINE S == Ids \cup {"none"}
<1>2. id \in S
  OBVIOUS
<1> HIDE DEF S
<1>3. NewEntry(id, ts) \in
        [id : S, len : Nat, holes : Int, count : Nat, timeout : Nat,
         state : {"active", "invalid"}, frags : SUBSET StampedPiece, early : BOOLEAN]
  BY <1>1, <1>2 DEF NewEntry
<1> QED
  BY <1>3 DEF StampedEntry, S

\* It has the time of the packet.
LEMMA NewCurrent ==
    ASSUME NEW id \in Ids, NEW ts \in Nat
    PROVE  Current(NewEntry(id, ts), ts) /\ NewEntry(id, ts).id = id
  BY NewStamped, DnsqrAssumption DEF NewEntry, Current

LEMMA LookupCurrent ==
    ASSUME NEW t \in Nat, AllCurrent(entries, t), NEW ts \in Nat, t <= ts,
           NEW id \in Ids
    PROVE  LET es == Lookup(id, ts)
           IN  AllCurrent(es, ts) /\ Place(es, id) \in DOMAIN es
<1> DEFINE es == Lookup(id, ts)
           lv == Live(ts)
           n == Len(lv)
           new == NewEntry(id, ts)
<1>1. AllCurrent(lv, ts)
  BY LiveCurrent
<1>2. lv \in Seq(StampedEntry) /\ n \in Nat /\ DOMAIN lv = 1..n
  BY <1>1 DEF AllCurrent
<1> HIDE DEF lv
<1>3. CASE \E i \in DOMAIN lv : lv[i].id = id
  <2>1. es = lv
    BY <1>3 DEF Lookup, lv
  <2> QED
    BY <1>1, <1>3, <2>1 DEF Place
<1>4. CASE ~(\E i \in DOMAIN lv : lv[i].id = id)
  <2>1. es = Append(lv, new)
    BY <1>4 DEF Lookup, lv
  <2>2. Current(new, ts) /\ new.id = id /\ new \in StampedEntry
    BY NewCurrent DEF Current
  <2> HIDE DEF new
  <2>3. /\ es \in Seq(StampedEntry) /\ DOMAIN es = 1..(n + 1)
        /\ \A i \in 1..n : es[i] = lv[i]
        /\ es[n + 1] = new
    BY <1>2, <2>1, <2>2
  <2> HIDE DEF es
  <2>4. \A i \in DOMAIN es : i \in 1..n \/ i = n + 1
    BY <1>2, <2>3
  <2>5. AllCurrent(es, ts)
    BY <1>1, <1>2, <2>2, <2>3, <2>4 DEF AllCurrent
  <2>6. n + 1 \in DOMAIN es
    BY <1>2, <2>3
  <2> QED
    BY <2>2, <2>3, <2>5, <2>6 DEF Place, es
<1> QED
  BY <1>3, <1>4

\* What reasm_add_fragment() makes of an entry.
AsPiece(f, ts) == [offset |-> f.offset, len |-> f.len, last |-> f.last, ts |-> ts]

LEMMA AddStamped ==
    ASSUME NEW ts \in Nat, NEW ent \in StampedEntry, NEW f, IsFragment(f)
    PROVE  LET new == BaseAdd(ent, f, ts)
           IN  /\ new \in StampedEntry /\ Added(new, ent, f, AsPiece(f, ts))
               /\ new.timeout = ent.timeout
<1> DEFINE new == BaseAdd(ent, f, ts)
           p == AsPiece(f, ts)
           more == IF f.len = 0 THEN {} ELSE {p}
           added == AddFragment(ent, f)
           early == ent.early \/ (f.last /\ f.len = 0 /\ ~FitLeft(ent, f))
           len == IF f.last THEN End(f) ELSE ent.len
           cnt == IF f.len = 0 THEN ent.count ELSE ent.count + 1
<1>1. f.len # 0 => p \in StampedPiece
  BY DEF AsPiece, StampedPiece, IsFragment
<1>2. ent.frags \cup more \in SUBSET StampedPiece
  BY <1>1 DEF StampedEntry
<1>3. Holes(ent, f) \in Int
  <2>1. ent.holes \in Int
    BY DEF StampedEntry
  <2> QED
    BY <2>1 DEF Holes
<1>4. early \in BOOLEAN /\ len \in Nat /\ cnt \in Nat
  <2>1. early \in BOOLEAN
    OBVIOUS
  <2>2. End(f) \in Nat /\ ent.len \in Nat /\ ent.count \in Nat
    BY DEF StampedEntry, IsFragment, End
  <2> QED
    BY <2>1, <2>2
<1>5. new = [id |-> ent.id, len |-> len, holes |-> Holes(ent, f), count |-> cnt,
             timeout |-> ent.timeout, state |-> ent.state, frags |-> ent.frags \cup more,
             early |-> early]
  <2>1. added = [ent EXCEPT !.len = len, !.holes = Holes(ent, f), !.count = cnt,
                            !.frags = IF f.len = 0 THEN @
                                      ELSE @ \cup {[offset |-> f.offset, len |-> f.len]},
                            !.early = early]
    BY DEF AddFragment, StampedEntry
  <2>2. new = [added EXCEPT !.frags = ent.frags \cup more]
    BY DEF BaseAdd, AsPiece
  <2> HIDE DEF more, early, len, cnt, added
  <2> QED
    BY <2>1, <2>2 DEF StampedEntry
<1> HIDE DEF more, early, len, cnt, added, new, p
<1>6. new \in StampedEntry
  BY <1>2, <1>3, <1>4, <1>5 DEF StampedEntry
<1>7. /\ new.state = ent.state /\ new.len = len /\ new.holes = Holes(ent, f)
      /\ new.frags = ent.frags \cup more /\ new.early = early /\ new.timeout = ent.timeout
  BY <1>5
<1>8. new.frags = IF f.len = 0 THEN ent.frags ELSE ent.frags \cup {p}
  BY <1>7 DEF more
<1>9. Added(new, ent, f, p)
  BY <1>7, <1>8 DEF Added, early, len
<1> QED
  BY <1>6, <1>7, <1>9 DEF new, p

\* A fragment that is stored is as new as the rest of its entry, and an entry
\* that is complete has one.
LEMMA AddCurrent ==
    ASSUME NEW ts \in Nat, NEW ent, Current(ent, ts), NEW f \in Fragment, End(f) > 0
    PROVE  LET new == BaseAdd(ent, f, ts)
           IN  Current(new, ts) /\ (new.holes = 0 => new.frags # {})
<1> DEFINE new == BaseAdd(ent, f, ts)
           p == AsPiece(f, ts)
<1>1. ent \in StampedEntry /\ ent.timeout = ts /\ \A q \in ent.frags : q.ts = ts
  BY DEF Current
<1>2. f.offset \in Nat /\ f.len \in Nat /\ f.last \in BOOLEAN
  BY DEF Fragment
<1>3. /\ new \in StampedEntry /\ new.timeout = ts /\ new.holes = Holes(ent, f)
      /\ new.frags = IF f.len = 0 THEN ent.frags ELSE ent.frags \cup {p}
  BY <1>1, <1>2, AddStamped DEF IsFragment, Added
<1>4. p.ts = ts
  BY DEF AsPiece
<1> HIDE DEF new, p
<1>5. new.frags = {} => new.holes = 1
  <2> SUFFICES ASSUME new.frags = {} PROVE new.holes = 1
    OBVIOUS
  <2>1. ent.frags = {} /\ f.len = 0 /\ ent.holes = 1
    BY <1>3 DEF Current
  <2>2. f.offset > 0
    BY <1>2, <2>1 DEF End
  <2>3. CurEnd(ent.frags, f) = 0
    BY <2>1 DEF CurEnd, Left
  <2>4. ~FitLeft(ent, f)
    BY <1>2, <2>2, <2>3 DEF FitLeft
  <2>5. Holes(ent, f) = 1
    BY <2>1, <2>4 DEF Holes
  <2> QED
    BY <1>3, <2>5
<1>6. \A q \in new.frags : q.ts = ts
  BY <1>1, <1>3, <1>4
<1>7. Current(new, ts)
  BY <1>3, <1>5, <1>6 DEF Current
<1> QED
  BY <1>5, <1>7 DEF new

\* The first fragment of a list.
LEMMA LowestIs ==
    ASSUME NEW pieces, pieces \subseteq StampedPiece, pieces # {}
    PROVE  Lowest(pieces) \in pieces /\ \A q \in pieces : Lowest(pieces).offset <= q.offset
<1> DEFINE T == {p.offset : p \in pieces}
<1>1. T \subseteq Nat /\ T # {}
  BY DEF StampedPiece
<1>2. PICK x \in T : \A y \in T : x <= y
  <2> HIDE DEF T
  <2> QED
    BY <1>1, LeastNat
<1>3. \E p \in pieces : \A q \in pieces : p.offset <= q.offset
  BY <1>2
<1> QED
  BY <1>3 DEF Lowest

\* The time of a response or query in fragments is that of the last of them.
LEMMA FirstCurrent ==
    ASSUME NEW ts \in Nat, NEW ent, Current(ent, ts), ent.frags # {}
    PROVE  FirstPiece(ent).ts = ts
<1>1. ent.frags \subseteq StampedPiece
  BY DEF Current, StampedEntry
<1>2. FirstPiece(ent) \in ent.frags
  BY <1>1, LowestIs DEF FirstPiece
<1> QED
  BY <1>2 DEF Current

\* A list stays current when one of its entries is replaced,
LEMMA ReplaceCurrent ==
    ASSUME NEW es, NEW ts, AllCurrent(es, ts), NEW i \in DOMAIN es, NEW new, Current(new, ts)
    PROVE  AllCurrent([es EXCEPT ![i] = new], ts)
<1> DEFINE u == [es EXCEPT ![i] = new]
<1>1. es \in Seq(StampedEntry) /\ new \in StampedEntry
  BY DEF AllCurrent, Current
<1>2. u \in Seq(StampedEntry) /\ DOMAIN u = DOMAIN es
  BY <1>1
<1>3. \A j \in DOMAIN es : u[j] = IF j = i THEN new ELSE es[j]
  BY <1>1
<1> HIDE DEF u
<1>4. AllCurrent(u, ts)
  BY <1>2, <1>3 DEF AllCurrent
<1> QED
  BY <1>4 DEF u

LEMMA ConcatIs ==
    ASSUME NEW S, NEW a \in Seq(S), NEW b \in Seq(S)
    PROVE  /\ a \o b \in Seq(S) /\ DOMAIN (a \o b) = 1..(Len(a) + Len(b))
           /\ \A j \in 1..(Len(a) + Len(b)) : (a \o b)[j] = IF j <= Len(a) THEN a[j] ELSE b[j - Len(a)]
  OBVIOUS

LEMMA TailIs ==
    ASSUME NEW S, NEW s \in Seq(S), NEW k \in Nat
    PROVE  LET u == SubSeq(s, k + 1, Len(s))
           IN  u \in Seq(S) /\ \A j \in DOMAIN u : k + j \in DOMAIN s /\ u[j] = s[k + j]
<1>1. CASE k + 1 <= Len(s)
  BY <1>1
<1>2. CASE ~(k + 1 <= Len(s))
  BY <1>2
<1> QED
  BY <1>1, <1>2

\* or taken out.
LEMMA RemoveIs ==
    ASSUME NEW es \in Seq(StampedEntry), NEW i \in DOMAIN es
    PROVE  LET u == SubSeq(es, 1, i - 1) \o SubSeq(es, i + 1, Len(es))
           IN  u \in Seq(StampedEntry) /\ \A j \in DOMAIN u : \E k \in DOMAIN es : u[j] = es[k]
<1> DEFINE n == Len(es)
           a == SubSeq(es, 1, i - 1)
           b == SubSeq(es, i + 1, n)
           u == a \o b
<1>1. n \in Nat /\ i \in 1..n /\ DOMAIN es = 1..n
  OBVIOUS
<1>2. /\ a \in Seq(StampedEntry) /\ DOMAIN a = 1..Len(a) /\ Len(a) = i - 1
      /\ \A j \in 1..(i - 1) : a[j] = es[j]
  BY <1>1
<1>3. /\ b \in Seq(StampedEntry) /\ DOMAIN b = 1..Len(b) /\ Len(b) = n - i
      /\ \A j \in 1..(n - i) : b[j] = es[i + j]
  BY <1>1
<1> HIDE DEF a, b, n
<1>4. /\ u \in Seq(StampedEntry) /\ DOMAIN u = 1..(n - 1)
      /\ \A j \in 1..(n - 1) : u[j] = IF j <= i - 1 THEN a[j] ELSE b[j - (i - 1)]
  <2>1. (i - 1) + (n - i) = n - 1
    BY <1>1
  <2>2. /\ u \in Seq(StampedEntry) /\ DOMAIN u = 1..(Len(a) + Len(b))
        /\ \A j \in 1..(Len(a) + Len(b)) : u[j] = IF j <= Len(a) THEN a[j] ELSE b[j - Len(a)]
    BY <1>2, <1>3, ConcatIs
  <2> QED
    BY <1>2, <1>3, <2>1, <2>2
<1> HIDE DEF u
<1>5. ASSUME NEW j \in DOMAIN u PROVE \E k \in DOMAIN es : u[j] = es[k]
  <2>1. j \in 1..(n - 1)
    BY <1>4
  <2>2. CASE j <= i - 1
    <3>1. u[j] = es[j] /\ j \in DOMAIN es
      BY <1>1, <1>2, <1>4, <2>1, <2>2
    <3> QED
      BY <3>1
  <2>3. CASE ~(j <= i - 1)
    <3>1. j - (i - 1) \in 1..(n - i) /\ i + (j - (i - 1)) \in DOMAIN es
      BY <1>1, <2>1, <2>3
    <3>2. u[j] = es[i + (j - (i - 1))]
      BY <1>3, <1>4, <2>1, <2>3, <3>1
    <3> QED
      BY <3>1, <3>2
  <2> QED
    BY <2>2, <2>3
<1> QED
  BY <1>4, <1>5 DEF u, a, b, n

LEMMA RemoveCurrent ==
    ASSUME NEW es, NEW ts, AllCurrent(es, ts), NEW i \in DOMAIN es
    PROVE  AllCurrent(SubSeq(es, 1, i - 1) \o SubSeq(es, i + 1, Len(es)), ts)
<1> DEFINE u == SubSeq(es, 1, i - 1) \o SubSeq(es, i + 1, Len(es))
<1>1. u \in Seq(StampedEntry) /\ \A j \in DOMAIN u : \E k \in DOMAIN es : u[j] = es[k]
  BY RemoveIs DEF AllCurrent
<1> HIDE DEF u
<1>2. AllCurrent(u, ts)
  BY <1>1 DEF AllCurrent
<1> QED
  BY <1>2 DEF u

\* reasm_ip_next() leaves only what is as new as the packet.
LEMMA ReasmCurrent ==
    ASSUME NEW t \in Nat, AllCurrent(entries, t), NEW ts \in Nat, t <= ts,
           NEW f \in Fragment, End(f) > 0,
           ReasmMore(f, ts) \/ ReasmDone(f, ts)
    PROVE  /\ AllCurrent(entries', ts)
           /\ ReasmDone(f, ts) => \A ent \in out' :
                 /\ \A p \in ent.frags : p.ts = ts
                 /\ FirstPiece(ent).ts = ts
<1> DEFINE es == Lookup(f.id, ts)
           i == Place(es, f.id)
           ent == es[i]
           new == BaseAdd(ent, f, ts)
<1>1. f.id \in Ids
  BY DEF Fragment
<1>2. AllCurrent(es, ts) /\ i \in DOMAIN es
  BY <1>1, LookupCurrent
<1> HIDE DEF es, i
<1>3. Current(ent, ts)
  BY <1>2 DEF AllCurrent
<1>4. Current(new, ts) /\ (new.holes = 0 => new.frags # {})
  BY <1>3, AddCurrent
<1>5. ASSUME FragDropped(f, ts) PROVE AllCurrent(entries', ts)
  BY <1>2, <1>5 DEF FragDropped, es
<1>6. ASSUME FragRejected(f, ts) PROVE AllCurrent(entries', ts)
  <2> DEFINE inv == [ent EXCEPT !.state = "invalid"]
  <2>1. entries' = [es EXCEPT ![i].state = "invalid"]
    BY <1>6 DEF FragRejected, es, i
  <2>2. [es EXCEPT ![i].state = "invalid"] = [es EXCEPT ![i] = inv]
    OBVIOUS
  <2>3. Current(inv, ts)
    BY <1>3 DEF Current, StampedEntry
  <2> HIDE DEF inv
  <2> QED
    BY <1>2, <2>1, <2>2, <2>3, ReplaceCurrent
<1> HIDE DEF new
<1>7. ASSUME entries' = [es EXCEPT ![i] = new] PROVE AllCurrent(entries', ts)
  BY <1>2, <1>4, <1>7, ReplaceCurrent
<1>8. ASSUME ReasmDone(f, ts)
      PROVE  /\ AllCurrent(entries', ts)
             /\ \A e \in out' : (\A p \in e.frags : p.ts = ts) /\ FirstPiece(e).ts = ts
  <2>1. /\ entries' = SubSeq(es, 1, i - 1) \o SubSeq(es, i + 1, Len(es))
        /\ out' = {new} /\ new.holes = 0
    BY <1>8 DEF ReasmDone, es, i, new
  <2>2. AllCurrent(entries', ts)
    BY <1>2, <2>1, RemoveCurrent
  <2>3. FirstPiece(new).ts = ts
    BY <1>4, <2>1, FirstCurrent
  <2>4. \A p \in new.frags : p.ts = ts
    BY <1>4 DEF Current
  <2> QED
    BY <2>1, <2>2, <2>3, <2>4
<1>9. ReasmMore(f, ts) => \/ FragDropped(f, ts) \/ FragRejected(f, ts)
                          \/ entries' = [es EXCEPT ![i] = new]
  BY DEF ReasmMore, es, i, new
<1>10. AllCurrent(entries', ts)
  BY <1>5, <1>6, <1>7, <1>8, <1>9
<1> QED
  BY <1>8, <1>10

\* What a packet does to the queries and to what is in hand.
Taken(t, pieces) ==
    /\ \/ asked' = asked
       \/ \E q : asked' = Append(asked, q) /\ q.time = t
    /\ \/ pc' = "call"
       \/ /\ pc' = "shift" /\ msg' = msg /\ asked' = asked
          /\ report'.what = "answered" /\ report'.query \in 1..Len(asked)
          /\ \E r : report'.response = {r} /\ r.time = t
          /\ parts' = pieces
    /\ \A m \in msg' : pc' = "call" => m.type # "UDP_QUERY_RESPONSE"

LEMMA AgainTaken == ASSUME Again, NEW t, NEW pieces PROVE Taken(t, pieces)
  BY DEF Again, Return, Taken, tableVars

LEMMA ArriveTaken ==
    ASSUME IInv, NEW d \in Datagram, NEW t, NEW ts, NEW whole, NEW pieces,
           pc = "read", Arrive(d, t, ts, whole, pieces)
    PROVE  Taken(t, pieces)
<1>1. CASE ArriveQuery(d, t, whole)
  <2>1. asked' = Append(asked, AsQuery(d, t, whole)) /\ pc' = "call" /\ msg' = {}
    BY <1>1 DEF ArriveQuery, InsertQuery, InsertAt, Return
  <2>2. AsQuery(d, t, whole).time = t
    BY DEF AsQuery
  <2> QED
    BY <2>1, <2>2 DEF Taken
<1>2. CASE ArriveAnswer(d, t, pieces)
  <2> DEFINE r == AsResponse(d, t)
  <2>1. r.key \in Keys /\ r.time = t
    BY DEF AsResponse, Datagram
  <2>2. PICK s \in Probe(r) :
           /\ table[s] # Empty /\ RemoveAt(s)
           /\ report' = [what |-> "answered", query |-> table[s], response |-> {r}]
    BY <1>2 DEF ArriveAnswer
  <2>3. pc' = "shift" /\ msg' = msg /\ parts' = pieces
    BY <1>2 DEF ArriveAnswer
  <2> HIDE DEF r
  <2>4. TableInv /\ shifting = FALSE
    BY DEF IInv, CallInv
  <2>5. table[s] \in linked
    BY <2>1, <2>2, <2>4, ProbeAnswers
  <2>6. table[s] \in 1..Len(asked) /\ asked' = asked
    BY <2>2, <2>4, <2>5 DEF TableInv, Shape, RemoveAt
  <2> QED
    BY <2>1, <2>2, <2>3, <2>6 DEF Taken
<1>3. CASE ArriveUnsolicited(d, t, pieces)
  BY <1>3 DEF ArriveUnsolicited, Return, ToMessage, Taken, tableVars
<1>4. CASE ArriveSingle(d, t, ts, pieces)
  <2>1. ASSUME NEW m, m.type # "UDP_QUERY_RESPONSE", Single(m) PROVE Taken(t, pieces)
    BY <2>1 DEF Single, Return, Taken, tableVars
  <2>2. ASSUME NEW ty, NEW qu, NEW re, NEW pi, NEW ti
        PROVE  ToMessage(ty, qu, re, pi, ti).type = ty
    BY DEF ToMessage
  <2>3. CASE d.proto = "udp" /\ conf.qr = 0 /\ ~d.qr
    BY <1>4, <2>1, <2>2, <2>3 DEF ArriveSingle
  <2>4. CASE d.proto = "udp" /\ conf.qr = 1 /\ d.qr
    BY <1>4, <2>1, <2>2, <2>4 DEF ArriveSingle
  <2>5. CASE d.proto \in {"tcp", "icmp"}
    BY <1>4, <2>1, <2>2, <2>5 DEF ArriveSingle
  <2>6. CASE Again
    BY <2>6, AgainTaken
  <2> QED
    BY <1>4, <2>3, <2>4, <2>5, <2>6 DEF ArriveSingle
<1> QED
  BY <1>1, <1>2, <1>3, <1>4 DEF Arrive

\* A packet that comes in time.
LEMMA PacketAges ==
    ASSUME IInv, AgeInv, Packet
    PROVE  /\ now' \in Nat /\ late' \in BOOLEAN /\ pc = "read"
           /\ ~late' => /\ ~late /\ now <= now'
                        /\ AllCurrent(entries', now')
           /\ \E t, pieces : /\ Taken(t, pieces)
                             /\ ~late' => t = now' /\ \A p \in pieces : p.ts = now'
<1>1. PICK p \in Frames :
         \/ FrameOther(p)
         \/ \E ts \in Times :
               FrameWhole(p, ts) \/ FrameShort(p, ts) \/ FrameMore(p, ts) \/ FrameDone(p, ts)
  BY DEF Packet
<1>2. p.frag \in Fragment
  BY DnsqrAssumption
<1> DEFINE d == Datagrams[p.frag.id]
<1>3. d \in Datagram
  BY <1>2, DnsqrAssumption DEF Fragment
<1> HIDE DEF d
<1>4. now \in Nat /\ late \in BOOLEAN /\ (~late => AllCurrent(entries, now))
  BY DEF AgeInv
<1>5. CASE FrameOther(p)
  <2>1. pc = "read" /\ now' = now /\ late' = late /\ Again /\ entries' = entries
    BY <1>5 DEF FrameOther, ReadFrame, reasmVars
  <2>2. Taken(now, {})
    BY <2>1, AgainTaken
  <2> QED
    BY <1>4, <2>1, <2>2
<1>6. ASSUME NEW ts \in Times,
             FrameWhole(p, ts) \/ FrameShort(p, ts) \/ FrameMore(p, ts) \/ FrameDone(p, ts)
      PROVE  /\ now' \in Nat /\ late' \in BOOLEAN /\ pc = "read"
             /\ ~late' => /\ ~late /\ now <= now'
                          /\ AllCurrent(entries', now')
             /\ \E t, pieces : /\ Taken(t, pieces)
                               /\ ~late' => t = now' /\ \A q \in pieces : q.ts = now'
  <2>1. ts \in Nat
    BY DnsqrAssumption
  <2>2. pc = "read" /\ now' = ts /\ late' = (late \/ ts < now)
    BY <1>6 DEF FrameWhole, FrameShort, FrameMore, FrameDone, ReadFrame, Tick
  <2>3. late' \in BOOLEAN /\ (~late' => ~late /\ now <= ts)
    <3>1. late' \in BOOLEAN
      BY <2>2
    <3>2. ~late' => ~late /\ ~(ts < now)
      BY <2>2
    <3>3. ~(ts < now) => now <= ts
      BY <1>4, <2>1
    <3> QED
      BY <3>1, <3>2, <3>3
  <2>4. CASE FrameWhole(p, ts) \/ FrameShort(p, ts)
    <3>1. entries' = Live(ts)
      BY <2>4 DEF FrameWhole, FrameShort, ReasmOther, FragUnrecognized
    <3>2. ~late' => AllCurrent(entries', ts)
      BY <1>4, <2>1, <2>3, <3>1, LiveCurrent
    <3>3. Again \/ Arrive(d, ts, ts, TRUE, {}) \/ Arrive(d, ts, ts, FALSE, {})
      BY <2>4 DEF FrameWhole, FrameShort, d
    <3>4. Taken(ts, {})
      BY <1>3, <2>2, <3>3, AgainTaken, ArriveTaken
    <3> QED
      BY <2>1, <2>2, <2>3, <3>2, <3>4
  <2>5. CASE FrameMore(p, ts)
    <3>1. ReasmMore(p.frag, ts) /\ Again /\ End(p.frag) > 0
      BY <2>5, DnsqrAssumption DEF FrameMore
    <3>2. ~late' => AllCurrent(entries', ts)
      BY <1>2, <1>4, <2>1, <2>3, <3>1, ReasmCurrent
    <3>3. Taken(ts, {})
      BY <3>1, AgainTaken
    <3> QED
      BY <2>1, <2>2, <2>3, <3>2, <3>3
  <2>6. CASE FrameDone(p, ts)
    <3>1. ReasmDone(p.frag, ts) /\ End(p.frag) > 0
      BY <2>6, DnsqrAssumption DEF FrameDone
    <3>2. ~late' => /\ AllCurrent(entries', ts)
                    /\ \A ent \in out' : /\ \A q \in ent.frags : q.ts = ts
                                         /\ FirstPiece(ent).ts = ts
      BY <1>2, <1>4, <2>1, <2>3, <3>1, ReasmCurrent
    <3>3. Again \/ \E ent \in out' : Arrive(d, FirstPiece(ent).ts, ts, FALSE, ent.frags)
      BY <2>6 DEF FrameDone, d
    <3>4. CASE Again
      <4>1. Taken(ts, {})
        BY <3>4, AgainTaken
      <4> QED
        BY <2>1, <2>2, <2>3, <3>2, <4>1
    <3>5. ASSUME NEW ent \in out', Arrive(d, FirstPiece(ent).ts, ts, FALSE, ent.frags)
          PROVE  /\ Taken(FirstPiece(ent).ts, ent.frags)
                 /\ ~late' => /\ FirstPiece(ent).ts = ts
                              /\ \A q \in ent.frags : q.ts = ts
      BY <1>3, <2>2, <3>2, <3>5, ArriveTaken
    <3> QED
      BY <2>1, <2>2, <2>3, <3>2, <3>3, <3>4, <3>5
  <2> QED
    BY <1>6, <2>4, <2>5, <2>6
<1> QED
  BY <1>1, <1>5, <1>6

\* Every step keeps the queries in the order of their times.
LEMMA AgeStep == IInv /\ AgeInv /\ [Next]_vars => AgeInv'
<1> SUFFICES ASSUME IInv, AgeInv, [Next]_vars PROVE AgeInv'
  OBVIOUS
<1>1. (\E S : asked \in Seq(S)) /\ Len(asked) \in Nat /\ linked \subseteq 1..Len(asked)
  BY DEF IInv, TableInv, Shape
<1>2. CASE Trim
  <2>1. /\ pc' = "shift" /\ msg' = {} /\ report'.what = "unanswered"
        /\ UNCHANGED <<asked, now, late, entries>>
    BY <1>2 DEF Trim, RemoveAt, reasmVars
  <2> QED
    BY <2>1 DEF AgeInv, InOrder
<1>3. CASE NoTrim
  <2>1. /\ pc' \in {"call", "read"} /\ msg' = {}
        /\ UNCHANGED <<asked, now, late, entries>>
    BY <1>3 DEF NoTrim, Return, tableVars, reasmVars
  <2> QED
    BY <2>1 DEF AgeInv, InOrder
<1>4. CASE Shift
  <2>1. /\ pc = "shift" /\ UNCHANGED <<asked, now, late, entries, report, parts, msg>>
        /\ \/ pc' = pc
           \/ pc' = IF report.what = "answered" THEN "merge" ELSE "unanswered"
    BY <1>4 DEF Shift, ShiftMove, ShiftKeep, ShiftDone, reasmVars
  <2>2. report.what \in {"answered", "unanswered"} /\ msg = {}
    BY <2>1 DEF AgeInv
  <2> QED
    BY <2>1, <2>2 DEF AgeInv, InOrder, Paired
<1>5. CASE Unanswered
  <2>1. /\ pc = "unanswered" /\ UNCHANGED <<asked, now, late, entries>>
        /\ \/ pc' = "read" /\ msg' = msg
           \/ pc' = "call" /\ \E m : msg' = {m} /\ m.type = "UDP_UNANSWERED_QUERY"
    <3> DEFINE m == ToMessage("UDP_UNANSWERED_QUERY", report.query, {}, {}, asked[report.query].time)
    <3>1. /\ pc = "unanswered" /\ UNCHANGED <<asked, now, late, entries>>
          /\ (pc' = "read" /\ msg' = msg) \/ (pc' = "call" /\ msg' = {m})
      BY <1>5 DEF Unanswered, Return, tableVars, reasmVars
    <3>2. m.type = "UDP_UNANSWERED_QUERY"
      BY DEF ToMessage
    <3> HIDE DEF m
    <3> QED
      BY <3>1, <3>2
  <2>2. msg = {}
    BY <2>1 DEF AgeInv
  <2> QED
    BY <2>1, <2>2 DEF AgeInv, InOrder
<1>6. CASE Merge
  <2>1. /\ pc = "merge" /\ UNCHANGED <<asked, now, late, entries>> /\ pc' = "call"
        /\ report.what = "answered"
    BY <1>6 DEF Merge, Return, tableVars, reasmVars, AgeInv
  <2>2. PICK r \in report.response :
           msg' = {} \/ msg' = {ToMessage("UDP_QUERY_RESPONSE", report.query, {r}, parts,
                                          asked[report.query].time)}
    BY <1>6 DEF Merge, Return
  <2>3. ASSUME NEW m \in msg' PROVE m.query = report.query /\ m.response = {r} /\ m.pieces = parts
    BY <2>2 DEF ToMessage
  <2>4. ASSUME ~late, NEW m \in msg' PROVE Paired(m.query, m.response, m.pieces)'
    <3>1. Paired(report.query, report.response, parts)
      BY <2>1, <2>4 DEF AgeInv
    <3>2. r.time = now
      BY <2>2, <3>1 DEF Paired
    <3> QED
      BY <2>1, <2>3, <3>1, <3>2 DEF Paired
  <2> QED
    BY <2>1, <2>4 DEF AgeInv, InOrder
<1>7. CASE Packet
  <2>1. /\ now' \in Nat /\ late' \in BOOLEAN /\ pc = "read"
        /\ ~late' => ~late /\ now <= now' /\ AllCurrent(entries', now')
    BY <1>7, PacketAges
  <2>2. PICK t, pieces : /\ Taken(t, pieces)
                         /\ ~late' => t = now' /\ \A p \in pieces : p.ts = now'
    BY <1>7, PacketAges
  <2>3. msg = {} /\ now \in Nat
    BY <2>1 DEF AgeInv
  <2>4. ASSUME ~late' PROVE InOrder'
    <3>1. InOrder /\ now <= now' /\ t = now'
      BY <2>1, <2>2, <2>4 DEF AgeInv
    <3>2. CASE asked' = asked
      BY <2>1, <2>3, <3>1, <3>2 DEF InOrder
    <3>3. ASSUME NEW q, asked' = Append(asked, q), q.time = t PROVE InOrder'
      <4> DEFINE n == Len(asked)
      <4>1. /\ Len(asked') = n + 1 /\ n \in Nat /\ asked'[n + 1] = q
            /\ \A k \in 1..n : asked'[k] = asked[k]
        <5>1. PICK S : asked \in Seq(S)
          BY <1>1
        <5>2. asked \in Seq(S \cup {q}) /\ q \in S \cup {q}
          BY <5>1
        <5> QED
          BY <3>3, <5>2
      <4>2. \A k \in 1..(n + 1) : k \in 1..n \/ k = n + 1
        BY <4>1
      <4> HIDE DEF n
      <4>3. \A k \in 1..n : asked'[k].time \in Int /\ asked'[k].time <= now'
        BY <2>1, <2>3, <3>1, <4>1 DEF InOrder, n
      <4>4. asked'[n + 1].time = now'
        BY <3>1, <3>3, <4>1
      <4>5. \A k \in 1..(n + 1) : asked'[k].time \in Int /\ asked'[k].time <= now'
        BY <2>1, <4>2, <4>3, <4>4
      <4>6. ASSUME NEW k \in 1..(n + 1), NEW l \in 1..(n + 1), k <= l
            PROVE  asked'[k].time <= asked'[l].time
        <5>1. CASE l = n + 1
          BY <4>4, <4>5, <5>1
        <5>2. CASE l \in 1..n
          <6>1. k \in 1..n
            BY <4>1, <4>6, <5>2
          <6> QED
            BY <3>1, <4>1, <4>6, <5>2, <6>1 DEF InOrder, n
        <5> QED
          BY <4>2, <5>1, <5>2
      <4> QED
        BY <4>1, <4>5, <4>6 DEF InOrder
    <3> QED
      BY <2>2, <3>2, <3>3 DEF Taken
  <2>5. CASE pc' = "call"
    BY <2>1, <2>2, <2>4, <2>5 DEF AgeInv, Taken
  <2>6. CASE pc' = "shift"
    <3>1. /\ msg' = {} /\ asked' = asked /\ report'.what = "answered"
          /\ report'.query \in 1..Len(asked) /\ parts' = pieces
          /\ \E r : report'.response = {r} /\ r.time = t
      BY <2>2, <2>3, <2>6 DEF Taken
    <3>2. ASSUME ~late' PROVE Paired(report.query, report.response, parts)'
      BY <2>2, <3>1, <3>2 DEF Paired
    <3> QED
      BY <2>1, <2>4, <2>6, <3>1, <3>2 DEF AgeInv
  <2> QED
    BY <2>2, <2>5, <2>6 DEF Taken
<1>8. CASE ReadNone
  <2>1. pc' = "call" /\ msg' = {} /\ UNCHANGED <<asked, now, late, entries>>
    BY <1>8 DEF ReadNone, tableVars, reasmVars
  <2> QED
    BY <2>1 DEF AgeInv, InOrder
<1>9. CASE Fini
  <2>1. pc' = "closed" /\ msg' = {} /\ entries' = <<>> /\ UNCHANGED <<asked, now, late>>
    BY <1>9 DEF Fini, ReasmFree
  <2>2. AllCurrent(<<>>, now)
    BY DEF AllCurrent
  <2> QED
    BY <2>1, <2>2 DEF AgeInv, InOrder
<1>10. CASE UNCHANGED vars
  BY <1>10 DEF vars, callVars, tableVars, reasmVars, AgeInv, InOrder, Paired
<1> QED
  BY <1>2, <1>3, <1>4, <1>5, <1>6, <1>7, <1>8, <1>9, <1>10 DEF Next, Work, Closed

\* The queries and the entries of the reassembly are in the order of time.
THEOREM Ages == Spec => [](IInv /\ AgeInv)
<1>1. Init => AgeInv
  <2> SUFFICES ASSUME Init PROVE AgeInv
    OBVIOUS
  <2>1. /\ now = 0 /\ late = FALSE /\ pc = "call" /\ msg = {} /\ asked = <<>>
        /\ entries = <<>>
    BY DEF Init, TableInit, ReasmInit
  <2>2. AllCurrent(<<>>, now)
    BY DEF AllCurrent
  <2>3. InOrder
    BY <2>1 DEF InOrder
  <2> QED
    BY <2>1, <2>2, <2>3 DEF AgeInv
<1> QED
  BY <1>1, AgeStep, Inductive, PTL DEF Spec

\* dnsqr_trim() gives up at most one query for each packet and looks at no other
\* than the head of the list: nevertheless, as long as time does not go back,
\* none that waits is too old when a packet is read.
THEOREM NoQueryTooOld == Spec => []NoneTooOld
<1>1. Init => NoneTooOld
  BY DEF Init, NoneTooOld
<1>2. IInv /\ AgeInv /\ NoneTooOld /\ [Next]_vars => NoneTooOld'
  <2> SUFFICES ASSUME IInv, AgeInv, NoneTooOld, [Next]_vars,
                      pc' = "read", ~late', report'.what # "unanswered",
                      NEW k \in linked'
               PROVE  now' - asked'[k].time <= QueryTimeout
    BY DEF NoneTooOld
  <2>1. CASE NoTrim
    <3>1. UNCHANGED <<asked, table, linked, he, now, late>>
      BY <2>1 DEF NoTrim, tableVars
    <3>2. Shape /\ Links
      BY DEF IInv, TableInv
    <3>3. PICK h \in Head1 : TRUE
      BY <3>1, <3>2, HeadExists
    <3>4. h \in linked /\ h <= k /\ table[he[h]] = h
      BY <3>1, <3>2, <3>3 DEF Head1, Links
    <3>5. ~(now - asked[h].time > QueryTimeout)
      BY <2>1, <3>3, <3>4 DEF NoTrim, Overdue
    <3>6. h \in 1..Len(asked) /\ k \in 1..Len(asked)
      BY <3>1, <3>2, <3>4 DEF Shape
    <3>7. /\ asked[h].time <= asked[k].time /\ asked[h].time \in Int
          /\ asked[k].time \in Int /\ now \in Int
      BY <3>1, <3>4, <3>6 DEF AgeInv, InOrder
    <3>8. QueryTimeout \in Int
      BY DnsqrAssumption
    <3> QED
      BY <3>1, <3>5, <3>7, <3>8
  <2>2. CASE Unanswered
    <3>1. report' = report /\ pc = "unanswered"
      BY <2>2 DEF Unanswered
    <3> QED
      BY <3>1 DEF AgeInv
  <2>3. CASE Packet
    <3>1. PICK t, pieces : Taken(t, pieces)
      BY <2>3, PacketAges
    <3> QED
      BY <3>1 DEF Taken
  <2>4. CASE UNCHANGED vars
    BY <2>4 DEF vars, callVars, tableVars, NoneTooOld
  <2>5. CASE Trim \/ Shift \/ Merge \/ ReadNone \/ Fini
    BY <2>5 DEF Trim, Shift, Merge, Return, ReadNone, Fini
  <2> QED
    BY <2>1, <2>2, <2>3, <2>4, <2>5 DEF Next, Work, Closed
<1> QED
  BY <1>1, <1>2, Ages, PTL DEF Spec

\* dnsqr_get_delay() of what has been paired.
DelayNotNegative ==
    \A m \in msg : m.type = "UDP_QUERY_RESPONSE" /\ ~late => GetDelay(m) >= 0

\* A response is never older than its query: the delay that dnsqr_get_delay()
\* computes is not negative as long as time does not go back, for a response in
\* one packet and for one in fragments.
THEOREM DelaysAreDelays == Spec => []DelayNotNegative
<1>1. AgeInv => DelayNotNegative
  <2> SUFFICES ASSUME AgeInv, NEW m \in msg, m.type = "UDP_QUERY_RESPONSE", ~late
               PROVE  GetDelay(m) >= 0
    BY DEF DelayNotNegative
  <2> DEFINE q == asked[m.query].time
             after == {0} \cup {p.ts - q : p \in m.pieces}
  <2>1. Paired(m.query, m.response, m.pieces) /\ InOrder /\ now \in Nat
    BY DEF AgeInv
  <2>2. PICK r : m.response = {r} /\ r.time = now
    BY <2>1 DEF Paired
  <2>3. q \in Int /\ q <= now
    BY <2>1 DEF Paired, InOrder
  <2> HIDE DEF q
  <2>4. CASE m.pieces = {}
    <3>1. (CHOOSE s \in m.response : TRUE) = r
      BY <2>2
    <3>2. GetDelay(m) = now - q
      BY <2>2, <2>4, <3>1 DEF GetDelay, q
    <3> QED
      BY <2>1, <2>3, <3>2
  <2>5. CASE m.pieces # {}
    <3>1. \A p \in m.pieces : p.ts = now
      BY <2>1 DEF Paired
    <3>2. after = {0, now - q}
      BY <2>5, <3>1
    <3>3. GetDelay(m) = CHOOSE t \in after : \A u \in after : u <= t
      BY <2>5 DEF GetDelay, q
    <3>4. \E t \in {0, now - q} : \A u \in {0, now - q} : u <= t
      BY <2>1, <2>3
    <3>5. (CHOOSE t \in {0, now - q} : \A u \in {0, now - q} : u <= t) \in {0, now - q}
      BY <3>4
    <3> HIDE DEF after
    <3> QED
      BY <2>1, <2>3, <3>2, <3>3, <3>5
  <2> QED
    BY <2>4, <2>5
<1> QED
  BY <1>1, Ages, PTL

-----------------------------------------------------------------------------
(***************************************************************************)
(* dnsqr_get_response() reassembles what the module has reassembled        *)
(* before.  The fragments of a message lie side by side from the start of  *)
(* the datagram to its end, and are added in this order: each one finds    *)
(* its left neighbour in place and nothing on its right.                   *)
(***************************************************************************)

\* The fragments of a complete datagram; if the last one is among them they fill it.
Whole(pieces) ==
    /\ pieces \subseteq StampedPiece /\ IsFiniteSet(pieces) /\ Disjoint(pieces)
    /\ \A p \in pieces :
         IF p.last THEN Starts(pieces, End(p)) = {} /\ Below(pieces, End(p)) ELSE p.len % 8 = 0

\* The first n of them have been added.
Part(pieces, n, ent) ==
    /\ ent \in StampedEntry /\ EntryInv(ent) /\ ent.state = "active" /\ ~ent.early
    /\ ent.frags \subseteq pieces /\ Cardinality(ent.frags) = n
    /\ \A f \in ent.frags, g \in pieces \ ent.frags : f.offset <= g.offset
    /\ \A f \in ent.frags : f.last => ent.len = End(f)
    /\ ent.len # 0 => \E f \in ent.frags : f.last

AddNext(pieces, ent) == AddAgain(ent, Lowest(pieces \ ent.frags))

LEMMA PieceFacts ==
    ASSUME NEW p \in StampedPiece
    PROVE  /\ IsFragment(p) /\ p.len # 0 /\ p.ts \in Nat /\ AsPiece(p, p.ts) = p
           /\ End(p) \in Nat /\ p.offset < End(p)
<1>1. /\ p.offset \in Nat /\ p.len \in Nat \ {0} /\ p.last \in BOOLEAN /\ p.ts \in Nat
      /\ p = [offset |-> p.offset, len |-> p.len, last |-> p.last, ts |-> p.ts]
  BY DEF StampedPiece
<1> QED
  BY <1>1 DEF IsFragment, AsPiece, End

\* The next fragment is accepted.
LEMMA NextAccepted ==
    ASSUME NEW pieces, Whole(pieces), NEW n \in Nat, NEW ent, Part(pieces, n, ent),
           NEW p \in pieces \ ent.frags, \A q \in pieces \ ent.frags : p.offset <= q.offset
    PROVE  ent.len = 0 /\ ~Rejected(ent, p)
<1>1. /\ p \in StampedPiece /\ IsFragment(p) /\ p.len # 0 /\ End(p) \in Nat /\ p.offset \in Nat
      /\ p.offset < End(p)
  BY PieceFacts DEF Whole, StampedPiece
<1>2. \A f \in ent.frags : /\ f \in pieces /\ f \in StampedPiece /\ f.offset <= p.offset /\ f # p
                           /\ f.offset \in Nat /\ End(f) \in Nat /\ f.offset < End(f)
  BY PieceFacts DEF Part, Whole, StampedPiece
<1>3. ASSUME NEW f \in ent.frags PROVE End(f) <= p.offset
  <2>1. End(f) <= p.offset \/ End(p) <= f.offset
    BY <1>2 DEF Whole, Disjoint
  <2> QED
    BY <1>1, <1>2, <2>1
<1>4. ent.len = 0
  <2> SUFFICES ASSUME ent.len # 0 PROVE FALSE
    OBVIOUS
  <2>1. PICK f \in ent.frags : f.last
    BY DEF Part
  <2>2. Below(pieces, End(f)) /\ End(f) # 0
    BY <1>2, <2>1 DEF Whole
  <2>3. End(p) <= End(f)
    BY <2>2 DEF Below
  <2> QED
    BY <1>1, <1>2, <1>3, <2>3
<1>5. Disjoint(ent.frags) /\ IsPieces(ent.frags)
  BY DEF Part, EntryInv, StampedEntry, StampedPiece, IsPieces
<1>6. CurEnd(ent.frags, p) \in Nat /\ CurEnd(ent.frags, p) <= p.offset
  <2>1. /\ CurEnd(ent.frags, p) \in Nat
        /\ CurEnd(ent.frags, p) # 0 => \E g \in Left(ent.frags, p) : CurEnd(ent.frags, p) = End(g)
    BY <1>1, <1>5, CurFacts
  <2>2. \A g \in Left(ent.frags, p) : End(g) <= p.offset
    BY <1>3 DEF Left
  <2> QED
    BY <1>1, <2>1, <2>2
<1>7. Right(ent.frags, p) = {}
  BY <1>1, <1>2 DEF Right
<1>8. p.last \/ p.len % 8 = 0
  BY DEF Whole
<1>9. ~(CurEnd(ent.frags, p) > p.offset)
  BY <1>1, <1>6
<1> QED
  BY <1>4, <1>7, <1>8, <1>9 DEF Rejected

LEMMA PartStep ==
    ASSUME NEW pieces, Whole(pieces), NEW n \in Nat, n < Cardinality(pieces),
           NEW ent, Part(pieces, n, ent)
    PROVE  Part(pieces, n + 1, AddNext(pieces, ent))
<1> DEFINE p == Lowest(pieces \ ent.frags)
           new == BaseAdd(ent, p, p.ts)
<1>1. pieces \subseteq StampedPiece /\ IsFiniteSet(pieces) /\ Cardinality(pieces) \in Nat
  BY FS_CardinalityType DEF Whole
<1>2. /\ ent \in StampedEntry /\ EntryInv(ent) /\ ent.state = "active" /\ ~ent.early
      /\ ent.frags \subseteq pieces /\ Cardinality(ent.frags) = n
  BY DEF Part
<1>3. IsFiniteSet(ent.frags) /\ pieces \ ent.frags # {}
  <2>1. IsFiniteSet(ent.frags)
    BY <1>1, <1>2, FS_Subset
  <2>2. ent.frags # pieces
    BY <1>1, <1>2
  <2> QED
    BY <1>2, <2>1, <2>2
<1>4. p \in pieces \ ent.frags /\ \A q \in pieces \ ent.frags : p.offset <= q.offset
  BY <1>1, <1>3, LowestIs
<1> HIDE DEF p
<1>5. p \in StampedPiece /\ IsFragment(p) /\ p.len # 0 /\ p.ts \in Nat /\ AsPiece(p, p.ts) = p
      /\ End(p) \in Nat /\ End(p) > 0
  BY <1>1, <1>4, PieceFacts DEF IsFragment
<1>6. ent.len = 0 /\ ~Rejected(ent, p)
  BY <1>4, NextAccepted
<1>7. AddNext(pieces, ent) = new
  BY <1>6 DEF AddNext, AddAgain, p
<1>8. new \in StampedEntry /\ Added(new, ent, p, p)
  BY <1>2, <1>5, AddStamped
<1> HIDE DEF new
<1>9. IsEntry(ent)
  BY <1>2 DEF IsEntry, IsPieces, StampedEntry, StampedPiece
<1>10. EntryInv(new)
  BY <1>2, <1>5, <1>6, <1>8, <1>9, EntryStep
<1>11. /\ new.state = "active" /\ new.frags = ent.frags \cup {p} /\ ~new.early
       /\ new.len = IF p.last THEN End(p) ELSE 0
  BY <1>2, <1>5, <1>6, <1>8 DEF Added
<1>12. Cardinality(new.frags) = n + 1
  BY <1>2, <1>3, <1>4, <1>11, FS_AddElement
<1>13. \A f \in ent.frags : ~f.last
  <2> SUFFICES ASSUME NEW f \in ent.frags, f.last PROVE FALSE
    OBVIOUS
  <2>1. ent.len = End(f)
    BY DEF Part
  <2>2. End(f) \in Nat /\ f.offset \in Nat /\ f.offset < End(f)
    BY <1>1, <1>2, PieceFacts DEF StampedPiece
  <2> QED
    BY <1>6, <2>1, <2>2
<1>14. \A f \in new.frags, g \in pieces \ new.frags : f.offset <= g.offset
  BY <1>4, <1>11 DEF Part
<1>15. \A f \in new.frags : f.last => new.len = End(f)
  BY <1>11, <1>13
<1>16. new.len # 0 => \E f \in new.frags : f.last
  BY <1>11
<1>17. new.frags \subseteq pieces
  BY <1>2, <1>4, <1>11
<1>18. Part(pieces, n + 1, new)
  BY <1>8, <1>10, <1>11, <1>12, <1>14, <1>15, <1>16, <1>17 DEF Part
<1> QED
  BY <1>7, <1>18

\* A function can be defined by recursion, as long as its values have a property
\* (W, of a place and a value) that the next one needs.
Recurs(f, base, step, W, n) ==
    /\ f[0] = base
    /\ \A i \in 1..n : f[i] = step[f[i - 1]]
    /\ \A i \in 0..n : <<i, f[i]>> \in W

LEMMA Recursion ==
    ASSUME NEW n \in Nat, NEW V, NEW W, NEW base \in V, NEW step, <<0, base>> \in W,
           \A i \in 1..n, e \in V : <<i - 1, e>> \in W =>
               step[e] \in V /\ <<i, step[e]>> \in W
    PROVE  \E f \in [0..n -> V] : Recurs(f, base, step, W, n)
<1> DEFINE Upto(m, f) == /\ f[0] = base
                         /\ \A i \in 1..m : f[i] = step[f[i - 1]]
                         /\ \A i \in 0..m : <<i, f[i]>> \in W
           A == {m \in 0..n : \E f \in [0..m -> V] : Upto(m, f)}
<1>1. 0 \in A
  <2> DEFINE f == [i \in 0..0 |-> base]
  <2>1. f \in [0..0 -> V] /\ f[0] = base
    OBVIOUS
  <2>2. \A i \in 0..0 : i = 0
    OBVIOUS
  <2> HIDE DEF f
  <2>3. Upto(0, f)
    BY <2>1, <2>2
  <2> QED
    BY <2>1, <2>3
<1>2. ASSUME NEW m \in 1..n, m - 1 \in A PROVE m \in A
  <2>1. PICK f \in [0..(m - 1) -> V] : Upto(m - 1, f)
    BY <1>2
  <2>2. f[m - 1] \in V /\ <<m - 1, f[m - 1]>> \in W
    <3>1. m - 1 \in 0..(m - 1)
      BY <1>2
    <3> QED
      BY <2>1, <3>1
  <2> DEFINE v == step[f[m - 1]]
             g == [i \in 0..m |-> IF i = m THEN v ELSE f[i]]
  <2>3. v \in V /\ <<m, v>> \in W
    BY <2>2
  <2> HIDE DEF v
  <2>4. \A i \in 0..m : i = m \/ (i \in 0..(m - 1) /\ i # m)
    BY <1>2
  <2>5. g \in [0..m -> V]
    BY <2>3, <2>4
  <2>6. g[m] = v /\ \A i \in 0..(m - 1) : g[i] = f[i]
    <3>1. m \in 0..m /\ \A i \in 0..(m - 1) : i \in 0..m /\ i # m
      BY <1>2
    <3> QED
      BY <3>1
  <2> HIDE DEF g
  <2>7. g[0] = base
    <3>1. 0 \in 0..(m - 1)
      BY <1>2
    <3> QED
      BY <2>1, <2>6, <3>1
  <2>8. ASSUME NEW i \in 1..m PROVE g[i] = step[g[i - 1]]
    <3>1. i - 1 \in 0..(m - 1) /\ (i = m \/ i \in 1..(m - 1))
      BY <1>2
    <3>2. g[i - 1] = f[i - 1]
      BY <2>6, <3>1
    <3>3. CASE i = m
      BY <2>6, <3>2, <3>3 DEF v
    <3>4. CASE i \in 1..(m - 1)
      <4>1. i \in 0..(m - 1)
        BY <3>4
      <4> QED
        BY <2>1, <2>6, <3>2, <3>4, <4>1
    <3> QED
      BY <3>1, <3>3, <3>4
  <2>9. \A i \in 0..m : <<i, g[i]>> \in W
    BY <2>1, <2>3, <2>4, <2>6
  <2> QED
    BY <1>2, <2>5, <2>7, <2>8, <2>9
<1> HIDE DEF A
<1>3. n \in A
  <2>1. \A i \in 0..n : i \in A
    BY <1>1, <1>2, Induction
  <2> QED
    BY <2>1
<1>4. PICK f \in [0..n -> V] : Upto(n, f)
  BY <1>3 DEF A
<1> QED
  BY <1>4 DEF Recurs

\* All of them are added.
LEMMA ReaddAll ==
    ASSUME NEW pieces, Whole(pieces)
    PROVE  Part(pieces, Cardinality(pieces), Readd(pieces))
<1> DEFINE n == Cardinality(pieces)
           V == StampedEntry
           base == NewEntry("none", 0)
           D(f) == [i \in 0..n |-> IF i = 0 THEN base
                                   ELSE AddAgain(f[i - 1], Lowest(pieces \ f[i - 1].frags))]
           g == CHOOSE x : x = D(x)
           step == [e \in V |-> AddNext(pieces, e)]
           W == {w \in (0..n) \X V : Part(pieces, w[1], w[2])}
<1>1. Readd(pieces) = g[n]
  BY DEF Readd
<1>2. n \in Nat
  BY FS_CardinalityType DEF Whole
<1>3. base \in V /\ Part(pieces, 0, base)
  <2>1. base \in V
    BY NewStamped
  <2>2. base.frags = {} /\ base.state = "active" /\ base.early = FALSE /\ base.len = 0
    BY DEF NewEntry
  <2>3. EntryInv(base)
    BY EmptyEntry
  <2> HIDE DEF base
  <2> QED
    BY <2>1, <2>2, <2>3, FS_EmptySet DEF Part
<1> HIDE DEF n, base
<1>4. ASSUME NEW i \in 1..n, NEW e, Part(pieces, i - 1, e)
      PROVE  AddNext(pieces, e) \in V /\ Part(pieces, i, AddNext(pieces, e))
  <2>1. i - 1 \in Nat /\ i - 1 < n /\ (i - 1) + 1 = i
    BY <1>2
  <2>2. Part(pieces, i, AddNext(pieces, e))
    BY <1>4, <2>1, PartStep DEF n
  <2> QED
    BY <2>2 DEF Part
<1> HIDE DEF V
<1>5. \A e \in V : step[e] = AddNext(pieces, e)
  OBVIOUS
<1> HIDE DEF step
<1>6. <<0, base>> \in W
  BY <1>2, <1>3
<1>7. \A i \in 1..n, e \in V : <<i - 1, e>> \in W => step[e] \in V /\ <<i, step[e]>> \in W
  <2> SUFFICES ASSUME NEW i \in 1..n, NEW e \in V, <<i - 1, e>> \in W
               PROVE  step[e] \in V /\ <<i, step[e]>> \in W
    OBVIOUS
  <2>1. Part(pieces, i - 1, e)
    OBVIOUS
  <2>2. step[e] \in V /\ Part(pieces, i, step[e]) /\ i \in 0..n
    BY <1>2, <1>4, <1>5, <2>1
  <2> QED
    BY <2>2
<1>8. \A i, e : <<i, e>> \in W => Part(pieces, i, e)
  OBVIOUS
<1> HIDE DEF W
<1>9. PICK f \in [0..n -> V] : Recurs(f, base, step, W, n)
  BY <1>2, <1>3, <1>6, <1>7, Recursion
<1>10. f = D(f)
  <2>1. ASSUME NEW i \in 0..n, i # 0
        PROVE  f[i] = AddAgain(f[i - 1], Lowest(pieces \ f[i - 1].frags))
    <3>1. i \in 1..n /\ i - 1 \in 0..n
      BY <1>2, <2>1
    <3> QED
      BY <1>5, <1>9, <3>1 DEF AddNext, Recurs
  <2> QED
    BY <1>9, <2>1 DEF Recurs
<1>11. g = D(g)
  BY <1>10, Zenon
<1> HIDE DEF g
<1>12. g[0] = base /\ \A i \in 1..n : g[i] = AddNext(pieces, g[i - 1])
  <2>1. 0 \in 0..n /\ \A i \in 1..n : i \in 0..n /\ i # 0
    BY <1>2
  <2> QED
    BY <1>11, <2>1 DEF AddNext
<1> DEFINE A == {i \in 0..n : Part(pieces, i, g[i])}
<1>13. 0 \in A
  BY <1>2, <1>3, <1>12
<1>14. \A i \in 1..n : i - 1 \in A => i \in A
  <2> SUFFICES ASSUME NEW i \in 1..n, i - 1 \in A PROVE i \in A
    OBVIOUS
  <2>1. Part(pieces, i, g[i])
    BY <1>4, <1>12
  <2> QED
    BY <1>2, <2>1
<1> HIDE DEF A
<1>15. n \in A
  <2>1. \A i \in 0..n : i \in A
    BY <1>2, <1>13, <1>14, Induction
  <2> QED
    BY <1>2, <2>1
<1>16. Part(pieces, n, g[n])
  BY <1>15 DEF A
<1> QED
  BY <1>1, <1>16 DEF n

\* So there is no hole left, if the last fragment is there.
LEMMA ReaddWhole ==
    ASSUME NEW pieces, Whole(pieces), NEW q \in pieces, q.last
    PROVE  Readd(pieces).state = "active" /\ Readd(pieces).holes = 0
<1> DEFINE ent == Readd(pieces)
<1>1. Part(pieces, Cardinality(pieces), ent)
  BY ReaddAll
<1> HIDE DEF ent
<1>2. ent.frags = pieces
  <2>1. IsFiniteSet(pieces) /\ ent.frags \in SUBSET pieces /\ Cardinality(ent.frags) = Cardinality(pieces)
    BY <1>1 DEF Part, Whole
  <2> QED
    BY <2>1, FS_Subset
<1>3. ent.len = End(q) /\ Starts(pieces, End(q)) = {}
  BY <1>1, <1>2 DEF Part, Whole
<1>4. ent.holes = Cardinality(Starts(ent.frags, ent.len)) /\ ent.state = "active"
  BY <1>1 DEF Part, EntryInv, ActiveInv
<1>5. ent.holes = 0
  BY <1>2, <1>3, <1>4, FS_EmptySet
<1> QED
  BY <1>4, <1>5 DEF ent

-----------------------------------------------------------------------------
(***************************************************************************)
(* What the entries of the reassembly and the messages hold, whatever the  *)
(* timestamps.  The last fragment gives an entry its length, unless it is  *)
(* empty: then it is not kept.                                             *)
(***************************************************************************)
Tails(ent) ==
    /\ \A q \in ent.frags : IF q.last THEN ent.len = End(q) /\ ~ent.early ELSE q.len % 8 = 0
    /\ ent.early => ent.len # 0

Sound(ent) ==
    /\ ent \in StampedEntry /\ EntryInv(ent)
    /\ ent.state = "active" => Tails(ent)

AllSound(es) == es \in Seq(StampedEntry) /\ \A i \in DOMAIN es : Sound(es[i])

\* The response in hand and the message made of it.
Held == Whole(parts) /\ \A m \in msg : Whole(m.pieces)

\* The inductive invariant of FieldsReadable's first part.
PiecesInv == AllSound(entries) /\ Held

LEMMA NoneWhole == Whole({})
  BY FS_EmptySet DEF Whole, Disjoint

LEMMA NewSound ==
    ASSUME NEW id \in Ids, NEW ts \in Nat
    PROVE  Sound(NewEntry(id, ts)) /\ NewEntry(id, ts).id = id
<1> DEFINE n == NewEntry(id, ts)
<1>1. n \in StampedEntry /\ EntryInv(n)
  BY NewStamped, EmptyEntry
<1>2. n.frags = {} /\ n.early = FALSE /\ n.id = id
  BY DEF NewEntry
<1> HIDE DEF n
<1>3. Sound(n)
  BY <1>1, <1>2 DEF Sound, Tails
<1> QED
  BY <1>2, <1>3 DEF n

\* An accepted fragment.
LEMMA AddSound ==
    ASSUME NEW ts \in Nat, NEW ent, Sound(ent), ent.state = "active",
           NEW f \in Fragment, End(f) > 0, ~Rejected(ent, f)
    PROVE  LET new == BaseAdd(ent, f, ts)
           IN  Sound(new) /\ (new.holes = 0 => Whole(new.frags))
<1> DEFINE new == BaseAdd(ent, f, ts)
           p == AsPiece(f, ts)
<1>1. ent \in StampedEntry /\ EntryInv(ent) /\ Tails(ent)
  BY DEF Sound
<1>2. IsFragment(f)
  BY DEF Fragment, IsFragment
<1>3. new \in StampedEntry /\ Added(new, ent, f, p)
  BY <1>1, <1>2, AddStamped
<1>4. p.offset = f.offset /\ p.len = f.len /\ p.last = f.last /\ End(p) = End(f)
  BY DEF AsPiece, End
<1> HIDE DEF new, p
<1>5. IsEntry(ent)
  BY <1>1 DEF IsEntry, IsPieces, StampedEntry, StampedPiece
<1>6. EntryInv(new)
  BY <1>1, <1>2, <1>3, <1>4, <1>5, EntryStep
<1>7. f.last => ent.len = 0
  BY DEF Rejected
<1>8. \A q \in ent.frags : q \in StampedPiece /\ End(q) \in Nat /\ End(q) > 0 /\ q.last \in BOOLEAN
  BY <1>1 DEF StampedEntry, StampedPiece, End
<1>9. f.last => ~ent.early /\ \A q \in ent.frags : ~q.last
  BY <1>1, <1>7, <1>8 DEF Tails
<1>10. f.last \/ f.len % 8 = 0
  BY DEF Rejected
<1>11. Tails(new)
  <2>1. ASSUME NEW q \in new.frags, q.last PROVE new.len = End(q) /\ ~new.early
    <3>1. CASE q \in ent.frags
      <4>1. ~f.last /\ ent.len = End(q) /\ ~ent.early
        BY <1>1, <1>9, <2>1, <3>1 DEF Tails
      <4> QED
        BY <1>3, <4>1 DEF Added
    <3>2. CASE q \notin ent.frags
      <4>1. q = p /\ f.len # 0
        BY <1>3, <2>1, <3>2 DEF Added
      <4>2. f.last
        BY <1>4, <2>1, <4>1
      <4>3. ~ent.early
        BY <1>9, <4>2
      <4> QED
        BY <1>3, <1>4, <4>1, <4>2, <4>3 DEF Added
    <3> QED
      BY <3>1, <3>2
  <2>2. ASSUME NEW q \in new.frags, ~q.last PROVE q.len % 8 = 0
    <3>1. CASE q \in ent.frags
      BY <1>1, <2>2, <3>1 DEF Tails
    <3>2. CASE q \notin ent.frags
      <4>1. q = p
        BY <1>3, <2>2, <3>2 DEF Added
      <4> QED
        BY <1>4, <1>10, <2>2, <4>1
    <3> QED
      BY <3>1, <3>2
  <2>3. ASSUME new.early PROVE new.len # 0
    <3>1. CASE f.last
      <4>1. new.len = End(f)
        BY <1>3, <3>1 DEF Added
      <4>2. End(f) # 0
        BY <1>2 DEF IsFragment, End
      <4> QED
        BY <4>1, <4>2
    <3>2. CASE ~f.last
      BY <1>1, <1>3, <2>3, <3>2 DEF Added, Tails
    <3> QED
      BY <3>1, <3>2
  <2> QED
    BY <2>1, <2>2, <2>3 DEF Tails
<1>12. Sound(new)
  BY <1>3, <1>6, <1>11 DEF Sound
<1>13. ASSUME new.holes = 0 PROVE Whole(new.frags)
  <2>1. IsFiniteSet(new.frags) /\ Disjoint(new.frags) /\ ActiveInv(new)
    BY <1>3, <1>6 DEF EntryInv, Added
  <2>2. ASSUME NEW q \in new.frags, q.last
        PROVE  Starts(new.frags, End(q)) = {} /\ Below(new.frags, End(q))
    <3>1. new.len = End(q) /\ ~new.early
      BY <1>11, <2>2 DEF Tails
    <3>2. Cardinality(Starts(new.frags, new.len)) = 0 /\ Below(new.frags, new.len)
      BY <1>13, <2>1, <3>1 DEF ActiveInv
    <3>3. IsFiniteSet(Starts(new.frags, new.len))
      BY <2>1, StartsFinite
    <3> QED
      BY <3>1, <3>2, <3>3, FS_EmptySet
  <2>3. new.frags \subseteq StampedPiece
    BY <1>3 DEF StampedEntry
  <2> QED
    BY <1>11, <2>1, <2>2, <2>3 DEF Whole, Tails
<1> QED
  BY <1>12, <1>13 DEF new

\* The entries that are left when the time-outs have been processed.
LEMMA LiveSound == ASSUME AllSound(entries), NEW ts PROVE AllSound(Live(ts))
<1> DEFINE n == Len(entries)
           k == Cardinality(Expired(ts))
           u == SubSeq(entries, k + 1, n)
<1>1. entries \in Seq(StampedEntry) /\ n \in Nat /\ DOMAIN entries = 1..n
  BY DEF AllSound
<1>2. k \in Nat
  <2>1. IsFiniteSet(1..n)
    <3> HIDE DEF n
    <3> QED
      BY <1>1, FS_Interval
  <2>2. Expired(ts) \subseteq 1..n
    BY <1>1 DEF Expired
  <2> QED
    BY <2>1, <2>2, FS_Subset, FS_CardinalityType
<1>3. Live(ts) = u
  BY DEF Live
<1> HIDE DEF k
<1>4. u \in Seq(StampedEntry) /\ \A j \in DOMAIN u : k + j \in DOMAIN entries /\ u[j] = entries[k + j]
  BY <1>1, <1>2, TailIs
<1> HIDE DEF u
<1>5. AllSound(u)
  BY <1>4 DEF AllSound
<1> QED
  BY <1>3, <1>5

LEMMA LookupSound ==
    ASSUME AllSound(entries), NEW ts \in Nat, NEW id \in Ids
    PROVE  AllSound(Lookup(id, ts)) /\ Place(Lookup(id, ts), id) \in DOMAIN Lookup(id, ts)
<1> DEFINE es == Lookup(id, ts)
           lv == Live(ts)
           n == Len(lv)
           new == NewEntry(id, ts)
<1>1. AllSound(lv)
  BY LiveSound
<1>2. lv \in Seq(StampedEntry) /\ n \in Nat /\ DOMAIN lv = 1..n
  BY <1>1 DEF AllSound
<1> HIDE DEF lv
<1>3. CASE \E i \in DOMAIN lv : lv[i].id = id
  <2>1. es = lv
    BY <1>3 DEF Lookup, lv
  <2> QED
    BY <1>1, <1>3, <2>1 DEF Place
<1>4. CASE ~(\E i \in DOMAIN lv : lv[i].id = id)
  <2>1. es = Append(lv, new)
    BY <1>4 DEF Lookup, lv
  <2>2. Sound(new) /\ new.id = id /\ new \in StampedEntry
    BY NewSound DEF Sound
  <2> HIDE DEF new
  <2>3. /\ es \in Seq(StampedEntry) /\ DOMAIN es = 1..(n + 1)
        /\ \A i \in 1..n : es[i] = lv[i]
        /\ es[n + 1] = new
    BY <1>2, <2>1, <2>2
  <2> HIDE DEF es
  <2>4. \A i \in DOMAIN es : i \in 1..n \/ i = n + 1
    BY <1>2, <2>3
  <2>5. AllSound(es)
    BY <1>1, <1>2, <2>2, <2>3, <2>4 DEF AllSound
  <2>6. n + 1 \in DOMAIN es
    BY <1>2, <2>3
  <2> QED
    BY <2>2, <2>3, <2>5, <2>6 DEF Place, es
<1> QED
  BY <1>3, <1>4

LEMMA ReplaceSound ==
    ASSUME NEW es, AllSound(es), NEW i \in DOMAIN es, NEW new, Sound(new)
    PROVE  AllSound([es EXCEPT ![i] = new])
<1> DEFINE u == [es EXCEPT ![i] = new]
<1>1. es \in Seq(StampedEntry) /\ new \in StampedEntry
  BY DEF AllSound, Sound
<1>2. u \in Seq(StampedEntry) /\ DOMAIN u = DOMAIN es
  BY <1>1
<1>3. \A j \in DOMAIN es : u[j] = IF j = i THEN new ELSE es[j]
  BY <1>1
<1> HIDE DEF u
<1>4. AllSound(u)
  BY <1>2, <1>3 DEF AllSound
<1> QED
  BY <1>4 DEF u

\* reasm_ip_next() keeps the entries sound, and what it hands out is whole.
LEMMA ReasmSound ==
    ASSUME AllSound(entries), NEW ts \in Nat, NEW f \in Fragment, End(f) > 0,
           ReasmMore(f, ts) \/ ReasmDone(f, ts)
    PROVE  /\ AllSound(entries')
           /\ ReasmDone(f, ts) => \A ent \in out' : Whole(ent.frags)
<1> DEFINE es == Lookup(f.id, ts)
           i == Place(es, f.id)
           ent == es[i]
           new == BaseAdd(ent, f, ts)
<1>1. f.id \in Ids
  BY DEF Fragment
<1>2. AllSound(es) /\ i \in DOMAIN es
  BY <1>1, LookupSound
<1> HIDE DEF es, i
<1>3. Sound(ent)
  BY <1>2 DEF AllSound
<1>4. ent.state = "active" /\ ~Rejected(ent, f) =>
        Sound(new) /\ (new.holes = 0 => Whole(new.frags))
  BY <1>3, AddSound
<1>5. ASSUME FragDropped(f, ts) PROVE AllSound(entries')
  BY <1>2, <1>5 DEF FragDropped, es
<1>6. ASSUME FragRejected(f, ts) PROVE AllSound(entries')
  <2> DEFINE inv == [ent EXCEPT !.state = "invalid"]
  <2>1. entries' = [es EXCEPT ![i].state = "invalid"]
    BY <1>6 DEF FragRejected, es, i
  <2>2. [es EXCEPT ![i].state = "invalid"] = [es EXCEPT ![i] = inv]
    OBVIOUS
  <2>3. ent \in StampedEntry /\ EntryInv(ent)
    BY <1>3 DEF Sound
  <2> HIDE DEF ent
  <2>4. inv \in StampedEntry /\ inv.frags = ent.frags /\ inv.state = "invalid"
    BY <2>3 DEF StampedEntry
  <2> HIDE DEF inv
  <2>5. Sound(inv)
    BY <2>3, <2>4 DEF Sound, EntryInv
  <2> QED
    BY <1>2, <2>1, <2>2, <2>5, ReplaceSound
<1> HIDE DEF new
<1>7. ASSUME ReasmMore(f, ts) PROVE AllSound(entries')
  <2>1. \/ FragDropped(f, ts) \/ FragRejected(f, ts)
        \/ ent.state = "active" /\ ~Rejected(ent, f) /\ entries' = [es EXCEPT ![i] = new]
    BY <1>7 DEF ReasmMore, es, i, new
  <2> HIDE DEF ent
  <2> QED
    BY <1>2, <1>4, <1>5, <1>6, <2>1, ReplaceSound
<1>8. ASSUME ReasmDone(f, ts)
      PROVE  AllSound(entries') /\ \A e \in out' : Whole(e.frags)
  <2> DEFINE u == SubSeq(es, 1, i - 1) \o SubSeq(es, i + 1, Len(es))
  <2>1. /\ entries' = u /\ out' = {new} /\ new.holes = 0
        /\ ent.state = "active" /\ ~Rejected(ent, f)
    BY <1>8 DEF ReasmDone, es, i, new
  <2>2. u \in Seq(StampedEntry) /\ \A j \in DOMAIN u : \E k \in DOMAIN es : u[j] = es[k]
    BY <1>2, RemoveIs DEF AllSound
  <2> HIDE DEF u
  <2>3. AllSound(u)
    BY <1>2, <2>2 DEF AllSound
  <2> QED
    BY <1>4, <2>1, <2>3
<1> QED
  BY <1>7, <1>8

\* What a datagram makes of its fragments.
LEMMA AgainHeld == ASSUME Held, Again PROVE Held'
  BY DEF Held, Again, Return

LEMMA ArriveHeld ==
    ASSUME Held, NEW d, NEW t, NEW ts, NEW whole, NEW pieces, Whole(pieces),
           Arrive(d, t, ts, whole, pieces)
    PROVE  Held'
<1>1. ASSUME NEW ty, NEW qu, NEW re, NEW pi, NEW ti
      PROVE  ToMessage(ty, qu, re, pi, ti).pieces = pi
  BY DEF ToMessage
<1>2. ASSUME NEW m, Whole(m.pieces), Single(m) PROVE Held'
  BY <1>2 DEF Single, Return, Held
<1>3. CASE ArriveQuery(d, t, whole)
  BY <1>3 DEF ArriveQuery, Return, Held
<1>4. CASE ArriveAnswer(d, t, pieces)
  BY <1>4 DEF ArriveAnswer, Held
<1>5. CASE ArriveUnsolicited(d, t, pieces)
  <2> DEFINE m == ToMessage("UDP_UNSOLICITED_RESPONSE", 0, {AsResponse(d, t)}, pieces, t)
  <2>1. parts' = parts /\ (msg' = {} \/ msg' = {m})
    BY <1>5 DEF ArriveUnsolicited, Return
  <2>2. m.pieces = pieces
    BY <1>1
  <2> HIDE DEF m
  <2> QED
    BY <2>1, <2>2 DEF Held
<1>6. CASE ArriveSingle(d, t, ts, pieces)
  <2>1. CASE d.proto = "udp" /\ conf.qr = 0 /\ ~d.qr
    BY <1>1, <1>2, <1>6, <2>1, NoneWhole DEF ArriveSingle
  <2>2. CASE d.proto = "udp" /\ conf.qr = 1 /\ d.qr
    BY <1>1, <1>2, <1>6, <2>2 DEF ArriveSingle
  <2>3. CASE d.proto \in {"tcp", "icmp"}
    BY <1>1, <1>2, <1>6, <2>3, NoneWhole DEF ArriveSingle
  <2>4. CASE Again
    BY <2>4, AgainHeld
  <2> QED
    BY <1>6, <2>1, <2>2, <2>3, <2>4 DEF ArriveSingle
<1> QED
  BY <1>3, <1>4, <1>5, <1>6 DEF Arrive

LEMMA PacketPieces == ASSUME PiecesInv, Packet PROVE PiecesInv'
<1>1. PICK p \in Frames :
         \/ FrameOther(p)
         \/ \E ts \in Times :
               FrameWhole(p, ts) \/ FrameShort(p, ts) \/ FrameMore(p, ts) \/ FrameDone(p, ts)
  BY DEF Packet
<1>2. p.frag \in Fragment
  BY DnsqrAssumption
<1> DEFINE d == Datagrams[p.frag.id]
<1> HIDE DEF d
<1>3. AllSound(entries) /\ Held
  BY DEF PiecesInv
<1>4. CASE FrameOther(p)
  <2>1. Again /\ entries' = entries
    BY <1>4 DEF FrameOther, reasmVars
  <2> QED
    BY <1>3, <2>1, AgainHeld DEF PiecesInv
<1>5. ASSUME NEW ts \in Times,
             FrameWhole(p, ts) \/ FrameShort(p, ts) \/ FrameMore(p, ts) \/ FrameDone(p, ts)
      PROVE  AllSound(entries') /\ Held'
  <2>1. ts \in Nat
    BY DnsqrAssumption
  <2>2. CASE FrameWhole(p, ts) \/ FrameShort(p, ts)
    <3>1. entries' = Live(ts)
      BY <2>2 DEF FrameWhole, FrameShort, ReasmOther, FragUnrecognized
    <3>2. Again \/ Arrive(d, ts, ts, TRUE, {}) \/ Arrive(d, ts, ts, FALSE, {})
      BY <2>2 DEF FrameWhole, FrameShort, d
    <3>3. Held'
      BY <1>3, <3>2, NoneWhole, AgainHeld, ArriveHeld
    <3> QED
      BY <1>3, <3>1, <3>3, LiveSound
  <2>3. CASE FrameMore(p, ts)
    <3>1. ReasmMore(p.frag, ts) /\ Again /\ End(p.frag) > 0
      BY <2>3, DnsqrAssumption DEF FrameMore
    <3>2. AllSound(entries')
      BY <1>2, <1>3, <2>1, <3>1, ReasmSound
    <3> QED
      BY <1>3, <3>1, <3>2, AgainHeld
  <2>4. CASE FrameDone(p, ts)
    <3>1. ReasmDone(p.frag, ts) /\ End(p.frag) > 0
      BY <2>4, DnsqrAssumption DEF FrameDone
    <3>2. AllSound(entries') /\ \A ent \in out' : Whole(ent.frags)
      BY <1>2, <1>3, <2>1, <3>1, ReasmSound
    <3>3. Again \/ \E ent \in out' : Arrive(d, FirstPiece(ent).ts, ts, FALSE, ent.frags)
      BY <2>4 DEF FrameDone, d
    <3>4. Held'
      BY <1>3, <3>2, <3>3, AgainHeld, ArriveHeld
    <3> QED
      BY <3>2, <3>4
  <2> QED
    BY <1>5, <2>2, <2>3, <2>4
<1> QED
  BY <1>1, <1>4, <1>5 DEF PiecesInv

LEMMA PiecesStep == PiecesInv /\ [Next]_vars => PiecesInv'
<1> SUFFICES ASSUME PiecesInv, [Next]_vars PROVE PiecesInv'
  OBVIOUS
<1>1. AllSound(entries) /\ Held
  BY DEF PiecesInv
<1>2. CASE Trim \/ NoTrim \/ ReadNone
  <2>1. entries' = entries /\ parts' = parts /\ msg' = {}
    BY <1>2 DEF Trim, NoTrim, ReadNone, Return, reasmVars
  <2> QED
    BY <1>1, <2>1 DEF PiecesInv, Held
<1>3. CASE Shift \/ UNCHANGED vars
  <2>1. entries' = entries /\ parts' = parts /\ msg' = msg
    BY <1>3 DEF Shift, reasmVars, vars, callVars
  <2> QED
    BY <1>1, <2>1 DEF PiecesInv, Held
<1>4. CASE Unanswered
  <2> DEFINE m == ToMessage("UDP_UNANSWERED_QUERY", report.query, {}, {}, asked[report.query].time)
  <2>1. entries' = entries /\ parts' = parts /\ (msg' = msg \/ msg' = {m})
    BY <1>4 DEF Unanswered, Return, reasmVars
  <2>2. m.pieces = {}
    BY DEF ToMessage
  <2> HIDE DEF m
  <2> QED
    BY <1>1, <2>1, <2>2, NoneWhole DEF PiecesInv, Held
<1>5. CASE Merge
  <2>1. entries' = entries /\ parts' = {}
    BY <1>5 DEF Merge, reasmVars
  <2>2. PICK r \in report.response :
           msg' = {} \/ msg' = {ToMessage("UDP_QUERY_RESPONSE", report.query, {r}, parts,
                                          asked[report.query].time)}
    BY <1>5 DEF Merge, Return
  <2>3. \A m \in msg' : m.pieces = parts
    BY <2>2 DEF ToMessage
  <2> QED
    BY <1>1, <2>1, <2>3, NoneWhole DEF PiecesInv, Held
<1>6. CASE Packet
  BY <1>6, PacketPieces
<1>7. CASE Fini
  <2>1. entries' = <<>> /\ parts' = {} /\ msg' = {}
    BY <1>7 DEF Fini, ReasmFree
  <2>2. AllSound(<<>>)
    BY DEF AllSound
  <2> QED
    BY <2>1, <2>2, NoneWhole DEF PiecesInv, Held
<1> QED
  BY <1>2, <1>3, <1>4, <1>5, <1>6, <1>7 DEF Next, Work, Closed

\* Whatever order the fragments come in, with gaps, overlaps, duplicates and
\* time-outs between them, what reasm_ip_next() hands to the module, what waits
\* with a response for its query and what is stored in a message fills the
\* datagram from its start to its last fragment.
THEOREM PiecesAreWhole == Spec => []PiecesInv
<1>1. Init => PiecesInv
  <2> SUFFICES ASSUME Init PROVE PiecesInv
    OBVIOUS
  <2>1. parts = {} /\ msg = {} /\ entries = <<>>
    BY DEF Init, ReasmInit
  <2>2. AllSound(<<>>)
    BY DEF AllSound
  <2> QED
    BY <2>1, <2>2, NoneWhole DEF PiecesInv, Held
<1> QED
  BY <1>1, PiecesStep, PTL DEF Spec

\* dnsqr_get_response() reads back every response of two or more fragments that
\* has its last one, and dnsqr_get_delay() gives no negative delay as long as
\* time does not go back.
THEOREM FieldsAreReadable == Spec => []FieldsReadable
<1>1. PiecesInv /\ DelayNotNegative => FieldsReadable
  <2> SUFFICES ASSUME PiecesInv, DelayNotNegative, NEW m \in msg
               PROVE  /\ Cardinality(m.pieces) # 1 /\ (\A p \in m.pieces : \E q \in m.pieces : q.last) =>
                           GetResponse(m)
                      /\ m.type = "UDP_QUERY_RESPONSE" /\ ~late => GetDelay(m) >= 0
    BY DEF FieldsReadable
  <2>1. Whole(m.pieces)
    BY DEF PiecesInv, Held
  <2>2. ASSUME Cardinality(m.pieces) # 1, m.pieces # {},
               \A p \in m.pieces : \E q \in m.pieces : q.last
        PROVE  GetResponse(m)
    <3>1. PICK q \in m.pieces : q.last
      BY <2>2
    <3>2. Readd(m.pieces).state = "active" /\ Readd(m.pieces).holes = 0
      BY <2>1, <3>1, ReaddWhole
    <3>3. Cardinality(m.pieces) \in Nat /\ Cardinality(m.pieces) # 0
      BY <2>1, <2>2, FS_CardinalityType, FS_EmptySet DEF Whole
    <3>4. Cardinality(m.pieces) > 1
      BY <2>2, <3>3
    <3> QED
      BY <3>2, <3>4 DEF GetResponse
  <2>3. m.pieces = {} => GetResponse(m)
    BY DEF GetResponse
  <2> QED
    BY <2>2, <2>3 DEF DelayNotNegative
<1> QED
  BY <1>1, PiecesAreWhole, DelaysAreDelays, PTL
=============================================================================
