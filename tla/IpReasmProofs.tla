----------------------------- MODULE IpReasmProofs -----------------------------
(***************************************************************************)
(* Facts about the hole counting of add_fragment(), in nmsg/ipreasm.c and  *)
(* in the dnsqr module's copy of it: for datagrams of any length, cut in   *)
(* any way, and fragments in any order, repeated or contradictory.  What   *)
(* an entry keeps of a fragment, apart from its place, is left open.       *)
(***************************************************************************)
EXTENDS IpReasm, TLAPS, FiniteSetTheorems, WellFoundedInduction

\* What is asked of a list of fragments, of a fragment and of an entry.
IsPieces(frags) == \A g \in frags : g.offset \in Nat /\ g.len \in Nat \ {0}
IsFragment(f) == f.offset \in Nat /\ f.len \in Nat /\ f.last \in BOOLEAN
IsEntry(ent) ==
    IsPieces(ent.frags) /\ ent.len \in Nat /\ ent.holes \in Int /\ ent.early \in BOOLEAN

\* add_fragment(): new is ent with f in it, kept as p.
Added(new, ent, f, p) ==
    /\ new.state = ent.state
    /\ new.len = IF f.last THEN End(f) ELSE ent.len
    /\ new.holes = Holes(ent, f)
    /\ new.frags = IF f.len = 0 THEN ent.frags ELSE ent.frags \cup {p}
    /\ new.early = (ent.early \/ (f.last /\ f.len = 0 /\ ~FitLeft(ent, f)))

\* The covered bytes and the starts of the holes, of the fragments alone.
Hit(frags, b) == \E f \in frags : f.offset <= b /\ b < End(f)
Starts(frags, len) ==
    {b \in {0} \cup {End(f) : f \in frags} : ~Hit(frags, b) /\ (len = 0 \/ b < len)}

Disjoint(frags) ==
    \A f, g \in frags : f = g \/ End(f) <= g.offset \/ End(g) <= f.offset

Below(frags, len) == len # 0 => \A f \in frags : End(f) <= len

(***************************************************************************)
(* The inductive invariant.  That the count is exact needs that the last   *)
(* fragment is in the list once the length is known: no other fragment can *)
(* end where the datagram ends.                                            *)
(***************************************************************************)
ActiveInv(ent) ==
    /\ Below(ent.frags, ent.len)
    /\ ent.holes >= Cardinality(Starts(ent.frags, ent.len))
    /\ ent.early \/ ent.holes = Cardinality(Starts(ent.frags, ent.len))
    /\ ent.len # 0 /\ ~ent.early => \E f \in ent.frags : End(f) = ent.len

EntryInv(ent) ==
    /\ IsFiniteSet(ent.frags)
    /\ Disjoint(ent.frags)
    /\ ent.state = "active" => ActiveInv(ent)

-----------------------------------------------------------------------------
(***************************************************************************)
(* The neighbours of a fragment                                            *)
(***************************************************************************)

\* Every set of natural numbers that is not empty has a least element.
LEMMA LeastNat ==
    ASSUME NEW T, T \subseteq Nat, T # {}
    PROVE  \E x \in T : \A y \in T : x <= y
<1>1. T \subseteq Nat /\ T # {}
  OBVIOUS
<1>2. PICK R : /\ IsWellFoundedOn(R, Nat)
               /\ \A y, x \in Nat : y < x => <<y, x>> \in R
  <2>1. IsWellFoundedOn(OpToRel(<, Nat), Nat)
    BY NatLessThanWellFounded
  <2>2. \A y, x \in Nat : y < x => <<y, x>> \in OpToRel(<, Nat)
    BY DEF OpToRel
  <2> QED
    BY <2>1, <2>2
<1>3. \E x \in T : \A y \in T : ~(<<y, x>> \in R)
  <2>1. IsWellFoundedOn(R, Nat)
    BY <1>2
  <2> QED
    BY ONLY <1>1, <2>1, WFMin, ZenonT(30)
<1>4. PICK x \in T : \A y \in T : ~(<<y, x>> \in R)
  BY <1>3
<1>5. x \in Nat /\ \A y \in T : y \in Nat
  BY <1>1
<1>6. ASSUME NEW y \in T PROVE x <= y
  <2>1. ~(y < x)
    BY <1>2, <1>4, <1>5
  <2> QED
    BY <2>1, <1>5
<1> QED
  BY <1>6

\* Induction up to n, for a set of numbers.
LEMMA Induction ==
    ASSUME NEW n \in Nat, NEW A, 0 \in A,
           \A i \in 1..n : i - 1 \in A => i \in A
    PROVE  \A i \in 0..n : i \in A
<1> DEFINE B == {i \in 0..n : i \notin A}
<1>1. SUFFICES ASSUME B # {} PROVE FALSE
  OBVIOUS
<1>2. PICK x \in B : \A y \in B : x <= y
  <2>1. B \subseteq Nat
    OBVIOUS
  <2> HIDE DEF B
  <2> QED
    BY <1>1, <2>1, LeastNat
<1>3. x # 0 /\ x \in 1..n /\ x - 1 \in 0..n /\ x - 1 < x
  BY <1>2
<1>4. x - 1 \notin B
  BY <1>2, <1>3
<1> QED
  BY <1>2, <1>3, <1>4

\* The end of cur, the left neighbour: nothing on the left ends behind it.
LEMMA CurFacts ==
    ASSUME NEW frags, IsPieces(frags), Disjoint(frags), NEW f, IsFragment(f)
    PROVE  /\ CurEnd(frags, f) \in Nat
           /\ \A g \in Left(frags, f) : End(g) <= CurEnd(frags, f)
           /\ CurEnd(frags, f) # 0 => \E g \in Left(frags, f) : CurEnd(frags, f) = End(g)
<1>1. CASE Left(frags, f) = {}
  BY <1>1 DEF CurEnd
<1>2. CASE Left(frags, f) # {}
  <2> DEFINE L == Left(frags, f)
             T == {f.offset - g.offset : g \in L}
  <2>1. \A g \in L : g \in frags /\ g.offset \in Nat /\ g.len \in Nat \ {0} /\ g.offset <= f.offset
    BY DEF Left, IsPieces
  <2>2. f.offset \in Nat
    BY DEF IsFragment
  <2>3. T \subseteq Nat /\ T # {}
    BY <1>2, <2>1, <2>2
  <2>4. PICK x \in T : \A y \in T : x <= y
    <3> HIDE DEF T
    <3> QED
      BY <2>3, LeastNat
  <2>5. \E g \in L : \A h \in L : h.offset <= g.offset
    <3>1. PICK g \in L : x = f.offset - g.offset
      BY <2>4
    <3>2. \A h \in L : x <= f.offset - h.offset
      BY <2>4
    <3> QED
      BY <3>1, <3>2, <2>1, <2>2
  <2> DEFINE cur == CHOOSE g \in L : \A h \in L : h.offset <= g.offset
  <2>6. cur \in L /\ \A h \in L : h.offset <= cur.offset
    BY <2>5
  <2>7. CurEnd(frags, f) = End(cur)
    BY <1>2 DEF CurEnd
  <2> HIDE DEF cur, L
  <2>8. ASSUME NEW h \in L PROVE End(h) <= End(cur)
    <3>1. h = cur \/ End(h) <= cur.offset \/ End(cur) <= h.offset
      BY <2>1, <2>6 DEF Disjoint
    <3>2. h.offset <= cur.offset
      BY <2>6
    <3> QED
      BY <3>1, <3>2, <2>1, <2>6 DEF End
  <2>9. End(cur) \in Nat
    BY <2>1, <2>6 DEF End
  <2> QED
    BY <2>6, <2>7, <2>8, <2>9 DEF L
<1> QED
  BY <1>1, <1>2

\* The start of next, the right neighbour.
LEMMA NextFacts ==
    ASSUME NEW frags, IsPieces(frags), NEW f, IsFragment(f), Right(frags, f) # {}
    PROVE  /\ NextOffset(frags, f) \in Nat
           /\ \E g \in Right(frags, f) : NextOffset(frags, f) = g.offset
           /\ \A g \in Right(frags, f) : NextOffset(frags, f) <= g.offset
<1> DEFINE R == Right(frags, f)
           T == {g.offset : g \in R}
<1>1. \A g \in R : g.offset \in Nat
  BY DEF Right, IsPieces
<1>2. T \subseteq Nat /\ T # {}
  BY <1>1
<1>3. PICK x \in T : \A y \in T : x <= y
  <2> HIDE DEF T
  <2> QED
    BY <1>2, LeastNat
<1>4. \E g \in R : \A h \in R : g.offset <= h.offset
  BY <1>3
<1> DEFINE nxt == CHOOSE g \in R : \A h \in R : g.offset <= h.offset
<1>5. nxt \in R /\ \A h \in R : nxt.offset <= h.offset
  BY <1>4
<1>6. NextOffset(frags, f) = nxt.offset
  BY DEF NextOffset
<1> QED
  BY <1>1, <1>5, <1>6

\* What it means that a fragment was not rejected: it overlaps with nothing,
\* although only its neighbours were compared, and fits the length.
LEMMA Accepted ==
    ASSUME NEW ent, IsEntry(ent), NEW f, IsFragment(f), Disjoint(ent.frags),
           ~Rejected(ent, f)
    PROVE  /\ \A g \in ent.frags :
                /\ g.offset <= f.offset => End(g) <= CurEnd(ent.frags, f)
                /\ g.offset > f.offset => /\ ~f.last
                                          /\ End(f) <= NextOffset(ent.frags, f)
                                          /\ NextOffset(ent.frags, f) <= g.offset
           /\ CurEnd(ent.frags, f) \in Nat /\ CurEnd(ent.frags, f) <= f.offset
           /\ ent.len # 0 => End(f) <= ent.len /\ ~f.last
<1>1. IsPieces(ent.frags)
  BY DEF IsEntry, IsPieces
<1>2. /\ CurEnd(ent.frags, f) \in Nat
      /\ \A g \in Left(ent.frags, f) : End(g) <= CurEnd(ent.frags, f)
  BY <1>1, CurFacts
<1>3. f.offset \in Nat /\ f.len \in Nat /\ End(f) \in Nat /\ ent.len \in Nat
  BY DEF IsFragment, IsEntry, End, IsPieces
<1>4. ASSUME NEW g \in ent.frags, g.offset > f.offset
      PROVE  /\ ~f.last /\ End(f) <= NextOffset(ent.frags, f)
             /\ NextOffset(ent.frags, f) <= g.offset
  <2>1. g \in Right(ent.frags, f)
    BY <1>4 DEF Right
  <2>2. NextOffset(ent.frags, f) \in Nat /\ NextOffset(ent.frags, f) <= g.offset
    BY <1>1, <2>1, NextFacts
  <2> QED
    BY <1>3, <2>1, <2>2 DEF Rejected
<1>5. ASSUME NEW g \in ent.frags, g.offset <= f.offset
      PROVE  End(g) <= CurEnd(ent.frags, f)
  BY <1>2, <1>5 DEF Left
<1> QED
  BY <1>2, <1>3, <1>4, <1>5 DEF Rejected

-----------------------------------------------------------------------------
(***************************************************************************)
(* The holes that a fragment leaves                                        *)
(***************************************************************************)

\* Where an accepted fragment lies, and what its fits mean: on the left it
\* touches a fragment or the start of the datagram, on the right a fragment.
LEMMA FitFacts ==
    ASSUME NEW ent, IsEntry(ent), NEW f, IsFragment(f), Disjoint(ent.frags),
           ~Rejected(ent, f)
    PROVE  /\ \A g \in ent.frags :
                End(g) <= f.offset \/ (~f.last /\ f.offset < g.offset /\ End(f) <= g.offset)
           /\ FitLeft(ent, f) <=> f.offset \in {0} \cup {End(g) : g \in ent.frags}
           /\ ~f.last => (FitRight(ent, f)
                            <=> f.len # 0 /\ \E g \in ent.frags : g.offset = End(f))
<1> DEFINE F == ent.frags
           c == CurEnd(F, f)
<1>1. IsPieces(F)
  BY DEF IsEntry, IsPieces
<1>2. \A g \in F : g.offset \in Nat /\ g.len \in Nat \ {0} /\ End(g) \in Nat /\ g.offset < End(g)
  BY <1>1 DEF IsPieces, End
<1>3. f.offset \in Nat /\ f.len \in Nat /\ End(f) \in Nat /\ End(f) = f.offset + f.len
  BY DEF IsFragment, End
<1>4. /\ \A g \in F :
           /\ g.offset <= f.offset => End(g) <= c
           /\ g.offset > f.offset => /\ ~f.last
                                     /\ End(f) <= NextOffset(F, f)
                                     /\ NextOffset(F, f) <= g.offset
      /\ c \in Nat /\ c <= f.offset
  BY Accepted
<1>5. c # 0 => \E g \in F : c = End(g)
  BY <1>1, CurFacts DEF Left
<1>6. Right(F, f) # {} => /\ NextOffset(F, f) \in Nat
                          /\ \E g \in Right(F, f) : NextOffset(F, f) = g.offset
  BY <1>1, NextFacts
<1> HIDE DEF c
<1>7. ASSUME NEW g \in F
      PROVE  End(g) <= f.offset \/ (~f.last /\ f.offset < g.offset /\ End(f) <= g.offset)
  <2>1. CASE g.offset <= f.offset
    BY <2>1, <1>2, <1>3, <1>4
  <2>2. CASE g.offset > f.offset
    <3>1. Right(F, f) # {}
      BY <2>2 DEF Right
    <3> QED
      BY <2>2, <3>1, <1>2, <1>3, <1>4, <1>6
  <2> QED
    BY <2>1, <2>2, <1>2, <1>3
<1>8. FitLeft(ent, f) <=> f.offset \in {0} \cup {End(g) : g \in F}
  <2>1. FitLeft(ent, f) <=> c = f.offset
    BY DEF FitLeft, c
  <2>2. c = f.offset => f.offset \in {0} \cup {End(g) : g \in F}
    BY <1>5
  <2>3. f.offset = 0 => c = f.offset
    BY <1>4
  <2>4. ASSUME NEW g \in F, f.offset = End(g) PROVE c = f.offset
    BY <2>4, <1>2, <1>3, <1>4
  <2> QED
    BY <2>1, <2>2, <2>3, <2>4
<1>9. ASSUME ~f.last
      PROVE  FitRight(ent, f) <=> f.len # 0 /\ \E g \in F : g.offset = End(f)
  <2>1. FitRight(ent, f) <=> Right(F, f) # {} /\ End(f) = NextOffset(F, f)
    BY <1>9 DEF FitRight
  <2>2. ASSUME FitRight(ent, f)
        PROVE  f.len # 0 /\ \E g \in F : g.offset = End(f)
    <3>1. PICK g \in Right(F, f) : NextOffset(F, f) = g.offset
      BY <2>1, <2>2, <1>6
    <3>2. g \in F /\ g.offset > f.offset /\ g.offset = End(f)
      BY <2>1, <2>2, <3>1 DEF Right
    <3> QED
      BY <3>2, <1>3
  <2>3. ASSUME f.len # 0, NEW g \in F, g.offset = End(f)
        PROVE  FitRight(ent, f)
    <3>1. g.offset > f.offset
      BY <2>3, <1>3, <1>2
    <3>2. Right(F, f) # {}
      BY <3>1 DEF Right
    <3>3. End(f) = NextOffset(F, f)
      BY <2>3, <3>1, <3>2, <1>2, <1>3, <1>4, <1>6
    <3> QED
      BY <2>1, <3>2, <3>3
  <2> QED
    BY <2>2, <2>3
<1> QED
  BY <1>7, <1>8, <1>9

\* A stored fragment takes away the hole that starts where it starts, if one
\* does, and leaves one behind itself unless something follows there.
LEMMA HolesMove ==
    ASSUME NEW ent, IsEntry(ent), NEW f, IsFragment(f), Disjoint(ent.frags),
           Below(ent.frags, ent.len), ~Rejected(ent, f), f.len # 0,
           NEW p, p.offset = f.offset, p.len = f.len
    PROVE  LET H == Starts(ent.frags, ent.len)
           IN  /\ f.offset \in H <=> FitLeft(ent, f)
               /\ End(f) \notin H
               /\ Starts(ent.frags \cup {p}, IF f.last THEN End(f) ELSE ent.len) =
                    (H \ {f.offset}) \cup
                    (IF FitRight(ent, f) \/ End(f) = ent.len THEN {} ELSE {End(f)})
<1> DEFINE F == ent.frags
           len == ent.len
           o == f.offset
           e == End(f)
           H == Starts(F, len)
           B == {0} \cup {End(g) : g \in F}
           len2 == IF f.last THEN e ELSE len
           New == IF FitRight(ent, f) \/ e = len THEN {} ELSE {e}
<1>1. /\ o \in Nat /\ f.len \in Nat \ {0} /\ e \in Nat /\ e = o + f.len /\ o < e
      /\ len \in Nat
  BY DEF IsFragment, End, IsEntry, IsPieces
<1>2. \A g \in F : g.offset \in Nat /\ End(g) \in Nat /\ g.offset < End(g)
  BY DEF IsEntry, IsPieces, End
<1>3. /\ \A g \in F : End(g) <= o \/ (~f.last /\ o < g.offset /\ e <= g.offset)
      /\ FitLeft(ent, f) <=> o \in B
      /\ ~f.last => (FitRight(ent, f) <=> \E g \in F : g.offset = e)
  BY FitFacts
<1>4. len # 0 => e <= len /\ ~f.last
  BY Accepted
<1>5. f.last => FitRight(ent, f) /\ len = 0
  BY <1>4 DEF FitRight
<1>6. len # 0 => \A g \in F : End(g) <= len
  BY DEF Below
<1>7. End(p) = e /\ p.offset = o
  BY DEF End
<1>8. B \subseteq Nat /\ \A b \in B : b <= o \/ e < b
  BY <1>1, <1>2, <1>3
<1>9. ~Hit(F, o)
  BY <1>1, <1>2, <1>3 DEF Hit
<1>10. \A b : b \in H <=> b \in B /\ ~Hit(F, b) /\ (len = 0 \/ b < len)
  BY DEF Starts
<1>11. \A b : b \in Starts(F \cup {p}, len2) <=>
            /\ b \in B \cup {e}
            /\ ~Hit(F, b) /\ ~(o <= b /\ b < e)
            /\ len2 = 0 \/ b < len2
  <2>1. {0} \cup {End(g) : g \in F \cup {p}} = B \cup {e}
    BY <1>7
  <2>2. \A b : Hit(F \cup {p}, b) <=> Hit(F, b) \/ (o <= b /\ b < e)
    BY <1>7 DEF Hit
  <2>3. \A b : b \in Starts(F \cup {p}, len2) <=>
            /\ b \in {0} \cup {End(g) : g \in F \cup {p}}
            /\ ~Hit(F \cup {p}, b) /\ (len2 = 0 \/ b < len2)
    BY DEF Starts
  <2> HIDE DEF B
  <2> QED
    BY <2>1, <2>2, <2>3
<1>12. ~f.last => (Hit(F, e) <=> FitRight(ent, f))
  BY <1>1, <1>2, <1>3 DEF Hit
<1>13. \A b \in B : f.last => b <= o
  BY <1>1, <1>2, <1>3
<1> HIDE DEF B, H
<1>14. o \in H <=> FitLeft(ent, f)
  BY <1>1, <1>3, <1>4, <1>9, <1>10
<1>15. e \notin H
  BY <1>1, <1>8, <1>10
<1>16. Starts(F \cup {p}, len2) = (H \ {o}) \cup New
  <2>1. ASSUME NEW b \in B
        PROVE  b \in Starts(F \cup {p}, len2) <=> b \in H \ {o}
    <3>1. b \in Nat /\ (b <= o \/ e < b) /\ b # e
      BY <1>1, <1>8
    <3>2. ~(o <= b /\ b < e) <=> b # o
      BY <3>1, <1>1
    <3>3. (len2 = 0 \/ b < len2) <=> (len = 0 \/ b < len)
      BY <3>1, <1>1, <1>5, <1>13
    <3> QED
      BY <3>2, <3>3, <1>10, <1>11
  <2>2. e \in Starts(F \cup {p}, len2) <=> e \in New
    <3>1. e \in Starts(F \cup {p}, len2) <=> ~Hit(F, e) /\ (len2 = 0 \/ e < len2)
      <4>1. ~(e < e)
        BY <1>1
      <4> QED
        BY <4>1, <1>11
    <3>2. CASE f.last
      <4>1. len2 = e /\ ~(e < e) /\ e # 0
        BY <3>2, <1>1
      <4>2. New = {}
        BY <3>2, <1>5
      <4> QED
        BY <3>1, <4>1, <4>2
    <3>3. CASE ~f.last
      <4>1. (len2 = 0 \/ e < len2) <=> e # len
        BY <3>3, <1>1, <1>4
      <4> QED
        BY <3>1, <3>3, <4>1, <1>12
    <3> QED
      BY <3>2, <3>3
  <2>3. \A b \in Starts(F \cup {p}, len2) : b \in B \/ b = e
    BY <1>11
  <2>4. \A b \in H : b \in B
    BY <1>10
  <2>5. \A b \in B : b # e
    BY <1>1, <1>8
  <2>6. New \subseteq {e}
    OBVIOUS
  <2> HIDE DEF New
  <2> QED
    BY <1>15, <2>1, <2>2, <2>3, <2>4, <2>5, <2>6
<1> QED
  BY <1>14, <1>15, <1>16 DEF H

\* The holes are finitely many.
LEMMA StartsFinite ==
    ASSUME NEW frags, IsFiniteSet(frags), NEW len
    PROVE  IsFiniteSet(Starts(frags, len)) /\ Cardinality(Starts(frags, len)) \in Nat
<1> DEFINE T == {End(f) : f \in frags}
           h == [f \in frags |-> End(f)]
<1>1. IsFiniteSet(T)
  <2>1. h \in [frags -> T] /\ \A t \in T : \E f \in frags : h[f] = t
    OBVIOUS
  <2>2. h \in Surjection(frags, T)
    BY <2>1 DEF Surjection
  <2> QED
    BY <2>2, FS_Surjection
<1>2. IsFiniteSet(T \cup {0})
  BY <1>1, FS_AddElement
<1>3. Starts(frags, len) \subseteq T \cup {0}
  BY DEF Starts
<1> QED
  BY <1>2, <1>3, FS_Subset, FS_CardinalityType

\* An accepted fragment keeps the entry right: its fragments disjoint and below
\* its length, its count of holes exact.
LEMMA EntryStep ==
    ASSUME NEW ent, IsEntry(ent), NEW f, IsFragment(f), End(f) > 0,
           ent.state = "active", EntryInv(ent), ~Rejected(ent, f),
           NEW p, p.offset = f.offset, p.len = f.len, NEW new, Added(new, ent, f, p)
    PROVE  EntryInv(new)
<1> DEFINE F == ent.frags
           len == ent.len
           o == f.offset
           e == End(f)
           H == Starts(F, len)
<1>1. /\ new.state = "active"
      /\ new.len = IF f.last THEN e ELSE len
      /\ new.holes = Holes(ent, f)
      /\ new.frags = IF f.len = 0 THEN F ELSE F \cup {p}
      /\ new.early = (ent.early \/ (f.last /\ f.len = 0 /\ ~FitLeft(ent, f)))
  BY DEF Added
<1>2. /\ IsFiniteSet(F) /\ Disjoint(F) /\ Below(F, len)
      /\ ent.holes >= Cardinality(H)
      /\ ent.early \/ ent.holes = Cardinality(H)
      /\ len # 0 /\ ~ent.early => \E g \in F : End(g) = len
  BY DEF EntryInv, ActiveInv
<1>3. IsFiniteSet(H) /\ Cardinality(H) \in Nat /\ ent.holes \in Int
  BY <1>2, StartsFinite DEF IsEntry, IsPieces
<1>4. /\ o \in Nat /\ f.len \in Nat /\ e \in Nat /\ e = o + f.len /\ len \in Nat
      /\ f.last \in BOOLEAN
  BY DEF IsFragment, IsEntry, End, IsPieces
<1>5. /\ \A g \in F : End(g) <= o \/ (~f.last /\ o < g.offset /\ e <= g.offset)
      /\ FitLeft(ent, f) <=> o \in {0} \cup {End(g) : g \in F}
      /\ ~f.last => (FitRight(ent, f) <=> f.len # 0 /\ \E g \in F : g.offset = e)
  BY <1>2, FitFacts
<1>6. len # 0 => e <= len /\ ~f.last
  BY <1>2, Accepted
<1>7. \A g \in F : g.offset \in Nat /\ End(g) \in Nat /\ g.offset < End(g)
  BY DEF IsEntry, IsPieces, End
<1>8. IsFiniteSet(new.frags)
  <2>1. IsFiniteSet(F \cup {p})
    BY <1>2, FS_AddElement
  <2> QED
    BY <2>1, <1>1, <1>2
<1>9. Disjoint(new.frags)
  <2>1. p.offset = o /\ End(p) = e
    BY DEF End
  <2>2. \A g \in F : End(g) <= p.offset \/ End(p) <= g.offset
    BY <2>1, <1>5
  <2> QED
    BY <2>2, <1>1, <1>2 DEF Disjoint
<1>10. Below(new.frags, new.len)
  <2>1. p.offset = o /\ End(p) = e
    BY DEF End
  <2>2. f.last => \A g \in F : End(g) <= e
    BY <1>4, <1>5, <1>7
  <2> QED
    BY <2>1, <2>2, <1>1, <1>2, <1>4, <1>6 DEF Below
<1>11. f.last => FitRight(ent, f)
  BY DEF FitRight
<1> DEFINE H2 == Starts(new.frags, new.len)
<1>12. CASE f.len = 0 /\ ~f.last
  <2>1. new.frags = F /\ new.len = len /\ new.early = ent.early
    BY <1>1, <1>12 DEF IsEntry, IsPieces
  <2>2. new.holes = ent.holes
    BY <1>1, <1>3, <1>12 DEF Holes
  <2> QED
    BY <2>1, <2>2, <1>1, <1>2, <1>8, <1>9, <1>10 DEF EntryInv, ActiveInv
<1>13. CASE f.len = 0 /\ f.last
  <2>1. len = 0 /\ e = o /\ o > 0
    BY <1>4, <1>6, <1>13
  <2>2. new.frags = F /\ new.len = o /\ new.early = (ent.early \/ ~FitLeft(ent, f))
    BY <1>1, <1>13, <2>1
  <2>3. new.holes = ent.holes + IF FitLeft(ent, f) THEN -1 ELSE 0
    BY <1>1, <1>11, <1>13 DEF Holes
  <2>4. ~Hit(F, o) /\ \A b \in {0} \cup {End(g) : g \in F} : b \in Nat /\ b <= o
    BY <1>4, <1>5, <1>7, <1>13 DEF Hit
  <2>5. H2 = H \ {o} /\ (o \in H <=> FitLeft(ent, f))
    <3>1. \A b : b \in H <=> b \in {0} \cup {End(g) : g \in F} /\ ~Hit(F, b)
      BY <2>1 DEF Starts
    <3>2. \A b : b \in H2 <=> /\ b \in {0} \cup {End(g) : g \in F}
                              /\ ~Hit(F, b) /\ (o = 0 \/ b < o)
      BY <2>2 DEF Starts
    <3>3. \A b \in {0} \cup {End(g) : g \in F} : b < o <=> b # o
      BY <2>4, <1>4
    <3> HIDE DEF H, H2
    <3> QED
      BY <2>1, <2>4, <3>1, <3>2, <3>3, <1>5
  <2>6. Cardinality(H2) = Cardinality(H) - IF FitLeft(ent, f) THEN 1 ELSE 0
    <3>1. Cardinality(H \ {o}) = IF o \in H THEN Cardinality(H) - 1 ELSE Cardinality(H)
      BY <1>3, FS_RemoveElement
    <3> HIDE DEF H, H2
    <3> QED
      BY <1>3, <2>5, <3>1
  <2>7. ~new.early => \E g \in new.frags : End(g) = new.len
    <3>1. SUFFICES ASSUME ~new.early PROVE \E g \in F : End(g) = o
      BY <2>2
    <3>2. FitLeft(ent, f)
      BY <2>2, <3>1
    <3> QED
      BY <2>1, <3>2, <1>5
  <2>8. new.holes >= Cardinality(H2) /\ (new.early \/ new.holes = Cardinality(H2))
    <3>1. ~FitLeft(ent, f) => new.early
      BY <2>2
    <3>2. ent.early => new.early
      BY <2>2
    <3> HIDE DEF H, H2
    <3> QED
      BY <1>2, <1>3, <2>3, <2>6, <3>1, <3>2
  <2> QED
    BY <1>8, <1>9, <1>10, <2>7, <2>8 DEF EntryInv, ActiveInv
<1>14. CASE f.len # 0
  <2>1. new.frags = F \cup {p} /\ new.early = ent.early
    BY <1>1, <1>14 DEF IsEntry, IsPieces
  <2> DEFINE New == IF FitRight(ent, f) \/ e = len THEN {} ELSE {e}
  <2>2. /\ o \in H <=> FitLeft(ent, f)
        /\ e \notin H
        /\ H2 = (H \ {o}) \cup New
    <3>1. Disjoint(F) /\ Below(F, len) /\ f.len # 0 /\ p.offset = o /\ p.len = f.len
      BY <1>2, <1>14
    <3>2. /\ o \in H <=> FitLeft(ent, f)
          /\ e \notin H
          /\ Starts(F \cup {p}, IF f.last THEN e ELSE len) = (H \ {o}) \cup New
      BY <3>1, HolesMove
    <3>3. H2 = Starts(F \cup {p}, IF f.last THEN e ELSE len)
      BY <1>1, <2>1
    <3> QED
      BY <3>2, <3>3
  <2>3. /\ IsFiniteSet(H \ {o})
        /\ Cardinality(H \ {o}) = Cardinality(H) - IF FitLeft(ent, f) THEN 1 ELSE 0
    <3>1. /\ IsFiniteSet(H \ {o})
          /\ Cardinality(H \ {o}) = IF o \in H THEN Cardinality(H) - 1 ELSE Cardinality(H)
      <4> HIDE DEF H
      <4> QED
        BY <1>3, FS_RemoveElement
    <3> HIDE DEF H
    <3> QED
      BY <1>3, <2>2, <3>1
  <2>4. Cardinality(H2) = Cardinality(H \ {o})
                            + IF FitRight(ent, f) \/ e = len THEN 0 ELSE 1
    <3>1. CASE FitRight(ent, f) \/ e = len
      <4>1. H2 = H \ {o}
        BY <2>2, <3>1
      <4> HIDE DEF H, H2
      <4> QED
        BY <3>1, <4>1, <2>3, <1>3
    <3>2. CASE ~(FitRight(ent, f) \/ e = len)
      <4>1. H2 = (H \ {o}) \cup {e} /\ e \notin H \ {o}
        BY <2>2, <3>2
      <4> HIDE DEF H, H2
      <4> QED
        BY <3>2, <4>1, <2>3, FS_AddElement
    <3> QED
      BY <3>1, <3>2
  <2>5. e = len /\ ~FitRight(ent, f) => ent.early
    <3>1. SUFFICES ASSUME e = len, ~f.last, ~ent.early PROVE FALSE
      BY <1>11
    <3>2. PICK g \in F : End(g) = len
      BY <1>2, <1>4, <3>1
    <3> QED
      BY <3>1, <3>2, <1>4, <1>5, <1>7, <1>14
  <2>6. new.holes = ent.holes - (IF FitLeft(ent, f) THEN 1 ELSE 0)
                              + (IF FitRight(ent, f) THEN 0 ELSE 1)
    BY <1>1, <1>3, <1>14 DEF Holes
  <2>7. new.holes >= Cardinality(H2) /\ (new.early \/ new.holes = Cardinality(H2))
    <3> HIDE DEF H, H2
    <3> QED
      BY <1>2, <1>3, <2>1, <2>3, <2>4, <2>5, <2>6
  <2>8. new.len # 0 /\ ~new.early => \E g \in new.frags : End(g) = new.len
    <3>1. End(p) = e
      BY DEF End
    <3>2. p \in new.frags
      BY <2>1
    <3> QED
      BY <1>1, <1>2, <2>1, <3>1, <3>2
  <2> QED
    BY <1>8, <1>9, <1>10, <2>7, <2>8 DEF EntryInv, ActiveInv
<1> QED
  BY <1>4, <1>12, <1>13, <1>14

\* A new entry has one hole, the whole datagram.
LEMMA EmptyEntry ==
    ASSUME NEW id, NEW ts PROVE EntryInv(NewEntry(id, ts))
<1> DEFINE n == NewEntry(id, ts)
<1>1. n.frags = {} /\ n.len = 0 /\ n.holes = 1
  BY DEF NewEntry
<1>2. Starts({}, 0) = {0}
  BY DEF Starts, Hit
<1>3. Cardinality({0}) = 1 /\ IsFiniteSet({})
  BY FS_Singleton, FS_EmptySet
<1> QED
  BY <1>1, <1>2, <1>3 DEF EntryInv, ActiveInv, Below, Disjoint

\* Fragments that leave no hole and do not overlap cover each byte once: the
\* first byte that none covers would start a hole.
LEMMA NoHoleNoGap ==
    ASSUME NEW frags, IsPieces(frags), NEW len \in Nat,
           Disjoint(frags), Starts(frags, len) = {}, NEW b \in 0..(len - 1)
    PROVE  Cardinality({f \in frags : f.offset <= b /\ b < End(f)}) = 1
<1>1. \A f \in frags : f.offset \in Nat /\ End(f) \in Nat
  BY DEF IsPieces, End
<1>2. Hit(frags, b)
  <2> SUFFICES ASSUME ~Hit(frags, b) PROVE FALSE
    OBVIOUS
  <2> DEFINE T == {c \in 0..(len - 1) : ~Hit(frags, c)}
  <2>1. T \subseteq Nat /\ T # {}
    OBVIOUS
  <2>2. PICK x \in T : \A y \in T : x <= y
    <3> HIDE DEF T
    <3> QED
      BY <2>1, LeastNat
  <2>3. x \in Nat /\ x < len /\ ~Hit(frags, x)
    BY <2>2
  <2>4. CASE x = 0
    BY <2>3, <2>4 DEF Starts
  <2>5. CASE x # 0
    <3>1. x - 1 \in 0..(len - 1) /\ ~(x <= x - 1)
      BY <2>3, <2>5
    <3>2. Hit(frags, x - 1)
      BY <2>2, <3>1
    <3>3. PICK f \in frags : f.offset <= x - 1 /\ x - 1 < End(f)
      BY <3>2 DEF Hit
    <3>4. f.offset <= x
      BY <1>1, <2>3, <3>3
    <3>5. ~(x < End(f))
      BY <2>3, <3>4 DEF Hit
    <3>6. End(f) = x
      BY <1>1, <2>3, <3>3, <3>5
    <3>7. x \in Starts(frags, len)
      BY <2>3, <3>6 DEF Starts
    <3> QED
      BY <3>7
  <2> QED
    BY <2>4, <2>5
<1>3. PICK f \in frags : f.offset <= b /\ b < End(f)
  BY <1>2 DEF Hit
<1>4. ASSUME NEW g \in frags, g.offset <= b, b < End(g) PROVE g = f
  BY <1>1, <1>3, <1>4 DEF Disjoint
<1>5. {g \in frags : g.offset <= b /\ b < End(g)} = {f}
  BY <1>3, <1>4
<1> QED
  BY <1>5, FS_Singleton
=============================================================================
