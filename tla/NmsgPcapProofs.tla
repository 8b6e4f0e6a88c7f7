---------------------------- MODULE NmsgPcapProofs ----------------------------
(***************************************************************************)
(* The hole counting of ipreasm.c is right: for datagrams of any length,   *)
(* cut in any way, and fragments in any order, repeated or contradictory.  *)
(***************************************************************************)
EXTENDS NmsgPcap, IpReasmProofs, SequenceTheorems

Kept(es) ==
    /\ es \in Seq(Entry)
    /\ \A i \in DOMAIN es :
         /\ EntryInv(es[i])
         /\ es[i].state = "active" => es[i].holes # 0

OutInv ==
    /\ out \subseteq Entry
    /\ \A ent \in out :
         /\ Disjoint(ent.frags)
         /\ Starts(ent.frags, ent.len) = {}

IInv == Kept(entries) /\ OutInv

\* What the fields of an entry are after a fragment.
LEMMA AddedFields ==
    ASSUME NEW ent \in Entry, NEW f \in Fragment
    PROVE  LET new == AddFragment(ent, f)
           IN  /\ new \in Entry
               /\ new.state = ent.state /\ new.id = ent.id
               /\ new.len = IF f.last THEN End(f) ELSE ent.len
               /\ new.holes = Holes(ent, f)
               /\ new.frags = IF f.len = 0 THEN ent.frags
                              ELSE ent.frags \cup {[offset |-> f.offset, len |-> f.len]}
               /\ new.early = (ent.early \/ (f.last /\ f.len = 0 /\ ~FitLeft(ent, f)))
<1> DEFINE len2 == IF f.last THEN End(f) ELSE ent.len
           holes2 == Holes(ent, f)
           count2 == IF f.len = 0 THEN ent.count ELSE ent.count + 1
           frags2 == IF f.len = 0 THEN ent.frags
                     ELSE ent.frags \cup {[offset |-> f.offset, len |-> f.len]}
           early2 == ent.early \/ (f.last /\ f.len = 0 /\ ~FitLeft(ent, f))
<1>1. len2 \in Nat
  BY DEF Entry, Fragment, End
<1>2. holes2 \in Int
  BY DEF Entry, Holes
<1>3. count2 \in Nat
  BY DEF Entry
<1>4. frags2 \in SUBSET Piece
  BY DEF Entry, Fragment, Piece
<1>5. early2 \in BOOLEAN
  BY DEF Entry
<1>6. AddFragment(ent, f) =
        [ent EXCEPT !.len = len2, !.holes = holes2, !.count = count2,
                    !.frags = frags2, !.early = early2]
  BY DEF AddFragment, Entry
<1> HIDE DEF len2, holes2, count2, frags2, early2
<1>7. /\ AddFragment(ent, f) \in Entry
      /\ AddFragment(ent, f).state = ent.state /\ AddFragment(ent, f).id = ent.id
      /\ AddFragment(ent, f).len = len2 /\ AddFragment(ent, f).holes = holes2
      /\ AddFragment(ent, f).frags = frags2 /\ AddFragment(ent, f).early = early2
  BY <1>1, <1>2, <1>3, <1>4, <1>5, <1>6 DEF Entry
<1> QED
  BY <1>7 DEF len2, holes2, frags2, early2

\* An accepted fragment keeps the entry right.
LEMMA EntryAdd ==
    ASSUME NEW ent \in Entry, NEW f \in Fragment, End(f) > 0,
           ent.state = "active", EntryInv(ent), ~Rejected(ent, f)
    PROVE  EntryInv(AddFragment(ent, f))
<1> DEFINE p == [offset |-> f.offset, len |-> f.len]
<1>1. IsEntry(ent) /\ IsFragment(f)
  BY DEF Entry, Piece, Fragment, IsEntry, IsPieces, IsFragment
<1>2. Added(AddFragment(ent, f), ent, f, p)
  BY AddedFields DEF Added
<1>3. p.offset = f.offset /\ p.len = f.len
  OBVIOUS
<1> HIDE DEF p
<1> QED
  BY <1>1, <1>2, <1>3, EntryStep

-----------------------------------------------------------------------------
(***************************************************************************)
(* The list of entries                                                     *)
(***************************************************************************)

\* What is kept in a list is kept in every part of it.
LEMMA KeptSub ==
    ASSUME NEW es, Kept(es), NEW m \in Nat \ {0}, NEW n \in 0..Len(es)
    PROVE  Kept(SubSeq(es, m, n))
<1>1. es \in Seq(Entry) /\ Len(es) \in Nat /\ DOMAIN es = 1..Len(es)
  BY DEF Kept
<1>2. /\ SubSeq(es, m, n) \in Seq(Entry)
      /\ Len(SubSeq(es, m, n)) = IF m <= n THEN n - m + 1 ELSE 0
      /\ \A i \in 1..Len(SubSeq(es, m, n)) : SubSeq(es, m, n)[i] = es[m + i - 1]
  BY <1>1
<1> DEFINE t == SubSeq(es, m, n)
<1>3. ASSUME NEW i \in DOMAIN t
      PROVE  EntryInv(t[i]) /\ (t[i].state = "active" => t[i].holes # 0)
  <2>1. i \in 1..Len(t)
    BY <1>2
  <2>2. t[i] = es[m + i - 1]
    BY <1>2, <2>1
  <2>3. m + i - 1 \in DOMAIN es
    <3> HIDE DEF t
    <3>1. Len(t) = IF m <= n THEN n - m + 1 ELSE 0
      BY <1>2 DEF t
    <3> QED
      BY <1>1, <2>1, <3>1
  <2> QED
    BY <2>2, <2>3 DEF Kept
<1> QED
  BY <1>2, <1>3 DEF Kept

\* And in two lists together.
LEMMA KeptConcat ==
    ASSUME NEW s, NEW t, Kept(s), Kept(t)
    PROVE  Kept(s \o t)
<1>1. /\ s \in Seq(Entry) /\ Len(s) \in Nat /\ DOMAIN s = 1..Len(s)
      /\ t \in Seq(Entry) /\ Len(t) \in Nat /\ DOMAIN t = 1..Len(t)
  BY DEF Kept
<1>2. /\ s \o t \in Seq(Entry)
      /\ DOMAIN (s \o t) = 1..(Len(s) + Len(t))
      /\ \A i \in 1..(Len(s) + Len(t)) :
            (s \o t)[i] = IF i <= Len(s) THEN s[i] ELSE t[i - Len(s)]
  BY <1>1
<1> DEFINE c == s \o t
<1>3. ASSUME NEW i \in DOMAIN c
      PROVE  EntryInv(c[i]) /\ (c[i].state = "active" => c[i].holes # 0)
  <2>1. CASE i <= Len(s)
    BY <1>1, <1>2, <2>1 DEF Kept
  <2>2. CASE ~(i <= Len(s))
    <3>1. c[i] = t[i - Len(s)] /\ i - Len(s) \in DOMAIN t
      BY <1>1, <1>2, <2>2
    <3> QED
      BY <3>1 DEF Kept
  <2> QED
    BY <2>1, <2>2
<1> QED
  BY <1>2, <1>3 DEF Kept

\* A new entry has one hole, the whole datagram.
LEMMA NewEntryInv ==
    ASSUME NEW id \in Ids, NEW ts \in Nat
    PROVE  /\ NewEntry(id, ts) \in Entry
           /\ EntryInv(NewEntry(id, ts)) /\ NewEntry(id, ts).holes # 0
<1> DEFINE n == NewEntry(id, ts)
<1>1. n \in Entry /\ n.holes = 1
  BY ReasmAssumption DEF NewEntry, Entry
<1> QED
  BY <1>1, EmptyEntry

\* What is left when the time-outs have been processed.
LEMMA LiveKept ==
    ASSUME Kept(entries), NEW ts \in Nat
    PROVE  Kept(Live(ts))
<1> DEFINE n == Len(entries)
           c == Cardinality(Expired(ts))
<1>1. entries \in Seq(Entry) /\ n \in Nat /\ DOMAIN entries = 1..n
  BY DEF Kept
<1>2. c \in Nat
  <2>1. Expired(ts) \in SUBSET (1..n)
    BY <1>1 DEF Expired
  <2>2. IsFiniteSet(1..n)
    BY <1>1, FS_Interval
  <2>3. IsFiniteSet(Expired(ts))
    BY <2>1, <2>2, FS_Subset
  <2> QED
    BY <2>3, FS_CardinalityType
<1> QED
  BY <1>1, <1>2, KeptSub DEF Live

\* The entry that is looked up is in the list and is the datagram's own.
LEMMA LookupFacts ==
    ASSUME Kept(entries), NEW id \in Ids, NEW ts \in Nat
    PROVE  LET es == Lookup(id, ts)
           IN  /\ Kept(es)
               /\ Place(es, id) \in DOMAIN es
<1> DEFINE es == Lookup(id, ts)
           lv == Live(ts)
<1>3. Kept(lv)
  BY LiveKept
<1>4. lv \in Seq(Entry)
  BY <1>3 DEF Kept
<1> HIDE DEF lv
<1>5. CASE \E i \in DOMAIN lv : lv[i].id = id
  <2>1. es = lv
    BY <1>5 DEF Lookup, lv
  <2> QED
    BY <1>3, <1>5, <2>1 DEF Place
<1>6. CASE ~(\E i \in DOMAIN lv : lv[i].id = id)
  <2> DEFINE new == NewEntry(id, ts)
  <2>1. es = Append(lv, new)
    BY <1>6 DEF Lookup, lv
  <2>2. new \in Entry /\ EntryInv(new) /\ new.holes # 0
    BY NewEntryInv
  <2>3. new.id = id
    BY DEF NewEntry
  <2> HIDE DEF new
  <2>4. Kept(<<new>>)
    BY <2>2 DEF Kept
  <2>5. Append(lv, new) = lv \o <<new>>
    BY <1>4, <2>2
  <2>6. Kept(es)
    BY <1>3, <2>1, <2>4, <2>5, KeptConcat
  <2>7. \E i \in DOMAIN es : es[i].id = id
    <3>1. Len(lv) \in Nat
      BY <1>4
    <3>2. Len(lv) + 1 \in DOMAIN es /\ es[Len(lv) + 1] = new
      BY <1>4, <2>1, <2>2, <3>1
    <3> QED
      BY <2>3, <3>2
  <2> QED
    BY <2>6, <2>7 DEF Place
<1> QED
  BY <1>5, <1>6

-----------------------------------------------------------------------------
(***************************************************************************)
(* The steps                                                               *)
(***************************************************************************)

\* A list stays kept when one entry is replaced by one that may be kept.
LEMMA KeptReplace ==
    ASSUME NEW es, Kept(es), NEW i \in DOMAIN es, NEW new \in Entry,
           EntryInv(new), new.state = "active" => new.holes # 0
    PROVE  Kept([es EXCEPT ![i] = new])
<1>1. es \in Seq(Entry) /\ Len(es) \in Nat /\ DOMAIN es = 1..Len(es)
  BY DEF Kept
<1> DEFINE t == [es EXCEPT ![i] = new]
<1>2. t \in Seq(Entry) /\ DOMAIN t = DOMAIN es
  BY <1>1, ExceptSeq
<1>3. \A j \in DOMAIN es : t[j] = IF j = i THEN new ELSE es[j]
  OBVIOUS
<1> HIDE DEF t
<1> QED
  BY <1>2, <1>3 DEF Kept, t

\* A fragment keeps the invariant, whatever becomes of it.
LEMMA FragStep ==
    ASSUME IInv, NEW f \in Fragment, End(f) > 0, NEW ts \in Nat,
           \/ FragDropped(f, ts) \/ FragRejected(f, ts)
           \/ FragStored(f, ts) \/ FragCompletes(f, ts)
    PROVE  IInv'
<1> DEFINE es == Lookup(f.id, ts)
           i == Place(es, f.id)
           ent == es[i]
           new == AddFragment(ent, f)
<1>1. f.id \in Ids
  BY DEF Fragment
<1>2. Kept(es) /\ i \in DOMAIN es
  BY <1>1, LookupFacts DEF IInv
<1>3. es \in Seq(Entry) /\ Len(es) \in Nat /\ DOMAIN es = 1..Len(es)
  BY <1>2 DEF Kept
<1> HIDE DEF es, i
<1>4. ent \in Entry /\ EntryInv(ent)
  BY <1>2, <1>3, ElementOfSeq DEF Kept
<1>5. new \in Entry /\ new.state = ent.state
  BY <1>4, AddedFields
<1>6. CASE FragDropped(f, ts)
  BY <1>2, <1>6 DEF FragDropped, IInv, OutInv, es
<1>7. CASE FragRejected(f, ts)
  <2> DEFINE inv == [ent EXCEPT !.state = "invalid"]
  <2>1. entries' = [es EXCEPT ![i].state = "invalid"] /\ out' = out
    BY <1>7 DEF FragRejected, es, i
  <2>2. [es EXCEPT ![i].state = "invalid"] = [es EXCEPT ![i] = inv]
    OBVIOUS
  <2>3. inv \in Entry /\ inv.state = "invalid" /\ inv.frags = ent.frags
    BY <1>4 DEF Entry
  <2>4. EntryInv(inv)
    BY <1>4, <2>3 DEF EntryInv
  <2> HIDE DEF inv
  <2>5. Kept([es EXCEPT ![i] = inv])
    BY <1>2, <2>3, <2>4, KeptReplace
  <2> QED
    BY <2>1, <2>2, <2>5 DEF IInv, OutInv
<1>8. CASE FragStored(f, ts)
  <2>1. /\ ent.state = "active" /\ ~Rejected(ent, f) /\ new.holes # 0
        /\ entries' = [es EXCEPT ![i] = new] /\ out' = out
    BY <1>8 DEF FragStored, es, i
  <2>2. EntryInv(new)
    BY <1>4, <2>1, EntryAdd
  <2> HIDE DEF new
  <2>3. Kept([es EXCEPT ![i] = new])
    BY <1>2, <1>5, <2>1, <2>2, KeptReplace
  <2> QED
    BY <2>1, <2>3 DEF IInv, OutInv
<1>9. CASE FragCompletes(f, ts)
  <2>1. /\ ent.state = "active" /\ ~Rejected(ent, f) /\ new.holes = 0
        /\ entries' = SubSeq(es, 1, i - 1) \o SubSeq(es, i + 1, Len(es))
        /\ out' = {new}
    BY <1>9 DEF FragCompletes, es, i
  <2>2. EntryInv(new)
    BY <1>4, <2>1, EntryAdd
  <2> HIDE DEF new
  <2>3. Kept(entries')
    <3>1. Kept(SubSeq(es, 1, i - 1))
      BY <1>2, <1>3, KeptSub
    <3>2. Kept(SubSeq(es, i + 1, Len(es)))
      BY <1>2, <1>3, KeptSub
    <3> QED
      BY <2>1, <3>1, <3>2, KeptConcat
  <2>4. Disjoint(new.frags) /\ Starts(new.frags, new.len) = {}
    <3>1. /\ IsFiniteSet(new.frags) /\ Disjoint(new.frags)
          /\ 0 >= Cardinality(Starts(new.frags, new.len))
      BY <1>5, <2>1, <2>2 DEF EntryInv, ActiveInv
    <3>2. /\ IsFiniteSet(Starts(new.frags, new.len))
          /\ Cardinality(Starts(new.frags, new.len)) \in Nat
      BY <3>1, StartsFinite
    <3>3. Cardinality(Starts(new.frags, new.len)) = 0
      BY <3>1, <3>2
    <3> QED
      BY <3>1, <3>2, <3>3, FS_EmptySet
  <2> QED
    BY <1>5, <2>1, <2>3, <2>4 DEF IInv, OutInv
<1> QED
  BY <1>6, <1>7, <1>8, <1>9

\* The invariant is inductive.
THEOREM Invariance == Spec => [](now \in Nat /\ IInv)
<1>1. Init => now \in Nat /\ IInv
  BY DEF Init, ReasmInit, IInv, OutInv, Kept
<1>2. now \in Nat /\ IInv /\ [Next]_vars => (now \in Nat /\ IInv)'
  <2> SUFFICES ASSUME now \in Nat, IInv, [Next]_vars PROVE now' \in Nat /\ IInv'
    OBVIOUS
  <2>1. ASSUME entries' = entries \/ entries' = <<>>, out' = out PROVE IInv'
    <3>1. Kept(<<>>)
      BY DEF Kept
    <3> QED
      BY <2>1, <3>1 DEF IInv, OutInv
  <2>2. ASSUME NEW p \in Frames, NEW ts \in now..MaxTime,
               ReadFragment(p, ts) \/ ReadDatagram(p, ts)
        PROVE  IInv'
    <3>1. p.frag \in Fragment /\ End(p.frag) > 0
      BY <2>2, PcapAssumption DEF FrameOk, Frame, ReadFragment, ReadDatagram
    <3>2. ts \in Nat
      BY <2>2, PcapAssumption
    <3>3. \/ FragDropped(p.frag, ts) \/ FragRejected(p.frag, ts)
          \/ FragStored(p.frag, ts) \/ FragCompletes(p.frag, ts)
      BY <2>2 DEF ReadFragment, ReadDatagram
    <3> QED
      BY <3>1, <3>2, <3>3, FragStep
  <2>3. ASSUME NEW p \in Frames, NEW ts \in now..MaxTime,
               \/ ReadOther(p, ts) \/ ReadWhole(p, ts) \/ ReadShort(p, ts)
               \/ ReadFragment(p, ts) \/ ReadDatagram(p, ts)
        PROVE  now' \in Nat
    BY <2>3, PcapAssumption
       DEF ReadOther, ReadWhole, ReadShort, ReadFragment, ReadDatagram, Capture
  <2>4. ASSUME NEW p \in Frames, NEW ts \in now..MaxTime,
               ReadOther(p, ts) \/ ReadWhole(p, ts)
        PROVE  IInv'
    BY <2>1, <2>4 DEF ReadOther, ReadWhole, reasmVars
  <2>5. ASSUME NEW p \in Frames, NEW ts \in now..MaxTime, ReadShort(p, ts)
        PROVE  IInv'
    <3>1. ts \in Nat
      BY <2>5, PcapAssumption
    <3>2. Kept(Live(ts))
      BY <3>1, LiveKept DEF IInv
    <3>3. entries' = Live(ts) /\ out' = out
      BY <2>5 DEF ReadShort, FragUnrecognized
    <3> QED
      BY <3>2, <3>3 DEF IInv, OutInv
  <2>6. CASE ReadNone
    BY <2>1, <2>6 DEF ReadNone, reasmVars
  <2>7. CASE Close
    BY <2>1, <2>7 DEF Close, ReasmFree
  <2>8. CASE UNCHANGED vars
    BY <2>1, <2>8 DEF vars, reasmVars
  <2>9. CASE Finished
    BY <2>8, <2>9 DEF Finished
  <2> QED
    BY <2>2, <2>3, <2>4, <2>5, <2>6, <2>7, <2>8, <2>9 DEF Next
<1> QED
  BY <1>1, <1>2, PTL DEF Spec

-----------------------------------------------------------------------------
(***************************************************************************)
(* The order of the time-outs                                              *)
(*                                                                         *)
(* process_timeouts() ends its walk at the first entry that has time left. *)
(* That no entry behind it is overdue needs that the list is in the order  *)
(* of the time-outs: an entry gets the time of the fragment that makes it  *)
(* and goes to the end, so it has to be that time does not go back.        *)
(***************************************************************************)
Ordered(es, lo, hi) ==
    /\ es \in Seq(Entry)
    /\ \A i \in DOMAIN es : lo <= es[i].timeout /\ es[i].timeout <= hi
    /\ \A i, j \in DOMAIN es : i <= j => es[i].timeout <= es[j].timeout
    /\ \A i, j \in DOMAIN es : es[i].id = es[j].id => i = j

\* What a list of entries holds.
LEMMA EntryTimes ==
    ASSUME NEW es \in Seq(Entry)
    PROVE  \A i \in DOMAIN es : es[i] \in Entry /\ es[i].timeout \in Nat
<1> SUFFICES ASSUME NEW i \in DOMAIN es
             PROVE  es[i] \in Entry /\ es[i].timeout \in Nat
  OBVIOUS
<1>1. i \in 1..Len(es)
  OBVIOUS
<1>2. es[i] \in Entry
  BY <1>1, ElementOfSeq
<1> QED
  BY <1>2 DEF Entry

TimeInv ==
    /\ now \in Nat /\ seen \in 0..now
    /\ Ordered(entries, seen, seen + Timeout)

\* A list that has some of another's entries, in their order, is in order too.
LEMMA OrderedPart ==
    ASSUME NEW s, NEW lo \in Nat, NEW hi \in Nat, Ordered(s, lo, hi),
           NEW t \in Seq(Entry), NEW h \in [DOMAIN t -> DOMAIN s],
           \A i, j \in DOMAIN t : i < j => h[i] < h[j],
           \A i \in DOMAIN t : t[i].id = s[h[i]].id /\ t[i].timeout = s[h[i]].timeout
    PROVE  Ordered(t, lo, hi)
<1>1. /\ DOMAIN s = 1..Len(s) /\ Len(s) \in Nat
      /\ DOMAIN t = 1..Len(t) /\ Len(t) \in Nat
  BY DEF Ordered
<1>2. \A i \in DOMAIN t : h[i] \in DOMAIN s /\ h[i] \in Nat
  BY <1>1
<1>3. \A i \in DOMAIN t : lo <= t[i].timeout /\ t[i].timeout <= hi
  BY <1>2 DEF Ordered
<1>4. ASSUME NEW i \in DOMAIN t, NEW j \in DOMAIN t, i <= j
      PROVE  t[i].timeout <= t[j].timeout
  <2>1. h[i] <= h[j]
    BY <1>1, <1>2, <1>4
  <2>2. s[h[i]].timeout <= s[h[j]].timeout
    BY <1>2, <2>1 DEF Ordered
  <2> QED
    BY <2>2
<1>5. ASSUME NEW i \in DOMAIN t, NEW j \in DOMAIN t, t[i].id = t[j].id
      PROVE  i = j
  <2>1. h[i] = h[j]
    BY <1>2, <1>5 DEF Ordered
  <2>2. ~(h[i] < h[j]) /\ ~(h[j] < h[i])
    BY <1>2, <2>1
  <2>3. ~(i < j) /\ ~(j < i)
    BY <2>2
  <2> QED
    BY <1>1, <2>3
<1> QED
  BY <1>3, <1>4, <1>5 DEF Ordered

\* What process_timeouts() walks over is a prefix of the list, and behind it
\* nothing is overdue.
LEMMA LiveOrdered ==
    ASSUME NEW lo \in Nat, NEW hi \in Nat, Ordered(entries, lo, hi),
           NEW ts \in Nat
    PROVE  /\ Live(ts) \in Seq(Entry)
           /\ Ordered(Live(ts), ts, hi)
           /\ Cardinality(Expired(ts)) \in Nat
           /\ Len(Live(ts)) = Len(entries) - Cardinality(Expired(ts))
<1> DEFINE n == Len(entries)
           late == {i \in DOMAIN entries : ~(entries[i].timeout < ts)}
           c == Cardinality(Expired(ts))
<1>1. entries \in Seq(Entry) /\ n \in Nat /\ DOMAIN entries = 1..n
  BY DEF Ordered
<1>2. \A i \in 1..n : entries[i] \in Entry /\ entries[i].timeout \in Nat
  BY <1>1, EntryTimes
<1>3. \E k \in 0..n : /\ Expired(ts) = 1..k
                      /\ \A i \in (k + 1)..n : entries[i].timeout >= ts
  <2>1. CASE late = {}
    <3>1. Expired(ts) = 1..n
      BY <1>1, <2>1 DEF Expired
    <3>2. n \in 0..n /\ (n + 1)..n = {}
      BY <1>1
    <3> QED
      BY <3>1, <3>2
  <2>2. CASE late # {}
    <3>1. late \subseteq Nat
      BY <1>1
    <3>2. PICK x \in late : \A y \in late : x <= y
      <4> HIDE DEF late
      <4> QED
        BY <2>2, <3>1, LeastNat
    <3>3. x \in 1..n /\ entries[x].timeout >= ts
      BY <1>1, <1>2, <3>2
    <3>4. \A i \in 1..(x - 1) : i \in 1..n /\ entries[i].timeout < ts
      BY <1>1, <3>2, <3>3
    <3>5. \A i \in x..n : entries[i].timeout >= ts
      <4> SUFFICES ASSUME NEW i \in x..n PROVE entries[i].timeout >= ts
        OBVIOUS
      <4>1. i \in 1..n /\ x <= i
        BY <3>3, <1>1
      <4>2. entries[x].timeout <= entries[i].timeout
        BY <1>1, <3>3, <4>1 DEF Ordered
      <4> QED
        BY <1>2, <3>3, <4>1, <4>2
    <3>6. Expired(ts) = 1..(x - 1)
      <4>1. ASSUME NEW i \in 1..n PROVE i \in Expired(ts) <=> i \in 1..(x - 1)
        <5>1. CASE i < x
          <6>1. i \in 1..(x - 1) /\ \A j \in 1..i : j \in 1..(x - 1)
            BY <1>1, <3>3, <5>1
          <6> QED
            BY <1>1, <3>4, <6>1 DEF Expired
        <5>2. CASE ~(i < x)
          <6>1. x \in 1..i /\ i \notin 1..(x - 1)
            BY <1>1, <3>3, <5>2
          <6>2. ~(entries[x].timeout < ts)
            BY <1>2, <3>3
          <6> QED
            BY <6>1, <6>2 DEF Expired
        <5> QED
          BY <5>1, <5>2
      <4>2. Expired(ts) \subseteq 1..n /\ 1..(x - 1) \subseteq 1..n
        BY <1>1, <3>3 DEF Expired
      <4> QED
        BY <4>1, <4>2
    <3>7. x - 1 \in 0..n /\ (x - 1) + 1 = x
      BY <1>1, <3>3
    <3> QED
      BY <3>5, <3>6, <3>7
  <2> QED
    BY <2>1, <2>2
<1>4. PICK k \in 0..n : /\ Expired(ts) = 1..k
                        /\ \A i \in (k + 1)..n : entries[i].timeout >= ts
  BY <1>3
<1>5. c = k
  <2>1. Cardinality(1..k) = IF 1 > k THEN 0 ELSE k - 1 + 1
    BY <1>4, FS_Interval
  <2> QED
    BY <1>1, <1>4, <2>1
<1> DEFINE t == Live(ts)
           h == [i \in DOMAIN t |-> i + k]
<1>6. t = SubSeq(entries, k + 1, n)
  BY <1>5 DEF Live
<1>7. /\ t \in Seq(Entry) /\ Len(t) = n - k /\ DOMAIN t = 1..(n - k)
      /\ \A i \in 1..(n - k) : t[i] = entries[i + k]
  <2>1. SubSeq(entries, k + 1, n) \in Seq(Entry)
    BY <1>1, <1>4, SubSeqProperties
  <2>2. /\ Len(SubSeq(entries, k + 1, n)) = IF k + 1 <= n THEN n - (k + 1) + 1 ELSE 0
        /\ \A i \in 1..(n - (k + 1) + 1) :
              SubSeq(entries, k + 1, n)[i] = entries[(k + 1) + i - 1]
    BY <1>1, <1>4, SubSeqProperties
  <2>3. Len(t) = n - k
    <3>1. Len(t) = IF k + 1 <= n THEN n - (k + 1) + 1 ELSE 0
      BY <1>6, <2>2
    <3> HIDE DEF t, n
    <3> QED
      BY <1>1, <1>4, <3>1
  <2>4. \A i \in 1..(n - k) : t[i] = entries[i + k]
    <3> SUFFICES ASSUME NEW i \in 1..(n - k) PROVE t[i] = entries[i + k]
      OBVIOUS
    <3>1. i \in 1..(n - (k + 1) + 1) /\ (k + 1) + i - 1 = i + k
      BY <1>1, <1>4
    <3> QED
      BY <1>6, <2>2, <3>1
  <2> QED
    BY <1>6, <2>1, <2>3, <2>4
<1> HIDE DEF t
<1>8. Ordered(t, lo, hi)
  <2>1. h \in [DOMAIN t -> DOMAIN entries]
    BY <1>1, <1>4, <1>7
  <2>2. \A i, j \in DOMAIN t : i < j => h[i] < h[j]
    BY <1>1, <1>4, <1>7
  <2>3. \A i \in DOMAIN t : t[i].id = entries[h[i]].id /\ t[i].timeout = entries[h[i]].timeout
    BY <1>7
  <2> HIDE DEF h
  <2> QED
    BY <1>7, <2>1, <2>2, <2>3, OrderedPart, ZenonT(30)
<1>9. \A i \in DOMAIN t : ts <= t[i].timeout
  <2> SUFFICES ASSUME NEW i \in DOMAIN t PROVE ts <= t[i].timeout
    OBVIOUS
  <2>1. i + k \in (k + 1)..n /\ i + k \in 1..n
    BY <1>1, <1>4, <1>7
  <2>2. entries[i + k].timeout >= ts
    BY <1>4, <2>1
  <2> QED
    BY <1>2, <1>7, <2>1, <2>2
<1>10. Ordered(t, ts, hi)
  BY <1>8, <1>9 DEF Ordered
<1> QED
  BY <1>4, <1>5, <1>7, <1>10 DEF t

\* An entry that is new goes to the end, with the latest time-out of all.
LEMMA LookupOrdered ==
    ASSUME NEW lo \in Nat, Ordered(entries, lo, lo + Timeout),
           NEW id \in Ids, NEW ts \in Nat, lo <= ts
    PROVE  LET es == Lookup(id, ts)
           IN  /\ Ordered(es, ts, ts + Timeout)
               /\ Place(es, id) \in DOMAIN es
               /\ Len(es) - Len(Live(ts)) \in {0, 1}
<1> DEFINE es == Lookup(id, ts)
           lv == Live(ts)
           n == Len(lv)
<1>1. Timeout \in Nat
  BY ReasmAssumption
<1>2. lv \in Seq(Entry) /\ Ordered(lv, ts, lo + Timeout)
  BY <1>1, LiveOrdered
<1>3. n \in Nat /\ DOMAIN lv = 1..n
  BY <1>2
<1> HIDE DEF lv
<1>4. \A i \in DOMAIN lv : lv[i] \in Entry /\ lv[i].timeout \in Nat
  BY <1>2, EntryTimes
<1>5. \A i \in DOMAIN lv : lv[i].timeout <= ts + Timeout
  BY <1>1, <1>2, <1>4 DEF Ordered
<1>6. CASE \E i \in DOMAIN lv : lv[i].id = id
  <2>1. es = lv
    BY <1>6 DEF Lookup, lv
  <2>2. Ordered(es, ts, ts + Timeout)
    BY <1>2, <1>5, <2>1 DEF Ordered
  <2> QED
    BY <1>3, <1>6, <2>1, <2>2 DEF Place, lv
<1>7. CASE ~(\E i \in DOMAIN lv : lv[i].id = id)
  <2> DEFINE new == NewEntry(id, ts)
  <2>1. es = Append(lv, new)
    BY <1>7 DEF Lookup, lv
  <2>2. new \in Entry /\ new.id = id /\ new.timeout = ts + Timeout
    BY <1>1 DEF NewEntry, Entry
  <2> HIDE DEF new
  <2>3. /\ es \in Seq(Entry) /\ Len(es) = n + 1 /\ DOMAIN es = 1..(n + 1)
        /\ \A i \in 1..n : es[i] = lv[i]
        /\ es[n + 1] = new
    BY <1>2, <1>3, <2>1, <2>2
  <2> HIDE DEF es
  <2>4. \A i \in DOMAIN es : i \in 1..n \/ i = n + 1
    BY <1>3, <2>3
  <2>5. ASSUME NEW i \in DOMAIN es
        PROVE  ts <= es[i].timeout /\ es[i].timeout <= ts + Timeout
    BY <1>1, <1>2, <1>3, <1>5, <2>2, <2>3, <2>4 DEF Ordered
  <2>6. ASSUME NEW i \in DOMAIN es, NEW j \in DOMAIN es, i <= j
        PROVE  es[i].timeout <= es[j].timeout
    <3>1. CASE j = n + 1
      BY <1>1, <2>2, <2>3, <2>5, <3>1
    <3>2. CASE j \in 1..n
      <4>1. i \in 1..n
        BY <1>3, <2>3, <2>6, <3>2
      <4> QED
        BY <1>2, <1>3, <2>3, <2>6, <3>2, <4>1 DEF Ordered
    <3> QED
      BY <2>4, <3>1, <3>2
  <2>7. ASSUME NEW i \in DOMAIN es, NEW j \in DOMAIN es, es[i].id = es[j].id
        PROVE  i = j
    <3>1. \A k \in 1..n : es[k].id # id
      BY <1>3, <1>7, <2>3
    <3>2. CASE i \in 1..n /\ j \in 1..n
      BY <1>2, <1>3, <2>3, <2>7, <3>2 DEF Ordered
    <3> QED
      BY <2>2, <2>3, <2>4, <2>7, <3>1, <3>2
  <2>8. Ordered(es, ts, ts + Timeout)
    BY <2>3, <2>5, <2>6, <2>7 DEF Ordered
  <2>9. \E i \in DOMAIN es : es[i].id = id
    <3>1. n + 1 \in DOMAIN es
      BY <1>3, <2>3
    <3> QED
      BY <2>2, <2>3, <3>1
  <2>10. Place(es, id) \in DOMAIN es
    BY <2>9 DEF Place
  <2> QED
    BY <1>3, <2>3, <2>8, <2>10 DEF es, lv
<1> QED
  BY <1>6, <1>7

\* A fragment leaves the list in order, whatever becomes of it.
LEMMA FragOrdered ==
    ASSUME NEW lo \in Nat, Ordered(entries, lo, lo + Timeout),
           NEW f \in Fragment, NEW ts \in Nat, lo <= ts,
           \/ FragDropped(f, ts) \/ FragRejected(f, ts)
           \/ FragStored(f, ts) \/ FragCompletes(f, ts)
    PROVE  Ordered(entries', ts, ts + Timeout)
<1> DEFINE es == Lookup(f.id, ts)
           i == Place(es, f.id)
           ent == es[i]
           hi == ts + Timeout
<1>1. f.id \in Ids /\ hi \in Nat
  BY ReasmAssumption DEF Fragment
<1>2. Ordered(es, ts, hi) /\ i \in DOMAIN es
  BY <1>1, LookupOrdered
<1>3. es \in Seq(Entry) /\ Len(es) \in Nat /\ DOMAIN es = 1..Len(es)
  BY <1>2 DEF Ordered
<1> HIDE DEF es, i, hi
<1>4. ent \in Entry
  BY <1>2, <1>3, ElementOfSeq
<1>5. ASSUME NEW new \in Entry, new.id = ent.id, new.timeout = ent.timeout
      PROVE  Ordered([es EXCEPT ![i] = new], ts, hi)
  <2> DEFINE t == [es EXCEPT ![i] = new]
             h == [j \in DOMAIN es |-> j]
  <2>1. t \in Seq(Entry) /\ DOMAIN t = DOMAIN es
    BY <1>2, <1>3, ExceptSeq
  <2>2. \A j \in DOMAIN es : t[j].id = es[j].id /\ t[j].timeout = es[j].timeout
    BY <1>2, <1>5
  <2> HIDE DEF t
  <2>3. h \in [DOMAIN t -> DOMAIN es] /\ \A j \in DOMAIN t : h[j] = j
    BY <2>1
  <2>4. \A j, k \in DOMAIN t : j < k => h[j] < h[k]
    BY <2>3
  <2>5. \A j \in DOMAIN t : t[j].id = es[h[j]].id /\ t[j].timeout = es[h[j]].timeout
    BY <2>1, <2>2, <2>3
  <2> HIDE DEF h
  <2>6. t \in Seq(Entry) /\ h \in [DOMAIN t -> DOMAIN es]
    BY <2>1, <2>3
  <2>7. Ordered(t, ts, hi)
    BY <1>1, <1>2, <2>4, <2>5, <2>6, OrderedPart, ZenonT(30)
  <2> QED
    BY <2>7 DEF t
<1>6. CASE FragDropped(f, ts)
  BY <1>2, <1>6 DEF FragDropped, es, hi
<1>7. CASE FragRejected(f, ts)
  <2> DEFINE inv == [ent EXCEPT !.state = "invalid"]
  <2>1. entries' = [es EXCEPT ![i].state = "invalid"]
    BY <1>7 DEF FragRejected, es, i
  <2>2. [es EXCEPT ![i].state = "invalid"] = [es EXCEPT ![i] = inv]
    OBVIOUS
  <2>3. inv \in Entry /\ inv.id = ent.id /\ inv.timeout = ent.timeout
    BY <1>4 DEF Entry
  <2> HIDE DEF inv
  <2> QED
    BY <1>5, <2>1, <2>2, <2>3 DEF hi
<1>8. CASE FragStored(f, ts)
  <2> DEFINE new == AddFragment(ent, f)
  <2>1. entries' = [es EXCEPT ![i] = new]
    BY <1>8 DEF FragStored, es, i
  <2>2. new \in Entry
    BY <1>4, AddedFields
  <2>3. new.id = ent.id /\ new.timeout = ent.timeout
    BY <1>4 DEF AddFragment, Entry
  <2> HIDE DEF new
  <2> QED
    BY <1>5, <2>1, <2>2, <2>3 DEF hi
<1>9. CASE FragCompletes(f, ts)
  <2> DEFINE n == Len(es)
             a == SubSeq(es, 1, i - 1)
             b == SubSeq(es, i + 1, n)
             t == a \o b
             h == [j \in 1..(n - 1) |-> IF j < i THEN j ELSE j + 1]
  <2>1. entries' = t
    BY <1>9 DEF FragCompletes, es, i
  <2>2. i \in 1..n /\ n \in Nat
    BY <1>2, <1>3
  <2>3. /\ a \in Seq(Entry) /\ Len(a) = i - 1
        /\ \A j \in 1..(i - 1) : a[j] = es[j]
    <3>1. /\ a \in Seq(Entry)
          /\ Len(a) = IF 1 <= i - 1 THEN i - 1 - 1 + 1 ELSE 0
          /\ \A j \in 1..(i - 1 - 1 + 1) : a[j] = es[1 + j - 1]
      BY <1>3, <2>2, SubSeqProperties
    <3> QED
      BY <2>2, <3>1
  <2>4. /\ b \in Seq(Entry) /\ Len(b) = n - i
        /\ \A j \in 1..(n - i) : b[j] = es[i + j]
    <3>1. /\ b \in Seq(Entry)
          /\ Len(b) = IF i + 1 <= n THEN n - (i + 1) + 1 ELSE 0
          /\ \A j \in 1..(n - (i + 1) + 1) : b[j] = es[(i + 1) + j - 1]
      BY <1>3, <2>2, SubSeqProperties
    <3> QED
      BY <2>2, <3>1
  <2> HIDE DEF a, b
  <2>5. /\ t \in Seq(Entry) /\ DOMAIN t = 1..(n - 1)
        /\ \A j \in 1..(n - 1) : t[j] = IF j <= i - 1 THEN a[j] ELSE b[j - (i - 1)]
    BY <2>2, <2>3, <2>4
  <2> HIDE DEF t
  <2>6. \A j \in 1..(n - 1) : t[j] = es[h[j]]
    <3> SUFFICES ASSUME NEW j \in 1..(n - 1) PROVE t[j] = es[h[j]]
      OBVIOUS
    <3>1. CASE j < i
      BY <2>2, <2>3, <2>5, <3>1
    <3>2. CASE ~(j < i)
      <4>1. j - (i - 1) \in 1..(n - i) /\ i + (j - (i - 1)) = j + 1
        BY <2>2, <3>2
      <4>2. t[j] = b[j - (i - 1)] /\ h[j] = j + 1
        BY <2>2, <2>5, <3>2
      <4> QED
        BY <2>4, <4>1, <4>2
    <3> QED
      BY <3>1, <3>2
  <2>7. h \in [DOMAIN t -> DOMAIN es]
    BY <1>3, <2>2, <2>5
  <2>8. \A j, k \in DOMAIN t : j < k => h[j] < h[k]
    BY <2>2, <2>5
  <2>9. \A j \in DOMAIN t : t[j].id = es[h[j]].id /\ t[j].timeout = es[h[j]].timeout
    BY <2>5, <2>6
  <2> HIDE DEF h, n
  <2>10. Ordered(t, ts, hi)
    BY <1>1, <1>2, <2>5, <2>7, <2>8, <2>9, OrderedPart, ZenonT(90)
  <2> QED
    BY <2>1, <2>10 DEF hi
<1> QED
  BY <1>6, <1>7, <1>8, <1>9

\* The statistics follow the list: what was looked up is counted when it is
\* made, and no longer when it has timed out or is complete.
LEMMA AccountFacts ==
    ASSUME NEW lo \in Nat, Ordered(entries, lo, lo + Timeout), NEW ts \in Nat,
           waiting = Len(entries), max_waiting \in Nat, max_waiting >= waiting,
           timed_out \in Nat,
           NEW es, Len(es) \in Nat, Len(es) - Len(Live(ts)) \in {0, 1},
           Len(entries') \in Nat, Len(entries') <= Len(es), Account(ts, es)
    PROVE  /\ waiting' = Len(entries')
           /\ max_waiting' \in Nat /\ max_waiting' >= waiting'
           /\ timed_out' \in Nat
<1> DEFINE c == Cardinality(Expired(ts))
           n == Len(entries)
           m == Len(es)
           l == Len(Live(ts))
           q == Len(entries')
           made == m - l
           most == waiting - c + made
<1>1. c \in Nat /\ l = n - c /\ n \in Nat
  <2>1. lo + Timeout \in Nat
    BY ReasmAssumption
  <2>2. entries \in Seq(Entry)
    BY DEF Ordered
  <2> QED
    BY <2>1, <2>2, LiveOrdered
<1>2. /\ timed_out' = timed_out + c
      /\ max_waiting' = IF made = 1 /\ most > max_waiting THEN most ELSE max_waiting
      /\ waiting' = most - (m - q)
  BY DEF Account
<1>3. waiting = n /\ m \in Nat /\ q \in Nat /\ q <= m /\ m - l \in {0, 1}
  OBVIOUS
<1> HIDE DEF c, n, m, l, q
<1>4. most = m /\ m \in Nat
  BY <1>1, <1>3
<1>5. waiting' = q
  BY <1>2, <1>3, <1>4
<1>6. max_waiting' \in Nat /\ max_waiting' >= m
  BY <1>1, <1>2, <1>3, <1>4
<1> QED
  BY <1>1, <1>2, <1>3, <1>5, <1>6 DEF q

\* The types that the other invariants do not speak of.
RestInv ==
    /\ waiting = Len(entries) /\ max_waiting \in Nat /\ max_waiting >= waiting
    /\ timed_out \in Nat /\ dropped_frags \in Nat
    /\ versions \in Filters
    /\ now \in 0..MaxTime
    /\ res \in {"again", "success", "error", "eof"}
    /\ frames \in 0..MaxFrames
    /\ handed \subseteq [id : Ids, how : {"whole", "reassembled"}]

\* A fragment keeps the statistics.
LEMMA FragCounted ==
    ASSUME IInv, TimeInv, RestInv, NEW f \in Fragment, NEW ts \in Nat, seen <= ts,
           \/ FragDropped(f, ts) \/ FragRejected(f, ts)
           \/ FragStored(f, ts) \/ FragCompletes(f, ts)
    PROVE  /\ waiting' = Len(entries')
           /\ max_waiting' \in Nat /\ max_waiting' >= waiting'
           /\ timed_out' \in Nat /\ dropped_frags' \in Nat
<1> DEFINE es == Lookup(f.id, ts)
           i == Place(es, f.id)
<1>1. seen \in Nat /\ Ordered(entries, seen, seen + Timeout) /\ f.id \in Ids
  BY DEF TimeInv, Fragment
<1>2. /\ Ordered(es, ts, ts + Timeout) /\ i \in DOMAIN es
      /\ Len(es) - Len(Live(ts)) \in {0, 1}
  BY <1>1, LookupOrdered
<1>3. es \in Seq(Entry) /\ Len(es) \in Nat /\ DOMAIN es = 1..Len(es)
  BY <1>2 DEF Ordered
<1>4. Account(ts, es)
  BY DEF FragDropped, FragRejected, FragStored, FragCompletes
<1>5. Len(entries') \in Nat /\ Len(entries') <= Len(es)
  <2> HIDE DEF es, i
  <2>1. CASE FragDropped(f, ts)
    BY <1>3, <2>1 DEF FragDropped, es
  <2>2. CASE FragRejected(f, ts)
    <3>1. entries' = [es EXCEPT ![i].state = "invalid"]
      BY <2>2 DEF FragRejected, es, i
    <3>2. Len(entries') = Len(es)
      BY <1>3, <3>1
    <3> QED
      BY <1>3, <3>2
  <2>3. CASE FragStored(f, ts)
    <3>1. entries' = [es EXCEPT ![i] = AddFragment(es[i], f)]
      BY <2>3 DEF FragStored, es, i
    <3>2. Len(entries') = Len(es)
      BY <1>3, <3>1
    <3> QED
      BY <1>3, <3>2
  <2>4. CASE FragCompletes(f, ts)
    <3> DEFINE a == SubSeq(es, 1, i - 1)
               b == SubSeq(es, i + 1, Len(es))
    <3>1. entries' = a \o b
      BY <2>4 DEF FragCompletes, es, i
    <3>2. i \in 1..Len(es)
      BY <1>2, <1>3
    <3>3. a \in Seq(Entry) /\ Len(a) = IF 1 <= i - 1 THEN i - 1 - 1 + 1 ELSE 0
      BY <1>3, <3>2, SubSeqProperties
    <3>4. b \in Seq(Entry) /\ Len(b) = IF i + 1 <= Len(es) THEN Len(es) - (i + 1) + 1 ELSE 0
      BY <1>3, <3>2, SubSeqProperties
    <3> HIDE DEF a, b
    <3>5. Len(entries') = Len(a) + Len(b)
      BY <3>1, <3>3, <3>4
    <3>6. i \in Nat /\ 1 <= i /\ i <= Len(es) /\ Len(es) \in Nat
      BY <1>3, <3>2
    <3>7. Len(a) = i - 1
      BY <3>3, <3>6
    <3>8. Len(b) = Len(es) - i
      BY <3>4, <3>6
    <3> QED
      BY <3>5, <3>6, <3>7, <3>8
  <2> QED
    BY <2>1, <2>2, <2>3, <2>4
<1>6. dropped_frags' \in Nat
  <2>1. es[i] \in Entry
    BY <1>2, <1>3, ElementOfSeq
  <2>2. es[i].count \in Nat /\ dropped_frags \in Nat
    BY <2>1 DEF Entry, RestInv
  <2>3. dropped_frags' \in {dropped_frags, dropped_frags + 1, dropped_frags + es[i].count + 1}
    BY DEF FragDropped, FragRejected, FragStored, FragCompletes
  <2> QED
    BY <2>2, <2>3
<1>7. /\ waiting' = Len(entries')
      /\ max_waiting' \in Nat /\ max_waiting' >= waiting'
      /\ timed_out' \in Nat
  <2> HIDE DEF es
  <2> QED
    BY <1>1, <1>2, <1>3, <1>4, <1>5, AccountFacts DEF RestInv
<1> QED
  BY <1>6, <1>7

\* The list is in the order of the time-outs, all between the last fragment's
\* time and that plus the time allowed, and has one entry for each datagram.
THEOREM TimeOrder == Spec => []TimeInv
<1>1. Init => TimeInv
  BY ReasmAssumption DEF Init, ReasmInit, TimeInv, Ordered
<1>2. TimeInv /\ [Next]_vars => TimeInv'
  <2> SUFFICES ASSUME TimeInv, [Next]_vars PROVE TimeInv'
    OBVIOUS
  <2>1. /\ now \in Nat /\ seen \in Nat /\ seen <= now
        /\ Ordered(entries, seen, seen + Timeout) /\ Timeout \in Nat
    BY ReasmAssumption DEF TimeInv
  <2>2. ASSUME entries' = entries, seen' = seen, now' = now \/ (now' \in Nat /\ now <= now')
        PROVE  TimeInv'
    BY <2>1, <2>2 DEF TimeInv
  <2>3. ASSUME NEW p \in Frames, NEW ts \in now..MaxTime,
               ReadOther(p, ts) \/ ReadWhole(p, ts)
        PROVE  TimeInv'
    <3>1. now' = ts /\ ts \in Nat /\ now <= ts
      BY <2>1, <2>3, PcapAssumption DEF ReadOther, ReadWhole, Capture
    <3>2. entries' = entries /\ seen' = seen
      BY <2>3 DEF ReadOther, ReadWhole, reasmVars
    <3> QED
      BY <2>2, <3>1, <3>2
  <2>4. ASSUME NEW p \in Frames, NEW ts \in now..MaxTime, ReadShort(p, ts)
        PROVE  TimeInv'
    <3>1. now' = ts /\ seen' = ts /\ ts \in Nat /\ seen <= ts
      BY <2>1, <2>4, PcapAssumption DEF ReadShort, Capture
    <3>2. entries' = Live(ts)
      BY <2>4 DEF ReadShort, FragUnrecognized
    <3>3. Ordered(Live(ts), ts, seen + Timeout) /\ Live(ts) \in Seq(Entry)
      BY <2>1, <3>1, LiveOrdered
    <3>4. \A i \in DOMAIN Live(ts) : Live(ts)[i].timeout \in Nat
      BY <3>3, EntryTimes
    <3>5. Ordered(Live(ts), ts, ts + Timeout)
      BY <2>1, <3>1, <3>3, <3>4 DEF Ordered
    <3> QED
      BY <3>1, <3>2, <3>5 DEF TimeInv
  <2>5. ASSUME NEW p \in Frames, NEW ts \in now..MaxTime,
               ReadFragment(p, ts) \/ ReadDatagram(p, ts)
        PROVE  TimeInv'
    <3>1. p.frag \in Fragment
      BY PcapAssumption DEF FrameOk, Frame
    <3>2. now' = ts /\ seen' = ts /\ ts \in Nat /\ seen <= ts
      BY <2>1, <2>5, PcapAssumption DEF ReadFragment, ReadDatagram, Capture
    <3>3. \/ FragDropped(p.frag, ts) \/ FragRejected(p.frag, ts)
          \/ FragStored(p.frag, ts) \/ FragCompletes(p.frag, ts)
      BY <2>5 DEF ReadFragment, ReadDatagram
    <3>4. Ordered(entries', ts, ts + Timeout)
      BY <2>1, <3>1, <3>2, <3>3, FragOrdered
    <3> QED
      BY <3>2, <3>4 DEF TimeInv
  <2>6. CASE ReadNone
    BY <2>2, <2>6 DEF ReadNone, reasmVars
  <2>7. CASE Close
    <3>1. entries' = <<>> /\ now' = now /\ seen' = seen
      BY <2>7 DEF Close, ReasmFree
    <3>2. Ordered(<<>>, seen, seen + Timeout)
      BY DEF Ordered
    <3> QED
      BY <2>1, <3>1, <3>2 DEF TimeInv
  <2>8. CASE Finished \/ UNCHANGED vars
    BY <2>2, <2>8 DEF Finished, vars, reasmVars
  <2> QED
    BY <2>3, <2>4, <2>5, <2>6, <2>7, <2>8 DEF Next
<1> QED
  BY <1>1, <1>2, PTL DEF Spec

-----------------------------------------------------------------------------
(***************************************************************************)
(* Theorems                                                                *)
(***************************************************************************)

\* The invariant says that an entry's fragments do not overlap.
LEMMA EntriesDisjoint == IInv => FragmentsDisjoint
<1> SUFFICES ASSUME IInv, NEW i \in DOMAIN entries
             PROVE  /\ Disjoint(entries[i].frags)
                    /\ entries[i].state = "active" => Below(entries[i].frags, entries[i].len)
  BY DEF FragmentsDisjoint, Disjoint, Below
<1> QED
  BY DEF IInv, Kept, EntryInv, ActiveInv

\* It says that holes are counted.
LEMMA EntriesCounted == IInv => HoleCount
<1> SUFFICES ASSUME IInv, NEW i \in DOMAIN entries, entries[i].state = "active"
             PROVE  LET ent == entries[i]
                        holes == Cardinality(HoleStarts(ent))
                    IN  /\ ent.holes >= holes
                        /\ ent.early \/ ent.holes = holes
                        /\ ent.holes > 0
  BY DEF HoleCount
<1> DEFINE ent == entries[i]
<1>1. ent \in Entry /\ EntryInv(ent) /\ ent.holes # 0
  BY ElementOfSeq DEF IInv, Kept
<1> HIDE DEF ent
<1>2. HoleStarts(ent) = Starts(ent.frags, ent.len)
  BY DEF HoleStarts, Starts, Covered, Hit
<1>3. IsFiniteSet(ent.frags) /\ ActiveInv(ent)
  BY <1>1 DEF EntryInv, ent
<1>4. Cardinality(Starts(ent.frags, ent.len)) \in Nat /\ ent.holes \in Int
  BY <1>1, <1>3, StartsFinite DEF Entry
<1>5. /\ ent.holes >= Cardinality(HoleStarts(ent))
      /\ ent.early \/ ent.holes = Cardinality(HoleStarts(ent))
      /\ ent.holes > 0
  BY <1>1, <1>2, <1>3, <1>4 DEF ActiveInv
<1> QED
  BY <1>5 DEF ent

\* Every variable stays within its type, and the count of the datagrams waiting
\* is the length of the list: each entry made is counted once, and each one
\* timed out, completed or freed is counted off once.
THEOREM TypeCorrect == Spec => []TypeOK
<1>1. Init => RestInv
  BY PcapAssumption DEF Init, ReasmInit, RestInv
<1>2. IInv /\ TimeInv /\ RestInv /\ [Next]_vars => RestInv'
  <2> SUFFICES ASSUME IInv, TimeInv, RestInv, [Next]_vars PROVE RestInv'
    OBVIOUS
  <2> DEFINE Stats ==
               /\ waiting = Len(entries) /\ max_waiting \in Nat /\ max_waiting >= waiting
               /\ timed_out \in Nat /\ dropped_frags \in Nat
  <2>1. Stats /\ seen \in Nat /\ seen <= now /\ Ordered(entries, seen, seen + Timeout)
    BY DEF RestInv, TimeInv
  <2>2. ASSUME NEW p \in Frames, NEW ts \in now..MaxTime, Stats', Capture(p, ts),
               Again \/ \E how \in {"whole", "reassembled"} : Hand(p.frag.id, how)
        PROVE  RestInv'
    <3>1. now' \in 0..MaxTime /\ frames' \in 0..MaxFrames /\ versions' \in Filters
      BY <2>2, PcapAssumption DEF Capture, RestInv
    <3>2. p.frag.id \in Ids
      BY PcapAssumption DEF FrameOk, Frame, Fragment
    <3>3. /\ res' \in {"again", "success", "error", "eof"}
          /\ handed' \subseteq [id : Ids, how : {"whole", "reassembled"}]
      BY <2>2, <3>2 DEF Again, Hand
    <3> QED
      BY <2>2, <3>1, <3>3 DEF RestInv
  <2>3. ASSUME UNCHANGED reasmVars PROVE Stats'
    BY <2>1, <2>3 DEF reasmVars
  <2>4. \A ts \in now..MaxTime : ts \in Nat /\ seen <= ts
    BY <2>1, PcapAssumption DEF RestInv
  <2>5. \A p \in Frames : p.frag \in Fragment
    BY PcapAssumption DEF FrameOk, Frame
  <2>6. ASSUME NEW p \in Frames, NEW ts \in now..MaxTime,
               ReadOther(p, ts) \/ ReadWhole(p, ts)
        PROVE  RestInv'
    <3>1. UNCHANGED reasmVars /\ Capture(p, ts)
      BY <2>6 DEF ReadOther, ReadWhole
    <3>2. Again \/ Hand(p.frag.id, "whole")
      BY <2>6 DEF ReadOther, ReadWhole
    <3> HIDE DEF Stats
    <3> QED
      BY <2>2, <2>3, <3>1, <3>2
  <2>7. ASSUME NEW p \in Frames, NEW ts \in now..MaxTime, ReadShort(p, ts)
        PROVE  RestInv'
    <3>1. /\ entries' = Live(ts) /\ Account(ts, Live(ts)) /\ dropped_frags' = dropped_frags
          /\ Capture(p, ts) /\ Again
      BY <2>7 DEF ReadShort, FragUnrecognized
    <3>2. Live(ts) \in Seq(Entry)
      BY <2>1, <2>4, LiveOrdered, ReasmAssumption
    <3>3. Len(Live(ts)) \in Nat /\ Len(Live(ts)) - Len(Live(ts)) \in {0, 1}
      BY <3>2
    <3>4. /\ waiting' = Len(entries') /\ max_waiting' \in Nat /\ max_waiting' >= waiting'
          /\ timed_out' \in Nat
      BY <2>1, <2>4, <3>1, <3>3, AccountFacts
    <3>5. Stats'
      BY <2>1, <3>1, <3>4
    <3> HIDE DEF Stats
    <3> QED
      BY <2>2, <3>1, <3>5
  <2>8. ASSUME NEW p \in Frames, NEW ts \in now..MaxTime,
               ReadFragment(p, ts) \/ ReadDatagram(p, ts)
        PROVE  RestInv'
    <3>1. /\ Capture(p, ts)
          /\ \/ FragDropped(p.frag, ts) \/ FragRejected(p.frag, ts)
             \/ FragStored(p.frag, ts) \/ FragCompletes(p.frag, ts)
      BY <2>8 DEF ReadFragment, ReadDatagram
    <3>2. Again \/ Hand(p.frag.id, "reassembled")
      BY <2>8 DEF ReadFragment, ReadDatagram
    <3>3. Stats'
      BY <2>4, <2>5, <3>1, FragCounted
    <3> HIDE DEF Stats
    <3> QED
      BY <2>2, <3>1, <3>2, <3>3
  <2>9. CASE ReadNone
    BY <2>9 DEF ReadNone, RestInv, reasmVars
  <2>10. CASE Close
    BY <2>10 DEF Close, ReasmFree, RestInv
  <2>11. CASE Finished \/ UNCHANGED vars
    BY <2>11 DEF Finished, vars, reasmVars, RestInv
  <2> QED
    BY <2>6, <2>7, <2>8, <2>9, <2>10, <2>11 DEF Next
<1>3. IInv /\ TimeInv /\ RestInv => TypeOK
  BY DEF IInv, Kept, OutInv, TimeInv, RestInv, TypeOK
<1> QED
  BY <1>1, <1>2, <1>3, Invariance, TimeOrder, PTL DEF Spec

\* Fragments never overlap: the checks of add_fragment() on the two neighbours
\* are enough, for datagrams and fragments of any size.
THEOREM FragmentsNeverOverlap == Spec => []FragmentsDisjoint
  BY Invariance, EntriesDisjoint, PTL

\* The count of holes is never less than the number of holes, and equal to it
\* but for an early empty fragment, whatever the order of the fragments.
THEOREM HolesAreCounted == Spec => []HoleCount
  BY Invariance, EntriesCounted, PTL

\* What assemble() is given has every byte of the datagram exactly once.
THEOREM DatagramsAreWhole == Spec => []AssembledWhole
<1>1. IInv => AssembledWhole
  <2> SUFFICES ASSUME IInv, NEW ent \in out, NEW b \in 0..(ent.len - 1)
               PROVE  Cardinality({f \in ent.frags : f.offset <= b /\ b < End(f)}) = 1
    BY DEF AssembledWhole
  <2>1. /\ ent.frags \in SUBSET Piece /\ ent.len \in Nat
        /\ IsPieces(ent.frags) /\ Disjoint(ent.frags) /\ Starts(ent.frags, ent.len) = {}
    BY DEF IInv, OutInv, Entry, Piece, IsPieces
  <2> QED
    BY <2>1, NoHoleNoGap
<1> QED
  BY <1>1, Invariance, PTL

\* After a fragment no entry of the list is overdue, and no datagram has two:
\* the walk of process_timeouts() may end where it does.
THEOREM NoEntryOverdue == Spec => []NoneOverdue
<1>1. TimeInv => NoneOverdue
  <2> SUFFICES ASSUME TimeInv PROVE NoneOverdue
    OBVIOUS
  <2>1. seen \in Nat /\ Ordered(entries, seen, seen + Timeout)
    BY DEF TimeInv
  <2>2. \A i \in DOMAIN entries : entries[i].timeout \in Nat
    BY <2>1, EntryTimes DEF Ordered
  <2> QED
    BY <2>1, <2>2 DEF NoneOverdue, Ordered
<1> QED
  BY <1>1, TimeOrder, PTL

\* The user's filter is applied to every datagram handed on, but for an IPv6
\* datagram that came in one packet.
THEOREM FilterIsApplied == Spec => []FilteredDelivery
<1>1. Init => FilteredDelivery
  BY DEF Init, FilteredDelivery
<1>2. FilteredDelivery /\ [Next]_vars => FilteredDelivery'
  <2> SUFFICES ASSUME FilteredDelivery, [Next]_vars PROVE FilteredDelivery'
    OBVIOUS
  <2>1. ASSUME handed' = {} PROVE FilteredDelivery'
    BY <2>1 DEF FilteredDelivery
  <2>2. ASSUME NEW p \in Frames, NEW ts \in now..MaxTime,
               ReadOther(p, ts) \/ ReadShort(p, ts) \/ ReadFragment(p, ts)
        PROVE  FilteredDelivery'
    BY <2>1, <2>2 DEF ReadOther, ReadShort, ReadFragment, Again
  <2>3. ASSUME NEW p \in Frames, NEW ts \in now..MaxTime, ReadWhole(p, ts)
        PROVE  FilteredDelivery'
    <3>1. Datagrams[p.frag.id].ip \in {4, 6}
      BY PcapAssumption DEF FrameOk, Frame, Fragment
    <3>2. versions' = versions /\ p.kind = "whole" /\ Captured(p)
      BY <2>3 DEF ReadWhole, Capture
    <3>3. Matches(p.frag.id) \/ Datagrams[p.frag.id].ip = 6
      BY <3>1, <3>2 DEF Captured, Matches
    <3>4. handed' \subseteq {[id |-> p.frag.id, how |-> "whole"]}
      BY <2>3 DEF ReadWhole, Hand, Again
    <3> QED
      BY <3>2, <3>3, <3>4 DEF FilteredDelivery, Matches
  <2>4. ASSUME NEW p \in Frames, NEW ts \in now..MaxTime, ReadDatagram(p, ts)
        PROVE  FilteredDelivery'
    <3>1. CASE handed' = {}
      BY <2>1, <3>1
    <3>2. CASE handed' # {}
      <4>1. /\ versions' = versions
            /\ handed' = {[id |-> p.frag.id, how |-> "reassembled"]}
            /\ \A d \in out' : Refilter(p.frag.id, d)
        BY <2>4, <3>2 DEF ReadDatagram, Capture, Hand, Again
      <4>2. out' # {}
        BY <2>4 DEF ReadDatagram, FragCompletes
      <4>3. Matches(p.frag.id)
        BY <4>1, <4>2 DEF Refilter
      <4> QED
        BY <4>1, <4>3 DEF FilteredDelivery, Matches
    <3> QED
      BY <3>1, <3>2
  <2>5. CASE ReadNone
    BY <2>1, <2>5 DEF ReadNone
  <2>6. CASE Close \/ Finished \/ UNCHANGED vars
    BY <2>6 DEF Close, Finished, vars, FilteredDelivery, Matches
  <2> QED
    BY <2>2, <2>3, <2>4, <2>5, <2>6 DEF Next
<1> QED
  BY <1>1, <1>2, PTL DEF Spec
=============================================================================
