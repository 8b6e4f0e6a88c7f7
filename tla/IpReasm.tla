-------------------------------- MODULE IpReasm --------------------------------
(***************************************************************************)
(* Reassembly of IP datagrams, nmsg/ipreasm.c: one entry per datagram with *)
(* the fragments received so far, a count of the holes that remain between *)
(* them, and the list in which the entries time out.                       *)
(*                                                                         *)
(* The fragments of an entry are kept in a list sorted by offset.  No two  *)
(* in it have the same offset, so that the list is modelled by the set of  *)
(* them; its head, of length 0 at offset 0, is there in CurEnd.  The hash  *)
(* table is modelled by what it is for, finding the entry of an id.        *)
(***************************************************************************)
EXTENDS Integers, Sequences, FiniteSets

CONSTANTS
    Ids,        \* what reasm_id_equal() tells apart
    Timeout,    \* reasm->timeout
    OutSz,      \* the size of the output buffer, NMSG_IPSZ_MAX
    HdrSz       \* offset0: the header kept from the first fragment

ASSUME ReasmAssumption == Timeout \in Nat /\ OutSz \in Nat /\ HdrSz \in Nat

\* A fragment: of which datagram, where its bytes go, whether it is the last.
Fragment == [id : Ids, offset : Nat, len : Nat, last : BOOLEAN]

\* The bytes of a fragment, as an entry keeps them.
Piece == [offset : Nat, len : Nat \ {0}]

\* "early" is history: an empty last fragment has come before the fragment to
\* its left.
Entry == [id : Ids, len : Nat, holes : Int, count : Nat, timeout : Nat,
          state : {"active", "invalid"}, frags : SUBSET Piece, early : BOOLEAN]

VARIABLES
    entries,        \* the entries, in the order in which they time out
    waiting, max_waiting, timed_out, dropped_frags,     \* the statistics
    out             \* the entry assembled last

reasmVars == <<entries, waiting, max_waiting, timed_out, dropped_frags, out>>

ReasmInit ==
    /\ entries = <<>>
    /\ waiting = 0 /\ max_waiting = 0 /\ timed_out = 0 /\ dropped_frags = 0
    /\ out = {}

-----------------------------------------------------------------------------
(***************************************************************************)
(* add_fragment                                                            *)
(***************************************************************************)
End(f) == f.offset + f.len

\* cur: the last fragment that does not start behind f, or the list head.
Left(frags, f) == {g \in frags : g.offset <= f.offset}
CurEnd(frags, f) ==
    IF Left(frags, f) = {} THEN 0
    ELSE End(CHOOSE g \in Left(frags, f) :
                \A h \in Left(frags, f) : h.offset <= g.offset)

\* next: the first one behind it.
Right(frags, f) == {g \in frags : g.offset > f.offset}
NextOffset(frags, f) ==
    (CHOOSE g \in Right(frags, f) :
        \A h \in Right(frags, f) : g.offset <= h.offset).offset

\* Mutant: what starts behind the new fragment is not looked at.
Rejected_LeftOnly(ent, f) ==
    \/ ~f.last /\ f.len % 8 # 0
    \/ ent.len # 0 /\ End(f) > ent.len
    \/ ent.len # 0 /\ f.last
    \/ CurEnd(ent.frags, f) > f.offset

\* More fragments follow one of an odd length; the fragment goes past the end
\* of the datagram, ends it a second time or before its neighbour; it
\* overlaps with a neighbour.
Rejected(ent, f) ==
    \/ ~f.last /\ f.len % 8 # 0
    \/ ent.len # 0 /\ End(f) > ent.len
    \/ ent.len # 0 /\ f.last
    \/ CurEnd(ent.frags, f) > f.offset
    \/ /\ Right(ent.frags, f) # {}
       /\ f.last \/ End(f) > NextOffset(ent.frags, f)

FitLeft(ent, f) == CurEnd(ent.frags, f) = f.offset
FitRight(ent, f) ==
    f.last \/ (Right(ent.frags, f) # {} /\ End(f) = NextOffset(ent.frags, f))

\* Mutant: a fragment in the middle of a hole leaves it one hole.
Holes_NoSplit(ent, f) ==
    ent.holes + IF FitLeft(ent, f) /\ FitRight(ent, f) THEN -1 ELSE 0

\* A fragment fills a hole, splits it in two or makes it smaller.  An empty one
\* matters only when it is the last and fits.
Holes(ent, f) ==
    ent.holes + CASE FitLeft(ent, f) /\ FitRight(ent, f) /\ (f.len # 0 \/ f.last) -> -1
                  [] ~FitLeft(ent, f) /\ ~FitRight(ent, f) /\ f.len # 0 -> 1
                  [] OTHER -> 0

AddFragment(ent, f) ==
    [ent EXCEPT !.len = IF f.last THEN End(f) ELSE @,
                !.holes = Holes(ent, f),
                !.count = IF f.len = 0 THEN @ ELSE @ + 1,
                !.frags = IF f.len = 0 THEN @
                          ELSE @ \cup {[offset |-> f.offset, len |-> f.len]},
                !.early = @ \/ (f.last /\ f.len = 0 /\ ~FitLeft(ent, f))]

-----------------------------------------------------------------------------
(***************************************************************************)
(* reasm_ip_next                                                           *)
(***************************************************************************)
NewEntry(id, ts) ==
    [id |-> id, len |-> 0, holes |-> 1, count |-> 0, timeout |-> ts + Timeout,
     state |-> "active", frags |-> {}, early |-> FALSE]

\* process_timeouts(): the walk ends at the first entry that has time left.
Expired(ts) == {i \in DOMAIN entries : \A j \in 1..i : entries[j].timeout < ts}
Live(ts) == SubSeq(entries, Cardinality(Expired(ts)) + 1, Len(entries))

\* Mutant: a new entry is the first to be looked at.
Lookup_First(id, ts) ==
    IF \E i \in DOMAIN Live(ts) : Live(ts)[i].id = id THEN Live(ts)
    ELSE <<NewEntry(id, ts)>> \o Live(ts)

\* The entries once the one for this id has been found or made.
Lookup(id, ts) ==
    IF \E i \in DOMAIN Live(ts) : Live(ts)[i].id = id THEN Live(ts)
    ELSE Append(Live(ts), NewEntry(id, ts))

Place(es, id) == CHOOSE i \in DOMAIN es : es[i].id = id

\* The statistics, once es has been looked up and entries' follows from it.
Account(ts, es) ==
    LET made == Len(es) - Len(Live(ts))
        most == waiting - Cardinality(Expired(ts)) + made
    IN  /\ timed_out' = timed_out + Cardinality(Expired(ts))
        /\ max_waiting' = IF made = 1 /\ most > max_waiting THEN most ELSE max_waiting
        /\ waiting' = most - (Len(es) - Len(entries'))

\* The length field says more than was captured: parse_packet() takes it for no
\* fragment, and only the time-outs are processed.
FragUnrecognized(ts) ==
    /\ entries' = Live(ts)
    /\ Account(ts, Live(ts))
    /\ UNCHANGED <<dropped_frags, out>>

\* The datagram has been given up already.
FragDropped(f, ts) ==
    LET es == Lookup(f.id, ts)
    IN  /\ es[Place(es, f.id)].state = "invalid"
        /\ dropped_frags' = dropped_frags + 1
        /\ entries' = es
        /\ Account(ts, es)
        /\ UNCHANGED out

\* It does not go with the others: the datagram is given up, and what comes of
\* it dropped, until it times out.  (entry->len may have been set by then; it is
\* not read any more.)
FragRejected(f, ts) ==
    LET es == Lookup(f.id, ts)
        i == Place(es, f.id)
    IN  /\ es[i].state = "active" /\ Rejected(es[i], f)
        /\ dropped_frags' = dropped_frags + es[i].count + 1
        /\ entries' = [es EXCEPT ![i].state = "invalid"]
        /\ Account(ts, es)
        /\ UNCHANGED out

\* More are to come.
FragStored(f, ts) ==
    LET es == Lookup(f.id, ts)
        i == Place(es, f.id)
        new == AddFragment(es[i], f)
    IN  /\ es[i].state = "active" /\ ~Rejected(es[i], f)
        /\ new.holes # 0
        /\ entries' = [es EXCEPT ![i] = new]
        /\ Account(ts, es)
        /\ UNCHANGED <<dropped_frags, out>>

\* The datagram is complete: assemble() and drop_entry().
FragCompletes(f, ts) ==
    LET es == Lookup(f.id, ts)
        i == Place(es, f.id)
        new == AddFragment(es[i], f)
    IN  /\ es[i].state = "active" /\ ~Rejected(es[i], f)
        /\ new.holes = 0
        /\ entries' = SubSeq(es, 1, i - 1) \o SubSeq(es, i + 1, Len(es))
        /\ out' = {new}
        /\ Account(ts, es)
        /\ UNCHANGED dropped_frags

\* reasm_ip_free()
ReasmFree ==
    /\ entries' = <<>> /\ waiting' = 0
    /\ UNCHANGED <<max_waiting, timed_out, dropped_frags, out>>
=============================================================================
