------------------------------ MODULE DnsqrReasm ------------------------------
(***************************************************************************)
(* The dnsqr module's own copy of the reassembly, nmsg/base/ipreasm.c.  It *)
(* works as nmsg/ipreasm.c, modelled by IpReasm, does: the holes, the      *)
(* overlap checks and the time-outs are the same code.  What differs is    *)
(* that a complete entry is handed out, with the fragments in it and the   *)
(* time at which each was captured.                                        *)
(***************************************************************************)
EXTENDS IpReasm

\* A fragment as an entry keeps it: reasm_frag_entry.
StampedPiece == [offset : Nat, len : Nat \ {0}, last : BOOLEAN, ts : Nat]

\* reasm_add_fragment(): an empty fragment is not inserted.
BaseAdd(ent, f, ts) ==
    [AddFragment(ent, f) EXCEPT
        !.frags = ent.frags \cup
            IF f.len = 0 THEN {}
            ELSE {[offset |-> f.offset, len |-> f.len, last |-> f.last, ts |-> ts]}]

\* reasm_ip_next() with something that is no whole fragment.
ReasmOther(ts) == FragUnrecognized(ts)

\* reasm_ip_next(): the fragment is dropped, or makes its datagram invalid, or
\* is stored and leaves a hole.
ReasmMore(f, ts) ==
    LET es == Lookup(f.id, ts)
        i == Place(es, f.id)
        new == BaseAdd(es[i], f, ts)
    IN  \/ FragDropped(f, ts)
        \/ FragRejected(f, ts)
        \/ /\ es[i].state = "active" /\ ~Rejected(es[i], f)
           /\ new.holes # 0
           /\ entries' = [es EXCEPT ![i] = new]
           /\ Account(ts, es)
           /\ UNCHANGED <<dropped_frags, out>>

\* reasm_ip_next(): the entry is complete and belongs to the caller now.
ReasmDone(f, ts) ==
    LET es == Lookup(f.id, ts)
        i == Place(es, f.id)
        new == BaseAdd(es[i], f, ts)
    IN  /\ es[i].state = "active" /\ ~Rejected(es[i], f)
        /\ new.holes = 0
        /\ entries' = SubSeq(es, 1, i - 1) \o SubSeq(es, i + 1, Len(es))
        /\ out' = {new}
        /\ Account(ts, es)
        /\ UNCHANGED dropped_frags

\* reasm_assemble() leaves nothing when the datagram is too long.
Assembles(ent) == ent.len + HdrSz <= OutSz

\* The fragments are in a list by their offsets: the one dnsqr_append_frag() appends
\* first.
Lowest(pieces) == CHOOSE p \in pieces : \A q \in pieces : p.offset <= q.offset
FirstPiece(ent) == Lowest(ent.frags)
=============================================================================
