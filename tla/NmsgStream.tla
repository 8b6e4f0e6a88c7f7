------------------------------ MODULE NmsgStream ------------------------------
(***************************************************************************)
(* A stream output and a stream input at the two ends of a network (or of  *)
(* a file): the composition of NmsgOutput and NmsgInput over the datagrams *)
(* they share.  A read copies a datagram out of the network in one step,   *)
(* so steps of the two ends simply interleave.                             *)
(***************************************************************************)
EXTENDS NmsgOutput, NmsgInput, SequencesExt

vars == <<conf, bodies, net, outVars, inVars>>

Init ==
    /\ conf \in Configs
    /\ bodies = <<>> /\ net = <<>>
    /\ OutputInit /\ InputInit

\* A file is read once its writer has closed it.
Readable == conf.type = "file" => opc = "closed" /\ sid = conf.max.opens

Finished == ended # "no" /\ opc = "closed" /\ UNCHANGED vars

Next ==
    \/ OutputNext /\ UNCHANGED inVars
    \/ Readable /\ InputNext /\ UNCHANGED outVars
    \/ Finished

Spec == Init /\ [][Next]_vars

-----------------------------------------------------------------------------
(***************************************************************************)
(* Properties of the output                                                *)
(***************************************************************************)
WireMessage == [kind : Nat, tag : Nat, len : PayloadLens, fixed : 0..64,
                no : Nat]

\* What nmsg_container_serialize() may write, header and sequence fields
\* included, never exceeds the estsz bytes it allocates, also for the container
\* the message at hand would make; a fragmented container has no header.
Serializes(cont) ==
    \/ cont.payloads = <<>>
    \/ ContainerOverfull(cont) /\ PackedLen(cont, sequence) <= cont.estsz
    \/ NMSG_HDRLSZ_V2 + PackedLen(cont, sequence) <= cont.estsz

SerializeFits ==
    /\ Serializes(c)
    /\ opc \in {"add", "readd"} /\ ~ContainerFull(c, msg) =>
          Serializes(ContainerAdd(c, msg))

\* Only a message that is too large by itself is ever fragmented: the full
\* test of nmsg_container_add() leaves room for every byte the estimate adds,
\* so messages that were buffered together never share the risk of a lost
\* fragment.
FragmentsHoldOneMessage ==
    \A i \in 1..Len(bodies) :
        bodies[i].frags > 0 => Len(bodies[i].payloads) = 1

\* Messages reach the containers in the order they were written and none
\* twice; every message reported as written is in a serialized container or
\* still in the open one, and after a close in a serialized one.
AcceptedOnce ==
    LET cont(i) == IF i <= Len(bodies) THEN bodies[i].payloads ELSE c.payloads
    IN  /\ \A i, j \in 1..(Len(bodies) + 1) :
             \A p \in 1..Len(cont(i)), q \in 1..Len(cont(j)) :
                 i < j \/ (i = j /\ p < q) => cont(i)[p].no < cont(j)[q].no
        /\ \A m \in accepted : \E i \in 1..(Len(bodies) + 1) :
             \E p \in 1..Len(cont(i)) : cont(i)[p] = m

-----------------------------------------------------------------------------
(***************************************************************************)
(* Properties of the input                                                 *)
(***************************************************************************)

\* stream->nfrags, which decides whether fragments are ever expired, is the
\* number of entries in the tree; an entry misses as many pieces as rem says,
\* and at least one.
FragmentTree ==
    /\ nfrags = Cardinality(frags)
    /\ \A ent \in frags :
         /\ ent.rem > 0
         /\ ent.rem + Cardinality(ent.pieces) = ent.last + 1
         /\ \A other \in frags : other.key = ent.key => other = ent

\* Reassembly never mixes two containers, although their fragments arrive
\* lost, repeated, out of order and under one random id.
ReassembledWhole == \A i \in 1..Len(recv) : recv[i] # Garbage

\* "reassemble if all the fragments have been gathered": the tree holds no
\* container all of whose fragments have been received.  (It may when a packed
\* container is a multiple of MaxFragsz bytes long, a case of its own.)
CompleteIsReassembled ==
    \A ent \in frags : \A b \in 1..Len(bodies) :
        ent.pieces # (0..(bodies[b].frags - 1)) \X {b}

\* Fragments of a container that never completes are freed: when a read
\* returns, none has been waiting for two intervals, although a container in
\* pieces is looked at only when a walk of the whole tree is due.  (A read that
\* fails does not walk it; it is the last one.)
FragmentsExpire ==
    conf.type = "sock" /\ ended = "no" => \A ent \in frags : now - ent.ts < 2 * FragGC

\* On a network that keeps the order, what a source was seen to send and what
\* it is said to have lost add up to the containers it numbered, through
\* restarts, wrapping numbers and counts started anew; the input's own total
\* never exceeds what was really lost.
DropsExact ==
    conf.type = "sock" /\ conf.fifo =>
        /\ \A i \in 1..Len(seqsrcs) :
             LET src == seqsrcs[i]
                 mine == {b \in Range(recv) : bodies[b].sid = src.sid}
             IN  src.count + src.dropped = Max(mine) + 1 - src.from
        /\ count_drop + count_recv <= Len(bodies)

\* The caller gets, of every container unpacked, exactly the messages its
\* filters want, in order and without waiting for another container.
DeliveredFiltered ==
    LET payloads(n) == bodies[recv[n]].payloads
        taken(n) == IF n = Len(recv) /\ cur # NULL THEN index ELSE Len(payloads(n))
    IN  /\ \A k \in 1..Len(delivered) :
             LET d == delivered[k]
             IN  /\ d.read \in 1..Len(recv) /\ d.index \in 1..taken(d.read)
                 /\ d.msg = payloads(d.read)[d.index] /\ Filter(d.msg)
        /\ \A k, l \in 1..Len(delivered) :
             k < l => \/ delivered[k].read < delivered[l].read
                      \/ /\ delivered[k].read = delivered[l].read
                         /\ delivered[k].index < delivered[l].index
        /\ \A n \in 1..Len(recv) : \A i \in 1..taken(n) :
             Filter(payloads(n)[i]) =>
                 \E k \in 1..Len(delivered) : delivered[k].read = n /\ delivered[k].index = i

\* A file gives back what was written to it: at its end, all messages reported
\* as written and wanted by the reader's filter, in order and once each.
FileRoundTrip ==
    conf.type = "file" /\ ended = "eof" =>
        /\ {delivered[i].msg : i \in 1..Len(delivered)} = {m \in accepted : Filter(m)}
        /\ \A i, j \in 1..Len(delivered) :
             i < j => delivered[i].msg.no < delivered[j].msg.no

-----------------------------------------------------------------------------
(***************************************************************************)
(* What the documentation says, and the code does not do                   *)
(***************************************************************************)

\* "An NMSG unit consists of a small fixed-length header which precedes a
\* variable length part": whatever a stream output writes a stream input can
\* read, and no read of it ends in an error.
OutputIsReadable == ended # "error"
=============================================================================
