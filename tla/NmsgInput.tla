------------------------------ MODULE NmsgInput ------------------------------
(***************************************************************************)
(* A stream input: _input_nmsg_read() of nmsg/input_nmsg.c on a socket or  *)
(* a file, with reassembly (nmsg/input_frag.c) and the accounting of lost  *)
(* containers by sequence number (nmsg/input_seqsrc.c).                    *)
(*                                                                         *)
(* Datagrams may be lost, and on a network that is not "fifo" also be      *)
(* repeated and overtake each other; a file is read in order.              *)
(***************************************************************************)
EXTENDS NmsgContainer, FiniteSets

CONSTANTS
    FragGC,     \* NMSG_FRAG_GC_INTERVAL, 30 seconds in the code
    SeqsrcGC,   \* NMSG_SEQSRC_GC_INTERVAL, 120 seconds
    MaxDelta,   \* the largest plausible loss, 1048576 in the code
    Epoch       \* the time when the input is opened

ASSUME InputAssumption ==
    /\ FragGC \in Nat \ {0} /\ SeqsrcGC \in Nat /\ MaxDelta \in Nat
    /\ Epoch \in Nat /\ FragGC <= Epoch /\ SeqsrcGC <= Epoch

VARIABLES
    clock,      \* nmsg_timespec_get()
    now,        \* stream->now: when a read last returned
    lastgc,     \* stream->lastgc
    frags,      \* stream->nft: entries [key, last, rem, ts, pieces], by key
    nfrags,     \* stream->nfrags
    seqsrcs,    \* stream->seqsrcs, the list
    cur,        \* stream->nmsg: the number of the container, 0 if NULL
    index,      \* stream->np_index, counted from 1
    count_recv, count_drop,
    ended,      \* "eof" or "error" once a read said so and io_thr_input()
                \* left its loop
    reads,      \* datagrams read so far
    pos,        \* the next datagram of a network that keeps the order
    recv,       \* history: the containers unpacked, in order
    delivered   \* history: what was returned to the caller, in order: [msg, read,
                \* index], the message and its place in which container of recv

inVars == <<clock, now, lastgc, frags, nfrags, seqsrcs, cur, index, count_recv,
            count_drop, ended, reads, pos, recv, delivered>>

NULL == 0
Garbage == -1       \* the pieces of different containers put together

InputInit ==
    /\ clock = Epoch /\ now = 0 /\ lastgc = 0
    /\ frags = {} /\ nfrags = 0
    /\ seqsrcs = <<>>
    /\ cur = NULL /\ index = 0
    /\ count_recv = 0 /\ count_drop = 0
    /\ ended = "no" /\ reads = 0 /\ pos = 1
    /\ recv = <<>> /\ delivered = <<>>

-----------------------------------------------------------------------------
(***************************************************************************)
(* Reassembly.  The crc of a packed container tells its bytes apart, so    *)
(* the container's number stands for the crc.                              *)
(***************************************************************************)

\* Mutant: fragments are told apart by their random id only.
FragKey_IdOnly(d) == <<d.id>>

FragKey(d) == <<d.id, d.body>>

\* The entry of the tree for datagram d, and whether there is none.
Entries(d) == {ent \in frags : ent.key = FragKey(d)}
FragNew(d) == Entries(d) = {}

FragFind(d) ==
    IF FragNew(d)
    THEN [key |-> FragKey(d), last |-> d.last, rem |-> d.last + 1, ts |-> clock,
          pieces |-> {}]
    ELSE CHOOSE ent \in Entries(d) : TRUE

\* The entry with the fragment attached; one received before is ignored.
FragAttach(ent, d) ==
    IF \E p \in ent.pieces : p[1] = d.current THEN ent
    ELSE [ent EXCEPT !.pieces = @ \cup {<<d.current, d.body>>}, !.rem = @ - 1]

\* reassemble_frags(): the container the pieces make up.
Reassemble(ent) ==
    LET whole == {b \in 1..Len(bodies) : ent.pieces = (0..ent.last) \X {b}}
    IN  IF whole = {} THEN Garbage ELSE CHOOSE b \in whole : TRUE

\* Whether _input_frag_gc() walks the tree.
GcDue(n, lgc) == n > 0 /\ clock - lgc >= FragGC

\* Mutant: nothing expires.
FragGcTree_Never(tree) == tree

\* The tree without the entries it expires.
FragGcTree(tree) ==
    {ent \in tree : clock - ent.ts < FragGC}

\* The tree and the counter after a read of a socket that left them as given:
\* _input_frag_gc().  Files have none.
FragGc(tree, n) ==
    IF conf.type = "sock" /\ GcDue(n, lastgc)
    THEN /\ frags' = FragGcTree(tree)
         /\ nfrags' = n - Cardinality(tree \ FragGcTree(tree))
         /\ lastgc' = clock
    ELSE frags' = tree /\ nfrags' = n /\ lastgc' = lastgc

-----------------------------------------------------------------------------
(***************************************************************************)
(* Sequence numbers, by source                                             *)
(***************************************************************************)

\* _input_seqsrc_get(): the source of container b and where it was in the list,
\* or a new one behind its end.
Source(b) ==
    LET id == bodies[b].sid
        match == {i \in 1..Len(seqsrcs) : seqsrcs[i].sid = id}
        at == IF match = {} THEN Len(seqsrcs) + 1 ELSE CHOOSE i \in match : TRUE
        src == IF match = {}
               THEN [sid |-> id, seq |-> 0, count |-> 0, dropped |-> 0,
                     init |-> TRUE, last |-> clock, from |-> b]
               ELSE [seqsrcs[at] EXCEPT !.last = clock]
    IN  [src |-> src, found |-> match # {}, at |-> at]

\* ... which leaves of the list, but for that source: those passed on the way
\* that have been silent for long are freed.
Fresh(at) == {i \in 1..(at - 1) : seqsrcs[i].last >= clock - SeqsrcGC}
OtherSources(at, kept) ==
    [i \in 1..Len(kept) |-> seqsrcs[kept[i]]] \o SubSeq(seqsrcs, at + 1, Len(seqsrcs))

\* The distance from the expected to the received number, modulo 2^32.
SeqDelta(wire, expected) == (wire - expected) % SeqSpace

\* Mutant: a loss does not move the expected number past it.
SourceUpdate_Behind(src, b) ==
    LET wire == bodies[b].seq
        delta == SeqDelta(wire, src.seq)
        next == [src EXCEPT !.seq = (@ + 1) % SeqSpace, !.init = FALSE]
    IN  IF src.seq = wire \/ src.init THEN [next EXCEPT !.count = @ + 1]
        ELSE IF delta > MaxDelta
        THEN [next EXCEPT !.count = 0, !.dropped = 0, !.from = b + 1]
        ELSE [next EXCEPT !.count = @ + 1, !.dropped = @ + delta]

\* _input_seqsrc_update(): the source after container b.  A distance that is
\* implausibly large starts the counts anew; "from" is history, the container
\* they start at.
SourceUpdate(src, b) ==
    LET wire == bodies[b].seq
        delta == SeqDelta(wire, src.seq)
        next == [src EXCEPT !.seq = (wire + 1) % SeqSpace, !.init = FALSE]
    IN  IF src.seq = wire \/ src.init THEN [next EXCEPT !.count = @ + 1]
        ELSE IF delta > MaxDelta
        THEN [next EXCEPT !.count = 0, !.dropped = 0, !.from = b + 1]
        ELSE [next EXCEPT !.count = @ + 1, !.dropped = @ + delta]

\* ... and the drops it reports.
SourceDrop(src, b) ==
    LET delta == SeqDelta(bodies[b].seq, src.seq)
    IN  IF src.seq = bodies[b].seq \/ src.init \/ delta > MaxDelta THEN 0 ELSE delta

\* The counters of a socket after container b; its source is moved to the head of
\* the list, and a new one put at its end.
CountContainer(b) ==
    IF conf.type # "sock" \/ b = Garbage
    THEN UNCHANGED <<count_recv, count_drop, seqsrcs>>
    ELSE LET get == Source(b)
             src == SourceUpdate(get.src, b)
         IN  /\ count_recv' = count_recv + 1
             /\ count_drop' = count_drop + SourceDrop(get.src, b)
             /\ \E kept \in Picks(get.at - 1) :
                  /\ {kept[i] : i \in DOMAIN kept} = Fresh(get.at)
                  /\ seqsrcs' = IF get.found THEN <<src>> \o OtherSources(get.at, kept)
                                ELSE Append(OtherSources(get.at, kept), src)

-----------------------------------------------------------------------------
(***************************************************************************)
(* _input_nmsg_read                                                        *)
(***************************************************************************)

\* _input_nmsg_filter(): by (vid, msgtype), and by source, operator and group.
Filter(m) ==
    /\ conf.inKind # 0 => m.kind = conf.inKind
    /\ conf.inTag # 0 => m.tag = conf.inTag

\* Take payload i of container b, the n-th that was unpacked: the message, or
\* nmsg_res_again when the filter does not want it.
Deliver(n, b, i) ==
    LET m == bodies[b].payloads[i]
    IN  delivered' = IF Filter(m)
                     THEN Append(delivered, [msg |-> m, read |-> n, index |-> i])
                     ELSE delivered

\* The current container has been handed out (or there is none).
Exhausted == cur # NULL => index >= Len(bodies[cur].payloads)

\* Mutant: a payload the filter does not want ends the container.
ReadNext_SkipsRest ==
    /\ ended = "no" /\ cur # NULL
    /\ index < Len(bodies[cur].payloads)
    /\ index' = IF Filter(bodies[cur].payloads[index + 1])
                THEN index + 1 ELSE Len(bodies[cur].payloads)
    /\ Deliver(Len(recv), cur, index + 1)
    /\ UNCHANGED <<conf, bodies, net, clock, now, lastgc, frags, nfrags, seqsrcs,
                   cur, count_recv, count_drop, ended, reads, pos, recv>>

\* The next payload of the current container.
ReadNext ==
    /\ ended = "no" /\ cur # NULL
    /\ index < Len(bodies[cur].payloads)
    /\ index' = index + 1
    /\ Deliver(Len(recv), cur, index + 1)
    /\ UNCHANGED <<conf, bodies, net, clock, now, lastgc, frags, nfrags, seqsrcs,
                   cur, count_recv, count_drop, ended, reads, pos, recv>>

\* poll() timed out or was interrupted: nmsg_res_again.
ReadAgain ==
    /\ ended = "no" /\ Exhausted
    /\ conf.type = "sock"
    /\ cur' = NULL
    /\ UNCHANGED <<conf, bodies, net, clock, now, lastgc, frags, nfrags, seqsrcs,
                   index, count_recv, count_drop, ended, reads, pos, recv, delivered>>

\* The end of the file: nmsg_res_eof.
ReadEof ==
    /\ ended = "no" /\ Exhausted
    /\ conf.type = "file" /\ pos > Len(net)
    /\ cur' = NULL
    /\ ended' = "eof"
    /\ UNCHANGED <<conf, bodies, net, clock, now, lastgc, frags, nfrags, seqsrcs,
                   index, count_recv, count_drop, reads, pos, recv, delivered>>

\* Datagram j arrives; on a network that keeps the order those before it are
\* lost.
Arrive(j) ==
    /\ ended = "no" /\ Exhausted
    /\ reads < conf.max.reads /\ reads' = reads + 1
    /\ conf.fifo => j >= pos
    /\ conf.type = "file" => j = pos
    /\ pos' = IF conf.fifo THEN j + 1 ELSE pos
    /\ now' = clock
    /\ UNCHANGED <<conf, bodies, net, clock>>

\* A container was unpacked: count it, return its first payload.
Unpacked(b) ==
    /\ CountContainer(b)
    /\ recv' = Append(recv, b)
    /\ cur' = (IF b = Garbage THEN NULL ELSE b) /\ index' = 1
    /\ IF b = Garbage THEN UNCHANGED delivered ELSE Deliver(Len(recv) + 1, b, 1)
    /\ UNCHANGED ended

ReadWhole(j) ==
    /\ net[j].type = "whole"
    /\ Arrive(j)
    /\ Unpacked(net[j].body)
    /\ FragGc(frags, nfrags)

\* _input_frag_read(): some fragments are still missing.
ReadFrag(j) ==
    LET d == net[j]
        ent == FragAttach(FragFind(d), d)
    IN  /\ d.type = "frag"
        /\ Arrive(j)
        /\ ent.rem > 0
        /\ FragGc((frags \ Entries(d)) \cup {ent},
                  IF FragNew(d) THEN nfrags + 1 ELSE nfrags)
        /\ cur' = NULL
        /\ UNCHANGED <<seqsrcs, index, count_recv, count_drop, ended, recv, delivered>>

\* Mutant: the entry leaves the tree and stays in the counter.
ReadLastFrag_NoDecrement(j) ==
    LET d == net[j]
        ent == FragAttach(FragFind(d), d)
    IN  /\ d.type = "frag"
        /\ Arrive(j)
        /\ ent.rem = 0
        /\ Unpacked(Reassemble(ent))
        /\ FragGc(frags \ Entries(d),
                  IF FragNew(d) THEN nfrags + 1 ELSE nfrags)

\* The last fragment arrived: the entry leaves the tree.
ReadLastFrag(j) ==
    LET d == net[j]
        ent == FragAttach(FragFind(d), d)
    IN  /\ d.type = "frag"
        /\ Arrive(j)
        /\ ent.rem = 0
        /\ Unpacked(Reassemble(ent))
        /\ FragGc(frags \ Entries(d),
                  IF FragNew(d) THEN nfrags ELSE nfrags - 1)

\* No NMSG header: the magic does not match and the read fails.
ReadBare(j) ==
    /\ net[j].type = "bare"
    /\ Arrive(j)
    /\ ended' = "error"
    /\ cur' = NULL
    /\ UNCHANGED <<lastgc, frags, nfrags, seqsrcs, index, count_recv, count_drop,
                   recv, delivered>>

Tick ==
    /\ clock < Epoch + conf.max.time
    /\ clock' = clock + 1
    /\ UNCHANGED <<conf, bodies, net, now, lastgc, frags, nfrags, seqsrcs, cur,
                   index, count_recv, count_drop, ended, reads, pos, recv, delivered>>

InputNext ==
    \/ ReadNext \/ ReadAgain \/ ReadEof \/ Tick
    \/ \E j \in 1..Len(net) :
          ReadWhole(j) \/ ReadFrag(j) \/ ReadLastFrag(j) \/ ReadBare(j)
=============================================================================
