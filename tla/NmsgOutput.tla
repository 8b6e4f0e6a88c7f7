------------------------------ MODULE NmsgOutput ------------------------------
(***************************************************************************)
(* A stream output: _output_nmsg_write() and _output_nmsg_flush() of       *)
(* nmsg/output_nmsg.c, _output_frag_write() of nmsg/output_frag.c, opened  *)
(* and closed by nmsg/output.c on a datagram socket or on a file.  Every   *)
(* call holds the stream's lock from start to end, so calls are serial; a  *)
(* call that meets a full container is split before the second add.        *)
(***************************************************************************)
EXTENDS NmsgContainer

VARIABLES
    c,          \* stream->c: payloads, estsz
    sequence,   \* stream->sequence
    sid,        \* stream->sequence_id: the number of the open output
    opc,        \* "idle", "add", "readd" (after a full container), "closed"
    msg,        \* the message _output_nmsg_write() works on
    writes,     \* messages passed to nmsg_output_write() so far
    accepted    \* history: the messages it took with success

outVars == <<c, sequence, sid, opc, msg, writes, accepted>>

NoMessage == [kind |-> 0, tag |-> 0, len |-> 0, fixed |-> 0, no |-> 0]

OutputInit ==
    /\ c = nmsg_container_init
    /\ sequence = 0 /\ sid = 1
    /\ opc = "idle" /\ msg = NoMessage
    /\ writes = 0 /\ accepted = {}

\* A fragment carries at most this many bytes of the packed container.
MaxFragsz == conf.bufsz - 32

\* Bytes of a packed NmsgFragment around n bytes of data, at most: id, crc,
\* the two counters and the data's tag and length.
FragmentOverhead(n, current, last) ==
    6 + 6 + (1 + VarintLen(current)) + (1 + VarintLen(last)) + (1 + VarintLen(n))

-----------------------------------------------------------------------------
\* nmsg_container_serialize() and the increment of stream->sequence that
\* follows whatever its result; n is the number of fragments to come.
Serialize(cont, n) ==
    /\ bodies' = Append(bodies, [payloads |-> cont.payloads, seq |-> sequence,
                                 sid |-> sid, frags |-> n])
    /\ sequence' = IF DoSequence THEN (sequence + 1) % SeqSpace ELSE sequence

\* Whether write() may go the way it did.
SendResults == IF conf.fail THEN BOOLEAN ELSE {TRUE}

Whole(size) == [type |-> "whole", body |-> Len(bodies) + 1, size |-> size,
                id |-> 0, current |-> 0, last |-> 0]
Bare(size) == [Whole(size) EXCEPT !.type = "bare"]

\* _output_nmsg_write_container(): the container goes out with its header and
\* a new one takes its place, sent or not.
WriteContainer(cont, sent) ==
    /\ Serialize(cont, 0)
    /\ \E len \in SerializedLens(cont, sequence) :
         net' = IF sent THEN Append(net, Whole(NMSG_HDRLSZ_V2 + len)) ELSE net

\* Iterations of the loop of _output_frag_write().
FragmentCount(len) == (len + MaxFragsz - 1) \div MaxFragsz

\* Mutant: the number of fragments instead of the last one's index.
FragmentLast_Count(len) == FragmentCount(len)

\* nf.last, which tells the receiver how many fragments to expect.
FragmentLast(len) == len \div MaxFragsz

\* The i-th fragment, counted from 0.
Fragment(len, i, id) ==
    LET left == len - i * MaxFragsz
        n == IF left > MaxFragsz THEN MaxFragsz ELSE left
    IN  [type |-> "frag", body |-> Len(bodies) + 1,
         size |-> NMSG_HDRLSZ_V2 + n + FragmentOverhead(n, i, FragmentLast(len)),
         id |-> id, current |-> i, last |-> FragmentLast(len)]

\* The fragments that "sent" picks, counting from 1.
Fragments(len, id, sent) == [i \in 1..Len(sent) |-> Fragment(len, sent[i] - 1, id)]

\* _output_frag_write(): a compressed container that is short enough is
\* written in one piece, and without its header; else one datagram per
\* fragment.  The call reports what the last write() said.
FragWrite(cont, ok) ==
    \E len \in SerializedLens(cont, sequence) :
        \/ /\ conf.zlib /\ len <= MaxFragsz
           /\ Serialize(cont, 0)
           /\ net' = IF ok THEN Append(net, Bare(len)) ELSE net
        \/ /\ ~(conf.zlib /\ len <= MaxFragsz)
           /\ Serialize(cont, FragmentCount(len))
           /\ \E id \in Ids, sent \in Picks(FragmentCount(len)) :
                /\ ok <=> \E i \in DOMAIN sent : sent[i] = FragmentCount(len)
                /\ ~conf.fail => sent = [i \in 1..FragmentCount(len) |-> i]
                /\ net' = net \o Fragments(len, id, sent)

-----------------------------------------------------------------------------
\* nmsg_output_write() returns: with success when ok.
Return(ok) ==
    /\ opc' = "idle"
    /\ accepted' = IF ok THEN accepted \cup {msg} ELSE accepted
    /\ msg' = NoMessage

\* nmsg_output_write() up to the lock: a message the filter does not want is
\* dropped with success, any other is stamped with the output's tags.
Call(m) ==
    /\ opc = "idle" /\ writes < conf.max.writes
    /\ writes' = writes + 1
    /\ IF conf.outKind # 0 /\ conf.outKind # m.kind
       THEN UNCHANGED <<opc, msg>>
       ELSE /\ msg' = [kind |-> m.kind, len |-> m.len, fixed |-> m.fixed,
                       tag |-> IF conf.outTag # 0 THEN conf.outTag ELSE m.tag,
                       no |-> writes + 1]
            /\ opc' = "add"
    /\ UNCHANGED <<conf, bodies, net, c, sequence, sid, accepted>>

\* Mutant: the message that found the container full is not added again.
AddFull_NotAgain ==
    /\ opc = "add" /\ ContainerFull(c, msg)
    /\ \E sent \in SendResults : WriteContainer(c, sent) /\ Return(sent)
    /\ c' = nmsg_container_init
    /\ UNCHANGED <<conf, sid, writes>>

\* The container is full: write it and, if that worked, add the message to
\* the new one.
AddFull ==
    /\ opc = "add" /\ ContainerFull(c, msg)
    /\ \E sent \in SendResults :
         /\ WriteContainer(c, sent)
         /\ IF sent THEN opc' = "readd" /\ UNCHANGED <<msg, accepted>>
                    ELSE Return(FALSE)
    /\ c' = nmsg_container_init
    /\ UNCHANGED <<conf, sid, writes>>

\* The message fits and may wait (a message added after a full container
\* always does).
AddBuffered ==
    LET added == ContainerAdd(c, msg)
    IN  /\ \/ opc = "add" /\ ~ContainerFull(c, msg) /\ conf.buffered
           \/ opc = "readd"
        /\ ~ContainerOverfull(added)
        /\ c' = added
        /\ Return(TRUE)
        /\ UNCHANGED <<conf, bodies, net, sequence, sid, writes>>

\* The message fits and the stream is not buffered.
AddWrite ==
    LET added == ContainerAdd(c, msg)
    IN  /\ opc = "add" /\ ~ContainerFull(c, msg) /\ ~conf.buffered
        /\ ~ContainerOverfull(added)
        /\ \E sent \in SendResults : WriteContainer(added, sent) /\ Return(sent)
        /\ c' = nmsg_container_init
        /\ UNCHANGED <<conf, sid, writes>>

\* The message alone is too large for a datagram.
AddFrag ==
    LET added == ContainerAdd(c, msg)
    IN  /\ opc \in {"add", "readd"}
        /\ opc = "add" => ~ContainerFull(c, msg)
        /\ ContainerOverfull(added)
        /\ \E ok \in SendResults : FragWrite(added, ok) /\ Return(ok)
        /\ c' = nmsg_container_init
        /\ UNCHANGED <<conf, sid, writes>>

\* Mutant: a close that does not flush.
Close_NoFlush ==
    /\ opc = "idle" /\ opc' = "closed"
    /\ c' = nmsg_container_init
    /\ UNCHANGED <<conf, bodies, net, sequence, sid, msg, writes, accepted>>

\* nmsg_output_close(): flush, then free the stream.
Close ==
    /\ opc = "idle" /\ opc' = "closed"
    /\ IF c.payloads # <<>>
       THEN \E sent \in SendResults : WriteContainer(c, sent)
       ELSE UNCHANGED <<bodies, net, sequence>>
    /\ c' = nmsg_container_init
    /\ UNCHANGED <<conf, sid, msg, writes, accepted>>

\* The program is started again: a new output with a new sequence id.
Open ==
    /\ opc = "closed" /\ sid < conf.max.opens
    /\ opc' = "idle"
    /\ sid' = sid + 1
    /\ sequence' = 0
    /\ UNCHANGED <<conf, bodies, net, c, msg, writes, accepted>>

OutputNext ==
    \/ \E m \in conf.messages : Call(m)
    \/ AddFull \/ AddBuffered \/ AddWrite \/ AddFrag
    \/ Close \/ Open
=============================================================================
