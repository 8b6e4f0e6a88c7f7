---------------------------- MODULE NmsgContainer ----------------------------
(***************************************************************************)
(* The NMSG container of nmsg/container.c and what travels between an      *)
(* nmsg_output_t and an nmsg_input_t: sizes in bytes, the numbers the code *)
(* uses, and the datagrams a socket carries.                               *)
(*                                                                         *)
(* A container keeps a running estimate of its serialized size (estsz) and *)
(* that estimate decides three things: when the container is full, whether *)
(* it must be fragmented, and how large a buffer serialization allocates.  *)
(***************************************************************************)
EXTENDS Integers, Sequences

CONSTANTS
    Configs,    \* how the two ends are set up, and what is written
    Slack,      \* bytes that short crc and id varints may save
    ZLens,      \* lengths that nmsg_zbuf_deflate() may come to
    SeqSpace,   \* 2^32 in the code: container sequence numbers wrap
    Ids         \* what nmsg_random_uint32() may return as fragment id

NMSG_HDRLSZ_V2 == 10
NMSG_WBUFSZ_MIN == 512
NMSG_WBUFSZ_MAX == 1048576

\* Bound: no payload needs a varint of five bytes for its length.
MaxPayloadLen == 268435000
PayloadLens == {n \in Nat : n <= MaxPayloadLen}

\* A message: its (vid, msgtype) and its tags, the bytes of its payload, and
\* those of all the other fields of the NmsgPayload.
MessageType == [kind : Nat, tag : Nat, len : PayloadLens, fixed : 0..64]

\* Bounds: messages written, openings of the output, datagrams read, and
\* seconds that pass.
Bounds == [writes : Nat, opens : Nat, reads : Nat, time : Nat]

\* The stream settings.  outTag stands for the source, operator and group an
\* output stamps on its payloads (0: leave them), inTag for those an input
\* asks for (0: any); outKind and inKind for the (vid, msgtype) filters.
ConfigType ==
    [type : {"sock", "file"}, bufsz : Nat, buffered : BOOLEAN, zlib : BOOLEAN,
     outKind : Nat, inKind : Nat, outTag : Nat, inTag : Nat,
     fifo : BOOLEAN,        \* the network keeps the order and repeats nothing
     fail : BOOLEAN,        \* write() on the socket may fail
     messages : SUBSET MessageType, max : Bounds]

ASSUME ConfigAssumption ==
    /\ Configs \subseteq ConfigType
    /\ \A cf \in Configs : NMSG_WBUFSZ_MIN <= cf.bufsz /\ cf.bufsz <= NMSG_WBUFSZ_MAX
    /\ \A cf \in Configs : cf.type = "file" => cf.fifo
ASSUME WireAssumption == /\ Slack \subseteq Nat
                         /\ ZLens \subseteq Nat \ {0}
                         /\ SeqSpace \in Nat \ {0}

VARIABLES
    conf,       \* the settings, fixed when the streams are opened
    bodies,     \* history: containers serialized so far, [payloads, ...]
    net         \* datagrams handed to the network, in order

\* The ways to pick some of the numbers 1..n, in order.
Picks(n) ==
    {s \in UNION {[1..k -> 1..n] : k \in 0..n} :
        \A i, j \in DOMAIN s : i < j => s[i] < s[j]}

\* stream->do_sequence: containers written to a socket are numbered.
DoSequence == conf.type = "sock"

-----------------------------------------------------------------------------
\* Bytes of a protobuf varint.
VarintLen(n) ==
    1 + (IF n >= 128 THEN 1 ELSE 0) + (IF n >= 16384 THEN 1 ELSE 0)
      + (IF n >= 2097152 THEN 1 ELSE 0) + (IF n >= 268435456 THEN 1 ELSE 0)

\* Mutant: the varint of the payload's length is taken to be one byte.
PayloadSize_OneByteLength(m) == m.fixed + m.len

\* What the code takes the packed size of an NmsgPayload to be: fixed covers
\* every field but the payload bytes and the later bytes of their length.
PayloadSize(m) ==
    m.fixed + m.len + (IF m.len >= 128 THEN 1 ELSE 0)
                    + (IF m.len >= 16384 THEN 1 ELSE 0)

\* What protobuf-c makes of it.
PackedPayload(m) == m.fixed + m.len + VarintLen(m.len) - 1

\* What one payload adds to the packed container: tag, length and body of the
\* payload, tag and at most five bytes of its crc.
PackedShare(m) == 1 + VarintLen(PackedPayload(m)) + PackedPayload(m) + 6

-----------------------------------------------------------------------------
\* estsz is the code's running estimate; packed is what nmsg__nmsg__pack()
\* will write at most for the payloads and their crcs.
nmsg_container_init == [payloads |-> <<>>, estsz |-> NMSG_HDRLSZ_V2, packed |-> 0]

\* Mutant: no room is left for what the estimate adds to a payload.
ContainerFull_NoMargin(cont, m) ==
    /\ cont.estsz # NMSG_HDRLSZ_V2
    /\ cont.estsz + PayloadSize(m) >= conf.bufsz

\* nmsg_container_add() refuses the message: nmsg_res_container_full.
ContainerFull(cont, m) ==
    /\ cont.estsz # NMSG_HDRLSZ_V2
    /\ cont.estsz + PayloadSize(m) + 32 >= conf.bufsz

\* What nmsg_container_add() adds to estsz: the payload, its tag and length,
\* its crc, and the sequence fields (again with every payload).
EstimateShare(m) ==
    LET n == PayloadSize(m)
    IN  n + 1 + 1 + (IF n >= 128 THEN 1 ELSE 0) + (IF n >= 16384 THEN 1 ELSE 0)
          + (IF n >= 2097152 THEN 1 ELSE 0) + 6
          + (IF DoSequence THEN 6 + 12 ELSE 0)

\* The container after nmsg_container_add() took the message.
ContainerAdd(cont, m) ==
    [payloads |-> Append(cont.payloads, m),
     estsz    |-> cont.estsz + EstimateShare(m),
     packed   |-> cont.packed + PackedShare(m)]

\* ... and whether it returned nmsg_res_container_overfull.
ContainerOverfull(cont) == cont.estsz > conf.bufsz

-----------------------------------------------------------------------------
\* The longest nmsg__nmsg__pack() result: payloads, crcs, sequence number and
\* sequence id (a tag and at most ten bytes).
PackedLen(cont, seq) ==
    cont.packed + IF DoSequence THEN 1 + VarintLen(seq) + 11 ELSE 0

\* What nmsg_container_serialize() may produce, without the header.
SerializedLens(cont, seq) ==
    IF conf.zlib THEN ZLens
    ELSE {PackedLen(cont, seq) - d : d \in {d \in Slack : d < PackedLen(cont, seq)}}

\* A datagram: a whole container, one fragment of one, or a container that
\* was written without its NMSG header.
Datagram ==
    [type : {"whole", "frag", "bare"}, body : Nat, size : Nat,
     id : Ids \cup {0}, current : Nat, last : Nat]
=============================================================================
