--------------------------- MODULE NmsgStreamProofs ---------------------------
(***************************************************************************)
(* What the size estimate of nmsg_container_add() guarantees, for every    *)
(* buffer size an output can be opened with and every message; and what a  *)
(* stream input makes of the datagrams it reads, for every network, every  *)
(* number of fragments and every length of time: reassembly, the tree of   *)
(* fragments and its expiry, what the caller gets, what a file gives back, *)
(* and the accounting of lost containers.                                  *)
(***************************************************************************)
EXTENDS NmsgStream, TLAPS, FiniteSetTheorems

(***************************************************************************)
(* The inductive invariant: an empty container has its initial size; any   *)
(* other is not overfull, and its estimate covers the header, what was     *)
(* packed so far and the sequence fields.                                  *)
(***************************************************************************)
ContainerType == [payloads : Seq(WireMessage), estsz : Nat, packed : Nat]

Covered(cont) ==
    /\ NMSG_HDRLSZ_V2 + cont.packed + (IF DoSequence THEN 18 ELSE 0) <= cont.estsz
    /\ cont.estsz # NMSG_HDRLSZ_V2

SizeTypes ==
    /\ conf \in Configs
    /\ c \in ContainerType
    /\ sequence \in Nat
    /\ msg \in WireMessage
    /\ writes \in Nat
    /\ opc \in {"idle", "add", "readd", "closed"}

SizeInv ==
    /\ SizeTypes
    /\ c.payloads = <<>> => c = nmsg_container_init
    /\ c.payloads # <<>> => Covered(c) /\ ~ContainerOverfull(c)
    /\ opc = "readd" => c.payloads = <<>>

BodyInv ==
    /\ \E Bodies : bodies \in Seq(Bodies)
    /\ FragmentsHoldOneMessage

-----------------------------------------------------------------------------
\* The settings lie within what the code lets them.
LEMMA ConfFacts ==
    ASSUME conf \in Configs
    PROVE  /\ conf.bufsz \in Nat /\ conf.bufsz >= 512 /\ conf.bufsz <= 1048576
           /\ DoSequence \in BOOLEAN
  <1>1. conf.bufsz \in Nat
    BY ConfigAssumption DEF ConfigType
  <1>2. conf.bufsz \in Nat /\ conf.bufsz >= 512 /\ conf.bufsz <= 1048576
    BY <1>1, ConfigAssumption, SMT DEF NMSG_WBUFSZ_MIN, NMSG_WBUFSZ_MAX
  <1>3. DoSequence \in BOOLEAN
    BY DEF DoSequence
  <1> QED
    BY <1>2, <1>3, SMT

\* A varint takes one to five bytes.
LEMMA VarintFacts ==
    ASSUME NEW n \in Nat
    PROVE  VarintLen(n) \in 1..5
  BY SMT DEF VarintLen

\* What one message adds to the estimate covers what it adds to the packed
\* container, but for one byte when its payload is 2 MB or more.
LEMMA ShareFacts ==
    ASSUME conf \in Configs, NEW m \in WireMessage
    PROVE  /\ PayloadSize(m) \in Nat
           /\ EstimateShare(m) \in Nat
           /\ PackedShare(m) \in Nat
           /\ EstimateShare(m) > PayloadSize(m)
           /\ EstimateShare(m) <= PayloadSize(m) + 29
           /\ PackedShare(m) + (IF DoSequence THEN 18 ELSE 0) <= EstimateShare(m) + 1
           /\ PayloadSize(m) <= 1048576 =>
                PackedShare(m) + (IF DoSequence THEN 18 ELSE 0) <= EstimateShare(m)
  <1>1. m.len \in Nat /\ m.len <= 268435000 /\ m.fixed \in Nat /\ m.fixed <= 64
    <2>1. m.len \in PayloadLens /\ m.fixed \in 0..64
      BY DEF WireMessage
    <2> QED
      BY <2>1, SMT DEF PayloadLens, MaxPayloadLen
  <1>2. DoSequence \in BOOLEAN
    BY ConfFacts, SMT
  <1> DEFINE n == PayloadSize(m)
             s == IF DoSequence THEN 18 ELSE 0
  <1>3. n \in Nat /\ m.len <= n /\ n <= m.len + 66
    BY <1>1, SMT DEF PayloadSize
  <1>4. s \in {0, 18}
    BY SMT
  <1>5. /\ EstimateShare(m) = n + 8 + (IF n >= 128 THEN 1 ELSE 0)
              + (IF n >= 16384 THEN 1 ELSE 0) + (IF n >= 2097152 THEN 1 ELSE 0) + s
    BY <1>3, SMT DEF EstimateShare
  <1>6. \/ m.len < 2097152 /\ PackedPayload(m) = n
        \/ m.len >= 2097152 /\ PackedPayload(m) = n + 1
    BY <1>1, SMT DEF PackedPayload, PayloadSize, VarintLen
  <1>7. PackedShare(m) = 7 + VarintLen(PackedPayload(m)) + PackedPayload(m)
    BY <1>1, <1>3, <1>6, VarintFacts, SMT DEF PackedShare
  <1> HIDE DEF n, s
  <1>8. CASE m.len < 2097152
    <2>1. PackedPayload(m) = n /\ n < 268435456
      BY <1>8, <1>1, <1>3, <1>6, SMT
    <2>2. PackedShare(m) + s = EstimateShare(m)
      BY <2>1, <1>3, <1>4, <1>5, <1>7, SMT DEF VarintLen
    <2>3. EstimateShare(m) \in Nat /\ PackedShare(m) \in Nat
      BY <2>1, <1>3, <1>4, <1>5, <1>7, SMT DEF VarintLen
    <2>4. EstimateShare(m) > n /\ EstimateShare(m) <= n + 29
      BY <1>3, <1>4, <1>5, SMT
    <2> QED
      BY <2>1, <2>2, <2>3, <2>4, <1>3, <1>4, SMT DEF n, s
  <1>9. CASE m.len >= 2097152
    <2>1. PackedPayload(m) = n + 1 /\ n >= 2097152 /\ n + 1 < 268435456
      BY <1>9, <1>1, <1>3, <1>6, SMT
    <2>2. PackedShare(m) + s = EstimateShare(m) + 1
      BY <2>1, <1>3, <1>4, <1>5, <1>7, SMT DEF VarintLen
    <2>3. EstimateShare(m) \in Nat /\ PackedShare(m) \in Nat
      BY <2>1, <1>3, <1>4, <1>5, <1>7, SMT DEF VarintLen
    <2>4. EstimateShare(m) > n /\ EstimateShare(m) <= n + 29
      BY <1>3, <1>4, <1>5, SMT
    <2> QED
      BY <2>1, <2>2, <2>3, <2>4, <1>3, <1>4, SMT DEF n, s
  <1> QED
    BY <1>8, <1>9, <1>1, SMT

\* A container that has its invariant keeps it when a message is added that
\* does not make it overfull, and only an empty one can become overfull.
LEMMA AddFacts ==
    ASSUME SizeInv, NEW m \in WireMessage, ~ContainerFull(c, m)
    PROVE  LET added == ContainerAdd(c, m)
           IN  /\ added \in ContainerType
               /\ added.payloads # <<>>
               /\ Len(added.payloads) = Len(c.payloads) + 1
               /\ ~ContainerOverfull(added) => Covered(added)
               /\ ContainerOverfull(added) =>
                    /\ c.payloads = <<>>
                    /\ added.packed + (IF DoSequence THEN 18 ELSE 0) <= added.estsz
  <1> DEFINE added == ContainerAdd(c, m)
             s == IF DoSequence THEN 18 ELSE 0
  <1>1. /\ conf \in Configs /\ c.payloads \in Seq(WireMessage)
        /\ c.estsz \in Nat /\ c.packed \in Nat
    BY DEF SizeInv, SizeTypes, ContainerType
  <1>2. /\ added.payloads = Append(c.payloads, m)
        /\ added.estsz = c.estsz + EstimateShare(m)
        /\ added.packed = c.packed + PackedShare(m)
    BY DEF ContainerAdd
  <1>3. EstimateShare(m) \in Nat /\ PackedShare(m) \in Nat
    BY <1>1, ShareFacts
  <1>4. added \in ContainerType
    BY <1>1, <1>2, <1>3 DEF ContainerType, ContainerAdd
  <1>5. added.payloads # <<>> /\ Len(added.payloads) = Len(c.payloads) + 1
    BY <1>1, <1>2
  <1>6. s \in {0, 18}
    OBVIOUS
  <1>7. \/ c.payloads = <<>> /\ c.estsz = 10 /\ c.packed = 0
        \/ /\ c.payloads # <<>>
           /\ 10 + c.packed + s <= c.estsz
           /\ c.estsz # 10
    BY DEF SizeInv, nmsg_container_init, Covered, NMSG_HDRLSZ_V2
  <1>8. ~ContainerOverfull(added) => Covered(added)
    <2> SUFFICES ASSUME added.estsz <= conf.bufsz
                 PROVE  10 + added.packed + s <= added.estsz /\ added.estsz # 10
      BY <1>1, <1>2, <1>3, ConfFacts DEF ContainerOverfull, Covered, NMSG_HDRLSZ_V2
    <2>1. PayloadSize(m) <= 1048576
      BY <1>1, <1>2, <1>3, ConfFacts, ShareFacts, SMT
    <2>2. PackedShare(m) + s <= EstimateShare(m)
      BY <2>1, <1>1, ShareFacts, SMT
    <2>3. EstimateShare(m) > 0
      BY <1>1, ShareFacts, SMT
    <2> QED
      BY <2>2, <2>3, <1>1, <1>2, <1>3, <1>6, <1>7, SMTT(30)
  <1>9. ASSUME ContainerOverfull(added)
        PROVE  c.payloads = <<>> /\ added.packed + s <= added.estsz
    <2>1. CASE c.payloads # <<>>
      <3>1. c.estsz + PayloadSize(m) + 32 < conf.bufsz
        <4>1. PayloadSize(m) \in Nat
          BY <1>1, ShareFacts, SMT
        <4>2. conf.bufsz \in Nat
          BY <1>1, ConfFacts
        <4>3. c.estsz # 10
          BY <2>1, <1>7
        <4>4. ~(c.estsz + PayloadSize(m) + 32 >= conf.bufsz)
          BY <4>3 DEF ContainerFull, NMSG_HDRLSZ_V2
        <4> QED
          BY <4>1, <4>2, <4>4, <1>1, SMT
      <3>2. EstimateShare(m) <= PayloadSize(m) + 29 /\ PayloadSize(m) \in Nat
        BY <1>1, ShareFacts, SMT
      <3>3. added.estsz <= conf.bufsz
        <4>1. conf.bufsz \in Nat
          BY <1>1, ConfFacts
        <4>2. c.estsz + EstimateShare(m) <= conf.bufsz
          BY <4>1, <3>1, <3>2, <1>1, <1>3, SMT
        <4> QED
          BY <4>2, <1>2
      <3>4. added.estsz \in Nat /\ conf.bufsz \in Nat
        BY <1>1, <1>2, <1>3, ConfFacts
      <3>5. added.estsz > conf.bufsz
        BY <1>9 DEF ContainerOverfull
      <3> HIDE DEF added
      <3> QED
        BY <3>3, <3>4, <3>5
    <2>2. CASE c.payloads = <<>>
      <3>1. PackedShare(m) + s <= EstimateShare(m) + 1
        BY <1>1, ShareFacts, SMT
      <3> QED
        BY <3>1, <2>2, <1>1, <1>2, <1>3, <1>6, <1>7
    <2> QED
      BY <2>1, <2>2
  <1> QED
    BY <1>4, <1>5, <1>8, <1>9

\* The reading end changes nothing that the sizes depend on.
LEMMA InputKeeps ==
    ASSUME InputNext /\ UNCHANGED outVars
    PROVE  UNCHANGED <<conf, bodies, c, sequence, msg, writes, opc>>
  BY DEF InputNext, outVars, ReadNext, ReadAgain, ReadEof, Tick, ReadWhole,
         ReadFrag, ReadLastFrag, ReadBare, Arrive

\* The new container that replaces a written one has the invariant.
LEMMA EmptyFacts ==
    /\ nmsg_container_init \in ContainerType
    /\ nmsg_container_init.payloads = <<>>
  BY DEF nmsg_container_init, ContainerType, NMSG_HDRLSZ_V2

\* What a step that serializes does to the sequence number and the history.
LEMMA SerializeFacts ==
    ASSUME SizeInv, NEW cont, NEW n, Serialize(cont, n)
    PROVE  sequence' \in Nat
  BY WireAssumption DEF Serialize, SizeInv, SizeTypes

\* So does every step that leaves a new container behind ...
LEMMA EmptyKeeps ==
    ASSUME SizeInv, conf' = conf, c' = nmsg_container_init, sequence' \in Nat,
           msg' \in WireMessage, writes' \in Nat,
           opc' \in {"idle", "add", "readd", "closed"}
    PROVE  SizeInv'
  BY EmptyFacts DEF SizeInv, SizeTypes

\* ... or the container as it was.
LEMMA SameKeeps ==
    ASSUME SizeInv, conf' = conf, c' = c, sequence' \in Nat,
           msg' \in WireMessage, writes' \in Nat,
           opc' \in {"idle", "add", "readd", "closed"},
           opc' = "readd" => opc = "readd"
    PROVE  SizeInv'
  BY DEF SizeInv, SizeTypes, Covered, DoSequence, ContainerOverfull

\* _output_nmsg_write(), _output_nmsg_flush() and the reading end keep the
\* container's invariant.
LEMMA SizeStep ==
    ASSUME SizeInv, [Next]_vars
    PROVE  SizeInv'
  <1>1. NoMessage \in WireMessage
    <2>1. 0 \in PayloadLens
      BY SMT DEF PayloadLens, MaxPayloadLen
    <2> QED
      BY <2>1 DEF NoMessage, WireMessage
  <1>t. /\ sequence \in Nat /\ writes \in Nat /\ msg \in WireMessage
        /\ opc \in {"idle", "add", "readd", "closed"} /\ conf \in Configs
    BY DEF SizeInv, SizeTypes
  <1>2. ASSUME NEW m \in conf.messages, Call(m)
        PROVE  SizeInv'
    <2>1. m \in MessageType
      <3>1. conf.messages \subseteq MessageType
        BY <1>t, ConfigAssumption DEF ConfigType
      <3> QED
        BY <3>1, <1>2
    <2>2. conf.outTag \in Nat
      BY <1>t, ConfigAssumption DEF ConfigType
    <2>3. [kind |-> m.kind, len |-> m.len, fixed |-> m.fixed,
           tag |-> IF conf.outTag # 0 THEN conf.outTag ELSE m.tag,
           no |-> writes + 1] \in WireMessage
      BY <2>1, <2>2, <1>t DEF MessageType, WireMessage
    <2>4. msg' \in WireMessage /\ opc' \in {"idle", "add"}
      BY <1>2, <2>3, <1>t DEF Call
    <2> QED
      BY <1>2, <2>4, <1>t, SameKeeps DEF Call
  <1>3. CASE AddFull
    <2>1. PICK sent \in SendResults :
            /\ WriteContainer(c, sent)
            /\ IF sent THEN opc' = "readd" /\ UNCHANGED <<msg, accepted>>
                       ELSE Return(FALSE)
      BY <1>3 DEF AddFull
    <2>2. sequence' \in Nat
      BY <2>1, SerializeFacts DEF WriteContainer
    <2>3. msg' \in WireMessage /\ opc' \in {"idle", "readd"}
      BY <2>1, <1>1, <1>t DEF Return
    <2> QED
      BY <1>3, <2>2, <2>3, <1>t, EmptyKeeps DEF AddFull
  <1>4. CASE AddBuffered
    <2> DEFINE added == ContainerAdd(c, msg)
    <2>1. ~ContainerFull(c, msg)
      BY <1>4 DEF AddBuffered, ContainerFull, SizeInv, nmsg_container_init
    <2>2. added \in ContainerType /\ added.payloads # <<>> /\ Covered(added)
      BY <1>4, <1>t, <2>1, AddFacts DEF AddBuffered
    <2>3. c' = added /\ conf' = conf /\ ~ContainerOverfull(added)
      BY <1>4 DEF AddBuffered
    <2>4. msg' \in WireMessage /\ opc' = "idle" /\ sequence' = sequence /\ writes' = writes
      BY <1>4, <1>1 DEF AddBuffered, Return
    <2>5. Covered(c)' /\ ~ContainerOverfull(c)'
      BY <2>2, <2>3 DEF Covered, DoSequence, ContainerOverfull
    <2> QED
      BY <2>2, <2>3, <2>4, <2>5, <1>t DEF SizeInv, SizeTypes
  <1>5. CASE AddWrite
    <2>1. PICK sent \in SendResults :
            WriteContainer(ContainerAdd(c, msg), sent) /\ Return(sent)
      BY <1>5 DEF AddWrite
    <2>2. sequence' \in Nat
      BY <2>1, SerializeFacts DEF WriteContainer
    <2> QED
      BY <1>5, <2>1, <2>2, <1>1, <1>t, EmptyKeeps DEF AddWrite, Return
  <1>6. CASE AddFrag
    <2>1. PICK ok \in SendResults :
            FragWrite(ContainerAdd(c, msg), ok) /\ Return(ok)
      BY <1>6 DEF AddFrag
    <2>2. sequence' \in Nat
      BY <2>1, SerializeFacts DEF FragWrite
    <2> QED
      BY <1>6, <2>1, <2>2, <1>1, <1>t, EmptyKeeps DEF AddFrag, Return
  <1>7. CASE Close
    <2>1. sequence' \in Nat
      BY <1>7, <1>t, SerializeFacts DEF Close, WriteContainer
    <2> QED
      BY <1>7, <2>1, <1>t, EmptyKeeps DEF Close
  <1>8. CASE Open
    BY <1>8, <1>t, SameKeeps DEF Open
  <1>9. CASE InputNext /\ UNCHANGED outVars
    BY <1>9, <1>t, InputKeeps, SameKeeps
  <1>10. CASE Finished \/ UNCHANGED vars
    BY <1>10, <1>t, SameKeeps DEF Finished, vars, outVars
  <1> QED
    BY <1>2, <1>3, <1>4, <1>5, <1>6, <1>7, <1>8, <1>9, <1>10 DEF Next, OutputNext

\* A container joins the history in fragments only if it holds one message.
LEMMA BodyAppend ==
    ASSUME BodyInv, NEW cont, NEW n, Serialize(cont, n),
           n > 0 => Len(cont.payloads) = 1
    PROVE  BodyInv'
  <1> DEFINE new == [payloads |-> cont.payloads, seq |-> sequence, sid |-> sid,
                     frags |-> n]
  <1>1. PICK Bodies : bodies \in Seq(Bodies)
    BY DEF BodyInv
  <1>2. bodies \in Seq(Bodies \cup {new}) /\ new \in Bodies \cup {new}
    BY <1>1
  <1>3. bodies' = Append(bodies, new)
    BY DEF Serialize
  <1>4. bodies' \in Seq(Bodies \cup {new})
    BY <1>2, <1>3
  <1>5. ASSUME NEW i \in 1..Len(bodies'), bodies'[i].frags > 0
        PROVE  Len(bodies'[i].payloads) = 1
    <2>1. CASE i = Len(bodies) + 1
      <3>1. bodies'[i] = new
        BY <2>1, <1>2, <1>3
      <3> QED
        BY <3>1, <1>5
    <2>2. CASE i # Len(bodies) + 1
      <3>1. i \in 1..Len(bodies) /\ bodies'[i] = bodies[i]
        BY <2>2, <1>2, <1>3
      <3> QED
        BY <3>1, <1>5 DEF BodyInv, FragmentsHoldOneMessage
    <2> QED
      BY <2>1, <2>2
  <1> QED
    BY <1>4, <1>5 DEF BodyInv, FragmentsHoldOneMessage

\* Every step that serializes keeps fragments to containers of one message.
LEMMA BodyStep ==
    ASSUME SizeInv, BodyInv, [Next]_vars
    PROVE  BodyInv'
  <1>1. ASSUME UNCHANGED bodies PROVE BodyInv'
    BY <1>1 DEF BodyInv, FragmentsHoldOneMessage
  <1>2. ASSUME NEW cont, NEW sent, WriteContainer(cont, sent) PROVE BodyInv'
    BY <1>2, BodyAppend DEF WriteContainer
  <1>3. ASSUME NEW m \in conf.messages, Call(m)
        PROVE  BodyInv'
    BY <1>1, <1>3 DEF Call
  <1>4. CASE AddFull
    BY <1>2, <1>4 DEF AddFull
  <1>5. CASE AddBuffered
    BY <1>1, <1>5 DEF AddBuffered
  <1>6. CASE AddWrite
    BY <1>2, <1>6 DEF AddWrite
  <1>7. CASE AddFrag
    <2> DEFINE added == ContainerAdd(c, msg)
    <2>1. ~ContainerFull(c, msg)
      BY <1>7 DEF AddFrag, ContainerFull, SizeInv, nmsg_container_init
    <2>2. ContainerOverfull(added)
      BY <1>7 DEF AddFrag
    <2>3. msg \in WireMessage /\ c.payloads \in Seq(WireMessage)
      BY DEF SizeInv, SizeTypes, ContainerType
    <2>4. c.payloads = <<>> /\ Len(added.payloads) = Len(c.payloads) + 1
      BY <2>1, <2>2, <2>3, AddFacts
    <2>5. Len(added.payloads) = 1
      BY <2>3, <2>4
    <2>6. PICK ok \in SendResults : FragWrite(added, ok)
      BY <1>7 DEF AddFrag
    <2>7. \E n : Serialize(added, n)
      BY <2>6 DEF FragWrite
    <2> QED
      BY <2>5, <2>7, BodyAppend
  <1>8. CASE Close
    BY <1>1, <1>2, <1>8 DEF Close
  <1>9. CASE Open
    BY <1>1, <1>9 DEF Open
  <1>10. CASE InputNext /\ UNCHANGED outVars
    BY <1>1, <1>10, InputKeeps
  <1>11. CASE Finished \/ UNCHANGED vars
    BY <1>1, <1>11 DEF Finished, vars
  <1> QED
    BY <1>3, <1>4, <1>5, <1>6, <1>7, <1>8, <1>9, <1>10, <1>11 DEF Next, OutputNext

-----------------------------------------------------------------------------
\* A stream opens with an empty container and no history.
LEMMA SizeInit ==
    ASSUME Init
    PROVE  SizeInv /\ BodyInv
  <1>1. 0 \in PayloadLens
    BY SMT DEF PayloadLens, MaxPayloadLen
  <1>2. SizeInv
    BY <1>1, EmptyFacts DEF Init, OutputInit, SizeInv, SizeTypes, NoMessage, WireMessage
  <1>3. bodies = <<>>
    BY DEF Init
  <1>4. bodies \in Seq({})
    BY <1>3
  <1> QED
    BY <1>2, <1>3, <1>4 DEF BodyInv, FragmentsHoldOneMessage

\* The sizes of containers and messages stay in step in every reachable state.
THEOREM SizeInvariance == Spec => [](SizeInv /\ BodyInv)
  <1>1. SizeInv /\ BodyInv /\ [Next]_vars => (SizeInv /\ BodyInv)'
    BY SizeStep, BodyStep
  <1> QED
    BY <1>1, SizeInit, PTL DEF Spec

\* For every buffer size and every message, nmsg_container_serialize() never
\* writes past the estsz bytes it allocated.
THEOREM SerializationFitsItsBuffer == Spec => []SerializeFits
  <1>1. ASSUME SizeInv PROVE SerializeFits
    <2>1. sequence \in Nat /\ msg \in WireMessage /\ conf \in Configs
      BY <1>1 DEF SizeInv, SizeTypes
    <2>2. ASSUME NEW cont \in ContainerType
          PROVE  /\ PackedLen(cont, sequence) \in Nat
                 /\ PackedLen(cont, sequence) <= cont.packed + (IF DoSequence THEN 18 ELSE 0)
                 /\ cont.packed \in Nat /\ cont.estsz \in Nat
      <3>1. cont.packed \in Nat /\ VarintLen(sequence) \in 1..5 /\ DoSequence \in BOOLEAN
        BY <2>1, <2>2, VarintFacts, ConfFacts DEF ContainerType
      <3> QED
        BY <3>1 DEF PackedLen, ContainerType
    <2>3. ASSUME NEW cont \in ContainerType, Covered(cont)
          PROVE  Serializes(cont)
      BY <2>2, <2>3 DEF Covered, Serializes, NMSG_HDRLSZ_V2
    <2>4. Serializes(c)
      <3>1. CASE c.payloads = <<>>
        BY <3>1 DEF Serializes
      <3>2. CASE c.payloads # <<>>
        BY <1>1, <2>3, <3>2 DEF SizeInv, SizeTypes
      <3> QED
        BY <3>1, <3>2
    <2>5. ASSUME ~ContainerFull(c, msg)
          PROVE  Serializes(ContainerAdd(c, msg))
      <3> DEFINE added == ContainerAdd(c, msg)
      <3>1. /\ added \in ContainerType
            /\ ~ContainerOverfull(added) => Covered(added)
            /\ ContainerOverfull(added) =>
                 added.packed + (IF DoSequence THEN 18 ELSE 0) <= added.estsz
        BY <1>1, <2>1, <2>5, AddFacts
      <3> HIDE DEF added
      <3>2. ASSUME ContainerOverfull(added) PROVE Serializes(added)
        BY <2>2, <3>1, <3>2 DEF Serializes
      <3>3. ASSUME ~ContainerOverfull(added) PROVE Serializes(added)
        BY <2>3, <3>1, <3>3
      <3> QED
        BY <3>2, <3>3 DEF added
    <2> QED
      BY <2>4, <2>5 DEF SerializeFits
  <1> QED
    BY <1>1, SizeInvariance, PTL

\* A container that travels in fragments holds a single message: messages
\* that were buffered together are never split.
THEOREM OnlyLargeMessagesFragment == Spec => []FragmentsHoldOneMessage
  BY SizeInvariance, PTL DEF BodyInv

-----------------------------------------------------------------------------
(***************************************************************************)
(* The inductive invariant behind AcceptedOnce: the containers so far and  *)
(* the open one hold messages of rising numbers, all that were accepted    *)
(* among them, and the message at hand is newer than any of them.          *)
(***************************************************************************)
Held == [i \in 1..(Len(bodies) + 1) |->
           IF i <= Len(bodies) THEN bodies[i].payloads ELSE c.payloads]

Filed(H, n, acc, w) ==
    /\ \A i \in 1..n : H[i] \in Seq(WireMessage)
    /\ \A i, j \in 1..n : \A p \in 1..Len(H[i]), q \in 1..Len(H[j]) :
         i < j \/ (i = j /\ p < q) => H[i][p].no < H[j][q].no
    /\ \A i \in 1..n : \A p \in 1..Len(H[i]) : H[i][p].no <= w
    /\ \A m \in acc : \E i \in 1..n : \E p \in 1..Len(H[i]) : H[i][p] = m

Busy == opc \in {"add", "readd"}

OrderInv ==
    /\ Filed(Held, Len(bodies) + 1, accepted, IF Busy THEN writes - 1 ELSE writes)
    /\ Busy => msg.no = writes

\* A new container keeps the messages in order ...
LEMMA FiledNew ==
    ASSUME NEW H, NEW n \in Nat, NEW acc, NEW w \in Int, Filed(H, n, acc, w),
           NEW G, \A i \in 1..n : G[i] = H[i], G[n + 1] = <<>>
    PROVE  Filed(G, n + 1, acc, w)
  <1>1. \A i \in 1..(n + 1) : i \in 1..n \/ i = n + 1
    OBVIOUS
  <1>2. Len(G[n + 1]) = 0 /\ G[n + 1] \in Seq(WireMessage)
    OBVIOUS
  <1>3. \A i \in 1..(n + 1) : \A p \in 1..Len(G[i]) : i \in 1..n /\ G[i] = H[i]
    BY <1>1, <1>2
  <1>4. \A i \in 1..(n + 1) : G[i] \in Seq(WireMessage)
    BY <1>1, <1>2 DEF Filed
  <1>5. \A i \in 1..(n + 1) : \A p \in 1..Len(G[i]) : G[i][p].no <= w
    BY <1>3 DEF Filed
  <1>6. \A i, j \in 1..(n + 1) : \A p \in 1..Len(G[i]), q \in 1..Len(G[j]) :
          i < j \/ (i = j /\ p < q) => G[i][p].no < G[j][q].no
    BY <1>3 DEF Filed
  <1>7. \A m \in acc : \E i \in 1..(n + 1) : \E p \in 1..Len(G[i]) : G[i][p] = m
    <2> SUFFICES ASSUME NEW m \in acc
                 PROVE  \E i \in 1..(n + 1) : \E p \in 1..Len(G[i]) : G[i][p] = m
      OBVIOUS
    <2>1. PICK i \in 1..n : \E p \in 1..Len(H[i]) : H[i][p] = m
      BY DEF Filed
    <2>2. i \in 1..(n + 1) /\ G[i] = H[i]
      OBVIOUS
    <2> QED
      BY <2>1, <2>2
  <1> QED
    BY <1>4, <1>5, <1>6, <1>7 DEF Filed

\* ... and so does a newer message in the last container, which may be accepted.
LEMMA FiledAdd ==
    ASSUME NEW H, NEW n \in Nat \ {0}, NEW acc, NEW w \in Int, Filed(H, n, acc, w),
           NEW m \in WireMessage, m.no = w + 1,
           NEW G, \A i \in 1..(n - 1) : G[i] = H[i], G[n] = Append(H[n], m),
           NEW more, more \subseteq acc \cup {m}
    PROVE  Filed(G, n, more, w + 1)
  <1>1. \A i \in 1..n : i \in 1..(n - 1) \/ i = n
    OBVIOUS
  <1>2. /\ \A i \in 1..n : H[i] \in Seq(WireMessage)
        /\ n \in 1..n
    BY DEF Filed
  <1> DEFINE l == Len(H[n])
  <1>3. /\ G[n] \in Seq(WireMessage) /\ Len(G[n]) = l + 1 /\ l \in Nat
        /\ G[n][l + 1] = m /\ \A p \in 1..l : G[n][p] = H[n][p]
    BY <1>2
  <1> HIDE DEF l
  <1>4. \A i \in 1..n : \A p \in 1..Len(G[i]) :
          \/ p \in 1..Len(H[i]) /\ G[i][p] = H[i][p]
          \/ i = n /\ p = l + 1 /\ G[i][p] = m
    <2> SUFFICES ASSUME NEW i \in 1..n, NEW p \in 1..Len(G[i])
                 PROVE  \/ p \in 1..Len(H[i]) /\ G[i][p] = H[i][p]
                        \/ i = n /\ p = l + 1 /\ G[i][p] = m
      OBVIOUS
    <2>1. CASE i = n
      <3>1. p \in 1..l \/ p = l + 1
        BY <2>1, <1>3
      <3> QED
        BY <2>1, <3>1, <1>3 DEF l
    <2>2. CASE i \in 1..(n - 1)
      BY <2>2
    <2> QED
      BY <1>1, <2>1, <2>2
  <1>5. \A i \in 1..n : \A p \in 1..Len(H[i]) :
          p \in 1..Len(G[i]) /\ G[i][p] = H[i][p]
    <2> SUFFICES ASSUME NEW i \in 1..n, NEW p \in 1..Len(H[i])
                 PROVE  p \in 1..Len(G[i]) /\ G[i][p] = H[i][p]
      OBVIOUS
    <2>1. CASE i = n
      <3>1. p \in 1..l /\ p \in 1..(l + 1)
        BY <2>1, <1>3 DEF l
      <3> QED
        BY <2>1, <3>1, <1>3
    <2>2. CASE i \in 1..(n - 1)
      BY <2>2
    <2> QED
      BY <1>1, <2>1, <2>2
  <1>6. \A i \in 1..n : G[i] \in Seq(WireMessage)
    BY <1>1, <1>2, <1>3
  <1>7. \A i \in 1..n : \A p \in 1..Len(H[i]) : H[i][p].no \in Nat /\ H[i][p].no <= w
    <2>1. \A i \in 1..n : \A p \in 1..Len(H[i]) : H[i][p] \in WireMessage
      BY <1>2
    <2> QED
      BY <2>1 DEF Filed, WireMessage
  <1>8. \A i \in 1..n : \A p \in 1..Len(G[i]) : G[i][p].no <= w + 1
    BY <1>4, <1>7
  <1>9. ASSUME NEW i \in 1..n, NEW j \in 1..n, NEW p \in 1..Len(G[i]), NEW q \in 1..Len(G[j]),
               i < j \/ (i = j /\ p < q)
        PROVE  G[i][p].no < G[j][q].no
    <2>1. CASE p \in 1..Len(H[i]) /\ G[i][p] = H[i][p]
      <3>1. CASE q \in 1..Len(H[j]) /\ G[j][q] = H[j][q]
        BY <2>1, <3>1, <1>9 DEF Filed
      <3>2. CASE j = n /\ q = l + 1 /\ G[j][q] = m
        <4>1. H[i][p].no \in Nat /\ H[i][p].no <= w
          BY <2>1, <1>7
        <4>2. G[i][p].no = H[i][p].no /\ G[j][q].no = w + 1
          BY <2>1, <3>2
        <4> QED
          BY <4>1, <4>2
      <3> QED
        BY <3>1, <3>2, <1>4
    <2>2. CASE i = n /\ p = l + 1 /\ G[i][p] = m
      <3>1. j = n /\ q > l + 1 /\ q <= l + 1
        BY <2>2, <1>9, <1>3
      <3> QED
        BY <3>1, <1>3
    <2> QED
      BY <2>1, <2>2, <1>4
  <1>10. ASSUME NEW x \in more
         PROVE  \E i \in 1..n : \E p \in 1..Len(G[i]) : G[i][p] = x
    <2>1. CASE x = m
      <3>1. l + 1 \in 1..Len(G[n])
        BY <1>3
      <3> QED
        BY <2>1, <3>1, <1>2, <1>3
    <2>2. CASE x \in acc
      <3>1. PICK i \in 1..n : \E p \in 1..Len(H[i]) : H[i][p] = x
        BY <2>2 DEF Filed
      <3> QED
        BY <3>1, <1>5
    <2> QED
      BY <2>1, <2>2
  <1> QED
    BY <1>6, <1>8, <1>9, <1>10 DEF Filed

\* The containers after one more was serialized: with the messages of the open
\* one, and perhaps one more, in the last place but one.
LEMMA HeldSerialized ==
    ASSUME BodyInv, NEW cont, NEW n, Serialize(cont, n), c' = nmsg_container_init
    PROVE  LET k == Len(bodies) + 1
           IN  /\ k \in Nat \ {0} /\ Len(bodies') = k
               /\ \A i \in 1..(k - 1) : Held'[i] = Held[i]
               /\ Held'[k] = cont.payloads /\ Held[k] = c.payloads
               /\ Held'[k + 1] = <<>>
  <1> DEFINE new == [payloads |-> cont.payloads, seq |-> sequence, sid |-> sid, frags |-> n]
             k == Len(bodies) + 1
  <1>1. PICK Bodies : bodies \in Seq(Bodies)
    BY DEF BodyInv
  <1>2. bodies' = Append(bodies, new) /\ new.payloads = cont.payloads
    BY DEF Serialize
  <1> HIDE DEF new
  <1>3. /\ k \in Nat \ {0} /\ Len(bodies') = k /\ bodies'[k] = new
        /\ \A i \in 1..(k - 1) : bodies'[i] = bodies[i]
    BY <1>1, <1>2
  <1>4. c'.payloads = <<>>
    BY EmptyFacts
  <1>5. \A i \in 1..(k - 1) : i \in 1..k /\ i \in 1..(k + 1) /\ i <= k - 1 /\ i <= k
    BY <1>3
  <1>6. k \in 1..k /\ k \in 1..(k + 1) /\ k + 1 \in 1..(k + 1) /\ ~(k <= k - 1) /\ ~(k + 1 <= k)
        /\ k <= k /\ Len(bodies) = k - 1
    BY <1>3, <1>1
  <1> HIDE DEF k
  <1>7. /\ Held = [i \in 1..k |-> IF i <= k - 1 THEN bodies[i].payloads ELSE c.payloads]
        /\ Held' = [i \in 1..(k + 1) |-> IF i <= k THEN bodies'[i].payloads ELSE c'.payloads]
    BY <1>3, <1>6 DEF Held, k
  <1>8. /\ \A i \in 1..(k - 1) : Held'[i] = Held[i]
        /\ Held'[k] = cont.payloads /\ Held[k] = c.payloads
        /\ Held'[k + 1] = <<>>
    BY <1>2, <1>3, <1>4, <1>5, <1>6, <1>7
  <1> QED
    BY <1>3, <1>8 DEF k

\* nmsg_output_write(), flushes and closes keep the messages in order.
LEMMA OrderStep ==
    ASSUME SizeInv, BodyInv, OrderInv, [Next]_vars
    PROVE  OrderInv'
  <1> DEFINE k == Len(bodies) + 1
  <1>t. /\ writes \in Nat /\ msg \in WireMessage /\ c.payloads \in Seq(WireMessage)
        /\ opc \in {"idle", "add", "readd", "closed"} /\ k \in Nat \ {0}
    BY DEF SizeInv, SizeTypes, ContainerType, BodyInv
  <1>1. ASSUME UNCHANGED <<bodies, c, accepted>>, UNCHANGED <<writes, opc, msg>>
        PROVE  OrderInv'
    BY <1>1 DEF OrderInv, Held, Busy
  <1>2. ASSUME NEW m \in conf.messages, Call(m)
        PROVE  OrderInv'
    <2>1. UNCHANGED <<bodies, c, accepted>> /\ writes' = writes + 1 /\ ~Busy
      BY <1>2 DEF Call, Busy
    <2>2. Held' = Held /\ Len(bodies') = Len(bodies)
      BY <2>1 DEF Held
    <2>3. Filed(Held, k, accepted, writes)
      BY <2>1 DEF OrderInv
    <2>4. CASE opc' = "add" /\ msg'.no = writes + 1
      <3>1. Busy' /\ writes' - 1 = writes /\ msg'.no = writes'
        BY <1>t, <2>1, <2>4 DEF Busy
      <3>2. Filed(Held', Len(bodies') + 1, accepted', IF Busy' THEN writes' - 1 ELSE writes')
        BY <2>1, <2>2, <2>3, <3>1
      <3> QED
        BY <3>1, <3>2 DEF OrderInv
    <2>5. CASE UNCHANGED <<opc, msg>>
      <3>1. ~Busy'
        BY <2>1, <2>5 DEF Busy
      <3>2. \A i \in 1..k : Held[i] \in Seq(WireMessage)
        BY <2>3 DEF Filed
      <3>3. \A i \in 1..k : \A p \in 1..Len(Held[i]) : Held[i][p] \in WireMessage
        BY <3>2
      <3>4. \A i \in 1..k : \A p \in 1..Len(Held[i]) :
              Held[i][p].no \in Nat /\ Held[i][p].no <= writes
        BY <2>3, <3>3 DEF Filed, WireMessage
      <3>5. \A i \in 1..k : \A p \in 1..Len(Held[i]) : Held[i][p].no <= writes + 1
        BY <1>t, <3>4
      <3>6. Filed(Held, k, accepted, writes + 1)
        BY <2>3, <3>5 DEF Filed
      <3> QED
        BY <2>1, <2>2, <3>1, <3>6 DEF OrderInv
    <2> QED
      BY <1>2, <2>4, <2>5 DEF Call
  \* The open container is serialized as it is.
  <1>3. ASSUME NEW n, Serialize(c, n), c' = nmsg_container_init, UNCHANGED <<accepted, writes>>,
               \/ opc' = "readd" /\ msg' = msg /\ Busy
               \/ opc' = "idle" /\ Busy
               \/ opc' = "closed" /\ ~Busy
        PROVE  OrderInv'
    <2> DEFINE w == IF Busy THEN writes - 1 ELSE writes
    <2>1. Filed(Held, k, accepted, w) /\ w \in Int
      BY <1>t DEF OrderInv
    <2>2. /\ Len(bodies') = k /\ Held'[k + 1] = <<>>
          /\ \A i \in 1..(k - 1) : Held'[i] = Held[i]
          /\ Held'[k] = Held[k]
      BY <1>3, HeldSerialized
    <2>3. \A i \in 1..k : Held'[i] = Held[i]
      <3>1. \A i \in 1..k : i \in 1..(k - 1) \/ i = k
        BY <1>t
      <3> QED
        BY <2>2, <3>1
    <2> HIDE DEF w, k
    <2>4. Filed(Held', k + 1, accepted, w)
      BY <1>t, <2>1, <2>2, <2>3, FiledNew
    <2>5. CASE Busy'
      <3>1. w = writes - 1 /\ msg' = msg /\ Busy
        BY <1>3, <2>5 DEF w, Busy
      <3>2. msg'.no = writes'
        BY <1>3, <3>1 DEF OrderInv
      <3>3. Filed(Held', Len(bodies') + 1, accepted', IF Busy' THEN writes' - 1 ELSE writes')
        BY <1>3, <2>2, <2>4, <2>5, <3>1
      <3> QED
        BY <3>2, <3>3 DEF OrderInv
    <2>6. CASE ~Busy'
      <3>1. w <= writes /\ w \in Int
        BY <1>t DEF w
      <3>2. \A i \in 1..(k + 1) : \A p \in 1..Len(Held'[i]) : Held'[i][p] \in WireMessage
        BY <2>4 DEF Filed
      <3>3. \A i \in 1..(k + 1) : \A p \in 1..Len(Held'[i]) :
              Held'[i][p].no \in Nat /\ Held'[i][p].no <= w
        BY <2>4, <3>2 DEF Filed, WireMessage
      <3>4. \A i \in 1..(k + 1) : \A p \in 1..Len(Held'[i]) : Held'[i][p].no <= writes
        BY <1>t, <3>1, <3>3
      <3>5. Filed(Held', k + 1, accepted, writes)
        BY <2>4, <3>4 DEF Filed
      <3> QED
        BY <1>3, <2>2, <2>6, <3>5 DEF OrderInv
    <2> QED
      BY <2>5, <2>6
  \* The message is added to the open container, which is serialized.
  <1>4. ASSUME NEW n, Serialize(ContainerAdd(c, msg), n), c' = nmsg_container_init, Busy,
               NEW ok, Return(ok), writes' = writes
        PROVE  OrderInv'
    <2>1. Filed(Held, k, accepted, writes - 1) /\ msg.no = writes
      BY <1>4 DEF OrderInv
    <2>2. /\ Len(bodies') = k /\ Held'[k + 1] = <<>>
          /\ \A i \in 1..(k - 1) : Held'[i] = Held[i]
          /\ Held'[k] = Append(Held[k], msg)
      <3>1. ContainerAdd(c, msg).payloads = Append(c.payloads, msg)
        BY DEF ContainerAdd
      <3> QED
        BY <1>4, <3>1, HeldSerialized
    <2>3. accepted' \subseteq accepted \cup {msg} /\ ~Busy'
      BY <1>4 DEF Return, Busy
    <2>4. writes - 1 \in Int /\ msg.no = (writes - 1) + 1 /\ (writes - 1) + 1 = writes
      BY <1>t, <2>1
    <2> DEFINE w == writes - 1
    <2> HIDE DEF k, w
    <2>5. Filed(Held', k, accepted', w + 1)
      BY <1>t, <2>1, <2>2, <2>3, <2>4, FiledAdd DEF w
    <2>6. Filed(Held', k, accepted', writes)
      BY <2>4, <2>5 DEF w
    <2>7. Filed(Held', k + 1, accepted', writes)
      BY <1>t, <2>2, <2>6, FiledNew
    <2> QED
      BY <1>4, <2>2, <2>3, <2>7 DEF OrderInv
  <1>5. CASE AddFull
    <2>1. PICK sent \in SendResults :
            /\ WriteContainer(c, sent)
            /\ IF sent THEN opc' = "readd" /\ UNCHANGED <<msg, accepted>>
                       ELSE Return(FALSE)
      BY <1>5 DEF AddFull
    <2>2. Serialize(c, 0) /\ c' = nmsg_container_init /\ writes' = writes /\ Busy
      BY <1>5, <2>1 DEF AddFull, WriteContainer, Busy
    <2>3. accepted' = accepted /\ ((opc' = "readd" /\ msg' = msg) \/ opc' = "idle")
      BY <2>1 DEF Return
    <2> QED
      BY <1>3, <2>2, <2>3
  <1>6. CASE AddBuffered
    <2>1. /\ c' = ContainerAdd(c, msg) /\ Return(TRUE) /\ UNCHANGED <<bodies, writes>> /\ Busy
      BY <1>6 DEF AddBuffered, Busy
    <2>2. Filed(Held, k, accepted, writes - 1) /\ msg.no = writes
      BY <2>1 DEF OrderInv
    <2>3. accepted' \subseteq accepted \cup {msg} /\ ~Busy'
      BY <2>1 DEF Return, Busy
    <2>4. /\ \A i \in 1..(k - 1) : Held'[i] = Held[i]
          /\ Held'[k] = Append(Held[k], msg)
      <3>1. c'.payloads = Append(c.payloads, msg)
        BY <2>1 DEF ContainerAdd
      <3>2. /\ Held = [i \in 1..k |-> IF i <= k - 1 THEN bodies[i].payloads ELSE c.payloads]
            /\ Held' = [i \in 1..k |-> IF i <= k - 1 THEN bodies[i].payloads ELSE c'.payloads]
        <4>1. Len(bodies) = k - 1 /\ Len(bodies') = k - 1
          BY <1>t, <2>1 DEF BodyInv
        <4> QED
          BY <2>1, <4>1 DEF Held
      <3>3. (\A i \in 1..(k - 1) : i \in 1..k /\ i <= k - 1) /\ k \in 1..k /\ ~(k <= k - 1)
        BY <1>t
      <3> HIDE DEF k
      <3> QED
        BY <3>1, <3>2, <3>3
    <2>5. writes - 1 \in Int /\ msg.no = (writes - 1) + 1 /\ (writes - 1) + 1 = writes
      BY <1>t, <2>2
    <2> DEFINE w == writes - 1
    <2> HIDE DEF k, w
    <2>6. Filed(Held', k, accepted', w + 1)
      BY <1>t, <2>2, <2>3, <2>4, <2>5, FiledAdd DEF w
    <2>7. Filed(Held', k, accepted', writes)
      BY <2>5, <2>6 DEF w
    <2> QED
      BY <2>1, <2>3, <2>7 DEF OrderInv, k
  <1>7. CASE AddWrite
    <2>1. PICK sent \in SendResults :
            WriteContainer(ContainerAdd(c, msg), sent) /\ Return(sent)
      BY <1>7 DEF AddWrite
    <2> QED
      BY <1>4, <1>7, <2>1 DEF AddWrite, WriteContainer, Busy
  <1>8. CASE AddFrag
    <2>1. PICK ok \in SendResults :
            FragWrite(ContainerAdd(c, msg), ok) /\ Return(ok)
      BY <1>8 DEF AddFrag
    <2>2. \E n : Serialize(ContainerAdd(c, msg), n)
      BY <2>1 DEF FragWrite
    <2>3. c' = nmsg_container_init /\ writes' = writes /\ Busy
      BY <1>8 DEF AddFrag, Busy
    <2> QED
      BY <1>4, <2>1, <2>2, <2>3
  <1>9. CASE Close
    <2>1. CASE c.payloads # <<>>
      <3>1. PICK sent \in SendResults : WriteContainer(c, sent)
        BY <1>9, <2>1 DEF Close
      <3>2. /\ Serialize(c, 0) /\ c' = nmsg_container_init /\ UNCHANGED <<accepted, writes>>
            /\ opc' = "closed" /\ ~Busy
        BY <1>9, <3>1 DEF Close, WriteContainer, Busy
      <3> QED
        BY <1>3, <3>2
    <2>2. CASE c.payloads = <<>>
      <3>1. c = nmsg_container_init
        BY <2>2 DEF SizeInv
      <3>2. /\ UNCHANGED <<bodies, c, accepted, writes, msg>> /\ ~Busy /\ ~Busy'
        BY <1>9, <2>2, <3>1 DEF Close, Busy
      <3>3. Held' = Held
        BY <3>2 DEF Held
      <3> QED
        BY <3>2, <3>3 DEF OrderInv
    <2> QED
      BY <2>1, <2>2
  <1>10. CASE Open
    <2>1. /\ UNCHANGED <<bodies, c, accepted, writes, msg>> /\ ~Busy /\ ~Busy'
      BY <1>10 DEF Open, Busy
    <2>2. Held' = Held
      BY <2>1 DEF Held
    <2> QED
      BY <2>1, <2>2 DEF OrderInv
  <1>11. CASE (InputNext /\ UNCHANGED outVars) \/ Finished \/ UNCHANGED vars
    <2>1. UNCHANGED <<bodies, outVars>>
      BY <1>11, InputKeeps DEF Finished, vars
    <2> QED
      BY <1>1, <2>1 DEF outVars
  <1> QED
    BY <1>2, <1>5, <1>6, <1>7, <1>8, <1>9, <1>10, <1>11 DEF Next, OutputNext

\* Messages stay in the order of the writes, and those accepted in a container.
THEOREM OrderInvariance == Spec => []OrderInv
  <1>1. ASSUME Init PROVE OrderInv
    <2>1. bodies = <<>> /\ Len(bodies) = 0 /\ accepted = {} /\ ~Busy
      BY <1>1 DEF Init, OutputInit, Busy
    <2>2. c.payloads = <<>>
      BY <1>1, EmptyFacts DEF Init, OutputInit
    <2>3. \A i \in 1..1 : Held[i] = <<>>
      BY <2>1, <2>2 DEF Held
    <2> DEFINE none == << >>
    <2>4. none \in Seq(WireMessage) /\ 1..Len(none) = {}
      OBVIOUS
    <2> HIDE DEF none
    <2>7. \A i \in 1..1 : Held[i] = none
      BY <2>3 DEF none
    <2>5. \A i \in 1..1 : Held[i] \in Seq(WireMessage) /\ 1..Len(Held[i]) = {}
      BY <2>7, <2>4
    <2>6. Filed(Held, 1, {}, writes)
      BY <2>5 DEF Filed
    <2> QED
      BY <2>1, <2>6 DEF OrderInv
  <1>2. SizeInv /\ BodyInv /\ OrderInv /\ [Next]_vars => OrderInv'
    BY OrderStep
  <1>3. Init => OrderInv
    BY <1>1
  <1> QED
    BY <1>2, <1>3, SizeInvariance, PTL DEF Spec

\* However containers fill up, are fragmented, fail to be sent or are flushed: a
\* message is put into one container, in the order of the writes, and one that
\* was reported as written is in a container.
THEOREM AcceptedAreHeld == Spec => []AcceptedOnce
  <1>1. ASSUME BodyInv, OrderInv PROVE AcceptedOnce
    <2>1. Filed(Held, Len(bodies) + 1, accepted, IF Busy THEN writes - 1 ELSE writes)
      BY <1>1 DEF OrderInv
    <2>2. \A i \in 1..(Len(bodies) + 1) :
            Held[i] = IF i <= Len(bodies) THEN bodies[i].payloads ELSE c.payloads
      BY DEF Held
    <2> DEFINE cont(i) == IF i <= Len(bodies) THEN bodies[i].payloads ELSE c.payloads
               n == Len(bodies) + 1
    <2>3. \A i \in 1..n : Held[i] = cont(i)
      BY <2>2
    <2> HIDE DEF cont, n
    <2>4. \A i, j \in 1..n : \A p \in 1..Len(cont(i)), q \in 1..Len(cont(j)) :
            i < j \/ (i = j /\ p < q) => cont(i)[p].no < cont(j)[q].no
      BY <2>1, <2>3 DEF Filed, n
    <2>5. \A m \in accepted : \E i \in 1..n : \E p \in 1..Len(cont(i)) : cont(i)[p] = m
      BY <2>1, <2>3 DEF Filed, n
    <2> QED
      BY <2>4, <2>5 DEF AcceptedOnce, cont, n
  <1>2. BodyInv /\ OrderInv => AcceptedOnce
    BY <1>1
  <1> QED
    BY <1>2, OrderInvariance, SizeInvariance, PTL

-----------------------------------------------------------------------------
(***************************************************************************)
(* The inductive invariant of the network: a datagram belongs to a         *)
(* container that was serialized, and the fragments of one container agree *)
(* on the index of the last one, which is the number of fragments or one   *)
(* less.                                                                   *)
(***************************************************************************)
Frag(d) == d.type = "frag"

InRange(d, n) ==
    /\ d.last \in Nat /\ d.current \in 0..d.last
    /\ n \in {d.last, d.last + 1} /\ d.current < n

WireInv ==
    /\ \E Frames : net \in Seq(Frames)
    /\ \A j \in 1..Len(net) :
         /\ net[j].body \in 1..Len(bodies)
         /\ Frag(net[j]) => InRange(net[j], bodies[net[j].body].frags)
    /\ \A j, k \in 1..Len(net) :
         Frag(net[j]) /\ Frag(net[k]) /\ net[j].body = net[k].body =>
             net[j].last = net[k].last

(***************************************************************************)
(* ... and of the tree: an entry misses at least one piece, has at least   *)
(* one, and has pieces of one container only; the counter is the size of   *)
(* the tree.                                                               *)
(***************************************************************************)
Pieces(ent) ==
    /\ ent.rem \in Nat /\ ent.last \in Nat
    /\ IsFiniteSet(ent.pieces) /\ ent.rem + Cardinality(ent.pieces) = ent.last + 1
    /\ ent.pieces # {} /\ ent.pieces \subseteq (0..ent.last) \X {ent.key[2]}
    /\ \E j \in 1..Len(net) :
         Frag(net[j]) /\ ent.key = FragKey(net[j]) /\ ent.last = net[j].last

TreeOk(tree, n) ==
    /\ IsFiniteSet(tree) /\ n = Cardinality(tree)
    /\ \A ent \in tree : Pieces(ent) /\ ent.rem # 0
    /\ \A ent, other \in tree : other.key = ent.key => other = ent

TreeInv == TreeOk(frags, nfrags)

\* Only containers that were serialized are unpacked.
RecvInv == recv \in Seq(1..Len(bodies))

(***************************************************************************)
(* ... and of the time: no entry of a socket's tree was overdue at the     *)
(* last walk, and with anything in the tree the last walk is less than an  *)
(* interval before the last read.                                          *)
(***************************************************************************)
ClockInv ==
    /\ clock \in Nat /\ now \in Nat /\ lastgc \in Nat
    /\ now <= clock /\ lastgc <= now
    /\ \A ent \in frags : ent.ts \in Nat /\ ent.ts <= now
    /\ conf.type = "sock" => \A ent \in frags : lastgc - ent.ts < FragGC
    /\ conf.type = "sock" /\ ended = "no" /\ frags # {} => now - lastgc < FragGC

ReadInv == WireInv /\ TreeInv /\ RecvInv /\ ClockInv

-----------------------------------------------------------------------------
(***************************************************************************)
(* What the writing end sends                                              *)
(***************************************************************************)

\* Datagrams are in the order of their containers, and a container that has more
\* than one has fragments of one id, in the order of their indices.
Rising(s) ==
    \A i, k \in 1..Len(s) :
        i < k => /\ s[i].body <= s[k].body
                 /\ s[i].body = s[k].body =>
                      /\ Frag(s[i]) /\ Frag(s[k])
                      /\ s[i].id = s[k].id /\ s[i].current < s[k].current

\* Container b is there, in one piece or in n fragments.
AllSent(s, b, n) ==
    /\ n \in Nat
    /\ n = 0 => \E i \in 1..Len(s) : s[i].body = b /\ ~Frag(s[i])
    /\ \A x \in 0..(n - 1) :
         \E i \in 1..Len(s) : s[i].body = b /\ Frag(s[i]) /\ s[i].current = x

\* The datagrams of the container that is serialized next, in n fragments.
Sent(new, n) ==
    /\ Rising(new)
    /\ ~conf.fail => AllSent(new, Len(bodies) + 1, n)
    /\ \E Frames : new \in Seq(Frames)
    /\ \A i \in 1..Len(new) :
         /\ new[i].body = Len(bodies) + 1
         /\ Frag(new[i]) => InRange(new[i], n)
    /\ \A i, k \in 1..Len(new) : Frag(new[i]) /\ Frag(new[k]) => new[i].last = new[k].last

\* The number of pieces of m bytes in len bytes is the index of the last, or one
\* more.
LEMMA CountFacts ==
    ASSUME NEW len \in Int, NEW m \in Nat \ {0}
    PROVE  /\ len \div m \in Int /\ (len + m - 1) \div m \in Int
           /\ (len + m - 1) \div m \in {len \div m, len \div m + 1}
           /\ (len + m - 1) \div m >= 1 => len \div m \in Nat
  <1> DEFINE q == len \div m
             k == (len + m - 1) \div m
  <1>1. q \in Int /\ k \in Int
    OBVIOUS
  <1>2. q * m <= len /\ len < q * m + m
    OBVIOUS
  <1>3. k * m <= len + m - 1 /\ len + m - 1 < k * m + m
    OBVIOUS
  <1> HIDE DEF q, k
  <1>4. q * m \in Int /\ k * m \in Int
    BY <1>1
  <1>5. ASSUME NEW a \in Int, NEW b \in Int, a < b
        PROVE  a * m + m <= b * m
    <2>1. (b - a - 1) * m >= 0
      BY <1>5
    <2>2. (b - a - 1) * m = b * m - a * m - m
      BY <1>5
    <2> QED
      BY <2>1, <2>2, <1>5
  <1>6. ~(k < q)
    <2> SUFFICES ASSUME k < q PROVE FALSE
      OBVIOUS
    <2>1. k * m + m <= q * m
      BY <1>1, <1>5
    <2> QED
      BY <2>1, <1>2, <1>3, <1>4
  <1>7. ~(q + 1 < k)
    <2> SUFFICES ASSUME q + 1 < k PROVE FALSE
      OBVIOUS
    <2>1. (q + 1) * m + m <= k * m
      BY <1>1, <1>5
    <2>2. (q + 1) * m = q * m + m
      BY <1>1
    <2> QED
      BY <2>1, <2>2, <1>2, <1>3, <1>4
  <1>8. k >= 1 => q >= 0
    BY <1>1, <1>7, <1>6
  <1> QED
    BY <1>1, <1>6, <1>7, <1>8 DEF q, k

\* Whatever is not empty has a piece.
LEMMA CountPositive ==
    ASSUME NEW len \in Int, len > 0, NEW m \in Nat \ {0}
    PROVE  (len + m - 1) \div m >= 1
  <1> DEFINE k == (len + m - 1) \div m
  <1>1. k \in Int /\ len + m - 1 < k * m + m
    OBVIOUS
  <1> HIDE DEF k
  <1>2. ASSUME k <= 0 PROVE FALSE
    <2>1. k * m <= 0
      BY <1>1, <1>2
    <2> QED
      BY <1>1, <2>1
  <1> QED
    BY <1>1, <1>2 DEF k

\* What may be serialized has a length.
LEMMA LengthFacts ==
    ASSUME SizeInv, NEW cont \in ContainerType, NEW len \in SerializedLens(cont, sequence)
    PROVE  len \in Int /\ len > 0 /\ MaxFragsz \in Nat \ {0}
  <1>1. conf \in Configs /\ sequence \in Nat
    BY DEF SizeInv, SizeTypes
  <1>2. MaxFragsz \in Nat \ {0}
    BY <1>1, ConfFacts DEF MaxFragsz
  <1>3. PackedLen(cont, sequence) \in Int
    BY <1>1, VarintFacts DEF PackedLen, ContainerType
  <1> QED
    BY <1>2, <1>3, WireAssumption DEF SerializedLens

\* One datagram, or none.
LEMMA OneSent ==
    ASSUME BodyInv, WireInv, NEW d, ~Frag(d), d.body = Len(bodies) + 1, NEW n,
           n = 0, net' = Append(net, d) \/ (net' = net /\ conf.fail)
    PROVE  \E new : Sent(new, n) /\ net' = net \o new
  <1>1. CASE net' = Append(net, d)
    <2>1. net' = net \o <<d>>
      BY <1>1 DEF WireInv
    <2>2. <<d>> \in Seq({d}) /\ Len(<<d>>) = 1 /\ <<d>>[1] = d
      OBVIOUS
    <2> DEFINE new == <<d>>
    <2>3. new \in Seq({d}) /\ \A i \in 1..Len(new) : new[i] = d
      BY <2>2
    <2> HIDE DEF new
    <2>4. Rising(new)
      BY <2>2, <2>3 DEF Rising, new
    <2>5. AllSent(new, Len(bodies) + 1, 0)
      <3>1. 1 \in 1..Len(new)
        BY <2>2 DEF new
      <3> QED
        BY <2>3, <3>1 DEF AllSent
    <2>6. Sent(new, n)
      BY <2>3, <2>4, <2>5 DEF Sent
    <2> QED
      BY <2>1, <2>6 DEF new
  <1>2. CASE net' = net /\ conf.fail
    <2>1. net' = net \o << >>
      BY <1>2 DEF WireInv
    <2>2. << >> \in Seq({d})
      OBVIOUS
    <2>3. Sent(<< >>, n)
      BY <1>2, <2>2 DEF Sent, Rising
    <2> QED
      BY <2>1, <2>3
  <1> QED
    BY <1>1, <1>2

\* _output_frag_write() numbers the fragments of a container as the receiver
\* expects them.
LEMMA FragmentsSent ==
    ASSUME BodyInv, NEW len \in Int, MaxFragsz \in Nat \ {0}, NEW id,
           NEW sent \in Picks(FragmentCount(len)), FragmentCount(len) >= 1,
           ~conf.fail => sent = [i \in 1..FragmentCount(len) |-> i]
    PROVE  Sent(Fragments(len, id, sent), FragmentCount(len))
  <1> DEFINE n == FragmentCount(len)
             new == Fragments(len, id, sent)
  <1>1. n \in Int /\ FragmentLast(len) \in Int
    BY CountFacts DEF FragmentCount, FragmentLast
  <1>2. PICK k \in 0..n : sent \in [1..k -> 1..n]
    BY DEF Picks
  <1>3. k \in Nat /\ sent \in Seq(1..n) /\ Len(sent) = k
    BY <1>1, <1>2
  <1>4. new = [i \in 1..k |-> Fragment(len, sent[i] - 1, id)]
    BY <1>3 DEF Fragments
  <1>5. new \in Seq({Fragment(len, sent[i] - 1, id) : i \in 1..k}) /\ Len(new) = k
    BY <1>3, <1>4
  <1>6. ASSUME NEW i \in 1..k
        PROVE  /\ new[i].body = Len(bodies) + 1
               /\ new[i].last = FragmentLast(len)
               /\ new[i].current = sent[i] - 1
               /\ new[i].id = id /\ Frag(new[i])
               /\ sent[i] \in 1..n
    BY <1>2, <1>4 DEF Fragment, Frag
  <1>7. ASSUME NEW i \in 1..k
        PROVE  InRange(new[i], n)
    <2>1. n >= 1
      BY <1>1, <1>2
    <2>2. FragmentLast(len) \in Nat /\ n \in {FragmentLast(len), FragmentLast(len) + 1}
      BY <2>1, CountFacts DEF FragmentCount, FragmentLast
    <2> HIDE DEF n, new
    <2> QED
      BY <1>1, <1>6, <1>7, <2>2 DEF InRange
  <1>8. \A i, h \in 1..k : i < h => sent[i] < sent[h]
    BY <1>2 DEF Picks
  <1> HIDE DEF n, new
  <1>9. Rising(new)
    <2> SUFFICES ASSUME NEW i \in 1..k, NEW h \in 1..k, i < h
                 PROVE  /\ new[i].body <= new[h].body
                        /\ Frag(new[i]) /\ Frag(new[h]) /\ new[i].id = new[h].id
                        /\ new[i].current < new[h].current
      BY <1>5 DEF Rising
    <2>1. sent[i] - 1 < sent[h] - 1
      BY <1>6, <1>8, <1>1
    <2>2. Len(bodies) + 1 <= Len(bodies) + 1
      BY DEF BodyInv
    <2> QED
      BY <1>6, <2>1, <2>2
  <1>10. ASSUME ~conf.fail PROVE AllSent(new, Len(bodies) + 1, n)
    <2>1. sent = [i \in 1..n |-> i] /\ n \in Nat /\ n # 0
      BY <1>10, <1>1 DEF n
    <2>2. k = n
      BY <1>2, <2>1, <1>1
    <2>3. ASSUME NEW x \in 0..(n - 1)
          PROVE  \E i \in 1..Len(new) :
                   new[i].body = Len(bodies) + 1 /\ Frag(new[i]) /\ new[i].current = x
      <3>1. x + 1 \in 1..k /\ x + 1 \in 1..n /\ (x + 1) - 1 = x
        BY <2>1, <2>2
      <3>2. new[x + 1].current = x
        BY <1>6, <2>1, <3>1
      <3> QED
        BY <1>5, <1>6, <3>1, <3>2
    <2> QED
      BY <2>1, <2>3 DEF AllSent
  <1> QED
    BY <1>5, <1>6, <1>7, <1>9, <1>10 DEF Sent, n, new

\* A step of the writing end leaves the network alone, or serializes a container
\* and sends datagrams of it.
LEMMA OutputSends ==
    ASSUME SizeInv, BodyInv, WireInv, OutputNext
    PROVE  \/ UNCHANGED <<bodies, net>>
           \/ \E cont, n, new : Serialize(cont, n) /\ Sent(new, n) /\ net' = net \o new
  <1>w. ASSUME NEW cont, NEW sent \in SendResults, WriteContainer(cont, sent)
        PROVE  \E n, new : Serialize(cont, n) /\ Sent(new, n) /\ net' = net \o new
    <2>1. PICK len : net' = IF sent THEN Append(net, Whole(NMSG_HDRLSZ_V2 + len)) ELSE net
      BY <1>w DEF WriteContainer
    <2> DEFINE d == Whole(NMSG_HDRLSZ_V2 + len)
    <2>2. ~Frag(d) /\ d.body = Len(bodies) + 1
      BY DEF Whole, Frag
    <2>3. net' = Append(net, d) \/ (net' = net /\ conf.fail)
      BY <1>w, <2>1 DEF SendResults
    <2> HIDE DEF d
    <2>4. \E new : Sent(new, 0) /\ net' = net \o new
      BY <2>2, <2>3, OneSent
    <2> QED
      BY <1>w, <2>4 DEF WriteContainer
  <1>f. ASSUME NEW cont \in ContainerType, NEW ok \in SendResults, FragWrite(cont, ok)
        PROVE  \E n, new : Serialize(cont, n) /\ Sent(new, n) /\ net' = net \o new
    <2>1. PICK len \in SerializedLens(cont, sequence) :
            \/ /\ Serialize(cont, 0)
               /\ net' = IF ok THEN Append(net, Bare(len)) ELSE net
            \/ /\ Serialize(cont, FragmentCount(len))
               /\ \E id \in Ids, sent \in Picks(FragmentCount(len)) :
                    /\ ~conf.fail => sent = [i \in 1..FragmentCount(len) |-> i]
                    /\ net' = net \o Fragments(len, id, sent)
      BY <1>f DEF FragWrite
    <2>2. len \in Int /\ len > 0 /\ MaxFragsz \in Nat \ {0}
      BY <2>1, LengthFacts
    <2>3. CASE /\ Serialize(cont, 0)
               /\ net' = IF ok THEN Append(net, Bare(len)) ELSE net
      <3> DEFINE d == Bare(len)
      <3>1. ~Frag(d) /\ d.body = Len(bodies) + 1
        BY DEF Bare, Whole, Frag
      <3>2. net' = Append(net, d) \/ (net' = net /\ conf.fail)
        BY <1>f, <2>3 DEF SendResults
      <3> HIDE DEF d
      <3>3. \E new : Sent(new, 0) /\ net' = net \o new
        BY <3>1, <3>2, OneSent
      <3> QED
        BY <2>3, <3>3
    <2>4. ASSUME Serialize(cont, FragmentCount(len)),
                 NEW id \in Ids, NEW sent \in Picks(FragmentCount(len)),
                 ~conf.fail => sent = [i \in 1..FragmentCount(len) |-> i],
                 net' = net \o Fragments(len, id, sent)
          PROVE  \E n, new : Serialize(cont, n) /\ Sent(new, n) /\ net' = net \o new
      <3>1. FragmentCount(len) >= 1
        BY <2>2, CountPositive DEF FragmentCount
      <3>2. Sent(Fragments(len, id, sent), FragmentCount(len))
        BY <2>2, <2>4, <3>1, FragmentsSent
      <3> QED
        BY <2>4, <3>2
    <2> QED
      BY <2>1, <2>3, <2>4
  <1>1. ASSUME NEW m \in conf.messages, Call(m)
        PROVE  UNCHANGED <<bodies, net>>
    BY <1>1 DEF Call
  <1>2. CASE AddFull
    BY <1>2, <1>w DEF AddFull
  <1>3. CASE AddBuffered
    BY <1>3 DEF AddBuffered
  <1>4. CASE AddWrite
    BY <1>4, <1>w DEF AddWrite
  <1>5. CASE AddFrag
    <2>1. ~ContainerFull(c, msg)
      BY <1>5 DEF AddFrag, ContainerFull, SizeInv, nmsg_container_init
    <2>2. ContainerAdd(c, msg) \in ContainerType
      BY <2>1, AddFacts DEF SizeInv, SizeTypes
    <2> QED
      BY <1>5, <2>2, <1>f DEF AddFrag
  <1>6. CASE Close
    BY <1>6, <1>w DEF Close
  <1>7. CASE Open
    BY <1>7 DEF Open
  <1> QED
    BY <1>1, <1>2, <1>3, <1>4, <1>5, <1>6, <1>7 DEF OutputNext

\* What is sent joins what is on the network.
LEMMA WireAppend ==
    ASSUME BodyInv, WireInv, NEW cont, NEW n, NEW new,
           Serialize(cont, n), Sent(new, n), net' = net \o new
    PROVE  /\ WireInv'
           /\ Len(bodies') = Len(bodies) + 1
           /\ \A b \in 1..Len(bodies) : bodies'[b] = bodies[b]
           /\ Len(net') >= Len(net)
           /\ \A j \in 1..Len(net) : net'[j] = net[j]
           /\ \A j \in 1..Len(net') : j \in 1..Len(net) \/ net'[j].body = Len(bodies) + 1
  <1> DEFINE body == [payloads |-> cont.payloads, seq |-> sequence, sid |-> sid, frags |-> n]
  <1>1. PICK Bodies : bodies \in Seq(Bodies)
    BY DEF BodyInv
  <1>2. bodies' = Append(bodies, body)
    BY DEF Serialize
  <1> HIDE DEF body
  <1>3. /\ Len(bodies) \in Nat /\ Len(bodies') = Len(bodies) + 1
        /\ \A b \in 1..Len(bodies) : bodies'[b] = bodies[b]
        /\ bodies'[Len(bodies) + 1] = body
    BY <1>1, <1>2
  <1>4. PICK F : net \in Seq(F)
    BY DEF WireInv
  <1>5. PICK G : new \in Seq(G)
    BY DEF Sent
  <1>6. net \in Seq(F \cup G) /\ new \in Seq(F \cup G)
    BY <1>4, <1>5
  <1>7. /\ net' \in Seq(F \cup G) /\ Len(net') = Len(net) + Len(new)
        /\ Len(net) \in Nat /\ Len(new) \in Nat
        /\ \A j \in 1..Len(net) : net'[j] = net[j]
        /\ \A j \in 1..Len(net') : j > Len(net) => net'[j] = new[j - Len(net)]
    BY <1>6
  <1>8. ASSUME NEW j \in 1..Len(net')
        PROVE  \/ j \in 1..Len(net) /\ net'[j] = net[j]
               \/ \E i \in 1..Len(new) : j > Len(net) /\ net'[j] = new[i]
    <2>1. CASE j <= Len(net)
      BY <2>1, <1>7
    <2>2. CASE j > Len(net)
      <3>1. j - Len(net) \in 1..Len(new)
        BY <2>2, <1>7
      <3> QED
        BY <2>2, <3>1, <1>7
    <2> QED
      BY <2>1, <2>2, <1>7
  <1>9. body.frags = n
    BY DEF body
  <1>10. ASSUME NEW j \in 1..Len(net)
         PROVE  net[j].body \in 1..Len(bodies) /\ net[j].body # Len(bodies) + 1
    BY <1>3 DEF WireInv
  <1>11. ASSUME NEW j \in 1..Len(net')
         PROVE  /\ net'[j].body \in 1..Len(bodies')
                /\ Frag(net'[j]) => InRange(net'[j], bodies'[net'[j].body].frags)
    <2>1. CASE j \in 1..Len(net) /\ net'[j] = net[j]
      BY <2>1, <1>3, <1>10 DEF WireInv
    <2>2. ASSUME NEW i \in 1..Len(new), net'[j] = new[i]
          PROVE  /\ net'[j].body \in 1..Len(bodies')
                 /\ Frag(net'[j]) => InRange(net'[j], bodies'[net'[j].body].frags)
      BY <2>2, <1>3, <1>9 DEF Sent
    <2> QED
      BY <2>1, <2>2, <1>8
  <1>12. ASSUME NEW j \in 1..Len(net'), NEW k \in 1..Len(net'),
                Frag(net'[j]), Frag(net'[k]), net'[j].body = net'[k].body
         PROVE  net'[j].last = net'[k].last
    <2>1. CASE j \in 1..Len(net) /\ net'[j] = net[j]
      <3>1. net'[k].body # Len(bodies) + 1
        BY <2>1, <1>10, <1>12
      <3>2. k \in 1..Len(net) /\ net'[k] = net[k]
        BY <3>1, <1>8 DEF Sent
      <3> QED
        BY <2>1, <3>2, <1>12 DEF WireInv
    <2>2. ASSUME NEW i \in 1..Len(new), net'[j] = new[i]
          PROVE  net'[j].last = net'[k].last
      <3>1. net'[j].body = Len(bodies) + 1
        BY <2>2 DEF Sent
      <3>2. PICK h \in 1..Len(new) : net'[k] = new[h]
        BY <3>1, <1>8, <1>10, <1>12
      <3> QED
        BY <2>2, <3>2, <1>12 DEF Sent
    <2> QED
      BY <2>1, <2>2, <1>8
  <1> QED
    <2>1. (\E Frames : net \in Seq(Frames))'
      BY <1>7
    <2>2. WireInv'
      BY <2>1, <1>11, <1>12 DEF WireInv
    <2>3. \A j \in 1..Len(net') : j \in 1..Len(net) \/ net'[j].body = Len(bodies) + 1
      BY <1>8 DEF Sent
    <2> QED
      BY <2>2, <2>3, <1>3, <1>7

-----------------------------------------------------------------------------
(***************************************************************************)
(* The tree of fragments                                                   *)
(***************************************************************************)

\* A datagram finds the one entry of its container, or makes one.
LEMMA EntryFound ==
    ASSUME TreeInv, NEW d
    PROVE  \/ Entries(d) = {} /\ FragNew(d)
           \/ /\ ~FragNew(d)
              /\ FragFind(d) \in frags /\ FragFind(d).key = FragKey(d)
              /\ Entries(d) = {FragFind(d)}
  <1>1. CASE Entries(d) = {}
    BY <1>1 DEF FragNew
  <1>2. CASE Entries(d) # {}
    <2>1. FragFind(d) \in Entries(d)
      BY <1>2 DEF FragFind, FragNew
    <2>2. FragFind(d) \in frags /\ FragFind(d).key = FragKey(d)
      BY <2>1 DEF Entries
    <2>3. ASSUME NEW e \in Entries(d) PROVE e = FragFind(d)
      <3>1. e \in frags /\ e.key = FragKey(d)
        BY <2>3 DEF Entries
      <3> QED
        BY <3>1, <2>2 DEF TreeInv, TreeOk
    <2> QED
      BY <1>2, <2>1, <2>2, <2>3 DEF FragNew
  <1> QED
    BY <1>1, <1>2

\* A new piece makes an entry miss one piece less.
LEMMA PieceAdded ==
    ASSUME NEW d, NEW rem \in Nat \ {0}, NEW last \in Nat, NEW pieces,
           IsFiniteSet(pieces), rem + Cardinality(pieces) = last + 1,
           pieces \subseteq (0..last) \X {d.body}, d.current \in 0..last,
           ~ \E p \in pieces : p[1] = d.current
    PROVE  LET new == pieces \cup {<<d.current, d.body>>}
           IN  /\ rem - 1 \in Nat
               /\ IsFiniteSet(new) /\ rem - 1 + Cardinality(new) = last + 1
               /\ new # {} /\ new \subseteq (0..last) \X {d.body}
  <1> DEFINE p == <<d.current, d.body>>
             new == pieces \cup {p}
  <1>1. p \notin pieces /\ p \in (0..last) \X {d.body}
    OBVIOUS
  <1> HIDE DEF p
  <1>2. IsFiniteSet(new) /\ Cardinality(new) = Cardinality(pieces) + 1
    BY <1>1, FS_AddElement
  <1>3. Cardinality(pieces) \in Nat
    BY FS_CardinalityType
  <1>4. rem - 1 \in Nat /\ rem - 1 + Cardinality(new) = last + 1
    BY <1>2, <1>3
  <1>5. new # {} /\ new \subseteq (0..last) \X {d.body}
    BY <1>1
  <1> QED
    BY <1>2, <1>4, <1>5 DEF p

\* A fragment leaves its entry with the pieces it had and this one.
LEMMA Attached ==
    ASSUME WireInv, TreeInv, NEW j \in 1..Len(net), Frag(net[j])
    PROVE  LET ent == FragAttach(FragFind(net[j]), net[j])
           IN  /\ Pieces(ent) /\ ent.key = FragKey(net[j])
               /\ ent.ts = IF FragNew(net[j]) THEN clock ELSE FragFind(net[j]).ts
  <1> DEFINE d == net[j]
             old == FragFind(d)
             ent == FragAttach(old, d)
             new == old.pieces \cup {<<d.current, d.body>>}
  <1>1. d.last \in Nat /\ d.current \in 0..d.last
    BY DEF WireInv, InRange
  <1>2. /\ old.rem \in Nat \ {0} /\ old.last = d.last
        /\ IsFiniteSet(old.pieces) /\ old.rem + Cardinality(old.pieces) = old.last + 1
        /\ old.pieces \subseteq (0..old.last) \X {d.body}
        /\ old.key = FragKey(d)
        /\ old.ts = IF FragNew(d) THEN clock ELSE FragFind(d).ts
    <2>1. CASE FragNew(d)
      <3>1. old = [key |-> FragKey(d), last |-> d.last, rem |-> d.last + 1, ts |-> clock,
                   pieces |-> {}]
        BY <2>1 DEF FragFind
      <3>2. IsFiniteSet({}) /\ Cardinality({}) = 0
        BY FS_EmptySet
      <3> HIDE DEF old, d
      <3>3. old.rem = d.last + 1 /\ old.last = d.last /\ old.pieces = {}
            /\ old.key = FragKey(d) /\ old.ts = clock
        BY <3>1
      <3> QED
        BY <2>1, <3>2, <3>3, <1>1
    <2>2. CASE ~FragNew(d)
      <3>1. old \in frags /\ old.key = FragKey(d)
        BY <2>2, EntryFound
      <3>2. Pieces(old) /\ old.rem # 0
        BY <3>1 DEF TreeInv, TreeOk
      <3>3. PICK k \in 1..Len(net) :
              Frag(net[k]) /\ old.key = FragKey(net[k]) /\ old.last = net[k].last
        BY <3>2 DEF Pieces
      <3>4. net[k].body = d.body /\ old.key[2] = d.body
        BY <3>1, <3>3 DEF FragKey
      <3>5. old.last = d.last
        BY <3>3, <3>4 DEF WireInv
      <3> HIDE DEF old, d
      <3> QED
        BY <2>2, <3>1, <3>2, <3>4, <3>5 DEF Pieces, old
    <2> QED
      BY <2>1, <2>2
  <1>3. d.body = FragKey(d)[2]
    BY DEF FragKey
  <1>4. \E k \in 1..Len(net) : Frag(net[k]) /\ old.key = FragKey(net[k]) /\ old.last = net[k].last
    BY <1>2
  <1>5. Pieces(old) \/ old.pieces = {}
    <2> HIDE DEF old, d
    <2> QED
      BY <1>1, <1>2, <1>3, <1>4 DEF Pieces
  <1>6. CASE \E p \in old.pieces : p[1] = d.current
    <2>1. ent = old
      BY <1>6 DEF FragAttach
    <2>2. Pieces(old)
      BY <1>6, <1>5
    <2> HIDE DEF old, ent
    <2>3. Pieces(ent) /\ ent.key = FragKey(d) /\ ent.ts = IF FragNew(d) THEN clock ELSE FragFind(d).ts
      BY <2>1, <2>2, <1>2
    <2> QED
      BY <2>3 DEF ent, old
  <1>7. CASE ~ \E p \in old.pieces : p[1] = d.current
    <2>1. ent = [old EXCEPT !.pieces = new, !.rem = @ - 1]
      BY <1>7 DEF FragAttach
    <2>2. /\ old.rem - 1 \in Nat
          /\ IsFiniteSet(new) /\ old.rem - 1 + Cardinality(new) = old.last + 1
          /\ new # {} /\ new \subseteq (0..old.last) \X {d.body}
      <3> DEFINE rem == old.rem
                 last == old.last
                 pieces == old.pieces
      <3>1. /\ rem \in Nat \ {0} /\ last \in Nat /\ IsFiniteSet(pieces)
            /\ rem + Cardinality(pieces) = last + 1
            /\ pieces \subseteq (0..last) \X {d.body} /\ d.current \in 0..last
            /\ ~ \E p \in pieces : p[1] = d.current
        BY <1>1, <1>2, <1>7
      <3> HIDE DEF rem, last, pieces, d
      <3>2. LET more == pieces \cup {<<d.current, d.body>>}
            IN  /\ rem - 1 \in Nat
                /\ IsFiniteSet(more) /\ rem - 1 + Cardinality(more) = last + 1
                /\ more # {} /\ more \subseteq (0..last) \X {d.body}
        BY <3>1, PieceAdded
      <3> QED
        BY <3>2 DEF rem, last, pieces
    <2> HIDE DEF new
    <2>3. /\ ent.pieces = new /\ ent.rem = old.rem - 1 /\ ent.last = old.last
          /\ ent.key = old.key /\ ent.ts = old.ts
      BY <2>1
    <2> HIDE DEF old, ent, d
    <2>4. old.last \in Nat /\ ent.key[2] = d.body
      BY <2>3, <1>1, <1>2, <1>3
    <2>5. Pieces(ent)
      BY <2>2, <2>3, <2>4, <1>4 DEF Pieces
    <2>6. ent.key = FragKey(d) /\ ent.ts = IF FragNew(d) THEN clock ELSE FragFind(d).ts
      BY <2>3, <1>2
    <2> QED
      BY <2>5, <2>6 DEF ent, old, d
  <1> QED
    BY <1>6, <1>7

\* The tree with the entry of a fragment replaced ...
LEMMA TreeReplace ==
    ASSUME WireInv, TreeInv, NEW j \in 1..Len(net), Frag(net[j]),
           FragAttach(FragFind(net[j]), net[j]).rem > 0
    PROVE  TreeOk((frags \ Entries(net[j])) \cup {FragAttach(FragFind(net[j]), net[j])},
                  IF FragNew(net[j]) THEN nfrags + 1 ELSE nfrags)
  <1> DEFINE d == net[j]
             ent == FragAttach(FragFind(d), d)
             rest == frags \ Entries(d)
  <1>1. Pieces(ent) /\ ent.key = FragKey(d)
    BY Attached
  <1>2. /\ IsFiniteSet(rest)
        /\ Cardinality(rest) = IF FragNew(d) THEN nfrags ELSE nfrags - 1
        /\ nfrags \in Nat
    <2>1. IsFiniteSet(frags) /\ nfrags = Cardinality(frags) /\ nfrags \in Nat
      BY FS_CardinalityType DEF TreeInv, TreeOk
    <2>2. CASE FragNew(d)
      BY <2>1, <2>2 DEF FragNew
    <2>3. CASE ~FragNew(d)
      <3>1. FragFind(d) \in frags /\ Entries(d) = {FragFind(d)}
        BY <2>3, EntryFound
      <3> QED
        BY <2>1, <2>3, <3>1, FS_RemoveElement
    <2> QED
      BY <2>2, <2>3
  <1>3. \A e \in rest : e.key # FragKey(d)
    BY DEF Entries
  <1>4. ent \notin rest /\ ent.rem # 0
    BY <1>1, <1>3
  <1> HIDE DEF ent
  <1>5. IsFiniteSet(rest \cup {ent}) /\ Cardinality(rest \cup {ent}) = Cardinality(rest) + 1
    BY <1>2, <1>4, FS_AddElement
  <1>6. Cardinality(rest \cup {ent}) = IF FragNew(d) THEN nfrags + 1 ELSE nfrags
    BY <1>2, <1>5
  <1>7. \A e \in rest : Pieces(e) /\ e.rem # 0
    BY DEF TreeInv, TreeOk
  <1>8. \A e, other \in rest \cup {ent} : other.key = e.key => other = e
    BY <1>1, <1>3 DEF TreeInv, TreeOk
  <1> HIDE DEF rest
  <1>9. TreeOk(rest \cup {ent}, IF FragNew(d) THEN nfrags + 1 ELSE nfrags)
    BY <1>1, <1>4, <1>5, <1>6, <1>7, <1>8 DEF TreeOk
  <1> QED
    BY <1>9 DEF ent, rest

\* ... or taken out is as it should be.
LEMMA TreeRemove ==
    ASSUME TreeInv, NEW d
    PROVE  TreeOk(frags \ Entries(d), IF FragNew(d) THEN nfrags ELSE nfrags - 1)
  <1>1. IsFiniteSet(frags) /\ nfrags = Cardinality(frags)
    BY DEF TreeInv, TreeOk
  <1>2. CASE FragNew(d)
    <2>1. frags \ Entries(d) = frags
      BY <1>2 DEF FragNew
    <2> QED
      BY <1>2, <2>1 DEF TreeInv
  <1>3. CASE ~FragNew(d)
    <2>1. FragFind(d) \in frags /\ Entries(d) = {FragFind(d)}
      BY <1>3, EntryFound
    <2>2. IsFiniteSet(frags \ Entries(d)) /\ Cardinality(frags \ Entries(d)) = nfrags - 1
      BY <1>1, <2>1, FS_RemoveElement
    <2> QED
      BY <1>3, <2>2 DEF TreeInv, TreeOk
  <1> QED
    BY <1>2, <1>3

\* _input_frag_gc() keeps a tree as it should be, and its counter.
LEMMA TreeGc ==
    ASSUME NEW tree, NEW n, TreeOk(tree, n), FragGc(tree, n), UNCHANGED net
    PROVE  TreeInv'
  <1>1. IsFiniteSet(tree) /\ n = Cardinality(tree) /\ n \in Nat
    BY FS_CardinalityType DEF TreeOk
  <1>2. frags' \subseteq tree /\ nfrags' = Cardinality(frags')
    <2>1. CASE conf.type = "sock" /\ GcDue(n, lastgc)
      <3> DEFINE gone == tree \ FragGcTree(tree)
      <3>1. frags' = FragGcTree(tree) /\ nfrags' = n - Cardinality(gone)
        BY <2>1 DEF FragGc
      <3>2. FragGcTree(tree) \subseteq tree
        BY DEF FragGcTree
      <3>3. FragGcTree(tree) = tree \ gone /\ tree \cap gone = gone
        BY <3>2
      <3> HIDE DEF gone
      <3>4. Cardinality(tree \ gone) = n - Cardinality(gone)
        BY <1>1, <3>3, FS_Difference
      <3> QED
        BY <3>1, <3>2, <3>3, <3>4
    <2>2. CASE ~(conf.type = "sock" /\ GcDue(n, lastgc))
      BY <2>2, <1>1 DEF FragGc
    <2> QED
      BY <2>1, <2>2
  <1>3. IsFiniteSet(frags')
    BY <1>1, <1>2, FS_Subset
  <1>4. \A ent \in tree : Pieces(ent)' = Pieces(ent)
    BY DEF Pieces
  <1> QED
    BY <1>2, <1>3, <1>4 DEF TreeInv, TreeOk

\* All the pieces of a container are as many as their indices.
LEMMA AllPieces ==
    ASSUME NEW l \in Nat, NEW b
    PROVE  IsFiniteSet((0..l) \X {b}) /\ Cardinality((0..l) \X {b}) = l + 1
  <1> DEFINE idx == 0..l
  <1>1. l \in Int /\ 0 \in Int
    OBVIOUS
  <1>2. IsFiniteSet(idx) /\ Cardinality(idx) = IF 0 > l THEN 0 ELSE l - 0 + 1
    BY <1>1, FS_Interval
  <1>3. (IF 0 > l THEN 0 ELSE l - 0 + 1) = l + 1
    OBVIOUS
  <1>4. IsFiniteSet({b}) /\ Cardinality({b}) = 1
    BY FS_Singleton
  <1> HIDE DEF idx
  <1>5. IsFiniteSet(idx \X {b}) /\ Cardinality(idx \X {b}) = Cardinality(idx) * Cardinality({b})
    BY <1>2, <1>4, FS_Product
  <1> QED
    BY <1>2, <1>3, <1>4, <1>5 DEF idx

\* The pieces of a container that has them all make up that container.
LEMMA Reassembled ==
    ASSUME WireInv, BodyInv, TreeInv, NEW j \in 1..Len(net), Frag(net[j]),
           FragAttach(FragFind(net[j]), net[j]).rem = 0
    PROVE  LET ent == FragAttach(FragFind(net[j]), net[j])
           IN  /\ Reassemble(ent) \in 1..Len(bodies) /\ Reassemble(ent) = net[j].body
               /\ ent.pieces = (0..ent.last) \X {net[j].body}
  <1> DEFINE ent == FragAttach(FragFind(net[j]), net[j])
             b == net[j].body
             all == (0..ent.last) \X {b}
             whole == {x \in 1..Len(bodies) : ent.pieces = (0..ent.last) \X {x}}
  <1>1. Pieces(ent) /\ ent.key = FragKey(net[j])
    BY Attached
  <1>2. b \in 1..Len(bodies) /\ ent.key[2] = b
    BY <1>1 DEF WireInv, FragKey
  <1>3. Reassemble(ent) = IF whole = {} THEN Garbage ELSE CHOOSE x \in whole : TRUE
    BY DEF Reassemble
  <1>s. ent.rem = 0
    OBVIOUS
  <1> HIDE DEF ent, b
  <1>4. /\ ent.last \in Nat /\ ent.pieces \in SUBSET all
        /\ IsFiniteSet(ent.pieces) /\ Cardinality(ent.pieces) = ent.last + 1
    <2>1. IsFiniteSet(ent.pieces) /\ Cardinality(ent.pieces) \in Nat
      BY <1>1, FS_CardinalityType DEF Pieces
    <2> QED
      BY <1>1, <1>2, <1>s, <2>1 DEF Pieces
  <1>5. IsFiniteSet(all) /\ Cardinality(all) = ent.last + 1
    BY <1>4, AllPieces
  <1>6. ent.pieces = all
    BY <1>4, <1>5, FS_Subset
  <1>7. b \in whole
    BY <1>2, <1>6
  <1>8. ASSUME NEW x \in whole PROVE x = b
    <2>1. <<0, b>> \in ent.pieces
      BY <1>4, <1>6
    <2>2. ent.pieces = (0..ent.last) \X {x}
      OBVIOUS
    <2> QED
      BY <2>1, <2>2
  <1> HIDE DEF whole
  <1>9. Reassemble(ent) \in whole
    BY <1>3, <1>7
  <1>10. Reassemble(ent) = b
    BY <1>8, <1>9
  <1> QED
    BY <1>2, <1>6, <1>10 DEF ent, b

\* A read that ends with _input_frag_gc() leaves nothing that is overdue.
LEMMA ClockGc ==
    ASSUME ClockInv, NEW tree, NEW n, TreeOk(tree, n), FragGc(tree, n),
           \A ent \in tree : /\ ent.ts \in Nat /\ ent.ts <= clock
                             /\ conf.type = "sock" => lastgc - ent.ts < FragGC,
           now' = clock, UNCHANGED <<clock, conf>>
    PROVE  ClockInv'
  <1>1. /\ clock \in Nat /\ lastgc \in Nat /\ lastgc <= clock /\ FragGC \in Nat \ {0}
    BY InputAssumption DEF ClockInv
  <1>2. CASE conf.type = "sock" /\ GcDue(n, lastgc)
    <2>1. frags' = FragGcTree(tree) /\ lastgc' = clock
      BY <1>2 DEF FragGc
    <2>2. \A ent \in frags' : ent \in tree /\ clock - ent.ts < FragGC
      BY <2>1 DEF FragGcTree
    <2>3. now' - lastgc' < FragGC
      BY <1>1, <2>1
    <2> QED
      BY <1>1, <2>1, <2>2, <2>3 DEF ClockInv
  <1>3. CASE ~(conf.type = "sock" /\ GcDue(n, lastgc))
    <2>1. frags' = tree /\ lastgc' = lastgc
      BY <1>3 DEF FragGc
    <2>2. ASSUME conf.type = "sock", tree # {} PROVE clock - lastgc < FragGC
      <3>1. n \in Nat /\ n # 0
        BY <2>2, FS_EmptySet, FS_CardinalityType DEF TreeOk
      <3> QED
        BY <1>1, <1>3, <2>2, <3>1 DEF GcDue
    <2> QED
      BY <1>1, <2>1, <2>2 DEF ClockInv
  <1> QED
    BY <1>2, <1>3

\* A container that is unpacked is one that was serialized.
LEMMA RecvAppend ==
    ASSUME RecvInv, NEW b \in 1..Len(bodies), Unpacked(b), UNCHANGED bodies
    PROVE  RecvInv'
  <1>1. recv' = Append(recv, b)
    BY DEF Unpacked
  <1> QED
    BY <1>1 DEF RecvInv

\* The reading end keeps all of it.
LEMMA InputStep ==
    ASSUME SizeInv, BodyInv, ReadInv, InputNext, UNCHANGED outVars
    PROVE  ReadInv'
  <1>s. WireInv /\ TreeInv /\ RecvInv /\ ClockInv
    BY DEF ReadInv
  <1>u. UNCHANGED <<conf, bodies, net>>
    BY DEF InputNext, ReadNext, ReadAgain, ReadEof, Tick, ReadWhole, ReadFrag, ReadLastFrag,
           ReadBare, Arrive
  <1>w. WireInv'
    BY <1>s, <1>u DEF WireInv
  <1>t. ASSUME UNCHANGED <<frags, nfrags>> PROVE TreeInv'
    <2>1. \A ent : Pieces(ent)' = Pieces(ent)
      BY <1>u DEF Pieces
    <2> QED
      BY <1>s, <1>t, <2>1 DEF TreeInv, TreeOk
  <1>r. ASSUME UNCHANGED recv PROVE RecvInv'
    BY <1>r, <1>s, <1>u DEF RecvInv
  <1>c. ASSUME UNCHANGED <<now, lastgc, frags>>, ended' \in {ended, "eof"}, clock' \in {clock, clock + 1}
        PROVE  ClockInv'
    <2>1. clock' \in Nat /\ now <= clock'
      BY <1>c, <1>s DEF ClockInv
    <2>2. ended' = "no" => ended = "no"
      BY <1>c
    <2> QED
      BY <1>c, <1>s, <1>u, <2>1, <2>2 DEF ClockInv
  <1>1. CASE ReadNext
    BY <1>1, <1>w, <1>t, <1>r, <1>c DEF ReadNext, ReadInv
  <1>2. CASE ReadAgain
    BY <1>2, <1>w, <1>t, <1>r, <1>c DEF ReadAgain, ReadInv
  <1>3. CASE ReadEof
    BY <1>3, <1>w, <1>t, <1>r, <1>c DEF ReadEof, ReadInv
  <1>4. CASE Tick
    BY <1>4, <1>w, <1>t, <1>r, <1>c DEF Tick, ReadInv
  <1>5. ASSUME NEW j \in 1..Len(net), ReadWhole(j)
        PROVE  ReadInv'
    <2>1. net[j].body \in 1..Len(bodies)
      BY <1>s DEF WireInv
    <2>2. Unpacked(net[j].body) /\ FragGc(frags, nfrags) /\ now' = clock /\ clock' = clock
      BY <1>5 DEF ReadWhole, Arrive
    <2>3. RecvInv'
      BY <1>s, <1>u, <2>1, <2>2, RecvAppend
    <2>4. TreeInv'
      BY <1>s, <1>u, <2>2, TreeGc DEF TreeInv
    <2>5. \A ent \in frags : /\ ent.ts \in Nat /\ ent.ts <= clock
                             /\ conf.type = "sock" => lastgc - ent.ts < FragGC
      BY <1>s DEF ClockInv
    <2>6. ClockInv'
      BY <1>s, <1>u, <2>2, <2>5, ClockGc DEF TreeInv
    <2> QED
      BY <1>w, <2>3, <2>4, <2>6 DEF ReadInv
  <1>6. ASSUME NEW j \in 1..Len(net), Frag(net[j]), ReadFrag(j)
        PROVE  ReadInv'
    <2> DEFINE d == net[j]
               ent == FragAttach(FragFind(d), d)
               tree == (frags \ Entries(d)) \cup {ent}
               n == IF FragNew(d) THEN nfrags + 1 ELSE nfrags
    <2>1. ent.rem > 0 /\ FragGc(tree, n) /\ now' = clock /\ clock' = clock /\ recv' = recv
      BY <1>6 DEF ReadFrag, Arrive
    <2>2. TreeOk(tree, n)
      BY <1>s, <1>6, <2>1, TreeReplace
    <2>3. \A e \in frags : /\ e.ts \in Nat /\ e.ts <= clock
                           /\ conf.type = "sock" => lastgc - e.ts < FragGC
      BY <1>s DEF ClockInv
    <2>4. /\ ent.ts \in Nat /\ ent.ts <= clock
          /\ conf.type = "sock" => lastgc - ent.ts < FragGC
      <3>1. ent.ts = IF FragNew(d) THEN clock ELSE FragFind(d).ts
        BY <1>s, <1>6, Attached
      <3>2. CASE FragNew(d)
        <4>1. ent.ts = clock
          BY <3>1, <3>2
        <4> HIDE DEF ent
        <4>2. clock \in Nat /\ lastgc \in Nat /\ lastgc <= clock /\ FragGC \in Nat \ {0}
          BY <1>s, InputAssumption DEF ClockInv
        <4>3. lastgc - clock < FragGC
          BY <4>2
        <4> QED
          BY <4>1, <4>2, <4>3
      <3>3. CASE ~FragNew(d)
        <4>1. FragFind(d) \in frags
          BY <1>s, <3>3, EntryFound
        <4>2. ent.ts = FragFind(d).ts
          BY <3>1, <3>3
        <4> HIDE DEF ent
        <4> QED
          BY <4>1, <4>2, <2>3
      <3> QED
        BY <3>2, <3>3
    <2> HIDE DEF ent
    <2>5. \A e \in tree : /\ e.ts \in Nat /\ e.ts <= clock
                          /\ conf.type = "sock" => lastgc - e.ts < FragGC
      BY <2>3, <2>4
    <2> HIDE DEF tree, n
    <2>6. TreeInv' /\ ClockInv'
      BY <1>s, <1>u, <2>1, <2>2, <2>5, TreeGc, ClockGc
    <2> QED
      BY <1>w, <1>r, <2>1, <2>6 DEF ReadInv
  <1>7. ASSUME NEW j \in 1..Len(net), Frag(net[j]), ReadLastFrag(j)
        PROVE  ReadInv'
    <2> DEFINE d == net[j]
               ent == FragAttach(FragFind(d), d)
               tree == frags \ Entries(d)
               n == IF FragNew(d) THEN nfrags ELSE nfrags - 1
    <2>1. /\ ent.rem = 0 /\ FragGc(tree, n) /\ now' = clock /\ clock' = clock
          /\ Unpacked(Reassemble(ent))
      BY <1>7 DEF ReadLastFrag, Arrive
    <2>2. TreeOk(tree, n)
      BY <1>s, TreeRemove
    <2>3. Reassemble(ent) \in 1..Len(bodies)
      BY <1>s, <1>7, <2>1, Reassembled
    <2>4. RecvInv'
      BY <1>s, <1>u, <2>1, <2>3, RecvAppend
    <2>5. \A e \in tree : /\ e.ts \in Nat /\ e.ts <= clock
                          /\ conf.type = "sock" => lastgc - e.ts < FragGC
      BY <1>s DEF ClockInv
    <2> HIDE DEF tree, n
    <2>6. TreeInv' /\ ClockInv'
      BY <1>s, <1>u, <2>1, <2>2, <2>5, TreeGc, ClockGc
    <2> QED
      BY <1>w, <2>4, <2>6 DEF ReadInv
  <1>8. ASSUME NEW j \in 1..Len(net), ReadBare(j)
        PROVE  ReadInv'
    <2>1. /\ UNCHANGED <<lastgc, frags, nfrags, recv, clock>> /\ ended' = "error" /\ now' = clock
      BY <1>8 DEF ReadBare, Arrive
    <2>2. ClockInv'
      BY <1>s, <1>u, <2>1 DEF ClockInv
    <2> QED
      BY <1>w, <1>t, <1>r, <2>1, <2>2 DEF ReadInv
  <1> QED
    BY <1>1, <1>2, <1>3, <1>4, <1>5, <1>6, <1>7, <1>8 DEF InputNext, ReadFrag, ReadLastFrag, Frag

\* So does the writing end, which only adds to the network.
LEMMA OutputStep ==
    ASSUME SizeInv, BodyInv, ReadInv, OutputNext, UNCHANGED inVars
    PROVE  ReadInv'
  <1>s. WireInv /\ TreeInv /\ RecvInv /\ ClockInv
    BY DEF ReadInv
  <1>u. UNCHANGED <<clock, now, lastgc, frags, nfrags, recv, ended>>
    BY DEF inVars
  <1>k. conf' = conf
    BY DEF OutputNext, Call, AddFull, AddBuffered, AddWrite, AddFrag, Close, Open
  <1>c. ClockInv'
    BY <1>s, <1>u, <1>k DEF ClockInv
  <1>1. CASE UNCHANGED <<bodies, net>>
    <2>1. WireInv' /\ RecvInv'
      BY <1>1, <1>s, <1>u DEF WireInv, RecvInv
    <2>2. \A ent : Pieces(ent)' = Pieces(ent)
      BY <1>1 DEF Pieces
    <2>3. TreeInv'
      BY <1>s, <1>u, <2>2 DEF TreeInv, TreeOk
    <2> QED
      BY <1>c, <2>1, <2>3 DEF ReadInv
  <1>2. ASSUME NEW cont, NEW n, NEW new,
               Serialize(cont, n), Sent(new, n), net' = net \o new
        PROVE  ReadInv'
    <2>1. /\ WireInv'
          /\ Len(bodies') = Len(bodies) + 1 /\ Len(bodies) \in Nat
          /\ Len(net') >= Len(net) /\ Len(net) \in Nat /\ Len(net') \in Nat
          /\ \A j \in 1..Len(net) : net'[j] = net[j]
      <3>1. PICK Bodies : bodies \in Seq(Bodies)
        BY DEF BodyInv
      <3>2. /\ WireInv' /\ Len(bodies') = Len(bodies) + 1 /\ Len(net') >= Len(net)
            /\ \A j \in 1..Len(net) : net'[j] = net[j]
        BY <1>s, <1>2, WireAppend
      <3>3. Len(net') \in Nat
        BY <3>2 DEF WireInv
      <3>4. Len(net) \in Nat
        BY <1>s DEF WireInv
      <3>5. Len(bodies) \in Nat
        BY <3>1
      <3> QED
        BY <3>2, <3>3, <3>4, <3>5
    <2>2. \A j \in 1..Len(net) : j \in 1..Len(net') /\ net'[j] = net[j]
      BY <2>1
    <2>3. ASSUME NEW ent, Pieces(ent) PROVE Pieces(ent)'
      <3>1. PICK j \in 1..Len(net) :
              Frag(net[j]) /\ ent.key = FragKey(net[j]) /\ ent.last = net[j].last
        BY <2>3 DEF Pieces
      <3>2. \E k \in 1..Len(net') :
              Frag(net'[k]) /\ ent.key = FragKey(net'[k]) /\ ent.last = net'[k].last
        BY <3>1, <2>2
      <3> QED
        BY <2>3, <3>2 DEF Pieces
    <2>4. TreeInv'
      BY <1>s, <1>u, <2>3 DEF TreeInv, TreeOk
    <2>5. RecvInv'
      <3>1. 1..Len(bodies) \subseteq 1..Len(bodies')
        BY <2>1
      <3> DEFINE S == 1..Len(bodies)
                 T == 1..Len(bodies')
      <3>2. recv \in Seq(T)
        <4>1. recv \in Seq(S) /\ S \subseteq T
          BY <1>s, <3>1 DEF RecvInv
        <4> HIDE DEF S, T
        <4> QED
          BY <4>1
      <3> QED
        BY <1>u, <3>2 DEF RecvInv
    <2> QED
      BY <1>c, <2>1, <2>4, <2>5 DEF ReadInv
  <1> QED
    BY <1>s, <1>1, <1>2, OutputSends

\* A stream opens with nothing on the network, in the tree or unpacked.
LEMMA ReadInit ==
    ASSUME Init
    PROVE  ReadInv
  <1>1. net = <<>> /\ bodies = <<>> /\ recv = <<>> /\ frags = {} /\ nfrags = 0
        /\ clock = Epoch /\ now = 0 /\ lastgc = 0
    BY DEF Init, InputInit
  <1>2. WireInv
    <2>1. net \in Seq({}) /\ Len(net) = 0
      BY <1>1
    <2> QED
      BY <2>1 DEF WireInv
  <1>3. TreeInv
    BY <1>1, FS_EmptySet DEF TreeInv, TreeOk
  <1>4. RecvInv
    BY <1>1 DEF RecvInv
  <1>5. ClockInv
    BY <1>1, InputAssumption DEF ClockInv
  <1> QED
    BY <1>2, <1>3, <1>4, <1>5 DEF ReadInv

\* The network, the tree of fragments and its times stay in step, whatever is
\* lost, repeated or overtaken.
THEOREM ReadInvariance == Spec => [](SizeInv /\ BodyInv /\ ReadInv)
  <1>1. ASSUME SizeInv, BodyInv, ReadInv, [Next]_vars PROVE ReadInv'
    <2>1. CASE OutputNext /\ UNCHANGED inVars
      BY <1>1, <2>1, OutputStep
    <2>2. CASE InputNext /\ UNCHANGED outVars
      BY <1>1, <2>2, InputStep
    <2>3. CASE Finished \/ UNCHANGED vars
      <3>1. UNCHANGED <<conf, bodies, net, clock, now, lastgc, frags, nfrags, recv, ended>>
        BY <2>3 DEF Finished, vars, inVars
      <3>2. \A ent : Pieces(ent)' = Pieces(ent)
        BY <3>1 DEF Pieces
      <3> QED
        BY <1>1, <3>1, <3>2 DEF ReadInv, WireInv, TreeInv, TreeOk, RecvInv, ClockInv
    <2> QED
      BY <1>1, <2>1, <2>2, <2>3 DEF Next
  <1>2. Init => SizeInv /\ BodyInv /\ ReadInv
    BY SizeInit, ReadInit
  <1>3. SizeInv /\ BodyInv /\ ReadInv /\ [Next]_vars => (SizeInv /\ BodyInv /\ ReadInv)'
    BY <1>1, SizeStep, BodyStep
  <1> QED
    BY <1>2, <1>3, PTL DEF Spec

\* For every network and every number of fragments: stream->nfrags counts the
\* entries of the tree, and an entry misses as many pieces as it says.
THEOREM TreeIsCounted == Spec => []FragmentTree
  <1>1. ASSUME ReadInv PROVE FragmentTree
    <2>1. TreeOk(frags, nfrags)
      BY <1>1 DEF ReadInv, TreeInv
    <2>2. \A ent \in frags : ent.rem > 0 /\ ent.rem + Cardinality(ent.pieces) = ent.last + 1
      BY <2>1 DEF TreeOk, Pieces
    <2> QED
      BY <2>1, <2>2 DEF FragmentTree, TreeOk
  <1> QED
    BY <1>1, ReadInvariance, PTL

\* Whatever is lost, repeated or overtaken, and whatever random ids collide: the
\* pieces that are put together are those of one container.
THEOREM ReassemblyIsWhole == Spec => []ReassembledWhole
  <1>1. ASSUME BodyInv, ReadInv PROVE ReassembledWhole
    <2>1. recv \in Seq(1..Len(bodies))
      BY <1>1 DEF ReadInv, RecvInv
    <2>2. ASSUME NEW i \in 1..Len(recv) PROVE recv[i] # Garbage
      <3>1. recv[i] \in 1..Len(bodies)
        BY <2>1
      <3> QED
        BY <3>1 DEF Garbage
    <2> QED
      BY <2>2 DEF ReassembledWhole
  <1> QED
    BY <1>1, ReadInvariance, PTL

\* A fragment is freed before it has waited two intervals, for every length of the
\* interval and however long the pauses between reads.
THEOREM FragmentsAreFreed == Spec => []FragmentsExpire
  <1>1. ASSUME ReadInv PROVE FragmentsExpire
    <2> SUFFICES ASSUME conf.type = "sock", ended = "no", NEW ent \in frags
                 PROVE  now - ent.ts < 2 * FragGC
      BY DEF FragmentsExpire
    <2>1. /\ now \in Nat /\ lastgc \in Nat /\ ent.ts \in Nat
          /\ lastgc - ent.ts < FragGC /\ now - lastgc < FragGC /\ FragGC \in Nat
      BY <1>1, InputAssumption DEF ReadInv, ClockInv
    <2> QED
      BY <2>1
  <1> QED
    BY <1>1, ReadInvariance, PTL

\* "Reassemble if all the fragments have been gathered": a container all of whose
\* fragments are in the tree is one of which the fragments announced one more
\* than there are.
OnlyMultiplesWait ==
    \A ent \in frags : \A b \in 1..Len(bodies) :
        ent.pieces = (0..(bodies[b].frags - 1)) \X {b} => ent.last = bodies[b].frags

\* The one reason for a container that is complete and is not reassembled is that
\* _output_frag_write() announced a fragment that does not exist.
THEOREM CompleteUnlessMultiple == Spec => []OnlyMultiplesWait
  <1>1. ASSUME BodyInv, ReadInv, NEW ent \in frags, NEW b \in 1..Len(bodies),
               ent.pieces = (0..(bodies[b].frags - 1)) \X {b}
        PROVE  ent.last = bodies[b].frags
    <2>1. Pieces(ent) /\ ent.rem # 0
      BY <1>1 DEF ReadInv, TreeInv, TreeOk
    <2>2. PICK j \in 1..Len(net) :
            Frag(net[j]) /\ ent.key = FragKey(net[j]) /\ ent.last = net[j].last
      BY <2>1 DEF Pieces
    <2>3. PICK p : p \in ent.pieces
      BY <2>1 DEF Pieces
    <2>4. p \in (0..(bodies[b].frags - 1)) \X {b}
      BY <1>1, <2>3
    <2>5. p \in (0..ent.last) \X {ent.key[2]}
      BY <2>1, <2>3 DEF Pieces
    <2>6. ent.key[2] = b
      BY <2>4, <2>5
    <2>7. ent.key[2] = net[j].body
      BY <2>2 DEF FragKey
    <2>8. InRange(net[j], bodies[b].frags)
      BY <1>1, <2>2, <2>6, <2>7 DEF ReadInv, WireInv
    <2> DEFINE n == bodies[b].frags
    <2>9. ent.last \in Nat /\ n \in {ent.last, ent.last + 1}
      BY <2>2, <2>8 DEF InRange
    <2>10. n # ent.last + 1
      <3> SUFFICES ASSUME n = ent.last + 1 PROVE FALSE
        OBVIOUS
      <3>1. n - 1 = ent.last
        BY <2>9
      <3>2. ent.pieces = (0..ent.last) \X {b}
        BY <1>1, <3>1
      <3>3. Cardinality(ent.pieces) = ent.last + 1
        BY <2>9, <3>2, AllPieces
      <3> QED
        BY <2>1, <2>9, <3>3 DEF Pieces
    <2> QED
      BY <2>9, <2>10
  <1>2. BodyInv /\ ReadInv => OnlyMultiplesWait
    BY <1>1 DEF OnlyMultiplesWait
  <1> QED
    BY <1>2, ReadInvariance, PTL

\* No fragment sent so far announces one more than there are.
AnnouncedRight ==
    \A j \in 1..Len(net) : Frag(net[j]) => bodies[net[j].body].frags = net[j].last + 1

\* The tree holds no container all of whose fragments have been received, as long
\* as no packed container was a multiple of MaxFragsz bytes long.
THEOREM CompleteWhenAnnouncedRight == Spec => [](AnnouncedRight => CompleteIsReassembled)
  <1>1. ASSUME ReadInv, OnlyMultiplesWait, AnnouncedRight PROVE CompleteIsReassembled
    <2> SUFFICES ASSUME NEW ent \in frags, NEW b \in 1..Len(bodies),
                        ent.pieces = (0..(bodies[b].frags - 1)) \X {b}
                 PROVE  FALSE
      BY DEF CompleteIsReassembled
    <2>1. Pieces(ent)
      BY <1>1 DEF ReadInv, TreeInv, TreeOk
    <2>2. PICK j \in 1..Len(net) :
            Frag(net[j]) /\ ent.key = FragKey(net[j]) /\ ent.last = net[j].last
      BY <2>1 DEF Pieces
    <2>3. PICK p : p \in ent.pieces
      BY <2>1 DEF Pieces
    <2>4. p \in (0..(bodies[b].frags - 1)) \X {b} /\ p \in (0..ent.last) \X {ent.key[2]}
      BY <2>1, <2>3 DEF Pieces
    <2>5. net[j].body = b
      BY <2>2, <2>4 DEF FragKey
    <2>6. bodies[b].frags = ent.last + 1 /\ ent.last = bodies[b].frags /\ ent.last \in Nat
      BY <1>1, <2>1, <2>2, <2>5 DEF AnnouncedRight, OnlyMultiplesWait, Pieces
    <2> QED
      BY <2>6
  <1> QED
    BY <1>1, ReadInvariance, CompleteUnlessMultiple, PTL

-----------------------------------------------------------------------------
(***************************************************************************)
(* What the caller gets.  The invariant behind DeliveredFiltered: the      *)
(* current container is the last that was unpacked, with at least one      *)
(* payload handed out, and every container has a payload.                  *)
(***************************************************************************)
PayloadInv ==
    \A b \in 1..Len(bodies) :
        bodies[b].payloads \in Seq(WireMessage) /\ Len(bodies[b].payloads) > 0

\* The payloads of each container unpacked, and how many of them were taken.
Payloads == [n \in 1..Len(recv) |-> bodies[recv[n]].payloads]
Taken == [n \in 1..Len(recv) |->
            IF n = Len(recv) /\ cur # NULL THEN index ELSE Len(bodies[recv[n]].payloads)]

Given(D, N, T, P) ==
    /\ \A k \in 1..Len(D) :
         /\ D[k].read \in 1..N /\ D[k].index \in 1..T[D[k].read]
         /\ D[k].msg = P[D[k].read][D[k].index] /\ Filter(D[k].msg)
    /\ \A k, l \in 1..Len(D) :
         k < l => \/ D[k].read < D[l].read
                  \/ D[k].read = D[l].read /\ D[k].index < D[l].index
    /\ \A n \in 1..N : \A i \in 1..T[n] :
         Filter(P[n][i]) => \E k \in 1..Len(D) : D[k].read = n /\ D[k].index = i

GivenInv ==
    /\ \E S : delivered \in Seq(S)
    /\ cur # NULL => /\ Len(recv) > 0 /\ cur = recv[Len(recv)]
                     /\ index \in 1..Len(bodies[cur].payloads)
    /\ Given(delivered, Len(recv), Taken, Payloads)

\* A container of which nothing was taken yet changes nothing ...
LEMMA GivenNew ==
    ASSUME NEW D, NEW N \in Nat, NEW T, NEW P, Given(D, N, T, P),
           NEW U, NEW Q, \A n \in 1..N : U[n] = T[n] /\ Q[n] = P[n], U[N + 1] = 0
    PROVE  Given(D, N + 1, U, Q)
  <1>1. \A n \in 1..(N + 1) : n \in 1..N \/ n = N + 1
    OBVIOUS
  <1>2. \A n \in 1..N : n \in 1..(N + 1)
    OBVIOUS
  <1>3. \A k \in 1..Len(D) :
          /\ D[k].read \in 1..(N + 1) /\ D[k].index \in 1..U[D[k].read]
          /\ D[k].msg = Q[D[k].read][D[k].index] /\ Filter(D[k].msg)
    BY <1>2 DEF Given
  <1>4. \A n \in 1..(N + 1) : \A i \in 1..U[n] : n \in 1..N
    BY <1>1
  <1>5. \A n \in 1..(N + 1) : \A i \in 1..U[n] :
          Filter(Q[n][i]) => \E k \in 1..Len(D) : D[k].read = n /\ D[k].index = i
    <2> SUFFICES ASSUME NEW n \in 1..(N + 1), NEW i \in 1..U[n], Filter(Q[n][i])
                 PROVE  \E k \in 1..Len(D) : D[k].read = n /\ D[k].index = i
      OBVIOUS
    <2>1. n \in 1..N /\ U[n] = T[n] /\ Q[n] = P[n]
      BY <1>4
    <2>2. i \in 1..T[n] /\ Filter(P[n][i])
      BY <2>1
    <2> QED
      BY <2>1, <2>2 DEF Given
  <1> QED
    BY <1>3, <1>5 DEF Given

\* ... and the next payload of the last one is handed out if the filter wants it.
LEMMA GivenTake ==
    ASSUME NEW D, NEW S, D \in Seq(S), NEW N \in Nat \ {0}, NEW T, NEW P, Given(D, N, T, P),
           T[N] \in Nat, NEW U, \A n \in 1..(N - 1) : U[n] = T[n], U[N] = T[N] + 1,
           NEW m, m = P[N][T[N] + 1],
           NEW E, E = IF Filter(m)
                      THEN Append(D, [msg |-> m, read |-> N, index |-> T[N] + 1]) ELSE D
    PROVE  Given(E, N, U, P) /\ \E R : E \in Seq(R)
  <1> DEFINE t == T[N] + 1
             d == [msg |-> m, read |-> N, index |-> t]
             l == Len(D)
  <1>1. \A n \in 1..N : n \in 1..(N - 1) \/ n = N
    OBVIOUS
  <1>2. t \in Nat \ {0} /\ U[N] = t /\ l \in Nat /\ N \in 1..N
    OBVIOUS
  <1>3. d.msg = m /\ d.read = N /\ d.index = t
    OBVIOUS
  <1>4. \A n \in 1..N : \A i \in 1..T[n] : i \in 1..U[n]
    BY <1>1
  <1>5. \A n \in 1..N : \A i \in 1..U[n] : i \in 1..T[n] \/ (n = N /\ i = t)
    <2> SUFFICES ASSUME NEW n \in 1..N, NEW i \in 1..U[n]
                 PROVE  i \in 1..T[n] \/ (n = N /\ i = t)
      OBVIOUS
    <2>1. CASE n = N
      BY <2>1
    <2>2. CASE n \in 1..(N - 1)
      BY <2>2
    <2> QED
      BY <1>1, <2>1, <2>2
  <1>6. CASE ~Filter(m)
    <2>1. E = D
      BY <1>6
    <2>2. \A n \in 1..N : \A i \in 1..U[n] :
            Filter(P[n][i]) => \E k \in 1..Len(D) : D[k].read = n /\ D[k].index = i
      BY <1>5, <1>6 DEF Given
    <2>3. \A k \in 1..Len(D) : D[k].read \in 1..N /\ D[k].index \in 1..U[D[k].read]
      BY <1>4 DEF Given
    <2>4. Given(D, N, U, P)
      BY <2>2, <2>3 DEF Given
    <2> QED
      BY <2>1, <2>4
  <1>7. CASE Filter(m)
    <2> HIDE DEF d, t
    <2>1. E = Append(D, d)
      BY <1>7 DEF d, t
    <2>2. D \in Seq(S \cup {d})
      OBVIOUS
    <2>3. /\ E \in Seq(S \cup {d}) /\ Len(E) = l + 1 /\ E[l + 1] = d
          /\ \A k \in 1..l : E[k] = D[k]
      BY <2>1, <2>2
    <2> HIDE DEF l
    <2>4. \A k \in 1..Len(E) : k \in 1..l \/ k = l + 1
      BY <2>3, <1>2
    <2>5. \A k \in 1..l : /\ k \in 1..Len(D) /\ k \in 1..Len(E) /\ E[k] = D[k]
      BY <2>3, <1>2 DEF l
    <2>6. l + 1 \in 1..Len(E)
      BY <2>3, <1>2
    <2>7. ASSUME NEW k \in 1..Len(E)
          PROVE  /\ E[k].read \in 1..N /\ E[k].index \in 1..U[E[k].read]
                 /\ E[k].msg = P[E[k].read][E[k].index] /\ Filter(E[k].msg)
      <3>1. CASE k \in 1..l
        BY <3>1, <2>5, <1>4 DEF Given
      <3>2. CASE k = l + 1
        <4>1. E[k] = d
          BY <3>2, <2>3
        <4>2. m = P[N][t] /\ t \in 1..U[N]
          BY <1>2 DEF t
        <4> QED
          BY <4>1, <4>2, <1>2, <1>3, <1>7
      <3> QED
        BY <3>1, <3>2, <2>4
    <2>8. ASSUME NEW j \in 1..Len(E), NEW k \in 1..Len(E), j < k
          PROVE  \/ E[j].read < E[k].read
                 \/ E[j].read = E[k].read /\ E[j].index < E[k].index
      <3>1. CASE k \in 1..l
        <4>1. j \in 1..l
          BY <2>8, <3>1, <1>2
        <4> QED
          BY <2>8, <3>1, <4>1, <2>5 DEF Given
      <3>2. CASE k = l + 1
        <4>1. j \in 1..l
          BY <2>8, <3>2, <2>3, <1>2
        <4>2. E[j].read \in 1..N /\ E[j].index \in 1..T[E[j].read]
          BY <4>1, <2>5 DEF Given
        <4>3. E[k].read = N /\ E[k].index = t
          BY <3>2, <2>3, <1>3
        <4>4. CASE E[j].read = N
          <5>1. E[j].index \in 1..T[N] /\ T[N] \in Nat
            BY <4>2, <4>4
          <5>2. E[j].index < t
            BY <5>1 DEF t
          <5> QED
            BY <5>2, <4>3, <4>4
        <4>5. CASE E[j].read # N
          BY <4>2, <4>3, <4>5
        <4> QED
          BY <4>4, <4>5
      <3> QED
        BY <3>1, <3>2, <2>4
    <2>9. ASSUME NEW n \in 1..N, NEW i \in 1..U[n], Filter(P[n][i])
          PROVE  \E k \in 1..Len(E) : E[k].read = n /\ E[k].index = i
      <3>1. CASE n = N /\ i = t
        BY <3>1, <2>3, <2>6, <1>3
      <3>2. CASE i \in 1..T[n]
        <4>1. PICK k \in 1..Len(D) : D[k].read = n /\ D[k].index = i
          <5>1. \A x \in 1..N : \A y \in 1..T[x] :
                  Filter(P[x][y]) => \E k \in 1..Len(D) : D[k].read = x /\ D[k].index = y
            BY DEF Given
          <5> QED
            BY <2>9, <3>2, <5>1, Zenon
        <4>2. k \in 1..l
          BY DEF l
        <4> QED
          BY <4>1, <4>2, <2>5
      <3> QED
        BY <3>1, <3>2, <1>5
    <2>10. Given(E, N, U, P)
      BY <2>7, <2>8, <2>9 DEF Given
    <2> QED
      BY <2>3, <2>10
  <1> QED
    BY <1>6, <1>7

\* Only containers with a message in them are serialized.
LEMMA PayloadStep ==
    ASSUME SizeInv, BodyInv, PayloadInv, [Next]_vars
    PROVE  PayloadInv'
  <1>1. ASSUME UNCHANGED bodies PROVE PayloadInv'
    BY <1>1 DEF PayloadInv
  <1>2. ASSUME NEW cont, NEW n, Serialize(cont, n),
               cont.payloads \in Seq(WireMessage), cont.payloads # <<>>
        PROVE  PayloadInv'
    <2> DEFINE new == [payloads |-> cont.payloads, seq |-> sequence, sid |-> sid, frags |-> n]
    <2>1. PICK Bodies : bodies \in Seq(Bodies)
      BY DEF BodyInv
    <2>2. bodies' = Append(bodies, new) /\ new.payloads = cont.payloads
      BY <1>2 DEF Serialize
    <2>3. Len(cont.payloads) > 0
      BY <1>2
    <2> HIDE DEF new
    <2>4. /\ Len(bodies') = Len(bodies) + 1 /\ Len(bodies) \in Nat
          /\ bodies'[Len(bodies) + 1] = new
          /\ \A i \in 1..Len(bodies) : bodies'[i] = bodies[i]
      BY <2>1, <2>2
    <2>5. \A i \in 1..Len(bodies') : i \in 1..Len(bodies) \/ i = Len(bodies) + 1
      BY <2>4
    <2> QED
      BY <1>2, <2>2, <2>3, <2>4, <2>5 DEF PayloadInv
  <1>t. c.payloads \in Seq(WireMessage) /\ msg \in WireMessage
    BY DEF SizeInv, SizeTypes, ContainerType
  <1>a. /\ ContainerAdd(c, msg).payloads \in Seq(WireMessage)
        /\ ContainerAdd(c, msg).payloads # <<>>
    <2>1. ContainerAdd(c, msg).payloads = Append(c.payloads, msg)
      BY DEF ContainerAdd
    <2> QED
      BY <1>t, <2>1
  <1>3. ASSUME NEW m \in conf.messages, Call(m)
        PROVE  PayloadInv'
    BY <1>1, <1>3 DEF Call
  <1>4. CASE AddFull
    <2>1. c.payloads # <<>>
      BY <1>4 DEF AddFull, ContainerFull, SizeInv, nmsg_container_init
    <2>2. \E n : Serialize(c, n)
      BY <1>4 DEF AddFull, WriteContainer
    <2> QED
      BY <1>2, <1>t, <2>1, <2>2
  <1>5. CASE AddBuffered
    BY <1>1, <1>5 DEF AddBuffered
  <1>6. CASE AddWrite
    <2>1. \E n : Serialize(ContainerAdd(c, msg), n)
      BY <1>6 DEF AddWrite, WriteContainer
    <2> QED
      BY <1>2, <1>a, <2>1
  <1>7. CASE AddFrag
    <2>1. \E n : Serialize(ContainerAdd(c, msg), n)
      BY <1>7 DEF AddFrag, FragWrite
    <2> QED
      BY <1>2, <1>a, <2>1
  <1>8. CASE Close
    <2>1. CASE c.payloads # <<>>
      <3>1. \E n : Serialize(c, n)
        BY <1>8, <2>1 DEF Close, WriteContainer
      <3> QED
        BY <1>2, <1>t, <2>1, <3>1
    <2>2. CASE c.payloads = <<>>
      BY <1>1, <1>8, <2>2 DEF Close
    <2> QED
      BY <2>1, <2>2
  <1>9. CASE Open
    BY <1>1, <1>9 DEF Open
  <1>10. CASE InputNext /\ UNCHANGED outVars
    BY <1>1, <1>10, InputKeeps
  <1>11. CASE Finished \/ UNCHANGED vars
    BY <1>1, <1>11 DEF Finished, vars
  <1> QED
    BY <1>3, <1>4, <1>5, <1>6, <1>7, <1>8, <1>9, <1>10, <1>11 DEF Next, OutputNext

\* A container that is unpacked has its first payload handed out.
LEMMA GivenUnpacked ==
    ASSUME BodyInv, RecvInv, PayloadInv, GivenInv, Exhausted, NEW b \in 1..Len(bodies),
           Unpacked(b), UNCHANGED <<conf, bodies>>
    PROVE  GivenInv'
  <1> DEFINE N == Len(recv)
             U == [n \in 1..(N + 1) |-> IF n = N + 1 THEN 0 ELSE Taken[n]]
             m == bodies[b].payloads[1]
             d == [msg |-> m, read |-> N + 1, index |-> 1]
  <1>1. recv \in Seq(1..Len(bodies)) /\ N \in Nat /\ Len(bodies) \in Nat
    BY DEF RecvInv, BodyInv
  <1>2. b # Garbage /\ b # NULL
    BY <1>1 DEF Garbage, NULL
  <1>3. /\ recv' = Append(recv, b) /\ cur' = b /\ index' = 1
        /\ delivered' = IF Filter(m) THEN Append(delivered, d) ELSE delivered
    BY <1>2 DEF Unpacked, Deliver
  <1>4. /\ Len(recv') = N + 1 /\ recv'[N + 1] = b
        /\ \A n \in 1..N : recv'[n] = recv[n]
    BY <1>1, <1>3
  <1>5. \A n \in 1..(N + 1) : n \in 1..N \/ n = N + 1
    BY <1>1
  <1>6. \A n \in 1..N : Taken[n] = Len(Payloads[n])
    <2> SUFFICES ASSUME NEW n \in 1..N PROVE Taken[n] = Len(Payloads[n])
      OBVIOUS
    <2>1. Taken[n] = (IF n = N /\ cur # NULL THEN index ELSE Len(Payloads[n]))
      BY DEF Taken, Payloads
    <2>2. CASE n = N /\ cur # NULL
      <3>1. cur = recv[N] /\ index \in 1..Len(bodies[cur].payloads)
            /\ index >= Len(bodies[cur].payloads)
        BY <2>2 DEF GivenInv, Exhausted
      <3>2. recv[N] \in 1..Len(bodies)
        BY <1>1, <2>2
      <3>3. Len(bodies[cur].payloads) \in Nat
        BY <3>1, <3>2 DEF PayloadInv
      <3>4. index = Len(bodies[cur].payloads)
        BY <3>1, <3>3
      <3> QED
        BY <2>1, <2>2, <3>1, <3>4 DEF Payloads
    <2>3. CASE ~(n = N /\ cur # NULL)
      BY <2>1, <2>3
    <2> QED
      BY <2>2, <2>3
  <1>7. /\ \A n \in 1..N : Payloads'[n] = Payloads[n] /\ Taken'[n] = Taken[n]
        /\ Payloads'[N + 1] = bodies[b].payloads /\ Taken'[N + 1] = 1
    <2>1. Payloads' = [n \in 1..(N + 1) |-> bodies[recv'[n]].payloads]
      BY <1>4 DEF Payloads
    <2>2. Taken' = [n \in 1..(N + 1) |->
                      IF n = N + 1 THEN 1 ELSE Len(bodies[recv'[n]].payloads)]
      BY <1>2, <1>3, <1>4 DEF Taken
    <2>3. \A n \in 1..N : n \in 1..(N + 1) /\ n # N + 1
      BY <1>1
    <2>4. N + 1 \in 1..(N + 1)
      BY <1>1
    <2>5. \A n \in 1..N : Payloads[n] = bodies[recv[n]].payloads
      BY DEF Payloads
    <2> HIDE DEF N
    <2> QED
      BY <2>1, <2>2, <2>3, <2>4, <2>5, <1>4, <1>6
  <1>8. Given(delivered, N, Taken, Payloads)
    BY DEF GivenInv
  <1>9. (\A n \in 1..N : U[n] = Taken[n]) /\ U[N + 1] = 0 /\ N + 1 \in Nat \ {0}
    BY <1>1
  <1> HIDE DEF N, U
  <1>10. Given(delivered, N + 1, U, Payloads')
    BY <1>1, <1>7, <1>8, <1>9, GivenNew
  <1>11. PICK S : delivered \in Seq(S)
    BY DEF GivenInv
  <1> DEFINE M == N + 1
             P == Payloads'
             V == Taken'
             E == delivered'
             t == U[M] + 1
  <1>12. t = 1 /\ U[M] \in Nat /\ V[M] = t /\ m = P[M][t] /\ M \in Nat \ {0} /\ M - 1 = N
    BY <1>1, <1>7, <1>9
  <1>13. \A n \in 1..(M - 1) : V[n] = U[n]
    BY <1>7, <1>9, <1>12
  <1>14. E = IF Filter(m) THEN Append(delivered, [msg |-> m, read |-> M, index |-> t]) ELSE delivered
    BY <1>3, <1>12
  <1> HIDE DEF M, P, V, E, m
  <1>15. Given(E, M, V, P) /\ \E R : E \in Seq(R)
    <2>1. Given(delivered, M, U, P)
      BY <1>10 DEF M, P
    <2> QED
      BY <2>1, <1>11, <1>12, <1>13, <1>14, GivenTake, ZenonT(90)
  <1>17. Given(delivered, Len(recv), Taken, Payloads)'
    <2>1. Given(delivered', Len(recv'), Taken', Payloads')
      BY <1>4, <1>15 DEF M, P, V, E
    <2> QED
      BY <2>1 DEF Given, Filter
  <1>18. index' \in 1..Len(bodies'[cur'].payloads)
    <2>1. Len(bodies[b].payloads) \in Nat /\ Len(bodies[b].payloads) > 0
      BY DEF PayloadInv
    <2> QED
      BY <1>3, <2>1
  <1>19. Len(recv') > 0 /\ cur' = recv'[Len(recv')]
    BY <1>1, <1>3, <1>4
  <1> QED
    BY <1>15, <1>17, <1>18, <1>19 DEF GivenInv, E

\* A step that hands out nothing, and drops the current container only when all
\* of it has been handed out, changes nothing.
LEMMA GivenKept ==
    ASSUME RecvInv, BodyInv, PayloadInv, GivenInv, UNCHANGED <<conf, delivered, recv, index>>,
           cur' = cur \/ (cur' = NULL /\ Exhausted),
           Len(bodies') >= Len(bodies), \A b \in 1..Len(bodies) : bodies'[b] = bodies[b]
    PROVE  GivenInv'
  <1>1. recv \in Seq(1..Len(bodies)) /\ Len(recv) \in Nat
    BY DEF RecvInv
  <1>2. \A n \in 1..Len(recv) : recv[n] \in 1..Len(bodies) /\ bodies'[recv[n]] = bodies[recv[n]]
    BY <1>1
  <1>3. Payloads' = Payloads
    BY <1>2 DEF Payloads
  <1>4. cur # NULL => cur \in 1..Len(bodies) /\ Len(bodies[cur].payloads) \in Nat
    BY <1>1, <1>2 DEF GivenInv, PayloadInv
  <1>5. cur # NULL /\ cur' = NULL => index = Len(bodies[recv[Len(recv)]].payloads)
    BY <1>4 DEF GivenInv, Exhausted
  <1>6. Taken' = Taken
    BY <1>2, <1>5 DEF Taken
  <1>7. \A x : Filter(x)' = Filter(x)
    BY DEF Filter
  <1>8. Given(delivered, Len(recv), Taken, Payloads)'
    <2>1. Given(delivered, Len(recv), Taken, Payloads)
      BY DEF GivenInv
    <2> QED
      BY <1>3, <1>6, <1>7, <2>1 DEF Given
  <1>9. cur' # NULL => /\ Len(recv') > 0 /\ cur' = recv'[Len(recv')]
                       /\ index' \in 1..Len(bodies'[cur'].payloads)
    BY <1>4 DEF GivenInv
  <1> QED
    BY <1>8, <1>9 DEF GivenInv

\* The next payload of the current container.
LEMMA GivenRead ==
    ASSUME BodyInv, RecvInv, PayloadInv, GivenInv, ReadNext
    PROVE  GivenInv'
  <1> DEFINE N == Len(recv)
             t == index + 1
             m == bodies[cur].payloads[t]
  <1>1. /\ cur # NULL /\ N > 0 /\ cur = recv[N] /\ index \in 1..Len(bodies[cur].payloads)
        /\ index < Len(bodies[cur].payloads)
    BY DEF GivenInv, ReadNext
  <1>2. recv \in Seq(1..Len(bodies)) /\ N \in Nat \ {0}
    BY <1>1 DEF RecvInv
  <1>3. recv[N] \in 1..Len(bodies) /\ N \in 1..N
    BY <1>2
  <1>4. Len(bodies[cur].payloads) \in Nat
    BY <1>1, <1>3 DEF PayloadInv
  <1>5. index \in Nat /\ t \in 1..Len(bodies[cur].payloads)
    BY <1>1, <1>4
  <1>6. /\ index' = t /\ UNCHANGED <<conf, bodies, recv, cur>>
        /\ delivered' = IF Filter(m) THEN Append(delivered, [msg |-> m, read |-> N, index |-> t])
                        ELSE delivered
    BY DEF ReadNext, Deliver
  <1>7. Payloads' = Payloads /\ Payloads[N] = bodies[cur].payloads
    BY <1>1, <1>3, <1>6 DEF Payloads
  <1>8. /\ Taken[N] = index /\ Taken'[N] = t
        /\ \A n \in 1..(N - 1) : Taken'[n] = Taken[n]
    <2>1. \A n \in 1..(N - 1) : n \in 1..N /\ n # N
      BY <1>2
    <2> QED
      BY <2>1, <1>1, <1>3, <1>6 DEF Taken
  <1>9. PICK S : delivered \in Seq(S)
    BY DEF GivenInv
  <1>10. Given(delivered, N, Taken, Payloads)
    BY DEF GivenInv
  <1>11. Taken[N] \in Nat /\ Taken'[N] = Taken[N] + 1 /\ m = Payloads[N][Taken[N] + 1]
    BY <1>5, <1>7, <1>8
  <1>12. delivered' = IF Filter(m)
                      THEN Append(delivered, [msg |-> m, read |-> N, index |-> Taken[N] + 1])
                      ELSE delivered
    BY <1>6, <1>8
  <1>k. N = Len(recv')
    BY <1>6
  <1> HIDE DEF N, m
  <1> DEFINE T == Taken
             V == Taken'
             P == Payloads
             E == delivered'
  <1> HIDE DEF T, V, P, E
  <1>13. Given(E, N, V, P) /\ \E R : E \in Seq(R)
    <2>1. /\ Given(delivered, N, T, P) /\ T[N] \in Nat /\ V[N] = T[N] + 1
          /\ m = P[N][T[N] + 1]
          /\ \A n \in 1..(N - 1) : V[n] = T[n]
          /\ E = IF Filter(m)
                 THEN Append(delivered, [msg |-> m, read |-> N, index |-> T[N] + 1])
                 ELSE delivered
      BY <1>8, <1>10, <1>11, <1>12 DEF T, V, P, E
    <2> QED
      BY <2>1, <1>2, <1>9, GivenTake, ZenonT(90)
  <1>15. Given(delivered, Len(recv), Taken, Payloads)'
    <2>1. Given(delivered', Len(recv'), Taken', Payloads')
      BY <1>7, <1>13, <1>k DEF V, P, E
    <2>2. conf' = conf
      BY <1>6
    <2> QED
      BY <2>1, <2>2 DEF Given, Filter
  <1>16. /\ Len(recv') > 0 /\ cur' = recv'[Len(recv')]
         /\ index' \in 1..Len(bodies'[cur'].payloads)
    BY <1>1, <1>5, <1>6, <1>k
  <1> QED
    BY <1>13, <1>15, <1>16 DEF GivenInv, E

\* Containers that were serialized stay as they are.
LEMMA BodiesGrow ==
    ASSUME SizeInv, BodyInv, WireInv, [Next]_vars
    PROVE  Len(bodies') >= Len(bodies) /\ \A b \in 1..Len(bodies) : bodies'[b] = bodies[b]
  <1>1. Len(bodies) \in Nat
    BY DEF BodyInv
  <1>2. ASSUME UNCHANGED bodies
        PROVE  Len(bodies') >= Len(bodies) /\ \A b \in 1..Len(bodies) : bodies'[b] = bodies[b]
    BY <1>1, <1>2
  <1>3. CASE OutputNext
    <2>1. ASSUME NEW cont, NEW n, NEW new, Serialize(cont, n), Sent(new, n), net' = net \o new
          PROVE  Len(bodies') >= Len(bodies) /\ \A b \in 1..Len(bodies) : bodies'[b] = bodies[b]
      <3>1. Len(bodies') = Len(bodies) + 1 /\ \A b \in 1..Len(bodies) : bodies'[b] = bodies[b]
        BY <2>1, WireAppend
      <3> QED
        BY <1>1, <3>1
    <2> QED
      BY <1>2, <1>3, <2>1, OutputSends
  <1>4. CASE InputNext /\ UNCHANGED outVars
    BY <1>2, <1>4, InputKeeps
  <1>5. CASE Finished \/ UNCHANGED vars
    BY <1>2, <1>5 DEF Finished, vars
  <1> QED
    BY <1>3, <1>4, <1>5 DEF Next

\* Every read hands out what it should.
LEMMA GivenStep ==
    ASSUME SizeInv, BodyInv, ReadInv, PayloadInv, GivenInv, [Next]_vars
    PROVE  GivenInv'
  <1>s. WireInv /\ TreeInv /\ RecvInv
    BY DEF ReadInv
  <1>b. Len(bodies') >= Len(bodies) /\ \A b \in 1..Len(bodies) : bodies'[b] = bodies[b]
    BY <1>s, BodiesGrow
  <1>1. CASE (OutputNext /\ UNCHANGED inVars) \/ Finished \/ UNCHANGED vars
    <2>1. conf' = conf
      BY <1>1 DEF OutputNext, Call, AddFull, AddBuffered, AddWrite, AddFrag, Close, Open, Finished, vars
    <2>2. UNCHANGED <<delivered, recv, index, cur>>
      BY <1>1 DEF inVars, Finished, vars
    <2> QED
      BY <1>s, <1>b, <2>1, <2>2, GivenKept
  <1>2. CASE ReadNext
    BY <1>s, <1>2, GivenRead
  <1>3. CASE ReadAgain
    BY <1>s, <1>b, <1>3, GivenKept DEF ReadAgain
  <1>4. CASE ReadEof
    BY <1>s, <1>b, <1>4, GivenKept DEF ReadEof
  <1>5. CASE Tick
    BY <1>s, <1>b, <1>5, GivenKept DEF Tick
  <1>6. ASSUME NEW j \in 1..Len(net), ReadWhole(j)
        PROVE  GivenInv'
    <2>1. net[j].body \in 1..Len(bodies)
      BY <1>s DEF WireInv
    <2>2. Unpacked(net[j].body) /\ Exhausted /\ UNCHANGED <<conf, bodies>>
      BY <1>6 DEF ReadWhole, Arrive
    <2> QED
      BY <1>s, <2>1, <2>2, GivenUnpacked
  <1>7. ASSUME NEW j \in 1..Len(net), ReadFrag(j)
        PROVE  GivenInv'
    <2>1. UNCHANGED <<conf, delivered, recv, index>> /\ cur' = NULL /\ Exhausted
      BY <1>7 DEF ReadFrag, Arrive
    <2> QED
      BY <1>s, <1>b, <2>1, GivenKept
  <1>8. ASSUME NEW j \in 1..Len(net), ReadLastFrag(j)
        PROVE  GivenInv'
    <2> DEFINE ent == FragAttach(FragFind(net[j]), net[j])
    <2>1. /\ Frag(net[j]) /\ ent.rem = 0 /\ Unpacked(Reassemble(ent)) /\ Exhausted
          /\ UNCHANGED <<conf, bodies>>
      BY <1>8 DEF ReadLastFrag, Arrive, Frag
    <2>2. Reassemble(ent) \in 1..Len(bodies)
      BY <1>s, <2>1, Reassembled
    <2> QED
      BY <1>s, <2>1, <2>2, GivenUnpacked
  <1>9. ASSUME NEW j \in 1..Len(net), ReadBare(j)
        PROVE  GivenInv'
    <2>1. UNCHANGED <<conf, delivered, recv, index>> /\ cur' = NULL /\ Exhausted
      BY <1>9 DEF ReadBare, Arrive
    <2> QED
      BY <1>s, <1>b, <2>1, GivenKept
  <1> QED
    BY <1>1, <1>2, <1>3, <1>4, <1>5, <1>6, <1>7, <1>8, <1>9 DEF Next, InputNext

\* What is handed out and what is in the containers stay in step.
THEOREM GivenInvariance == Spec => [](PayloadInv /\ GivenInv)
  <1>1. ASSUME Init PROVE PayloadInv /\ GivenInv
    <2>1. bodies = <<>> /\ recv = <<>> /\ delivered = <<>> /\ cur = NULL
      BY <1>1 DEF Init, InputInit
    <2>2. Len(bodies) = 0 /\ Len(recv) = 0 /\ Len(delivered) = 0 /\ delivered \in Seq({})
      BY <2>1
    <2>3. Given(delivered, Len(recv), Taken, Payloads)
      BY <2>2 DEF Given
    <2> QED
      BY <2>1, <2>2, <2>3 DEF PayloadInv, GivenInv
  <1>2. SizeInv /\ BodyInv /\ ReadInv /\ PayloadInv /\ GivenInv /\ [Next]_vars
          => (PayloadInv /\ GivenInv)'
    BY PayloadStep, GivenStep
  <1>3. Init => PayloadInv /\ GivenInv
    BY <1>1
  <1> QED
    BY <1>2, <1>3, ReadInvariance, PTL DEF Spec

\* For every sequence of containers, filter and loss: the caller gets, of every
\* container that was unpacked, exactly the messages the filter wants, in order.
THEOREM DeliveryIsExact == Spec => []DeliveredFiltered
  <1>1. ASSUME RecvInv, GivenInv PROVE DeliveredFiltered
    <2> DEFINE payloads(n) == bodies[recv[n]].payloads
               taken(n) == IF n = Len(recv) /\ cur # NULL THEN index ELSE Len(payloads(n))
    <2>1. \A n \in 1..Len(recv) : Taken[n] = taken(n) /\ Payloads[n] = payloads(n)
      BY DEF Taken, Payloads
    <2>2. Given(delivered, Len(recv), Taken, Payloads)
      BY <1>1 DEF GivenInv
    <2> HIDE DEF payloads, taken
    <2>3. \A k \in 1..Len(delivered) :
            /\ delivered[k].read \in 1..Len(recv)
            /\ delivered[k].index \in 1..taken(delivered[k].read)
            /\ delivered[k].msg = payloads(delivered[k].read)[delivered[k].index]
            /\ Filter(delivered[k].msg)
      BY <2>1, <2>2 DEF Given
    <2>4. \A n \in 1..Len(recv) : \A i \in 1..taken(n) :
            Filter(payloads(n)[i]) =>
                \E k \in 1..Len(delivered) : delivered[k].read = n /\ delivered[k].index = i
      BY <2>1, <2>2 DEF Given
    <2>5. \A k, l \in 1..Len(delivered) :
            k < l => \/ delivered[k].read < delivered[l].read
                     \/ /\ delivered[k].read = delivered[l].read
                        /\ delivered[k].index < delivered[l].index
      BY <2>2 DEF Given
    <2> QED
      BY <2>3, <2>4, <2>5 DEF DeliveredFiltered, payloads, taken
  <1>2. RecvInv /\ GivenInv => DeliveredFiltered
    BY <1>1
  <1>3. ReadInv => RecvInv
    BY DEF ReadInv
  <1> QED
    BY <1>2, <1>3, ReadInvariance, GivenInvariance, PTL


-----------------------------------------------------------------------------
(***************************************************************************)
(* A file gives back what was written.  Its datagrams are in the order of  *)
(* their containers, with nothing left out when every write succeeds.      *)
(***************************************************************************)
ShapeInv ==
    /\ Rising(net)
    /\ ~conf.fail => \A b \in 1..Len(bodies) : AllSent(net, b, bodies[b].frags)

(***************************************************************************)
(* ... every message in a container was reported as written, and a closed  *)
(* output has nothing left in its container.                               *)
(***************************************************************************)
TakenInv ==
    /\ ~conf.fail =>
         /\ \A b \in 1..Len(bodies) : \A p \in 1..Len(bodies[b].payloads) :
              bodies[b].payloads[p] \in accepted
         /\ \A p \in 1..Len(c.payloads) : c.payloads[p] \in accepted
    /\ opc = "closed" => c.payloads = <<>>

(***************************************************************************)
(* On a network that keeps the order, and from a file, containers are      *)
(* unpacked in the order they were written: nothing to come belongs to one *)
(* that was, and the tree has no piece that was not read.                  *)
(***************************************************************************)
Read(p) == \E j \in 1..(pos - 1) : Frag(net[j]) /\ net[j].current = p[1] /\ net[j].body = p[2]

FifoInv ==
    /\ pos \in 1..(Len(net) + 1)
    /\ \A n \in 1..Len(recv) : \A j \in 1..Len(net) : j >= pos => recv[n] < net[j].body
    /\ \A n, m \in 1..Len(recv) : n < m => recv[n] < recv[m]
    /\ \A ent \in frags : \A p \in ent.pieces : Read(p)

(***************************************************************************)
(* ... and a file is read from its start once it was closed; of a datagram *)
(* that was read, the container is unpacked or the tree holds the piece.   *)
(***************************************************************************)
Unpack(b) == \E n \in 1..Len(recv) : recv[n] = b

Waits(d) ==
    /\ Frag(d)
    /\ \E ent \in frags : ent.key = FragKey(d) /\ <<d.current, d.body>> \in ent.pieces

Passed(j) == Unpack(net[j].body) \/ Waits(net[j]) \/ ended = "error"

FileInv ==
    /\ ~Readable => pos = 1 /\ ended = "no"
    /\ ended = "eof" => pos = Len(net) + 1 /\ cur = NULL
    /\ \A j \in 1..Len(net) : j < pos => Passed(j)

\* The next container joins the others at the end.
LEMMA ShapeAppend ==
    ASSUME BodyInv, WireInv, ShapeInv, NEW cont, NEW n, NEW new,
           Serialize(cont, n), Sent(new, n), net' = net \o new, conf' = conf
    PROVE  ShapeInv'
  <1> DEFINE L == Len(net)
             B == Len(bodies)
             body == [payloads |-> cont.payloads, seq |-> sequence, sid |-> sid, frags |-> n]
  <1>1. PICK Bodies : bodies \in Seq(Bodies)
    BY DEF BodyInv
  <1>2. bodies' = Append(bodies, body) /\ body.frags = n
    BY DEF Serialize
  <1> HIDE DEF body
  <1>3. /\ B \in Nat /\ Len(bodies') = B + 1
        /\ \A b \in 1..B : bodies'[b] = bodies[b]
        /\ bodies'[B + 1] = body
    BY <1>1, <1>2
  <1>4. PICK F : net \in Seq(F)
    BY DEF WireInv
  <1>5. PICK G : new \in Seq(G)
    BY DEF Sent
  <1>6. net \in Seq(F \cup G) /\ new \in Seq(F \cup G)
    BY <1>4, <1>5
  <1>7. /\ Len(net') = L + Len(new) /\ L \in Nat /\ Len(new) \in Nat
        /\ \A j \in 1..L : net'[j] = net[j]
        /\ \A j \in 1..Len(net') : j > L => net'[j] = new[j - L]
    BY <1>6
  <1>8. \A j \in 1..L : net[j].body \in 1..B
    BY DEF WireInv
  <1>9. \A i \in 1..Len(new) : new[i].body = B + 1
    BY DEF Sent
  <1> HIDE DEF L, B
  <1>10. \A j \in 1..Len(net') :
           \/ j \in 1..L /\ net'[j] = net[j] /\ net'[j].body \in 1..B
           \/ j > L /\ j - L \in 1..Len(new) /\ net'[j] = new[j - L] /\ net'[j].body = B + 1
    <2> SUFFICES ASSUME NEW j \in 1..Len(net')
                 PROVE  \/ j \in 1..L /\ net'[j] = net[j] /\ net'[j].body \in 1..B
                        \/ /\ j > L /\ j - L \in 1..Len(new) /\ net'[j] = new[j - L]
                           /\ net'[j].body = B + 1
      OBVIOUS
    <2>1. CASE j <= L
      <3>1. j \in 1..L
        BY <2>1, <1>7
      <3> QED
        BY <3>1, <1>7, <1>8
    <2>2. CASE j > L
      <3>1. j - L \in 1..Len(new)
        BY <2>2, <1>7
      <3> QED
        BY <2>2, <3>1, <1>7, <1>9
    <2> QED
      BY <2>1, <2>2, <1>7
  <1>11. Rising(net')
    <2> SUFFICES ASSUME NEW i \in 1..Len(net'), NEW k \in 1..Len(net'), i < k
                 PROVE  /\ net'[i].body <= net'[k].body
                        /\ net'[i].body = net'[k].body =>
                             /\ Frag(net'[i]) /\ Frag(net'[k])
                             /\ net'[i].id = net'[k].id /\ net'[i].current < net'[k].current
      BY DEF Rising
    <2>1. CASE k \in 1..L /\ net'[k] = net[k]
      <3>1. i \in 1..L /\ net'[i] = net[i]
        BY <2>1, <1>7
      <3>2. i \in 1..Len(net) /\ k \in 1..Len(net) /\ Rising(net)
        BY <2>1, <3>1 DEF ShapeInv, L
      <3>3. /\ net[i].body <= net[k].body
            /\ net[i].body = net[k].body =>
                 /\ Frag(net[i]) /\ Frag(net[k])
                 /\ net[i].id = net[k].id /\ net[i].current < net[k].current
        BY <3>2 DEF Rising
      <3>4. net'[i] = net[i] /\ net'[k] = net[k]
        BY <2>1, <3>1
      <3> QED
        BY <3>3, <3>4, Zenon
    <2>2. CASE k > L /\ k - L \in 1..Len(new) /\ net'[k] = new[k - L] /\ net'[k].body = B + 1
      <3>1. CASE i \in 1..L /\ net'[i] = net[i] /\ net'[i].body \in 1..B
        <4>1. \A x \in 1..B : x <= B + 1 /\ x # B + 1
          BY <1>3
        <4> QED
          BY <2>2, <3>1, <4>1
      <3>2. CASE i > L /\ i - L \in 1..Len(new) /\ net'[i] = new[i - L] /\ net'[i].body = B + 1
        <4>1. i - L < k - L
          BY <1>7
        <4>2. Rising(new)
          BY DEF Sent
        <4> QED
          BY <2>2, <3>2, <4>1, <4>2, <1>3 DEF Rising
      <3> QED
        BY <3>1, <3>2, <1>10
    <2> QED
      BY <2>1, <2>2, <1>10
  <1>12. ASSUME ~conf.fail, NEW b \in 1..Len(bodies')
         PROVE  AllSent(net', b, bodies'[b].frags)
    <2>1. CASE b \in 1..B
      <3>1. AllSent(net, b, bodies[b].frags) /\ bodies'[b] = bodies[b]
        BY <2>1, <1>12, <1>3 DEF ShapeInv, B
      <3>2. \A j \in 1..Len(net) : j \in 1..Len(net') /\ net'[j] = net[j]
        BY <1>7 DEF L
      <3> QED
        BY <3>1, <3>2 DEF AllSent
    <2>2. CASE b = B + 1
      <3>1. AllSent(new, b, n) /\ bodies'[b].frags = n
        BY <2>2, <1>12, <1>2, <1>3 DEF Sent, B
      <3>2. \A i \in 1..Len(new) : L + i \in 1..Len(net') /\ net'[L + i] = new[i]
        <4> SUFFICES ASSUME NEW i \in 1..Len(new)
                     PROVE  L + i \in 1..Len(net') /\ net'[L + i] = new[i]
          OBVIOUS
        <4>1. L + i \in 1..Len(net') /\ L + i > L /\ (L + i) - L = i
          BY <1>7
        <4> QED
          BY <4>1, <1>7
      <3>3. \A i \in 1..Len(new) : \E j \in 1..Len(net') : net'[j] = new[i]
        BY <3>2
      <3>4. ASSUME n = 0 PROVE \E j \in 1..Len(net') : net'[j].body = b /\ ~Frag(net'[j])
        <4>1. PICK i \in 1..Len(new) : new[i].body = b /\ ~Frag(new[i])
          BY <3>1, <3>4 DEF AllSent
        <4>2. PICK j \in 1..Len(net') : net'[j] = new[i]
          BY <3>3
        <4> QED
          BY <4>1, <4>2
      <3>5. ASSUME NEW x \in 0..(n - 1)
            PROVE  \E j \in 1..Len(net') :
                     net'[j].body = b /\ Frag(net'[j]) /\ net'[j].current = x
        <4>1. PICK i \in 1..Len(new) : new[i].body = b /\ Frag(new[i]) /\ new[i].current = x
          BY <3>1 DEF AllSent
        <4>2. PICK j \in 1..Len(net') : net'[j] = new[i]
          BY <3>3
        <4> QED
          BY <4>1, <4>2
      <3>6. n \in Nat
        BY <3>1 DEF AllSent
      <3> QED
        BY <3>1, <3>4, <3>5, <3>6 DEF AllSent
    <2> QED
      BY <2>1, <2>2, <1>12, <1>3
  <1> QED
    BY <1>11, <1>12 DEF ShapeInv


\* When no write fails, what is put into a container is reported as written.
LEMMA TakenStep ==
    ASSUME SizeInv, BodyInv, TakenInv, [Next]_vars
    PROVE  TakenInv'
  <1>t. c.payloads \in Seq(WireMessage) /\ msg \in WireMessage
    BY DEF SizeInv, SizeTypes, ContainerType
  <1>e. ASSUME c' = nmsg_container_init PROVE c'.payloads = <<>> /\ 1..Len(c'.payloads) = {}
    BY <1>e, EmptyFacts
  <1>a. /\ ContainerAdd(c, msg).payloads = Append(c.payloads, msg)
        /\ \A p \in 1..Len(Append(c.payloads, msg)) :
             \/ p \in 1..Len(c.payloads) /\ Append(c.payloads, msg)[p] = c.payloads[p]
             \/ Append(c.payloads, msg)[p] = msg
    BY <1>t DEF ContainerAdd
  <1>1. ASSUME UNCHANGED <<conf, bodies, c, accepted>>, opc' = "closed" => c.payloads = <<>>
        PROVE  TakenInv'
    BY <1>1 DEF TakenInv
  \* A container is serialized, its messages accepted.
  <1>2. ASSUME NEW cont, NEW n, Serialize(cont, n), c' = nmsg_container_init,
               conf' = conf, accepted \subseteq accepted',
               ~conf.fail => \A p \in 1..Len(cont.payloads) : cont.payloads[p] \in accepted'
        PROVE  TakenInv'
    <2> DEFINE body == [payloads |-> cont.payloads, seq |-> sequence, sid |-> sid, frags |-> n]
    <2>1. PICK Bodies : bodies \in Seq(Bodies)
      BY DEF BodyInv
    <2>2. bodies' = Append(bodies, body) /\ body.payloads = cont.payloads
      BY <1>2 DEF Serialize
    <2> HIDE DEF body
    <2>3. \A b \in 1..Len(bodies') :
            (b \in 1..Len(bodies) /\ bodies'[b] = bodies[b]) \/ bodies'[b] = body
      BY <2>1, <2>2
    <2>4. ASSUME ~conf.fail, NEW b \in 1..Len(bodies'), NEW p \in 1..Len(bodies'[b].payloads)
          PROVE  bodies'[b].payloads[p] \in accepted'
      BY <1>2, <2>2, <2>3, <2>4 DEF TakenInv
    <2> QED
      BY <1>2, <1>e, <2>4 DEF TakenInv
  <1>3. ASSUME NEW m \in conf.messages, Call(m) PROVE TakenInv'
    BY <1>1, <1>3 DEF Call
  <1>4. CASE AddFull
    <2>1. PICK sent \in SendResults :
            /\ WriteContainer(c, sent)
            /\ IF sent THEN opc' = "readd" /\ UNCHANGED <<msg, accepted>>
                       ELSE Return(FALSE)
      BY <1>4 DEF AddFull
    <2>2. Serialize(c, 0) /\ c' = nmsg_container_init /\ conf' = conf /\ accepted' = accepted
      BY <1>4, <2>1 DEF AddFull, WriteContainer, Return
    <2> QED
      BY <1>2, <2>2 DEF TakenInv
  <1>5. CASE AddBuffered
    <2>1. /\ c' = ContainerAdd(c, msg) /\ accepted' = accepted \cup {msg}
          /\ UNCHANGED <<conf, bodies>> /\ opc' = "idle"
      BY <1>5 DEF AddBuffered, Return
    <2>2. ~conf.fail => \A p \in 1..Len(c'.payloads) : c'.payloads[p] \in accepted'
      BY <2>1, <1>a DEF TakenInv
    <2> QED
      BY <2>1, <2>2 DEF TakenInv
  <1>6. ASSUME NEW ok \in SendResults, NEW n, Serialize(ContainerAdd(c, msg), n), Return(ok),
               c' = nmsg_container_init, conf' = conf
        PROVE  TakenInv'
    <2> DEFINE cont == ContainerAdd(c, msg)
    <2>1. ~conf.fail => accepted' = accepted \cup {msg}
      BY <1>6 DEF SendResults, Return
    <2>2. accepted \subseteq accepted'
      BY <1>6 DEF Return
    <2>3. ~conf.fail => \A p \in 1..Len(cont.payloads) : cont.payloads[p] \in accepted'
      BY <2>1, <1>a DEF TakenInv
    <2> QED
      BY <1>2, <1>6, <2>2, <2>3
  <1>7. CASE AddWrite
    BY <1>6, <1>7 DEF AddWrite, WriteContainer
  <1>8. CASE AddFrag
    <2>1. PICK ok \in SendResults :
            FragWrite(ContainerAdd(c, msg), ok) /\ Return(ok)
      BY <1>8 DEF AddFrag
    <2>2. \E n : Serialize(ContainerAdd(c, msg), n)
      BY <2>1 DEF FragWrite
    <2>3. c' = nmsg_container_init /\ conf' = conf
      BY <1>8 DEF AddFrag
    <2> QED
      BY <1>6, <2>1, <2>2, <2>3
  <1>9. CASE Close
    <2>1. c' = nmsg_container_init /\ UNCHANGED <<conf, accepted>>
      BY <1>9 DEF Close
    <2>2. CASE c.payloads # <<>>
      <3>1. Serialize(c, 0)
        BY <1>9, <2>2 DEF Close, WriteContainer
      <3> QED
        BY <1>2, <2>1, <3>1 DEF TakenInv
    <2>3. CASE c.payloads = <<>>
      <3>1. c = nmsg_container_init /\ UNCHANGED bodies
        BY <1>9, <2>3 DEF SizeInv, Close
      <3> QED
        BY <1>1, <2>1, <2>3, <3>1
    <2> QED
      BY <2>2, <2>3
  <1>10. CASE Open
    BY <1>1, <1>10 DEF Open
  <1>11. CASE (InputNext /\ UNCHANGED outVars) \/ Finished \/ UNCHANGED vars
    <2>1. UNCHANGED <<conf, bodies, outVars>>
      BY <1>11, InputKeeps DEF Finished, vars
    <2> QED
      BY <1>1, <2>1 DEF outVars, TakenInv
  <1> QED
    BY <1>3, <1>4, <1>5, <1>7, <1>8, <1>9, <1>10, <1>11 DEF Next, OutputNext


\* A fragment joins the pieces of its entry.
LEMMA PiecesGrow ==
    ASSUME WireInv, TreeInv, NEW j \in 1..Len(net), Frag(net[j])
    PROVE  LET d == net[j]
               ent == FragAttach(FragFind(d), d)
           IN  /\ <<d.current, d.body>> \in ent.pieces
               /\ \A e \in Entries(d) : e.pieces \subseteq ent.pieces
               /\ \A p \in ent.pieces :
                    p = <<d.current, d.body>> \/ \E e \in frags : p \in e.pieces
  <1> DEFINE d == net[j]
             old == FragFind(d)
             ent == FragAttach(old, d)
             new == <<d.current, d.body>>
  <1>1. \/ FragNew(d) /\ Entries(d) = {} /\ old.pieces = {}
        \/ /\ old \in frags /\ old.key = FragKey(d) /\ Entries(d) = {old}
    BY EntryFound DEF FragFind
  <1>2. \A p \in old.pieces : p[1] = d.current => p = new
    <2>1. CASE old.pieces = {}
      BY <2>1
    <2>2. CASE old \in frags /\ old.key = FragKey(d)
      <3>1. old.pieces \subseteq (0..old.last) \X {old.key[2]}
        BY <2>2 DEF TreeInv, TreeOk, Pieces
      <3>2. old.key[2] = d.body
        BY <2>2 DEF FragKey
      <3> HIDE DEF old, d
      <3> QED
        BY <3>1, <3>2
    <2> QED
      BY <1>1, <2>1, <2>2
  <1>3. ent.pieces = old.pieces \cup {new}
    <2>1. CASE \E p \in old.pieces : p[1] = d.current
      <3>1. ent = old /\ new \in old.pieces
        BY <2>1, <1>2 DEF FragAttach
      <3> QED
        BY <3>1
    <2>2. CASE ~ \E p \in old.pieces : p[1] = d.current
      <3> DEFINE more == old.pieces \cup {new}
      <3>1. ent = [old EXCEPT !.pieces = more, !.rem = @ - 1]
        BY <2>2 DEF FragAttach
      <3> HIDE DEF more
      <3>2. ent.pieces = more
        BY <3>1
      <3> QED
        BY <3>2 DEF more
    <2> QED
      BY <2>1, <2>2
  <1> HIDE DEF old, ent, new, d
  <1> QED
    BY <1>1, <1>3 DEF old, ent, new, d

\* A container is unpacked, with none of its datagrams still to come.
LEMMA FifoUnpacked ==
    ASSUME WireInv, RecvInv, FifoInv, UNCHANGED <<bodies, net>>, NEW j \in 1..Len(net), j >= pos,
           pos' = j + 1, recv' = Append(recv, net[j].body), frags' \subseteq frags,
           \A k \in 1..Len(net) : k > j => net[j].body < net[k].body
    PROVE  FifoInv'
  <1> DEFINE b == net[j].body
             N == Len(recv)
  <1>1. Len(net) \in Nat /\ pos \in Nat /\ N \in Nat /\ recv \in Seq(1..Len(bodies))
    BY DEF WireInv, RecvInv, FifoInv
  <1>2. /\ Len(recv') = N + 1 /\ recv'[N + 1] = b
        /\ \A n \in 1..N : recv'[n] = recv[n]
    BY <1>1
  <1>3. \A n \in 1..Len(recv') : n = N + 1 \/ n \in 1..N
    BY <1>1, <1>2
  <1>4. \A n \in 1..N : recv[n] < b
    BY DEF FifoInv
  <1> HIDE DEF b, N
  <1>5. pos' \in 1..(Len(net') + 1)
    BY <1>1
  <1>6. \A n \in 1..Len(recv') : \A k \in 1..Len(net') : k >= pos' => recv'[n] < net'[k].body
    <2> SUFFICES ASSUME NEW n \in 1..Len(recv'), NEW k \in 1..Len(net), k >= j + 1
                 PROVE  recv'[n] < net[k].body
      OBVIOUS
    <2>1. k >= pos /\ k > j
      BY <1>1
    <2>2. CASE n = N + 1
      BY <2>1, <2>2, <1>2 DEF b
    <2>3. CASE n \in 1..N
      BY <2>1, <2>3, <1>2 DEF FifoInv, N
    <2> QED
      BY <2>2, <2>3, <1>3
  <1>7. \A n, m \in 1..Len(recv') : n < m => recv'[n] < recv'[m]
    <2> SUFFICES ASSUME NEW n \in 1..Len(recv'), NEW m \in 1..Len(recv'), n < m
                 PROVE  recv'[n] < recv'[m]
      OBVIOUS
    <2>1. n \in 1..N
      BY <1>1, <1>2
    <2>2. CASE m = N + 1
      BY <2>1, <2>2, <1>2, <1>4
    <2>3. CASE m \in 1..N
      BY <2>1, <2>3, <1>2 DEF FifoInv, N
    <2> QED
      BY <2>2, <2>3, <1>3
  <1>8. \A ent \in frags' : \A p \in ent.pieces : Read(p)'
    <2> SUFFICES ASSUME NEW ent \in frags', NEW p \in ent.pieces
                 PROVE  Read(p)'
      OBVIOUS
    <2>1. PICK k \in 1..(pos - 1) : Frag(net[k]) /\ net[k].current = p[1] /\ net[k].body = p[2]
      BY DEF FifoInv, Read
    <2>2. k \in 1..(pos' - 1)
      BY <1>1
    <2> QED
      BY <2>1, <2>2 DEF Read
  <1> QED
    BY <1>5, <1>6, <1>7, <1>8 DEF FifoInv

\* All pieces of a container are there, so the last of its datagrams was read.
LEMMA LastRead ==
    ASSUME WireInv, TreeInv, BodyInv, ShapeInv, FifoInv, NEW j \in 1..Len(net), j >= pos, Frag(net[j]),
           FragAttach(FragFind(net[j]), net[j]).rem = 0, NEW k \in 1..Len(net), k > j
    PROVE  net[j].body < net[k].body
  <1> DEFINE d == net[j]
             ent == FragAttach(FragFind(d), d)
             p == <<net[k].current, d.body>>
  <1>1. ent.pieces = (0..ent.last) \X {d.body}
    BY Reassembled
  <1>2. Pieces(ent) /\ ent.key = FragKey(d)
    BY Attached
  <1>3. \A q \in ent.pieces : q = <<d.current, d.body>> \/ \E e \in frags : q \in e.pieces
    BY PiecesGrow
  <1> HIDE DEF ent
  <1>4. j < k /\ Len(net) \in Nat /\ pos \in Nat
    BY DEF WireInv, FifoInv
  <1>5. net[j].body <= net[k].body
    BY <1>4 DEF ShapeInv, Rising
  <1>6. net[j].body \in Nat /\ net[k].body \in Nat
    BY DEF WireInv
  <1>7. ASSUME net[j].body = net[k].body PROVE FALSE
    <2>1. Frag(net[k]) /\ net[j].current < net[k].current
      BY <1>4, <1>7 DEF ShapeInv, Rising
    <2>2. net[k].last = d.last /\ net[k].current \in 0..net[k].last
      BY <1>7, <2>1 DEF WireInv, InRange
    <2>3. PICK i \in 1..Len(net) :
            Frag(net[i]) /\ ent.key = FragKey(net[i]) /\ ent.last = net[i].last
      BY <1>2 DEF Pieces
    <2>4. net[i].body = d.body
      BY <1>2, <2>3 DEF FragKey
    <2>5. ent.last = d.last
      BY <2>3, <2>4 DEF WireInv
    <2>6. p \in ent.pieces
      BY <1>1, <2>2, <2>5
    <2>7. net[k].current \in Int /\ net[j].current \in Int
      BY <2>1 DEF WireInv, InRange
    <2>8. p # <<d.current, d.body>>
      BY <2>1, <2>7
    <2>9. Read(p)
      BY <1>3, <2>6, <2>8 DEF FifoInv
    <2>10. PICK h \in 1..(pos - 1) :
             Frag(net[h]) /\ net[h].current = net[k].current /\ net[h].body = d.body
      BY <2>9 DEF Read
    <2>11. h \in 1..Len(net) /\ h < k
      BY <1>4
    <2>12. net[h].current < net[k].current
      BY <2>10, <2>11, <1>7 DEF ShapeInv, Rising
    <2> QED
      BY <2>10, <2>12, <2>7
  <1> QED
    BY <1>5, <1>6, <1>7

\* A network that keeps the order has containers unpacked in order.
LEMMA FifoStep ==
    ASSUME SizeInv, BodyInv, ReadInv, ReadInv', ShapeInv, conf.fifo, FifoInv, [Next]_vars
    PROVE  FifoInv'
  <1>s. WireInv /\ TreeInv /\ RecvInv /\ WireInv'
    BY DEF ReadInv
  <1>l. Len(net) \in Nat /\ Len(net') \in Nat /\ pos \in Nat
    BY <1>s DEF WireInv, FifoInv
  <1>1. ASSUME UNCHANGED <<net, pos, recv, frags>> PROVE FifoInv'
    <2>1. \A p : Read(p)' = Read(p)
      BY <1>1 DEF Read
    <2> QED
      BY <1>1, <2>1 DEF FifoInv
  <1>2. CASE OutputNext /\ UNCHANGED inVars
    <2>u. UNCHANGED <<pos, recv, frags>>
      BY <1>2 DEF inVars
    <2>1. CASE UNCHANGED <<bodies, net>>
      BY <2>1, <2>u, <1>1
    <2>2. ASSUME NEW cont, NEW n, NEW new, Serialize(cont, n), Sent(new, n), net' = net \o new
          PROVE  FifoInv'
      <3>1. /\ Len(net') >= Len(net) /\ \A j \in 1..Len(net) : net'[j] = net[j]
            /\ \A j \in 1..Len(net') : j \in 1..Len(net) \/ net'[j].body = Len(bodies) + 1
        BY <1>s, <2>2, WireAppend
      <3>2. \A n1 \in 1..Len(recv) : recv[n1] < Len(bodies) + 1
        <4>1. Len(bodies) \in Nat
          BY DEF BodyInv
        <4>2. \A n1 \in 1..Len(recv) : recv[n1] \in 1..Len(bodies)
          BY <1>s DEF RecvInv
        <4> QED
          BY <4>1, <4>2
      <3>3. \A n1 \in 1..Len(recv) : \A j \in 1..Len(net') : j >= pos => recv[n1] < net'[j].body
        BY <3>1, <3>2 DEF FifoInv
      <3>4. \A p : Read(p) => Read(p)'
        <4>1. \A j \in 1..(pos - 1) : net'[j] = net[j]
          BY <1>l, <3>1 DEF FifoInv
        <4> QED
          BY <2>u, <4>1 DEF Read
      <3>5. pos \in 1..(Len(net') + 1)
        BY <1>l, <3>1 DEF FifoInv
      <3> QED
        BY <2>u, <3>3, <3>4, <3>5 DEF FifoInv
    <2> QED
      BY <1>2, <1>s, <2>1, <2>2, OutputSends
  <1>3. CASE Finished \/ UNCHANGED vars
    BY <1>1, <1>3 DEF Finished, vars, inVars
  <1>4. CASE InputNext
    <2>u. UNCHANGED <<conf, bodies, net>>
      BY <1>4 DEF InputNext, ReadNext, ReadAgain, ReadEof, Tick, ReadWhole, ReadFrag,
           ReadLastFrag, ReadBare, Arrive
    <2>a. ASSUME NEW j, Arrive(j) PROVE j >= pos /\ pos' = j + 1
      BY <2>a DEF Arrive
    <2>g. ASSUME NEW tree, NEW n, FragGc(tree, n) PROVE frags' \subseteq tree
      BY <2>g DEF FragGc, FragGcTree
    \* The tree gets at most the piece that is read.
    <2>p. ASSUME NEW j \in 1..Len(net), j >= pos, pos' = j + 1, recv' = recv,
                 \A e \in frags' : \A p \in e.pieces :
                   \/ \E x \in frags : p \in x.pieces
                   \/ Frag(net[j]) /\ p = <<net[j].current, net[j].body>>
          PROVE  FifoInv'
      <3>1. ASSUME NEW e \in frags', NEW p \in e.pieces PROVE Read(p)'
        <4>1. CASE \E x \in frags : p \in x.pieces
          <5>1. PICK k \in 1..(pos - 1) : Frag(net[k]) /\ net[k].current = p[1] /\ net[k].body = p[2]
            BY <4>1 DEF FifoInv, Read
          <5>2. k \in 1..(pos' - 1)
            BY <2>p, <1>l
          <5> QED
            BY <2>u, <5>1, <5>2 DEF Read
        <4>2. CASE Frag(net[j]) /\ p = <<net[j].current, net[j].body>>
          <5>1. j \in 1..(pos' - 1) /\ net[j].current = p[1] /\ net[j].body = p[2]
            BY <4>2, <2>p, <1>l
          <5> QED
            BY <2>u, <4>2, <5>1 DEF Read
        <4> QED
          BY <4>1, <4>2, <2>p
      <3>2. pos' \in 1..(Len(net') + 1)
        BY <2>u, <2>p, <1>l
      <3>3. \A n \in 1..Len(recv') : \A k \in 1..Len(net') : k >= pos' => recv'[n] < net'[k].body
        <4>1. \A k \in 1..Len(net) : k >= j + 1 => k >= pos
          BY <1>l, <2>p
        <4> QED
          BY <2>u, <2>p, <4>1 DEF FifoInv
      <3>4. \A n, m \in 1..Len(recv') : n < m => recv'[n] < recv'[m]
        BY <2>p DEF FifoInv
      <3> QED
        BY <3>1, <3>2, <3>3, <3>4 DEF FifoInv
    <2>1. CASE ReadNext \/ ReadAgain \/ ReadEof \/ Tick
      BY <2>1, <1>1 DEF ReadNext, ReadAgain, ReadEof, Tick
    <2>2. ASSUME NEW j \in 1..Len(net), ReadWhole(j) PROVE FifoInv'
      <3>1. /\ j >= pos /\ pos' = j + 1 /\ frags' \subseteq frags
            /\ recv' = Append(recv, net[j].body) /\ ~Frag(net[j])
        BY <2>2, <2>a, <2>g DEF ReadWhole, Unpacked, Frag
      <3>2. ASSUME NEW k \in 1..Len(net), k > j PROVE net[j].body < net[k].body
        <4>1. j < k
          BY <3>2, <1>l
        <4>2. net[j].body <= net[k].body /\ net[j].body # net[k].body
          BY <3>1, <4>1 DEF ShapeInv, Rising
        <4>3. net[j].body \in Nat /\ net[k].body \in Nat
          BY <1>s DEF WireInv
        <4> QED
          BY <4>2, <4>3
      <3> QED
        BY <1>s, <2>u, <3>1, <3>2, FifoUnpacked
    <2>3. ASSUME NEW j \in 1..Len(net), ReadFrag(j) PROVE FifoInv'
      <3> DEFINE d == net[j]
                 ent == FragAttach(FragFind(d), d)
                 tree == (frags \ Entries(d)) \cup {ent}
      <3>1. j >= pos /\ pos' = j + 1 /\ recv' = recv /\ Frag(d) /\ frags' \subseteq tree
        BY <2>3, <2>a, <2>g DEF ReadFrag, Frag
      <3>2. \A p \in ent.pieces : p = <<d.current, d.body>> \/ \E e \in frags : p \in e.pieces
        BY <1>s, <3>1, PiecesGrow
      <3> HIDE DEF ent
      <3> QED
        BY <2>p, <3>1, <3>2
    <2>4. ASSUME NEW j \in 1..Len(net), ReadLastFrag(j) PROVE FifoInv'
      <3> DEFINE ent == FragAttach(FragFind(net[j]), net[j])
      <3>1. /\ j >= pos /\ pos' = j + 1 /\ Frag(net[j]) /\ ent.rem = 0 /\ frags' \subseteq frags
            /\ recv' = Append(recv, Reassemble(ent))
        BY <2>4, <2>a, <2>g DEF ReadLastFrag, Unpacked, Frag
      <3>2. Reassemble(ent) = net[j].body
        BY <1>s, <3>1, Reassembled
      <3>3. \A k \in 1..Len(net) : k > j => net[j].body < net[k].body
        BY <1>s, <3>1, LastRead
      <3> QED
        BY <1>s, <2>u, <3>1, <3>2, <3>3, FifoUnpacked
    <2>5. ASSUME NEW j \in 1..Len(net), ReadBare(j) PROVE FifoInv'
      <3>1. j >= pos /\ pos' = j + 1 /\ UNCHANGED <<recv, frags>>
        BY <2>5, <2>a DEF ReadBare
      <3> QED
        BY <2>p, <3>1
    <2> QED
      BY <1>4, <2>1, <2>2, <2>3, <2>4, <2>5 DEF InputNext
  <1> QED
    BY <1>2, <1>3, <1>4 DEF Next


\* The writing end is done with a file when the reading end starts ...
LEMMA WriterDone ==
    ASSUME SizeInv, conf.type = "file", OutputNext
    PROVE  ~Readable
  <1>1. conf.max.opens \in Nat
    <2>1. conf \in ConfigType
      BY ConfigAssumption DEF SizeInv, SizeTypes
    <2> QED
      BY <2>1 DEF ConfigType, Bounds
  <1>2. opc # "closed" \/ sid < conf.max.opens
    BY DEF OutputNext, Call, AddFull, AddBuffered, AddWrite, AddFrag, Close, Open
  <1> QED
    BY <1>1, <1>2 DEF Readable

\* ... which reads the datagrams one after the other.
LEMMA FileStep ==
    ASSUME SizeInv, BodyInv, ReadInv, ReadInv', FifoInv, conf.type = "file", FileInv, [Next]_vars
    PROVE  FileInv'
  <1>s. WireInv /\ TreeInv /\ RecvInv /\ WireInv'
    BY DEF ReadInv
  <1>l. Len(net) \in Nat /\ Len(net') \in Nat /\ pos \in Nat
    BY <1>s DEF WireInv, FifoInv
  <1>f. conf.fifo
    BY ConfigAssumption DEF SizeInv, SizeTypes
  <1>1. CASE OutputNext /\ UNCHANGED inVars
    <2>1. pos' = 1 /\ ended' = "no"
      BY <1>1, WriterDone DEF FileInv, inVars
    <2>2. \A j \in 1..Len(net') : ~(j < 1)
      BY <1>l
    <2> QED
      BY <2>1, <2>2 DEF FileInv
  \* Nothing is read; perhaps the end is seen.
  <1>2. ASSUME UNCHANGED <<conf, net, pos, recv, frags, opc, sid>>,
               \/ ended' = ended /\ cur' = cur
               \/ /\ ended' = "eof" /\ cur' = NULL /\ ended = "no"
                  /\ pos > Len(net) /\ Readable
        PROVE  FileInv'
    <2>1. Readable' = Readable
      BY <1>2 DEF Readable
    <2>2. \A j : Passed(j) => Passed(j)'
      BY <1>2 DEF Passed, Unpack, Waits
    <2>3. ended' = "eof" => pos = Len(net) + 1 /\ cur' = NULL
      BY <1>2, <1>l DEF FileInv, FifoInv
    <2> QED
      BY <1>2, <2>1, <2>2, <2>3 DEF FileInv
  <1>3. CASE Finished \/ UNCHANGED vars
    <2>1. UNCHANGED <<conf, net, pos, recv, frags, opc, sid>> /\ ended' = ended /\ cur' = cur
      BY <1>3 DEF Finished, vars, inVars, outVars
    <2> QED
      BY <1>2, <2>1
  <1>4. CASE Readable /\ InputNext /\ UNCHANGED outVars
    <2>u. UNCHANGED <<conf, bodies, net, opc, sid>> /\ Readable /\ Readable'
      <3>1. UNCHANGED <<conf, bodies, net>>
        BY <1>4 DEF InputNext, ReadNext, ReadAgain, ReadEof, Tick, ReadWhole, ReadFrag,
             ReadLastFrag, ReadBare, Arrive
      <3>2. UNCHANGED <<opc, sid>>
        BY <1>4 DEF outVars
      <3> QED
        BY <1>4, <3>1, <3>2 DEF Readable
    \* The next datagram is the one at pos.
    <2>a. ASSUME NEW j, Arrive(j) PROVE j = pos /\ pos' = pos + 1 /\ ended = "no"
      BY <2>a, <1>f DEF Arrive
    <2>g. ASSUME NEW tree, NEW n, FragGc(tree, n) PROVE frags' = tree
      BY <2>g DEF FragGc
    <2>p. ASSUME NEW j, j = pos, pos' = pos + 1, ended' # "eof", Passed(j)',
                 \A k \in 1..Len(net) : k < pos => Passed(k)'
          PROVE  FileInv'
      <3>1. \A k \in 1..Len(net) : k < pos + 1 => k = j \/ k < pos
        BY <1>l, <2>p
      <3> QED
        BY <2>u, <2>p, <3>1 DEF FileInv
    \* A container is unpacked, and the pieces of others stay.
    <2>c. ASSUME NEW b \in 1..Len(bodies), recv' = Append(recv, b), ended = "no", ended' = "no",
                 NEW j, j = pos, pos' = pos + 1, net[j].body = b,
                 \A k \in 1..Len(net) : Waits(net[k]) /\ net[k].body # b => Waits(net[k])'
          PROVE  FileInv'
      <3>1. recv \in Seq(1..Len(bodies)) /\ Len(recv) \in Nat
        BY <1>s DEF RecvInv
      <3>2. /\ Len(recv') = Len(recv) + 1 /\ recv'[Len(recv) + 1] = b
            /\ \A n \in 1..Len(recv) : recv'[n] = recv[n]
        BY <3>1, <2>c
      <3>3. Len(recv) + 1 \in 1..Len(recv') /\ \A n \in 1..Len(recv) : n \in 1..Len(recv')
        BY <3>1, <3>2
      <3>4. Unpack(b)' /\ \A x : Unpack(x) => Unpack(x)'
        BY <3>2, <3>3 DEF Unpack
      <3>5. ASSUME NEW k \in 1..Len(net), k < pos PROVE Passed(k)'
        <4>1. Unpack(net[k].body) \/ Waits(net[k])
          BY <2>c, <3>5 DEF FileInv, Passed
        <4>2. Unpack(net[k].body)' \/ Waits(net[k])'
          BY <2>c, <2>u, <3>4, <4>1
        <4> QED
          BY <2>u, <4>2 DEF Passed
      <3>6. Passed(j)'
        BY <2>c, <2>u, <3>4 DEF Passed
      <3> QED
        BY <2>p, <2>c, <3>5, <3>6
    <2>1. CASE ReadNext
      <3>1. UNCHANGED <<pos, recv, frags>> /\ ended' = ended /\ cur' = cur
        BY <2>1 DEF ReadNext
      <3> QED
        BY <3>1, <2>u, <1>2
    <2>2. CASE ReadAgain
      BY <2>2 DEF ReadAgain
    <2>3. CASE ReadEof
      BY <2>3, <2>u, <1>2 DEF ReadEof
    <2>4. CASE Tick
      <3>1. UNCHANGED <<pos, recv, frags>> /\ ended' = ended /\ cur' = cur
        BY <2>4 DEF Tick
      <3> QED
        BY <3>1, <2>u, <1>2
    <2>5. ASSUME NEW j \in 1..Len(net), ReadWhole(j) PROVE FileInv'
      <3>1. /\ j = pos /\ pos' = pos + 1 /\ ended = "no" /\ frags' = frags /\ ended' = "no"
            /\ recv' = Append(recv, net[j].body) /\ net[j].body \in 1..Len(bodies)
        BY <1>s, <2>5, <2>a, <2>g DEF ReadWhole, Unpacked, WireInv
      <3>2. \A k \in 1..Len(net) : Waits(net[k]) => Waits(net[k])'
        BY <2>u, <3>1 DEF Waits
      <3> QED
        BY <2>c, <3>1, <3>2
    <2>6. ASSUME NEW j \in 1..Len(net), ReadFrag(j) PROVE FileInv'
      <3> DEFINE d == net[j]
                 ent == FragAttach(FragFind(d), d)
      <3>1. /\ j = pos /\ pos' = pos + 1 /\ ended = "no" /\ ended' = ended /\ recv' = recv
            /\ frags' = (frags \ Entries(d)) \cup {ent} /\ Frag(d)
        BY <2>6, <2>a, <2>g DEF ReadFrag, Frag
      <3>2. /\ <<d.current, d.body>> \in ent.pieces /\ ent.key = FragKey(d)
            /\ \A e \in Entries(d) : e.pieces \subseteq ent.pieces
        BY <1>s, <3>1, PiecesGrow, Attached
      <3> HIDE DEF ent
      <3>3. Passed(j)'
        <4>1. Waits(d)'
          BY <2>u, <3>1, <3>2 DEF Waits, FragKey
        <4> QED
          BY <2>u, <3>1, <4>1 DEF Passed
      <3>4. ASSUME NEW k \in 1..Len(net), k < pos PROVE Passed(k)'
        <4>1. CASE Unpack(net[k].body)
          BY <2>u, <3>1, <4>1 DEF Passed, Unpack
        <4>2. CASE Waits(net[k])
          <5>1. PICK e \in frags :
                  e.key = FragKey(net[k]) /\ <<net[k].current, net[k].body>> \in e.pieces
            BY <4>2 DEF Waits
          <5>2. \E x \in frags' :
                  x.key = FragKey(net[k]) /\ <<net[k].current, net[k].body>> \in x.pieces
            <6>1. CASE e \in Entries(d)
              <7>1. e.key = ent.key
                BY <6>1, <3>2 DEF Entries
              <7> QED
                BY <5>1, <6>1, <7>1, <3>1, <3>2
            <6>2. CASE e \notin Entries(d)
              BY <5>1, <6>2, <3>1
            <6> QED
              BY <6>1, <6>2
          <5>3. Waits(net[k])'
            BY <2>u, <4>2, <5>2 DEF Waits, FragKey
          <5> QED
            BY <2>u, <5>3 DEF Passed
        <4> QED
          BY <3>4, <4>1, <4>2, <3>1 DEF FileInv, Passed
      <3> QED
        BY <2>p, <3>1, <3>3, <3>4
    <2>7. ASSUME NEW j \in 1..Len(net), ReadLastFrag(j) PROVE FileInv'
      <3> DEFINE d == net[j]
                 ent == FragAttach(FragFind(d), d)
      <3>1. /\ j = pos /\ pos' = pos + 1 /\ ended = "no" /\ ended' = "no"
            /\ Frag(d) /\ ent.rem = 0 /\ recv' = Append(recv, Reassemble(ent))
            /\ frags' = frags \ Entries(d)
        BY <2>7, <2>a, <2>g DEF ReadLastFrag, Unpacked, Frag
      <3>2. Reassemble(ent) = d.body /\ d.body \in 1..Len(bodies)
        BY <1>s, <3>1, Reassembled
      <3>3. ASSUME NEW k \in 1..Len(net), Waits(net[k]), net[k].body # d.body
            PROVE  Waits(net[k])'
        <4>1. PICK e \in frags :
                e.key = FragKey(net[k]) /\ <<net[k].current, net[k].body>> \in e.pieces
          BY <3>3 DEF Waits
        <4>2. FragKey(net[k]) # FragKey(d)
          BY <3>3 DEF FragKey
        <4>3. e \in frags'
          BY <4>1, <4>2, <3>1 DEF Entries
        <4> QED
          BY <2>u, <3>3, <4>1, <4>3 DEF Waits, FragKey
      <3> QED
        BY <2>c, <3>1, <3>2, <3>3
    <2>8. ASSUME NEW j \in 1..Len(net), ReadBare(j) PROVE FileInv'
      <3>1. j = pos /\ pos' = pos + 1 /\ ended' = "error"
        BY <2>8, <2>a DEF ReadBare
      <3>2. \A k : Passed(k)'
        BY <3>1 DEF Passed
      <3> QED
        BY <2>p, <3>1, <3>2
    <2> QED
      BY <1>4, <2>1, <2>2, <2>3, <2>4, <2>5, <2>6, <2>7, <2>8 DEF InputNext
  <1> QED
    BY <1>1, <1>3, <1>4 DEF Next

\* The file, its messages and its reader stay in step.
THEOREM FileInvariance ==
    Spec => [](/\ ShapeInv /\ TakenInv
               /\ conf.fifo => FifoInv
               /\ conf.type = "file" => FifoInv /\ FileInv)
  <1>1. ASSUME Init PROVE ShapeInv /\ TakenInv /\ FifoInv /\ FileInv
    <2>1. /\ bodies = <<>> /\ net = <<>> /\ recv = <<>> /\ frags = {} /\ pos = 1
          /\ ended = "no" /\ c = nmsg_container_init
      BY <1>1 DEF Init, InputInit, OutputInit
    <2>2. Len(bodies) = 0 /\ Len(net) = 0 /\ Len(recv) = 0
      BY <2>1
    <2>3. c.payloads = <<>> /\ 1..Len(c.payloads) = {}
      BY <2>1, EmptyFacts
    <2> QED
      BY <2>1, <2>2, <2>3 DEF ShapeInv, Rising, TakenInv, FifoInv, FileInv
  <1>2. ASSUME SizeInv, BodyInv, ReadInv, ShapeInv, [Next]_vars PROVE ShapeInv' /\ conf' = conf
    <2>1. WireInv
      BY <1>2 DEF ReadInv
    <2>2. ASSUME UNCHANGED <<conf, bodies, net>> PROVE ShapeInv'
      BY <1>2, <2>2 DEF ShapeInv
    <2>3. CASE OutputNext
      <3>1. conf' = conf
        BY <2>3 DEF OutputNext, Call, AddFull, AddBuffered, AddWrite, AddFrag, Close, Open
      <3>2. ASSUME NEW cont, NEW n, NEW new, Serialize(cont, n), Sent(new, n), net' = net \o new
            PROVE  ShapeInv'
        BY <1>2, <2>1, <3>1, <3>2, ShapeAppend
      <3> QED
        BY <1>2, <2>1, <2>2, <2>3, <3>1, <3>2, OutputSends
    <2>4. CASE InputNext
      <3>1. UNCHANGED <<conf, bodies, net>>
        BY <2>4 DEF InputNext, ReadNext, ReadAgain, ReadEof, Tick, ReadWhole, ReadFrag,
             ReadLastFrag, ReadBare, Arrive
      <3> QED
        BY <2>2, <3>1
    <2>5. CASE Finished \/ UNCHANGED vars
      BY <2>2, <2>5 DEF Finished, vars
    <2> QED
      BY <1>2, <2>3, <2>4, <2>5 DEF Next
  <1>3. ASSUME SizeInv, BodyInv, ReadInv, ReadInv', ShapeInv, TakenInv,
               conf.fifo => FifoInv, conf.type = "file" => FifoInv /\ FileInv, [Next]_vars
        PROVE  /\ ShapeInv' /\ TakenInv'
               /\ conf'.fifo => FifoInv'
               /\ conf'.type = "file" => FifoInv' /\ FileInv'
    <2>1. ShapeInv' /\ conf' = conf
      BY <1>2, <1>3
    <2>2. TakenInv'
      BY <1>3, TakenStep
    <2>3. conf.fifo => FifoInv'
      BY <1>3, FifoStep
    <2>4. conf.type = "file" => conf.fifo
      BY <1>3, ConfigAssumption DEF SizeInv, SizeTypes
    <2>5. conf.type = "file" => FileInv'
      BY <1>3, FileStep
    <2> QED
      BY <2>1, <2>2, <2>3, <2>4, <2>5
  <1> DEFINE Inv == /\ ShapeInv /\ TakenInv
                    /\ conf.fifo => FifoInv
                    /\ conf.type = "file" => FifoInv /\ FileInv
             Base == SizeInv /\ BodyInv /\ ReadInv
  <1>4. Init => Inv
    BY <1>1
  <1>5. Base /\ Base' /\ Inv /\ [Next]_vars => Inv'
    BY <1>3
  <1>6. Spec => []Base
    BY ReadInvariance
  <1> HIDE DEF Inv, Base
  <1>7. Spec => []Inv
    BY <1>4, <1>5, <1>6, PTL DEF Spec
  <1> QED
    BY <1>7 DEF Inv


\* At the end of the file every container has been unpacked.
LEMMA AllUnpacked ==
    ASSUME WireInv, TreeInv, ShapeInv, FifoInv, FileInv, CompleteIsReassembled, AnnouncedRight,
           ~conf.fail, ended = "eof", NEW b \in 1..Len(bodies)
    PROVE  Unpack(b)
  <1> DEFINE n == bodies[b].frags
  <1>1. AllSent(net, b, n)
    BY DEF ShapeInv
  <1>2. ASSUME NEW j \in 1..Len(net) PROVE Unpack(net[j].body) \/ Waits(net[j])
    <2>1. j < pos
      BY DEF FileInv, WireInv
    <2> QED
      BY <2>1 DEF FileInv, Passed
  <1>3. CASE n = 0
    <2>1. PICK j \in 1..Len(net) : net[j].body = b /\ ~Frag(net[j])
      BY <1>1, <1>3 DEF AllSent
    <2> QED
      BY <2>1, <1>2 DEF Waits
  <1>4. CASE n # 0
    <2> SUFFICES ASSUME ~Unpack(b) PROVE FALSE
      OBVIOUS
    <2>1. n \in Nat /\ 0 \in 0..(n - 1)
      BY <1>1, <1>4 DEF AllSent
    <2>2. PICK j \in 1..Len(net) : net[j].body = b /\ Frag(net[j])
      BY <1>1, <2>1 DEF AllSent
    <2>3. PICK ent \in frags : ent.key = FragKey(net[j])
      BY <1>2, <2>2 DEF Waits
    <2>4. Pieces(ent) /\ ent.key[2] = b
      BY <2>2, <2>3 DEF TreeInv, TreeOk, FragKey
    <2>5. PICK i \in 1..Len(net) :
            Frag(net[i]) /\ ent.key = FragKey(net[i]) /\ ent.last = net[i].last
      BY <2>4 DEF Pieces
    <2>6. net[i].body = b /\ n = ent.last + 1 /\ ent.last \in Nat
      <3>1. net[i].body = b
        BY <2>4, <2>5 DEF FragKey
      <3> QED
        BY <2>4, <2>5, <3>1 DEF AnnouncedRight, Pieces
    <2>7. ent.pieces \subseteq (0..(n - 1)) \X {b}
      <3>1. n - 1 = ent.last
        BY <2>6
      <3> QED
        BY <2>4, <3>1 DEF Pieces
    <2>8. ASSUME NEW x \in 0..(n - 1) PROVE <<x, b>> \in ent.pieces
      <3>1. PICK k \in 1..Len(net) : net[k].body = b /\ Frag(net[k]) /\ net[k].current = x
        BY <1>1 DEF AllSent
      <3>2. net[k].id = net[j].id
        <4>1. k = j \/ k < j \/ j < k
          BY DEF WireInv
        <4> QED
          BY <2>2, <3>1, <4>1 DEF ShapeInv, Rising
      <3>3. FragKey(net[k]) = ent.key
        BY <2>2, <2>3, <3>1, <3>2 DEF FragKey
      <3>4. PICK e \in frags : e.key = FragKey(net[k]) /\ <<net[k].current, net[k].body>> \in e.pieces
        BY <1>2, <3>1 DEF Waits
      <3>5. e = ent
        BY <3>3, <3>4 DEF TreeInv, TreeOk
      <3> QED
        BY <3>1, <3>4, <3>5
    <2>9. ent.pieces = (0..(n - 1)) \X {b}
      BY <2>7, <2>8
    <2> QED
      BY <2>9 DEF CompleteIsReassembled
  <1> QED
    BY <1>3, <1>4

\* For every sequence of messages, buffer size and filter: when no write failed
\* and no packed container was a multiple of MaxFragsz bytes long, the reader of a
\* file gets to its end with the messages reported as written that its filter
\* wants, in order and once each.
THEOREM FileGivesBack == Spec => [](~conf.fail /\ AnnouncedRight => FileRoundTrip)
  <1>1. ASSUME BodyInv, ReadInv, PayloadInv, GivenInv, OrderInv, ShapeInv, TakenInv,
               conf.type = "file" => FifoInv /\ FileInv, AnnouncedRight => CompleteIsReassembled,
               ~conf.fail, AnnouncedRight
        PROVE  FileRoundTrip
    <2> SUFFICES ASSUME conf.type = "file", ended = "eof"
                 PROVE  /\ {delivered[i].msg : i \in 1..Len(delivered)} = {m \in accepted : Filter(m)}
                        /\ \A i, j \in 1..Len(delivered) :
                             i < j => delivered[i].msg.no < delivered[j].msg.no
      BY DEF FileRoundTrip
    <2>1. FifoInv /\ FileInv /\ WireInv /\ TreeInv /\ RecvInv
      BY <1>1 DEF ReadInv
    <2>2. cur = NULL /\ c.payloads = <<>>
      BY <1>1, <2>1 DEF FileInv, Readable, TakenInv
    <2>3. \A b \in 1..Len(bodies) : Unpack(b)
      BY <1>1, <2>1, AllUnpacked
    <2> DEFINE P(b) == bodies[b].payloads
               D == delivered
    <2>4. recv \in Seq(1..Len(bodies)) /\ Len(bodies) \in Nat
      BY <1>1, <2>1 DEF RecvInv, BodyInv
    <2>5. \A n \in 1..Len(recv) : recv[n] \in 1..Len(bodies)
      BY <2>4
    <2>6. \A n \in 1..Len(recv) : Taken[n] = Len(P(recv[n])) /\ Payloads[n] = P(recv[n])
      BY <2>2 DEF Taken, Payloads
    <2>7. Given(D, Len(recv), Taken, Payloads)
      BY <1>1 DEF GivenInv
    <2> HIDE DEF P, D
    <2>8. ASSUME NEW k \in 1..Len(D)
          PROVE  /\ D[k].read \in 1..Len(recv) /\ recv[D[k].read] \in 1..Len(bodies)
                 /\ D[k].index \in 1..Len(P(recv[D[k].read]))
                 /\ D[k].msg = P(recv[D[k].read])[D[k].index] /\ Filter(D[k].msg)
      BY <2>5, <2>6, <2>7 DEF Given
    \* What the containers hold, by their numbers.
    <2>9. /\ \A i \in 1..Len(bodies) : i \in 1..(Len(bodies) + 1) /\ Held[i] = P(i)
          /\ \A i \in 1..(Len(bodies) + 1) : \A p \in 1..Len(Held[i]) : i \in 1..Len(bodies)
      <3>1. \A i \in 1..Len(bodies) : i \in 1..(Len(bodies) + 1) /\ Held[i] = P(i)
        BY <2>4 DEF Held, P
      <3>2. \A i \in 1..(Len(bodies) + 1) : i \in 1..Len(bodies) \/ i = Len(bodies) + 1
        BY <2>4
      <3>3. Held[Len(bodies) + 1] = <<>> /\ 1..Len(<<>>) = {}
        BY <2>2, <2>4 DEF Held
      <3> QED
        BY <3>1, <3>2, <3>3
    <2> DEFINE L == Len(bodies) + 1
    <2>10. PICK w : Filed(Held, L, accepted, w)
      BY <1>1 DEF OrderInv
    <2> HIDE DEF L
    <2>11. \A i, j \in 1..Len(bodies) : \A p \in 1..Len(P(i)), q \in 1..Len(P(j)) :
             i < j \/ (i = j /\ p < q) => P(i)[p].no < P(j)[q].no
      <3> SUFFICES ASSUME NEW i \in 1..Len(bodies), NEW j \in 1..Len(bodies),
                          NEW p \in 1..Len(P(i)), NEW q \in 1..Len(P(j)),
                          i < j \/ (i = j /\ p < q)
                   PROVE  P(i)[p].no < P(j)[q].no
        OBVIOUS
      <3>1. i \in 1..L /\ j \in 1..L /\ Held[i] = P(i) /\ Held[j] = P(j)
        BY <2>9 DEF L
      <3>2. \A x, y \in 1..L : \A u \in 1..Len(Held[x]), v \in 1..Len(Held[y]) :
              x < y \/ (x = y /\ u < v) => Held[x][u].no < Held[y][v].no
        BY <2>10 DEF Filed
      <3>3. Held[i][p].no < Held[j][q].no
        BY <3>1, <3>2
      <3> QED
        BY <3>1, <3>3
    <2>12. ASSUME NEW k \in 1..Len(D) PROVE D[k].msg \in accepted /\ Filter(D[k].msg)
      BY <1>1, <2>8 DEF TakenInv, P
    <2>13. ASSUME NEW m \in accepted, Filter(m) PROVE \E k \in 1..Len(D) : D[k].msg = m
      <3>1. PICK i \in 1..L : \E p \in 1..Len(Held[i]) : Held[i][p] = m
        BY <2>10 DEF Filed
      <3>2. PICK p \in 1..Len(Held[i]) : Held[i][p] = m
        BY <3>1
      <3>3. i \in 1..Len(bodies) /\ p \in 1..Len(P(i)) /\ P(i)[p] = m
        BY <2>9, <3>1, <3>2 DEF L
      <3>4. PICK n \in 1..Len(recv) : recv[n] = i
        BY <2>3, <3>3 DEF Unpack
      <3>5. p \in 1..Taken[n] /\ Payloads[n][p] = m
        BY <2>6, <3>3, <3>4
      <3>a. Filter(Payloads[n][p])
        BY <2>13, <3>5
      <3>b. \A y \in 1..Len(recv) : \A x \in 1..Taken[y] :
              Filter(Payloads[y][x]) => \E k \in 1..Len(D) : D[k].read = y /\ D[k].index = x
        BY <2>7 DEF Given
      <3>6. PICK k \in 1..Len(D) : D[k].read = n /\ D[k].index = p
        BY <3>5, <3>a, <3>b
      <3>7. D[k].msg = m
        BY <2>8, <3>3, <3>4, <3>6
      <3> QED
        BY <3>7
    <2>14. ASSUME NEW i \in 1..Len(D), NEW j \in 1..Len(D), i < j
           PROVE  D[i].msg.no < D[j].msg.no
      <3>1. D[i].read < D[j].read \/ (D[i].read = D[j].read /\ D[i].index < D[j].index)
        BY <2>7, <2>14 DEF Given
      <3>2. D[i].read < D[j].read => recv[D[i].read] < recv[D[j].read]
        BY <2>1, <2>8 DEF FifoInv
      <3>3. \/ recv[D[i].read] < recv[D[j].read]
            \/ recv[D[i].read] = recv[D[j].read] /\ D[i].index < D[j].index
        BY <3>1, <3>2
      <3> QED
        BY <2>8, <2>11, <3>3
    <2> QED
      BY <2>12, <2>13, <2>14 DEF D
  <1> QED
    BY <1>1, ReadInvariance, GivenInvariance, OrderInvariance, FileInvariance,
       CompleteWhenAnnouncedRight, PTL


-----------------------------------------------------------------------------
(***************************************************************************)
(* Lost containers.  Numbers that differ by a multiple of SeqSpace look    *)
(* alike; the containers of one sequence id were written one after the     *)
(* other, and their numbers differ as their places do.                     *)
(***************************************************************************)
Alike(x, y) == \E t \in Int : x = y + t * SeqSpace

Number == 0..(SeqSpace - 1)

NumberInv ==
    /\ sid \in Nat /\ sequence \in Number
    /\ \A b \in 1..Len(bodies) :
         bodies[b].sid \in Nat /\ bodies[b].sid <= sid /\ bodies[b].seq \in Number
    /\ \A a, b \in 1..Len(bodies) : a < b => bodies[a].sid <= bodies[b].sid
    /\ DoSequence =>
         /\ \A a, b \in 1..Len(bodies) :
              a < b /\ bodies[a].sid = bodies[b].sid => Alike(bodies[b].seq - bodies[a].seq, b - a)
         /\ \A a \in 1..Len(bodies) :
              bodies[a].sid = sid => Alike(sequence - bodies[a].seq, Len(bodies) + 1 - a)

\* Never are as many containers of one source lost in a row as there are numbers.
GapsShort ==
    \A n \in 1..(Len(recv) - 1) :
        bodies[recv[n]].sid = bodies[recv[n + 1]].sid => recv[n + 1] - recv[n] <= SeqSpace

(***************************************************************************)
(* ... and the list has a source once; the one of the last container has   *)
(* the number that follows, and no other can be heard of again, for the    *)
(* containers of a source come one after the other.                        *)
(***************************************************************************)
Newest == IF recv = <<>> THEN 0 ELSE recv[Len(recv)]

LastOf(src, b) ==
    /\ \E n \in 1..Len(recv) : recv[n] = b
    /\ bodies[b].sid = src.sid
    /\ \A n \in 1..Len(recv) : bodies[recv[n]].sid = src.sid => recv[n] <= b

SourceType == [sid : Nat, seq : Number, count : Int, dropped : Int, init : BOOLEAN,
               last : Int, from : Int]

SourceInv ==
    /\ seqsrcs \in Seq(SourceType)
    /\ count_drop \in Int /\ count_recv \in Int
    /\ \A i, k \in 1..Len(seqsrcs) : seqsrcs[i].sid = seqsrcs[k].sid => i = k
    /\ \A i \in 1..Len(seqsrcs) :
         LET src == seqsrcs[i]
         IN  \E b \in 1..Len(bodies) :
               /\ LastOf(src, b)
               /\ b = Newest => ~src.init /\ src.seq = (bodies[b].seq + 1) % SeqSpace
               /\ GapsShort => src.count + src.dropped = b + 1 - src.from
    /\ count_drop + count_recv <= Newest


\* Alike is kept by sums ...
LEMMA AlikeSum ==
    ASSUME NEW x \in Int, NEW y \in Int, NEW u \in Int, NEW v \in Int, Alike(x, y), Alike(u, v)
    PROVE  Alike(x + u, y + v)
  <1>1. SeqSpace \in Int
    BY WireAssumption
  <1>2. PICK s \in Int : x = y + s * SeqSpace
    BY DEF Alike
  <1>3. PICK t \in Int : u = v + t * SeqSpace
    BY DEF Alike
  <1>4. (s + t) * SeqSpace = s * SeqSpace + t * SeqSpace /\ s + t \in Int
    BY <1>1
  <1>5. s * SeqSpace \in Int /\ t * SeqSpace \in Int
    BY <1>1
  <1>6. x + u = (y + v) + (s + t) * SeqSpace
    BY <1>2, <1>3, <1>4, <1>5
  <1> QED
    BY <1>4, <1>6 DEF Alike

\* ... a number is like what it is the remainder of ...
LEMMA AlikeMod ==
    ASSUME NEW x \in Int
    PROVE  x % SeqSpace \in Number /\ Alike(x % SeqSpace, x)
  <1>1. SeqSpace \in Nat \ {0}
    BY WireAssumption
  <1> DEFINE q == x \div SeqSpace
             r == x % SeqSpace
  <1>2. q \in Int /\ r \in 0..(SeqSpace - 1) /\ x = SeqSpace * q + r
    BY <1>1
  <1> HIDE DEF q, r
  <1>3. -q \in Int /\ (-q) * SeqSpace = -(SeqSpace * q) /\ SeqSpace * q \in Int
    BY <1>1, <1>2
  <1>4. r = x + (-q) * SeqSpace
    BY <1>2, <1>3
  <1> QED
    BY <1>2, <1>3, <1>4 DEF Alike, Number, r

\* ... and a distance that looks like g is at most g, and is g when g is a number.
LEMMA AlikeDistance ==
    ASSUME NEW x \in Int, NEW g \in Nat, Alike(x, g)
    PROVE  /\ x % SeqSpace <= g
           /\ g < SeqSpace => x % SeqSpace = g
  <1>1. SeqSpace \in Nat \ {0}
    BY WireAssumption
  <1> DEFINE r == x % SeqSpace
  <1>2. r \in 0..(SeqSpace - 1) /\ Alike(r, x)
    BY AlikeMod DEF Number
  <1> HIDE DEF r
  <1>3. PICK s \in Int : r = x + s * SeqSpace
    BY <1>2 DEF Alike
  <1>4. PICK t \in Int : x = g + t * SeqSpace
    BY DEF Alike
  <1>5. s * SeqSpace \in Int /\ t * SeqSpace \in Int /\ (s + t) * SeqSpace = s * SeqSpace + t * SeqSpace
    BY <1>1
  <1> DEFINE k == s + t
  <1>6. k \in Int /\ k * SeqSpace \in Int /\ r = g + k * SeqSpace
    BY <1>1, <1>3, <1>4, <1>5
  <1> HIDE DEF k
  <1>7. ASSUME k >= 1 PROVE FALSE
    <2>1. (k - 1) * SeqSpace >= 0
      BY <1>1, <1>6, <1>7
    <2>2. k * SeqSpace = (k - 1) * SeqSpace + SeqSpace
      BY <1>1, <1>6
    <2>3. (k - 1) * SeqSpace \in Int
      BY <1>1, <1>6
    <2> QED
      BY <1>1, <1>2, <1>6, <2>1, <2>2, <2>3
  <1>8. k <= 0
    BY <1>6, <1>7
  <1>9. k * SeqSpace <= 0
    <2>1. (-k) * SeqSpace >= 0
      BY <1>1, <1>6, <1>8
    <2>2. (-k) * SeqSpace = -(k * SeqSpace)
      BY <1>1, <1>6
    <2> QED
      BY <1>6, <2>1, <2>2
  <1>10. r <= g
    BY <1>2, <1>6, <1>9
  <1>11. ASSUME g < SeqSpace, k <= -1 PROVE FALSE
    <2>1. (-k - 1) * SeqSpace >= 0
      BY <1>1, <1>6, <1>11
    <2>2. (-k - 1) * SeqSpace = -(k * SeqSpace) - SeqSpace
      BY <1>1, <1>6
    <2> QED
      BY <1>1, <1>2, <1>6, <1>11, <2>1, <2>2
  <1>12. g < SeqSpace => k = 0
    BY <1>6, <1>8, <1>11
  <1>13. k = 0 => k * SeqSpace = 0
    BY <1>1
  <1>14. g < SeqSpace => r = g
    BY <1>6, <1>12, <1>13
  <1> QED
    BY <1>10, <1>14 DEF r


\* Containers are numbered one after the other, and anew when an output is opened.
LEMMA NumberStep ==
    ASSUME BodyInv, NumberInv, [Next]_vars
    PROVE  NumberInv'
  <1>1. ASSUME UNCHANGED <<conf, bodies, sequence, sid>> PROVE NumberInv'
    BY <1>1 DEF NumberInv, DoSequence
  <1>2. ASSUME NEW cont, NEW n, Serialize(cont, n), UNCHANGED <<conf, sid>> PROVE NumberInv'
    <2> DEFINE body == [payloads |-> cont.payloads, seq |-> sequence, sid |-> sid, frags |-> n]
               L == Len(bodies)
    <2>1. PICK Bodies : bodies \in Seq(Bodies)
      BY DEF BodyInv
    <2>2. bodies' = Append(bodies, body) /\ body.seq = sequence /\ body.sid = sid
      BY <1>2 DEF Serialize
    <2> HIDE DEF body
    <2>3. /\ L \in Nat /\ Len(bodies') = L + 1 /\ bodies'[L + 1] = body
          /\ \A b \in 1..L : bodies'[b] = bodies[b]
      BY <2>1, <2>2
    <2>4. \A b \in 1..(L + 1) : b \in 1..L \/ b = L + 1
      BY <2>3
    <2>5. sequence \in Number /\ sequence \in Int /\ sid \in Nat
      BY WireAssumption DEF NumberInv, Number
    <2>6. sequence' = IF DoSequence THEN (sequence + 1) % SeqSpace ELSE sequence
      BY <1>2 DEF Serialize
    <2>7. sequence' \in Number /\ (DoSequence => Alike(sequence', sequence + 1))
      BY <2>5, <2>6, AlikeMod
    <2>8. \A b \in 1..L : /\ bodies[b].sid \in Nat /\ bodies[b].sid <= sid
                          /\ bodies[b].seq \in Number /\ bodies[b].seq \in Int
      BY WireAssumption DEF NumberInv, Number
    <2>9. \A b \in 1..Len(bodies') :
            bodies'[b].sid \in Nat /\ bodies'[b].sid <= sid /\ bodies'[b].seq \in Number
      BY <2>2, <2>3, <2>4, <2>5, <2>8
    <2>10. \A a, b \in 1..Len(bodies') : a < b => bodies'[a].sid <= bodies'[b].sid
      <3> SUFFICES ASSUME NEW a \in 1..(L + 1), NEW b \in 1..(L + 1), a < b
                   PROVE  bodies'[a].sid <= bodies'[b].sid
        BY <2>3
      <3>1. a \in 1..L /\ bodies'[a] = bodies[a]
        BY <2>3
      <3>2. CASE b \in 1..L
        BY <3>1, <3>2, <2>3 DEF NumberInv, L
      <3>3. CASE b = L + 1
        BY <3>1, <3>3, <2>2, <2>3, <2>8
      <3> QED
        BY <2>4, <3>2, <3>3
    <2>11. ASSUME DoSequence, NEW a \in 1..L, NEW b \in 1..(L + 1), a < b,
                  bodies'[a].sid = bodies'[b].sid
           PROVE  Alike(bodies'[b].seq - bodies'[a].seq, b - a)
      <3>1. CASE b \in 1..L
        BY <2>11, <3>1, <2>3 DEF NumberInv, L
      <3>2. CASE b = L + 1
        BY <2>11, <3>2, <2>2, <2>3 DEF NumberInv, L
      <3> QED
        BY <2>4, <3>1, <3>2
    <2>12. ASSUME DoSequence, NEW a \in 1..(L + 1), bodies'[a].sid = sid
           PROVE  Alike(sequence' - bodies'[a].seq, (L + 1) + 1 - a)
      <3>0. sequence' \in Int
        BY <2>7, WireAssumption DEF Number
      <3>1. CASE a \in 1..L
        <4> DEFINE x == sequence - bodies[a].seq
                   y == L + 1 - a
                   u == sequence' - sequence
        <4>1. Alike(x, y) /\ x \in Int /\ y \in Int
          BY <2>12, <3>1, <2>3, <2>5, <2>8 DEF NumberInv, L
        <4>2. Alike(u, 1) /\ u \in Int
          <5>1. Alike(sequence', sequence + 1)
            BY <2>7, <2>12
          <5>2. PICK t \in Int : sequence' = (sequence + 1) + t * SeqSpace
            BY <5>1 DEF Alike
          <5>3. t * SeqSpace \in Int
            BY WireAssumption
          <5>4. sequence' - sequence = 1 + t * SeqSpace
            BY <2>5, <5>2, <5>3
          <5> QED
            BY <2>5, <3>0, <5>4 DEF Alike
        <4> HIDE DEF x, y, u
        <4>3. Alike(x + u, y + 1)
          BY <4>1, <4>2, AlikeSum
        <4>4. bodies'[a].seq = bodies[a].seq /\ bodies[a].seq \in Int
          BY <3>1, <2>3, <2>8
        <4>5. x + u = sequence' - bodies'[a].seq /\ y + 1 = (L + 1) + 1 - a
          BY <4>4, <2>3, <2>5, <3>0 DEF x, y, u
        <4> QED
          BY <4>3, <4>5
      <3>2. CASE a = L + 1
        <4>1. bodies'[a].seq = sequence /\ (L + 1) + 1 - a = 1
          BY <3>2, <2>2, <2>3
        <4>2. PICK t \in Int : sequence' = (sequence + 1) + t * SeqSpace
          BY <2>7, <2>12 DEF Alike
        <4>3. t * SeqSpace \in Int
          BY WireAssumption
        <4>4. sequence' - sequence = 1 + t * SeqSpace
          BY <2>5, <4>2, <4>3
        <4> QED
          BY <4>1, <4>4 DEF Alike
      <3> QED
        BY <2>4, <3>1, <3>2
    <2>13. \A a, b \in 1..(L + 1) : a < b => a \in 1..L
      BY <2>3
    <2>14. DoSequence' = DoSequence
      BY <1>2 DEF DoSequence
    <2> HIDE DEF L
    <2> QED
      BY <1>2, <2>3, <2>5, <2>7, <2>9, <2>10, <2>11, <2>12, <2>13, <2>14 DEF NumberInv
  <1>3. CASE Open
    <2>1. UNCHANGED <<conf, bodies>> /\ sid' = sid + 1 /\ sequence' = 0
      BY <1>3 DEF Open
    <2>2. sid' \in Nat /\ 0 \in Number /\ \A b \in 1..Len(bodies) : bodies[b].sid <= sid' /\ bodies[b].sid # sid'
      BY <2>1, WireAssumption DEF NumberInv, Number
    <2> QED
      BY <2>1, <2>2 DEF NumberInv, DoSequence
  <1>4. CASE (\E m \in conf.messages : Call(m)) \/ AddBuffered
    BY <1>1, <1>4 DEF Call, AddBuffered
  <1>5. CASE AddFull
    BY <1>2, <1>5 DEF AddFull, WriteContainer
  <1>6. CASE AddWrite
    BY <1>2, <1>6 DEF AddWrite, WriteContainer
  <1>7. CASE AddFrag
    <2>1. PICK ok \in SendResults : FragWrite(ContainerAdd(c, msg), ok)
      BY <1>7 DEF AddFrag
    <2>2. \E n : Serialize(ContainerAdd(c, msg), n)
      BY <2>1 DEF FragWrite
    <2> QED
      BY <1>2, <1>7, <2>2 DEF AddFrag
  <1>8. CASE Close
    <2>1. CASE c.payloads # <<>>
      BY <1>2, <1>8, <2>1 DEF Close, WriteContainer
    <2>2. CASE c.payloads = <<>>
      BY <1>1, <1>8, <2>2 DEF Close
    <2> QED
      BY <2>1, <2>2
  <1>9. CASE (InputNext /\ UNCHANGED outVars) \/ Finished \/ UNCHANGED vars
    <2>1. UNCHANGED <<conf, bodies, outVars>>
      BY <1>9, InputKeeps DEF Finished, vars
    <2> QED
      BY <1>1, <2>1 DEF outVars
  <1> QED
    BY <1>3, <1>4, <1>5, <1>6, <1>7, <1>8, <1>9 DEF Next, OutputNext


\* The distance that _input_seqsrc_update() computes from one container of a
\* source to a later one.
LEMMA Distance ==
    ASSUME BodyInv, NumberInv, DoSequence, NEW a \in 1..Len(bodies), NEW b \in 1..Len(bodies),
           a < b, bodies[a].sid = bodies[b].sid
    PROVE  LET delta == SeqDelta(bodies[b].seq, (bodies[a].seq + 1) % SeqSpace)
           IN  /\ delta \in Nat /\ delta <= b - a - 1
               /\ b - a <= SeqSpace => delta = b - a - 1
  <1> DEFINE x == bodies[b].seq
             y == bodies[a].seq
             e == (y + 1) % SeqSpace
             g == b - a - 1
  <1>1. SeqSpace \in Nat \ {0} /\ Len(bodies) \in Nat
    BY WireAssumption DEF BodyInv
  <1>2. x \in Int /\ y \in Int /\ g \in Nat
    BY <1>1 DEF NumberInv, Number
  <1>3. PICK t \in Int : x - y = b - a + t * SeqSpace
    BY DEF NumberInv, Alike
  <1>4. e \in Number /\ Alike(e, y + 1)
    BY <1>2, AlikeMod
  <1> HIDE DEF x, y, e
  <1>5. PICK u \in Int : e = (y + 1) + u * SeqSpace
    BY <1>4 DEF Alike
  <1>6. /\ t * SeqSpace \in Int /\ u * SeqSpace \in Int /\ e \in Int
        /\ (t - u) * SeqSpace = t * SeqSpace - u * SeqSpace /\ t - u \in Int
    BY <1>1, <1>4 DEF Number
  <1>7. x - e = g + (t - u) * SeqSpace
    <2> DEFINE T == t * SeqSpace
               U == u * SeqSpace
    <2>1. T \in Int /\ U \in Int /\ x - y = b - a + T /\ e = (y + 1) + U
      BY <1>3, <1>5, <1>6
    <2> HIDE DEF T, U
    <2>2. x - e = (b - a - 1) + (T - U)
      BY <2>1, <1>1, <1>2
    <2> QED
      BY <2>2, <1>6 DEF T, U
  <1>8. Alike(x - e, g) /\ x - e \in Int
    BY <1>2, <1>6, <1>7 DEF Alike
  <1> HIDE DEF g
  <1>9. (x - e) % SeqSpace <= g /\ (g < SeqSpace => (x - e) % SeqSpace = g)
    BY <1>2, <1>8, AlikeDistance
  <1>10. (x - e) % SeqSpace \in Nat
    BY <1>1, <1>8
  <1>11. b - a <= SeqSpace => g < SeqSpace
    BY <1>1 DEF g
  <1> QED
    BY <1>9, <1>10, <1>11 DEF SeqDelta, x, y, e, g

\* What _input_seqsrc_get() leaves of the other sources: some of them, each once.
LEMMA OthersKept ==
    ASSUME NEW S, seqsrcs \in Seq(S), NEW at \in 1..(Len(seqsrcs) + 1), NEW kept \in Picks(at - 1)
    PROVE  LET other == OtherSources(at, kept)
           IN  /\ other \in Seq(S)
               /\ \E f : \A i \in 1..Len(other) :
                    /\ f[i] \in (1..Len(seqsrcs)) \ {at} /\ other[i] = seqsrcs[f[i]]
                    /\ \A k \in 1..Len(other) : f[i] = f[k] => i = k
  <1> DEFINE L == Len(seqsrcs)
             m == Len(kept)
             head == [i \in 1..m |-> seqsrcs[kept[i]]]
             tail == SubSeq(seqsrcs, at + 1, L)
             other == head \o tail
             f == [i \in 1..(m + L) |-> IF i <= m THEN kept[i] ELSE i - m + at]
  <1>1. L \in Nat /\ at \in Nat /\ at - 1 \in Nat
    OBVIOUS
  <1>2. PICK k \in 0..(at - 1) : kept \in [1..k -> 1..(at - 1)]
    BY <1>1 DEF Picks
  <1>3. k \in Nat /\ kept \in Seq(1..(at - 1)) /\ m = k
    BY <1>1, <1>2
  <1>4. \A i \in 1..m : kept[i] \in 1..(at - 1) /\ kept[i] \in 1..L
    BY <1>1, <1>2, <1>3
  <1>5. \A i, j \in 1..m : i < j => kept[i] < kept[j]
    BY <1>2, <1>3 DEF Picks
  <1>6. ASSUME NEW i \in 1..m, NEW j \in 1..m, kept[i] = kept[j] PROVE i = j
    <2>1. kept[i] \in Int /\ ~(kept[i] < kept[j]) /\ ~(kept[j] < kept[i])
      BY <1>4, <1>6
    <2>2. ~(i < j) /\ ~(j < i)
      BY <2>1, <1>5
    <2> QED
      BY <2>2, <1>3
  <1> HIDE DEF m
  <1>7. head \in Seq(S) /\ Len(head) = m /\ \A i \in 1..m : head[i] = seqsrcs[kept[i]]
    BY <1>3, <1>4
  <1>8. /\ tail \in Seq(S) /\ Len(tail) = IF at + 1 <= L THEN L - at ELSE 0
        /\ \A i \in 1..Len(tail) : tail[i] = seqsrcs[i + at]
    BY <1>1
  <1> HIDE DEF head, tail
  <1>9. /\ other \in Seq(S) /\ Len(other) = m + Len(tail) /\ Len(tail) \in Nat
        /\ \A i \in 1..m : other[i] = head[i]
        /\ \A i \in 1..Len(other) : i > m => other[i] = tail[i - m]
    <2>1. head \in Seq(S) /\ tail \in Seq(S)
      BY <1>7, <1>8
    <2>2. /\ other \in Seq(S) /\ Len(other) = Len(head) + Len(tail)
          /\ Len(head) \in Nat /\ Len(tail) \in Nat
      BY <2>1
    <2>3. \A i \in 1..Len(head) : other[i] = head[i]
      BY <2>1
    <2>4. \A i \in 1..(Len(head) + Len(tail)) : i > Len(head) => other[i] = tail[i - Len(head)]
      BY <2>1
    <2> QED
      BY <2>2, <2>3, <2>4, <1>7
  <1>10. Len(tail) <= L
    BY <1>1, <1>8
  <1> HIDE DEF other
  <1>11. ASSUME NEW i \in 1..Len(other)
         PROVE  /\ i \in 1..(m + L)
                /\ f[i] \in (1..L) \ {at} /\ other[i] = seqsrcs[f[i]]
                /\ i <= m => f[i] = kept[i] /\ f[i] < at
                /\ ~(i <= m) => f[i] = i - m + at /\ f[i] > at
    <2>1. i \in 1..(m + L)
      BY <1>1, <1>3, <1>9, <1>10
    <2>2. CASE i <= m
      <3>1. i \in 1..m /\ f[i] = kept[i]
        BY <2>1, <2>2, <1>3
      <3>2. kept[i] < at /\ kept[i] \in (1..L) \ {at}
        BY <3>1, <1>4, <1>1
      <3> QED
        BY <2>1, <2>2, <3>1, <3>2, <1>7, <1>9
    <2>3. CASE ~(i <= m)
      <3>1. f[i] = i - m + at /\ i > m /\ i - m \in 1..Len(tail)
        BY <2>1, <2>3, <1>3, <1>9
      <3>2. other[i] = seqsrcs[i - m + at]
        BY <3>1, <1>8, <1>9
      <3>3. i - m + at > at /\ i - m + at \in (1..L) \ {at}
        BY <3>1, <1>1, <1>3, <1>8
      <3> QED
        BY <2>1, <2>3, <3>1, <3>2, <3>3
    <2> QED
      BY <2>2, <2>3
  <1>12. ASSUME NEW i \in 1..Len(other), NEW j \in 1..Len(other), f[i] = f[j]
         PROVE  i = j
    <2>1. CASE i <= m /\ j <= m
      <3>1. i \in 1..m /\ j \in 1..m
        BY <2>1, <1>3
      <3>2. kept[i] = kept[j]
        BY <2>1, <1>11, <1>12
      <3> QED
        BY <3>1, <3>2, <1>6
    <2>2. CASE ~(i <= m) /\ ~(j <= m)
      <3>1. i - m + at = j - m + at
        BY <2>2, <1>11, <1>12
      <3> QED
        BY <3>1, <1>1, <1>3, <1>9
    <2>3. ~(i <= m) <=> ~(j <= m)
      <3>1. f[i] < at \/ f[i] > at
        BY <1>11
      <3>2. f[i] \in Int
        BY <1>11
      <3>3. (i <= m => f[i] < at) /\ (~(i <= m) => f[i] > at)
        BY <1>11
      <3>4. (j <= m => f[i] < at) /\ (~(j <= m) => f[i] > at)
        BY <1>11, <1>12
      <3>5. ~(f[i] < at /\ f[i] > at)
        BY <1>1, <3>2
      <3> QED
        BY <3>3, <3>4, <3>5
    <2> QED
      BY <2>1, <2>2, <2>3
  <1>13. other = OtherSources(at, kept)
    BY DEF other, head, tail, m, OtherSources
  <1> HIDE DEF f
  <1>14. \A i \in 1..Len(other) :
           /\ f[i] \in (1..L) \ {at} /\ other[i] = seqsrcs[f[i]]
           /\ \A j \in 1..Len(other) : f[i] = f[j] => i = j
    BY <1>11, <1>12
  <1> QED
    BY <1>9, <1>13, <1>14


\* One sequence behind another.
LEMMA Joined ==
    ASSUME NEW S, NEW s \in Seq(S), NEW t \in Seq(S)
    PROVE  /\ s \o t \in Seq(S) /\ Len(s \o t) = Len(s) + Len(t)
           /\ \A i \in 1..Len(s) : (s \o t)[i] = s[i]
           /\ \A i \in 1..(Len(s) + Len(t)) : i > Len(s) => (s \o t)[i] = t[i - Len(s)]
  OBVIOUS

\* The list after a container: the source that was updated and some of the others,
\* and still no source twice.
ListAfter(list, at, kept, src) ==
    \/ list = <<src>> \o OtherSources(at, kept)
    \/ list = Append(OtherSources(at, kept), src)

OnceEach(list) == \A i, k \in 1..Len(list) : list[i].sid = list[k].sid => i = k

NoOther(at, src) == \A i \in 1..Len(seqsrcs) : i # at => seqsrcs[i].sid # src.sid

NewOrKept(list, at, src) ==
    \A i \in 1..Len(list) :
        list[i] = src \/ \E k \in 1..Len(seqsrcs) : k # at /\ list[i] = seqsrcs[k]

LEMMA ListUpdated ==
    ASSUME seqsrcs \in Seq(SourceType), NEW at \in 1..(Len(seqsrcs) + 1), NEW kept \in Picks(at - 1),
           NEW src \in SourceType, NEW list, ListAfter(list, at, kept, src),
           OnceEach(seqsrcs), NoOther(at, src)
    PROVE  list \in Seq(SourceType) /\ NewOrKept(list, at, src) /\ OnceEach(list)
  <1> DEFINE other == OtherSources(at, kept)
             M == Len(other)
  <1>1. other \in Seq(SourceType)
    BY OthersKept
  <1>2. PICK f : \A i \in 1..M :
          /\ f[i] \in (1..Len(seqsrcs)) \ {at} /\ other[i] = seqsrcs[f[i]]
          /\ \A k \in 1..M : f[i] = f[k] => i = k
    BY OthersKept
  <1> HIDE DEF other
  <1>a. \A i \in 1..M : f[i] \in 1..Len(seqsrcs) /\ f[i] # at /\ other[i] = seqsrcs[f[i]]
    BY <1>2
  <1>b. \A i, k \in 1..M : f[i] = f[k] => i = k
    BY <1>2
  <1>3. M \in Nat /\ \A i \in 1..M : other[i] \in SourceType
    BY <1>1
  <1>4. ASSUME NEW i \in 1..M PROVE other[i].sid # src.sid
    <2>1. f[i] \in 1..Len(seqsrcs) /\ f[i] # at
      BY <1>a
    <2>2. seqsrcs[f[i]].sid # src.sid
      BY <2>1 DEF NoOther
    <2> QED
      BY <1>a, <2>2
  <1>5. ASSUME NEW i \in 1..M, NEW k \in 1..M, other[i].sid = other[k].sid
        PROVE  i = k
    <2>1. seqsrcs[f[i]].sid = seqsrcs[f[k]].sid
      BY <1>a, <1>5
    <2>2. f[i] = f[k]
      BY <1>a, <2>1 DEF OnceEach
    <2> QED
      BY <1>b, <2>2
  <1>6. CASE list = <<src>> \o other
    <2>1. /\ list \in Seq(SourceType) /\ Len(list) = M + 1 /\ list[1] = src
          /\ \A i \in 1..(M + 1) : i # 1 => list[i] = other[i - 1]
      <3> DEFINE one == <<src>>
      <3>1. one \in Seq(SourceType) /\ Len(one) = 1 /\ one[1] = src
        OBVIOUS
      <3> HIDE DEF one
      <3>2. list = one \o other
        BY <1>6 DEF one
      <3>a. /\ one \o other \in Seq(SourceType) /\ Len(one \o other) = Len(one) + Len(other)
            /\ \A i \in 1..Len(one) : (one \o other)[i] = one[i]
            /\ \A i \in 1..(Len(one) + Len(other)) :
                 i > Len(one) => (one \o other)[i] = other[i - Len(one)]
        BY <1>1, <3>1, Joined, ZenonT(30)
      <3>3. /\ list \in Seq(SourceType) /\ Len(list) = Len(one) + M
            /\ \A i \in 1..Len(one) : list[i] = one[i]
            /\ \A i \in 1..(Len(one) + M) : i > Len(one) => list[i] = other[i - Len(one)]
        BY <3>2, <3>a, Zenon
      <3> HIDE DEF M
      <3>4. Len(list) = M + 1
        BY <3>1, <3>3, <1>3
      <3>5. list[1] = src
        BY <3>1, <3>3
      <3>6. ASSUME NEW i \in 1..(M + 1), i # 1 PROVE list[i] = other[i - 1]
        <4>1. i \in 1..(1 + M) /\ i > 1
          BY <3>6, <1>3
        <4> QED
          BY <4>1, <3>1, <3>3
      <3> QED
        BY <3>3, <3>4, <3>5, <3>6
    <2>2. \A i \in 1..(M + 1) : i # 1 => i - 1 \in 1..M
      BY <1>3
    <2>3. ASSUME NEW i \in 1..(M + 1)
          PROVE  \/ list[i] = src
                 \/ \E k \in 1..Len(seqsrcs) : k # at /\ list[i] = seqsrcs[k]
      <3>1. CASE i = 1
        BY <3>1, <2>1
      <3>2. CASE i # 1
        <4>1. list[i] = other[i - 1] /\ i - 1 \in 1..M
          BY <3>2, <2>1, <2>2
        <4>2. /\ f[i - 1] \in 1..Len(seqsrcs) /\ f[i - 1] # at
              /\ other[i - 1] = seqsrcs[f[i - 1]]
          BY <4>1, <1>a
        <4> QED
          BY <4>1, <4>2
      <3> QED
        BY <3>1, <3>2
    <2>4. ASSUME NEW i \in 1..(M + 1), NEW k \in 1..(M + 1), list[i].sid = list[k].sid
          PROVE  i = k
      <3>1. CASE i = 1 \/ k = 1
        BY <3>1, <2>1, <2>2, <2>4, <1>4
      <3>2. CASE i # 1 /\ k # 1
        <4>a. /\ i - 1 \in 1..M /\ list[i] = other[i - 1]
              /\ k - 1 \in 1..M /\ list[k] = other[k - 1]
          BY <3>2, <2>1, <2>2
        <4>b. other[i - 1].sid = other[k - 1].sid
          BY <4>a, <2>4
        <4>1. i - 1 = k - 1
          BY <4>a, <4>b, <1>5
        <4> QED
          BY <4>1, <1>3
      <3> QED
        BY <3>1, <3>2
    <2> QED
      BY <2>1, <2>3, <2>4 DEF NewOrKept, OnceEach
  <1>7. CASE list = Append(other, src)
    <2>1. /\ list \in Seq(SourceType) /\ Len(list) = M + 1 /\ list[M + 1] = src
          /\ \A i \in 1..M : list[i] = other[i]
      BY <1>1, <1>7
    <2>2. \A i \in 1..(M + 1) : i # M + 1 => i \in 1..M
      BY <1>3
    <2>3. ASSUME NEW i \in 1..(M + 1)
          PROVE  \/ list[i] = src
                 \/ \E k \in 1..Len(seqsrcs) : k # at /\ list[i] = seqsrcs[k]
      <3>1. CASE i = M + 1
        BY <3>1, <2>1
      <3>2. CASE i # M + 1
        <4>1. list[i] = other[i] /\ i \in 1..M
          BY <3>2, <2>1, <2>2
        <4> QED
          BY <4>1, <1>a
      <3> QED
        BY <3>1, <3>2
    <2>4. ASSUME NEW i \in 1..(M + 1), NEW k \in 1..(M + 1), list[i].sid = list[k].sid
          PROVE  i = k
      <3>1. CASE i = M + 1 \/ k = M + 1
        BY <3>1, <2>1, <2>2, <2>4, <1>4
      <3>2. CASE i # M + 1 /\ k # M + 1
        BY <3>2, <2>1, <2>2, <2>4, <1>5
      <3> QED
        BY <3>1, <3>2
    <2> QED
      BY <2>1, <2>3, <2>4 DEF NewOrKept, OnceEach
  <1> QED
    BY <1>6, <1>7 DEF other, ListAfter

\* What the source of container b was, and where: the one source of the container
\* before it, or a new one.
LEMMA SourceFound ==
    ASSUME BodyInv, RecvInv, NumberInv, SourceInv, clock \in Nat, NEW b \in 1..Len(bodies),
           \A n \in 1..Len(recv) : recv[n] < b,
           \A n, m \in 1..Len(recv) : n < m => recv[n] < recv[m]
    PROVE  LET get == Source(b)
               src == get.src
           IN  /\ get.at \in 1..(Len(seqsrcs) + 1) /\ src \in SourceType /\ src.sid = bodies[b].sid
               /\ \A i \in 1..Len(seqsrcs) : i # get.at => seqsrcs[i].sid # src.sid
               /\ \/ src.init /\ src.count = 0 /\ src.dropped = 0 /\ src.from = b
                  \/ /\ recv # <<>> /\ Newest \in 1..Len(bodies) /\ Newest < b
                     /\ bodies[Newest].sid = bodies[b].sid
                     /\ ~src.init /\ src.seq = (bodies[Newest].seq + 1) % SeqSpace
                     /\ GapsShort => src.count + src.dropped = Newest + 1 - src.from
  <1> DEFINE id == bodies[b].sid
             match == {i \in 1..Len(seqsrcs) : seqsrcs[i].sid = id}
             at == Source(b).at
             src == Source(b).src
  <1>1. id \in Nat /\ 0 \in Number
    BY WireAssumption DEF NumberInv, Number
  <1>2. /\ at = IF match = {} THEN Len(seqsrcs) + 1 ELSE CHOOSE i \in match : TRUE
        /\ src = IF match = {}
                 THEN [sid |-> id, seq |-> 0, count |-> 0, dropped |-> 0,
                       init |-> TRUE, last |-> clock, from |-> b]
                 ELSE [seqsrcs[at] EXCEPT !.last = clock]
    BY DEF Source
  <1>3. seqsrcs \in Seq(SourceType) /\ Len(seqsrcs) \in Nat
    BY DEF SourceInv
  <1>4. Len(bodies) \in Nat /\ b \in Int /\ clock \in Int
    BY DEF BodyInv
  <1> HIDE DEF at, src
  <1>5. CASE match = {}
    <2>1. /\ at = Len(seqsrcs) + 1
          /\ src = [sid |-> id, seq |-> 0, count |-> 0, dropped |-> 0,
                    init |-> TRUE, last |-> clock, from |-> b]
      BY <1>2, <1>5
    <2>2. src \in SourceType /\ src.sid = id
      BY <2>1, <1>1, <1>4 DEF SourceType
    <2>3. \A i \in 1..Len(seqsrcs) : seqsrcs[i].sid # src.sid
      BY <2>2, <1>5
    <2>4. at \in 1..(Len(seqsrcs) + 1)
      BY <2>1, <1>3
    <2>5. src.init /\ src.count = 0 /\ src.dropped = 0 /\ src.from = b
      BY <2>1
    <2> QED
      BY <2>2, <2>3, <2>4, <2>5 DEF at, src
  <1>6. CASE match # {}
    <2>1. at \in match /\ src = [seqsrcs[at] EXCEPT !.last = clock]
      BY <1>2, <1>6
    <2>2. at \in 1..Len(seqsrcs) /\ seqsrcs[at].sid = id /\ seqsrcs[at] \in SourceType
      BY <2>1, <1>3
    <2> DEFINE old == seqsrcs[at]
    <2>3. /\ src \in SourceType /\ src.sid = id /\ src.seq = old.seq /\ src.init = old.init
          /\ src.count = old.count /\ src.dropped = old.dropped /\ src.from = old.from
      BY <2>1, <2>2, <1>4 DEF SourceType
    <2>4. \A i \in 1..Len(seqsrcs) : i # at => seqsrcs[i].sid # src.sid
      BY <2>2, <2>3 DEF SourceInv
    <2>5. at \in 1..(Len(seqsrcs) + 1)
      BY <2>2, <1>3
    <2>6. PICK a \in 1..Len(bodies) :
            /\ LastOf(old, a)
            /\ a = Newest => ~old.init /\ old.seq = (bodies[a].seq + 1) % SeqSpace
            /\ GapsShort => old.count + old.dropped = a + 1 - old.from
      BY <2>2 DEF SourceInv
    <2> HIDE DEF old
    <2>7. PICK n \in 1..Len(recv) : recv[n] = a
      BY <2>6 DEF LastOf
    <2>8. recv \in Seq(1..Len(bodies)) /\ Len(recv) \in Nat
      BY DEF RecvInv
    <2>9. recv # <<>> /\ Len(recv) \in 1..Len(recv)
      BY <2>7, <2>8
    <2>10. Newest = recv[Len(recv)] /\ Newest \in 1..Len(bodies) /\ Newest < b /\ a < b
      BY <2>7, <2>8, <2>9 DEF Newest
    <2>11. a <= Newest
      <3>1. n = Len(recv) \/ n < Len(recv)
        BY <2>8
      <3> QED
        BY <2>7, <2>9, <2>10, <3>1
    <2>12. bodies[a].sid = id /\ \A m \in 1..Len(recv) : bodies[recv[m]].sid = id => recv[m] <= a
      BY <2>6, <2>2 DEF LastOf, old
    <2>13. bodies[Newest].sid = id
      <3>1. CASE a = Newest
        BY <3>1, <2>12
      <3>2. CASE a < Newest
        <4>1. bodies[a].sid <= bodies[Newest].sid /\ bodies[Newest].sid <= bodies[b].sid
          BY <3>2, <2>10 DEF NumberInv
        <4>2. bodies[a].sid \in Nat /\ bodies[Newest].sid \in Nat
          BY <2>10 DEF NumberInv
        <4> QED
          BY <4>1, <4>2, <2>12
      <3> QED
        BY <3>1, <3>2, <2>10, <2>11
    <2>14. Newest <= a
      BY <2>9, <2>10, <2>12, <2>13
    <2>15. a = Newest
      BY <2>10, <2>11, <2>14
    <2> QED
      BY <2>3, <2>4, <2>5, <2>6, <2>9, <2>10, <2>13, <2>15 DEF at, src
  <1> QED
    BY <1>5, <1>6

\* The counts of a source account for its containers up to b ...
Adds(count, dropped, from, b) == count + dropped = b + 1 - from

\* ... and do so with one container more, without or with a loss before it.
LEMMA OneCounted ==
    ASSUME NEW x \in Int, NEW y \in Int, NEW z \in Int, NEW n \in Int, Adds(x, y, z, n)
    PROVE  Adds(x + 1, y, z, n + 1)
  BY DEF Adds

LEMMA SomeCounted ==
    ASSUME NEW x \in Int, NEW y \in Int, NEW z \in Int, NEW n \in Int, NEW e \in Int,
           Adds(x, y, z, n)
    PROVE  Adds(x + 1, y + (e - n - 1), z, e)
  BY DEF Adds

\* What becomes of that source, and what is counted as lost.
LEMMA SourceUpdated ==
    ASSUME BodyInv, RecvInv, NumberInv, SourceInv, clock \in Nat, DoSequence,
           NEW b \in 1..Len(bodies),
           \A n \in 1..Len(recv) : recv[n] < b,
           \A n, m \in 1..Len(recv) : n < m => recv[n] < recv[m]
    PROVE  LET src == Source(b).src
               upd == SourceUpdate(src, b)
           IN  /\ upd \in SourceType /\ upd.sid = bodies[b].sid
               /\ ~upd.init /\ upd.seq = (bodies[b].seq + 1) % SeqSpace
               /\ SourceDrop(src, b) \in Nat /\ SourceDrop(src, b) <= b - Newest - 1
               /\ GapsShort /\ (recv # <<>> /\ bodies[Newest].sid = bodies[b].sid
                                    => b - Newest <= SeqSpace)
                    => upd.count + upd.dropped = b + 1 - upd.from
  <1> DEFINE src == Source(b).src
             upd == SourceUpdate(src, b)
             wire == bodies[b].seq
             delta == SeqDelta(wire, src.seq)
             next == (wire + 1) % SeqSpace
             near == GapsShort /\ (recv # <<>> /\ bodies[Newest].sid = bodies[b].sid
                                       => b - Newest <= SeqSpace)
             new == [src EXCEPT !.seq = next, !.init = FALSE]
  <1>1. SeqSpace \in Nat \ {0} /\ MaxDelta \in Nat /\ b \in Nat
    BY WireAssumption, InputAssumption DEF BodyInv
  <1>2. src \in SourceType /\ src.sid = bodies[b].sid
    BY SourceFound
  <1>3. \/ src.init /\ src.count = 0 /\ src.dropped = 0 /\ src.from = b
        \/ /\ recv # <<>> /\ Newest \in 1..Len(bodies) /\ Newest < b
           /\ bodies[Newest].sid = bodies[b].sid
           /\ ~src.init /\ src.seq = (bodies[Newest].seq + 1) % SeqSpace
           /\ GapsShort => src.count + src.dropped = Newest + 1 - src.from
    BY SourceFound
  <1>4. Newest \in Nat /\ Newest <= b - 1
    <2>1. recv \in Seq(1..Len(bodies)) /\ Len(recv) \in Nat /\ Len(bodies) \in Nat
      BY DEF RecvInv, BodyInv
    <2>2. CASE recv = <<>>
      BY <2>2, <1>1 DEF Newest
    <2>3. CASE recv # <<>>
      <3>1. Len(recv) \in 1..Len(recv)
        BY <2>1, <2>3
      <3>2. recv[Len(recv)] \in 1..Len(bodies) /\ recv[Len(recv)] < b
        BY <2>1, <3>1
      <3> QED
        BY <2>1, <2>3, <3>2 DEF Newest
    <2> QED
      BY <2>2, <2>3
  <1>5. wire \in Int /\ next \in Number
    <2>1. wire \in Int
      BY <1>1 DEF NumberInv, Number
    <2> QED
      BY <2>1, AlikeMod
  <1>6. /\ src.seq \in Number /\ src.count \in Int /\ src.dropped \in Int /\ src.from \in Int
        /\ src.init \in BOOLEAN
    BY <1>2 DEF SourceType
  <1>7. delta \in Nat /\ (src.seq = wire => delta = 0)
    <2>1. src.seq \in Int
      BY <1>6, <1>1 DEF Number
    <2>2. wire - src.seq \in Int
      BY <2>1, <1>5
    <2>3. src.seq = wire => wire - src.seq = 0
      BY <2>1, <1>5
    <2>4. 0 % SeqSpace = 0
      BY <1>1
    <2> QED
      BY <1>1, <2>2, <2>3, <2>4 DEF SeqDelta
  <1>8. ~src.init => delta <= b - Newest - 1 /\ (near => delta = b - Newest - 1)
    BY <1>3, Distance
  <1>9. /\ SourceDrop(src, b) =
             (IF src.seq = wire \/ src.init \/ delta > MaxDelta THEN 0 ELSE delta)
        /\ upd = IF src.seq = wire \/ src.init THEN [new EXCEPT !.count = @ + 1]
                 ELSE IF delta > MaxDelta
                 THEN [new EXCEPT !.count = 0, !.dropped = 0, !.from = b + 1]
                 ELSE [new EXCEPT !.count = @ + 1, !.dropped = @ + delta]
    BY DEF SourceDrop, SourceUpdate
  <1> HIDE DEF src, upd, wire, delta, next, near
  <1>a. /\ new \in SourceType /\ new.sid = src.sid /\ ~new.init /\ new.seq = next
        /\ new.count = src.count /\ new.dropped = src.dropped /\ new.from = src.from
    BY <1>2, <1>5, <1>6 DEF SourceType
  <1> HIDE DEF new
  <1>10. SourceDrop(src, b) \in Nat /\ SourceDrop(src, b) <= b - Newest - 1
    BY <1>1, <1>4, <1>7, <1>8, <1>9
  <1>11. CASE src.seq = wire \/ src.init
    <2>1. upd = [new EXCEPT !.count = @ + 1]
      BY <1>9, <1>11
    <2>2. /\ upd \in SourceType /\ upd.sid = src.sid /\ ~upd.init /\ upd.seq = next
          /\ upd.count = src.count + 1 /\ upd.dropped = src.dropped /\ upd.from = src.from
      BY <2>1, <1>6, <1>a DEF SourceType
    <2>3. near => upd.count + upd.dropped = b + 1 - upd.from
      <3>1. CASE src.init
        BY <3>1, <2>2, <1>1, <1>3
      <3>2. CASE ~src.init
        <4>1. near => b = Newest + 1
          BY <3>2, <1>1, <1>4, <1>7, <1>8, <1>11
        <4>2. near => src.count + src.dropped = Newest + 1 - src.from
          BY <3>2, <1>3 DEF near
        <4>3. ASSUME near PROVE (src.count + 1) + src.dropped = b + 1 - src.from
          <5>1. src.count + src.dropped = Newest + 1 - src.from /\ b = Newest + 1
            BY <4>1, <4>2, <4>3
          <5>2. /\ src.count \in Int /\ src.dropped \in Int /\ src.from \in Int
                /\ Newest \in Int /\ b \in Int
            BY <1>1, <1>4, <1>6
          <5>3. Adds(src.count, src.dropped, src.from, Newest)
            BY <5>1 DEF Adds
          <5>4. Adds(src.count + 1, src.dropped, src.from, Newest + 1)
            BY <5>2, <5>3, OneCounted, Zenon
          <5> QED
            BY <5>1, <5>4, Zenon DEF Adds
        <4> QED
          BY <4>3, <2>2
      <3> QED
        BY <3>1, <3>2
    <2> QED
      BY <2>2, <2>3, <1>2, <1>10 DEF near, src, upd, wire, next
  <1>12. CASE ~(src.seq = wire \/ src.init) /\ delta > MaxDelta
    <2>1. upd = [new EXCEPT !.count = 0, !.dropped = 0, !.from = b + 1]
      BY <1>9, <1>12
    <2>2. /\ upd \in SourceType /\ upd.sid = src.sid /\ ~upd.init /\ upd.seq = next
          /\ upd.count = 0 /\ upd.dropped = 0 /\ upd.from = b + 1
      <3>1. 0 \in Int /\ b + 1 \in Int
        BY <1>1
      <3>2. upd \in SourceType
        BY <2>1, <3>1, <1>a DEF SourceType
      <3>3. upd.sid = src.sid /\ upd.seq = next
        BY <2>1, <1>a DEF SourceType
      <3>4. ~upd.init
        BY <2>1, <1>a DEF SourceType
      <3>5. upd.count = 0 /\ upd.dropped = 0 /\ upd.from = b + 1
        BY <2>1, <3>1, <1>a DEF SourceType
      <3> QED
        BY <3>2, <3>3, <3>4, <3>5, Zenon
    <2>3. upd.count + upd.dropped = b + 1 - upd.from
      BY <2>2, <1>1
    <2> QED
      BY <2>2, <2>3, <1>2, <1>10 DEF src, upd, wire, next
  <1>13. CASE ~(src.seq = wire \/ src.init) /\ ~(delta > MaxDelta)
    <2>1. upd = [new EXCEPT !.count = @ + 1, !.dropped = @ + delta]
      BY <1>9, <1>13
    <2>2. /\ upd \in SourceType /\ upd.sid = src.sid /\ ~upd.init /\ upd.seq = next
          /\ upd.count = src.count + 1 /\ upd.dropped = src.dropped + delta
          /\ upd.from = src.from
      <3>1. new.count + 1 \in Int /\ new.dropped + delta \in Int
        BY <1>6, <1>7, <1>a
      <3>2. upd \in SourceType
        BY <2>1, <3>1, <1>a DEF SourceType
      <3>3. upd.sid = src.sid /\ upd.seq = next
        BY <2>1, <1>a DEF SourceType
      <3>4. ~upd.init
        BY <2>1, <1>a DEF SourceType
      <3>5. upd.count = src.count + 1 /\ upd.dropped = src.dropped + delta /\ upd.from = src.from
        BY <2>1, <3>1, <1>a DEF SourceType
      <3> QED
        BY <3>2, <3>3, <3>4, <3>5, Zenon
    <2>3. near => upd.count + upd.dropped = b + 1 - upd.from
      <3>1. near => delta = b - Newest - 1
        BY <1>8, <1>13
      <3>2. near => src.count + src.dropped = Newest + 1 - src.from
        BY <1>3, <1>13 DEF near
      <3>3. ASSUME near PROVE (src.count + 1) + (src.dropped + delta) = b + 1 - src.from
        <4>1. delta = b - Newest - 1 /\ src.count + src.dropped = Newest + 1 - src.from
          BY <3>1, <3>2, <3>3
        <4>2. /\ src.count \in Int /\ src.dropped \in Int /\ src.from \in Int
              /\ Newest \in Int /\ b \in Int /\ delta \in Int
          BY <1>1, <1>4, <1>6, <1>7
        <4>3. Adds(src.count, src.dropped, src.from, Newest)
          BY <4>1 DEF Adds
        <4>4. Adds(src.count + 1, src.dropped + (b - Newest - 1), src.from, b)
          BY <4>2, <4>3, SomeCounted, Zenon
        <4> QED
          BY <4>1, <4>4, Zenon DEF Adds
      <3> QED
        BY <3>3, <2>2
    <2> QED
      BY <2>2, <2>3, <1>2, <1>10 DEF near, src, upd, wire, next
  <1> QED
    BY <1>11, <1>12, <1>13

\* A container that is unpacked is counted for its source.
LEMMA SourceCounted ==
    ASSUME BodyInv, RecvInv, NumberInv, SourceInv, clock \in Nat, DoSequence,
           NEW b \in 1..Len(bodies),
           \A n \in 1..Len(recv) : recv[n] < b,
           \A n, m \in 1..Len(recv) : n < m => recv[n] < recv[m],
           CountContainer(b), recv' = Append(recv, b), UNCHANGED bodies
    PROVE  SourceInv'
  <1> DEFINE get == Source(b)
             upd == SourceUpdate(get.src, b)
             drop == SourceDrop(get.src, b)
             near == GapsShort /\ (recv # <<>> /\ bodies[Newest].sid = bodies[b].sid
                                       => b - Newest <= SeqSpace)
             N == Len(recv)
  <1>1. N \in Nat /\ Len(bodies) \in Nat /\ b \in Nat /\ recv \in Seq(1..Len(bodies))
    BY DEF RecvInv, BodyInv
  <1>2. Len(recv') = N + 1 /\ recv'[N + 1] = b /\ \A n \in 1..N : recv'[n] = recv[n]
    BY <1>1
  <1>3. \A n \in 1..(N + 1) : n = N + 1 \/ n \in 1..N
    BY <1>1
  <1>4. /\ count_recv' = count_recv + 1 /\ count_drop' = count_drop + drop
        /\ \E kept \in Picks(get.at - 1) :
             seqsrcs' = IF get.found THEN <<upd>> \o OtherSources(get.at, kept)
                        ELSE Append(OtherSources(get.at, kept), upd)
    <2>1. conf.type = "sock" /\ b # Garbage
      BY <1>1 DEF DoSequence, Garbage
    <2> QED
      BY <2>1 DEF CountContainer
  <1>5. /\ upd \in SourceType /\ upd.sid = bodies[b].sid
        /\ ~upd.init /\ upd.seq = (bodies[b].seq + 1) % SeqSpace
        /\ drop \in Nat /\ drop <= b - Newest - 1
        /\ near => upd.count + upd.dropped = b + 1 - upd.from
    BY SourceUpdated
  <1>6. /\ get.at \in 1..(Len(seqsrcs) + 1) /\ get.src.sid = bodies[b].sid
        /\ \A i \in 1..Len(seqsrcs) : i # get.at => seqsrcs[i].sid # get.src.sid
    BY SourceFound
  <1> HIDE DEF get, upd, drop
  <1>7. PICK kept \in Picks(get.at - 1) :
          \/ seqsrcs' = <<upd>> \o OtherSources(get.at, kept)
          \/ seqsrcs' = Append(OtherSources(get.at, kept), upd)
    BY <1>4
  <1>8. \A i \in 1..Len(seqsrcs) : i # get.at => seqsrcs[i].sid # upd.sid
    BY <1>5, <1>6
  <1>9. seqsrcs \in Seq(SourceType) /\ \A i, k \in 1..Len(seqsrcs) : seqsrcs[i].sid = seqsrcs[k].sid => i = k
    BY DEF SourceInv
  <1>10. /\ seqsrcs' \in Seq(SourceType)
         /\ \A i \in 1..Len(seqsrcs') :
              \/ seqsrcs'[i] = upd
              \/ \E k \in 1..Len(seqsrcs) : k # get.at /\ seqsrcs'[i] = seqsrcs[k]
         /\ \A i, k \in 1..Len(seqsrcs') : seqsrcs'[i].sid = seqsrcs'[k].sid => i = k
    <2>1. PICK list, at, src : list = seqsrcs' /\ at = get.at /\ src = upd
      OBVIOUS
    <2>2. at \in 1..(Len(seqsrcs) + 1) /\ kept \in Picks(at - 1) /\ src \in SourceType
      BY <2>1, <1>5, <1>6, <1>7
    <2>3. ListAfter(list, at, kept, src)
      BY <1>7, <2>1 DEF ListAfter
    <2>4. NoOther(at, src) /\ OnceEach(seqsrcs)
      BY <1>8, <1>9, <2>1 DEF NoOther, OnceEach
    <2>5. list \in Seq(SourceType) /\ NewOrKept(list, at, src) /\ OnceEach(list)
      BY <2>2, <2>3, <2>4, <1>9, ListUpdated, ZenonT(60)
    <2> QED
      BY <2>1, <2>5 DEF NewOrKept, OnceEach
  <1>11. Newest' = b
    <2>1. recv' # <<>>
      BY <1>1, <1>2
    <2> QED
      BY <2>1, <1>2 DEF Newest
  <1>12. Newest \in Int
    <2>1. N # 0 => recv[N] \in 1..Len(bodies)
      BY <1>1
    <2> QED
      BY <2>1, <1>1 DEF Newest
  <1>13. ASSUME GapsShort' PROVE near
    <2>1. \A n \in 1..N : bodies[recv'[n]].sid = bodies[recv'[n + 1]].sid => recv'[n + 1] - recv'[n] <= SeqSpace
      <3>1. Len(recv') - 1 = N
        BY <1>1, <1>2
      <3>2. \A n \in 1..(Len(recv') - 1) : bodies'[recv'[n]].sid = bodies'[recv'[n + 1]].sid
                                             => recv'[n + 1] - recv'[n] <= SeqSpace
        BY <1>13 DEF GapsShort
      <3> QED
        BY <3>1, <3>2
    <2>2. GapsShort
      <3> SUFFICES ASSUME NEW n \in 1..(N - 1), bodies[recv[n]].sid = bodies[recv[n + 1]].sid
                   PROVE  recv[n + 1] - recv[n] <= SeqSpace
        BY DEF GapsShort
      <3>1. n \in 1..N /\ n + 1 \in 1..N
        BY <1>1
      <3>2. recv'[n] = recv[n] /\ recv'[n + 1] = recv[n + 1]
        BY <3>1, <1>2
      <3> QED
        BY <3>1, <3>2, <2>1
    <2>3. recv # <<>> => N \in 1..N /\ Newest = recv[N]
      BY <1>1 DEF Newest
    <2>4. recv # <<>> => recv'[N] = Newest /\ recv'[N + 1] = b
      BY <2>3, <1>2
    <2> QED
      BY <2>1, <2>2, <2>3, <2>4
  <1> HIDE DEF near
  <1> DEFINE Ok(src) ==
        \E a \in 1..Len(bodies) :
          /\ \E n \in 1..Len(recv') : recv'[n] = a
          /\ bodies[a].sid = src.sid
          /\ \A n \in 1..Len(recv') : bodies[recv'[n]].sid = src.sid => recv'[n] <= a
          /\ a = Newest' => ~src.init /\ src.seq = (bodies[a].seq + 1) % SeqSpace
          /\ GapsShort' => src.count + src.dropped = a + 1 - src.from
  <1>14. Ok(upd)
    <2>1. N + 1 \in 1..(N + 1)
      BY <1>1
    <2>2. \E n \in 1..Len(recv') : recv'[n] = b
      BY <2>1, <1>2
    <2>3. \A n \in 1..Len(recv') : recv'[n] <= b
      <3>1. \A n \in 1..N : recv[n] \in Nat /\ recv[n] < b
        BY <1>1
      <3>2. \A n \in 1..N : recv'[n] <= b
        BY <3>1, <1>1, <1>2
      <3> QED
        BY <3>2, <1>1, <1>2, <1>3
    <2>4. GapsShort' => upd.count + upd.dropped = b + 1 - upd.from
      BY <1>5, <1>13
    <2> QED
      BY <2>2, <2>3, <2>4, <1>5
  <1>15. ASSUME NEW k \in 1..Len(seqsrcs), k # get.at PROVE Ok(seqsrcs[k])
    <2> DEFINE src == seqsrcs[k]
    <2>1. PICK a \in 1..Len(bodies) :
            /\ LastOf(src, a)
            /\ a = Newest => ~src.init /\ src.seq = (bodies[a].seq + 1) % SeqSpace
            /\ GapsShort => src.count + src.dropped = a + 1 - src.from
      BY DEF SourceInv
    <2>2. src.sid # bodies[b].sid
      BY <1>5, <1>8, <1>15
    <2> HIDE DEF src
    <2>3. PICK n \in 1..N : recv[n] = a
      BY <2>1 DEF LastOf
    <2>4. bodies[a].sid = src.sid /\ a # b
      BY <2>1, <2>2 DEF LastOf
    <2>5. n \in 1..Len(recv') /\ recv'[n] = a
      BY <2>3, <1>1, <1>2
    <2>6. \A m \in 1..Len(recv') : bodies[recv'[m]].sid = src.sid => recv'[m] <= a
      <3> SUFFICES ASSUME NEW m \in 1..(N + 1), bodies[recv'[m]].sid = src.sid
                   PROVE  recv'[m] <= a
        BY <1>2
      <3>1. m # N + 1
        BY <2>2, <1>2
      <3>2. m \in 1..N /\ recv'[m] = recv[m]
        BY <3>1, <1>2, <1>3
      <3> QED
        BY <3>2, <2>1 DEF LastOf
    <2>7. GapsShort' => src.count + src.dropped = a + 1 - src.from
      BY <2>1, <1>13 DEF near
    <2> QED
      BY <2>4, <2>5, <2>6, <2>7, <1>11 DEF src
  <1> HIDE DEF Ok
  <1>16. ASSUME NEW i \in 1..Len(seqsrcs') PROVE Ok(seqsrcs'[i])
    BY <1>10, <1>14, <1>15
  <1>17. /\ count_drop' \in Int /\ count_recv' \in Int
         /\ count_drop' + count_recv' <= Newest'
    <2>1. count_drop \in Int /\ count_recv \in Int /\ count_drop + count_recv <= Newest
      BY DEF SourceInv
    <2> QED
      BY <2>1, <1>1, <1>4, <1>5, <1>11, <1>12
  <1>18. \A i \in 1..Len(seqsrcs') : \E a \in 1..Len(bodies') :
           /\ LastOf(seqsrcs[i], a)'
           /\ a = Newest' => ~seqsrcs'[i].init /\ seqsrcs'[i].seq = (bodies'[a].seq + 1) % SeqSpace
           /\ GapsShort' => seqsrcs'[i].count + seqsrcs'[i].dropped = a + 1 - seqsrcs'[i].from
    <2> TAKE i \in 1..Len(seqsrcs')
    <2>1. PICK a \in 1..Len(bodies) :
          /\ \E n \in 1..Len(recv') : recv'[n] = a
          /\ bodies[a].sid = seqsrcs'[i].sid
          /\ \A n \in 1..Len(recv') : bodies[recv'[n]].sid = seqsrcs'[i].sid => recv'[n] <= a
          /\ a = Newest' => ~seqsrcs'[i].init /\ seqsrcs'[i].seq = (bodies[a].seq + 1) % SeqSpace
          /\ GapsShort' => seqsrcs'[i].count + seqsrcs'[i].dropped = a + 1 - seqsrcs'[i].from
      BY <1>16 DEF Ok
    <2>2. LastOf(seqsrcs[i], a)'
      BY <2>1 DEF LastOf
    <2> QED
      BY <2>1, <2>2
  <1> QED
    BY <1>10, <1>17, <1>18 DEF SourceInv

\* What else happens leaves the sources alone.
LEMMA SourceKept ==
    ASSUME BodyInv, RecvInv, SourceInv, UNCHANGED <<recv, seqsrcs, count_recv, count_drop>>,
           Len(bodies') \in Nat, Len(bodies') >= Len(bodies),
           \A b \in 1..Len(bodies) : bodies'[b] = bodies[b]
    PROVE  SourceInv'
  <1>1. Len(bodies) \in Nat /\ Len(recv) \in Nat /\ recv \in Seq(1..Len(bodies))
    BY DEF RecvInv, BodyInv
  <1>2. \A n \in 1..Len(recv) : recv[n] \in 1..Len(bodies) /\ bodies'[recv[n]] = bodies[recv[n]]
    BY <1>1
  <1>3. \A b \in 1..Len(bodies) : b \in 1..Len(bodies')
    BY <1>1
  <1>4. Newest' = Newest
    BY DEF Newest
  <1>5. GapsShort' => GapsShort
    <2> SUFFICES ASSUME GapsShort', NEW n \in 1..(Len(recv) - 1),
                        bodies[recv[n]].sid = bodies[recv[n + 1]].sid
                 PROVE  recv[n + 1] - recv[n] <= SeqSpace
      BY DEF GapsShort
    <2>1. n \in 1..Len(recv) /\ n + 1 \in 1..Len(recv)
      BY <1>1
    <2>2. bodies'[recv[n]].sid = bodies'[recv[n + 1]].sid
      BY <1>2, <2>1
    <2> QED
      BY <2>2 DEF GapsShort
  <1>6. \A i \in 1..Len(seqsrcs') : \E a \in 1..Len(bodies') :
           /\ LastOf(seqsrcs[i], a)'
           /\ a = Newest' => ~seqsrcs'[i].init /\ seqsrcs'[i].seq = (bodies'[a].seq + 1) % SeqSpace
           /\ GapsShort' => seqsrcs'[i].count + seqsrcs'[i].dropped = a + 1 - seqsrcs'[i].from
    <2> TAKE i \in 1..Len(seqsrcs')
    <2> DEFINE src == seqsrcs[i]
    <2>1. PICK a \in 1..Len(bodies) :
            /\ LastOf(src, a)
            /\ a = Newest => ~src.init /\ src.seq = (bodies[a].seq + 1) % SeqSpace
            /\ GapsShort => src.count + src.dropped = a + 1 - src.from
      BY DEF SourceInv
    <2>2. LastOf(seqsrcs[i], a)'
      BY <2>1, <1>2 DEF LastOf
    <2> QED
      BY <2>1, <2>2, <1>3, <1>4, <1>5
  <1> QED
    BY <1>4, <1>6 DEF SourceInv

\* A socket on a network that keeps the order accounts for every container.
LEMMA SourceStep ==
    ASSUME SizeInv, BodyInv, BodyInv', ReadInv, NumberInv, SourceInv, FifoInv,
           conf.type = "sock", conf.fifo, [Next]_vars
    PROVE  SourceInv'
  <1>s. WireInv /\ TreeInv /\ RecvInv /\ ClockInv
    BY DEF ReadInv
  <1>l. Len(net) \in Nat /\ pos \in Nat /\ clock \in Nat /\ DoSequence
    BY <1>s DEF WireInv, FifoInv, ClockInv, DoSequence
  <1>1. ASSUME UNCHANGED <<recv, seqsrcs, count_recv, count_drop>> PROVE SourceInv'
    <2>1. Len(bodies') >= Len(bodies) /\ \A b \in 1..Len(bodies) : bodies'[b] = bodies[b]
      BY <1>s, BodiesGrow
    <2>2. Len(bodies') \in Nat
      BY DEF BodyInv
    <2> QED
      BY <1>1, <1>s, <2>1, <2>2, SourceKept
  <1>2. ASSUME NEW j \in 1..Len(net), Arrive(j), Unpacked(net[j].body) PROVE SourceInv'
    <2> DEFINE b == net[j].body
    <2>1. j >= pos /\ UNCHANGED bodies
      BY <1>2 DEF Arrive
    <2>2. CountContainer(b) /\ recv' = Append(recv, b)
      BY <1>2 DEF Unpacked
    <2>3. b \in 1..Len(bodies)
      BY <1>s DEF WireInv
    <2>4. \A n \in 1..Len(recv) : recv[n] < b
      BY <2>1 DEF FifoInv
    <2>5. \A n, m \in 1..Len(recv) : n < m => recv[n] < recv[m]
      BY DEF FifoInv
    <2> HIDE DEF b
    <2> QED
      BY <1>s, <1>l, <2>1, <2>2, <2>3, <2>4, <2>5, SourceCounted
  <1>3. CASE OutputNext /\ UNCHANGED inVars
    BY <1>1, <1>3 DEF inVars
  <1>4. CASE Finished \/ UNCHANGED vars
    BY <1>1, <1>4 DEF Finished, vars, inVars
  <1>5. CASE InputNext
    <2>1. CASE ReadNext \/ ReadAgain \/ ReadEof \/ Tick
      BY <1>1, <2>1 DEF ReadNext, ReadAgain, ReadEof, Tick
    <2>2. ASSUME NEW j \in 1..Len(net), ReadWhole(j) PROVE SourceInv'
      BY <1>2, <2>2 DEF ReadWhole
    <2>3. ASSUME NEW j \in 1..Len(net), ReadFrag(j) \/ ReadBare(j) PROVE SourceInv'
      BY <1>1, <2>3 DEF ReadFrag, ReadBare
    <2>4. ASSUME NEW j \in 1..Len(net), ReadLastFrag(j) PROVE SourceInv'
      <3> DEFINE ent == FragAttach(FragFind(net[j]), net[j])
      <3>1. Frag(net[j]) /\ ent.rem = 0 /\ Arrive(j) /\ Unpacked(Reassemble(ent))
        BY <2>4 DEF ReadLastFrag, Frag
      <3>2. Reassemble(ent) = net[j].body
        BY <1>s, <3>1, Reassembled
      <3> QED
        BY <1>2, <3>1, <3>2
    <2> QED
      BY <1>5, <2>1, <2>2, <2>3, <2>4 DEF InputNext
  <1> QED
    BY <1>3, <1>4, <1>5 DEF Next

\* The sources of a socket stay in step with the containers it unpacked.
THEOREM SourceInvariance ==
    Spec => [](NumberInv /\ (conf.type = "sock" /\ conf.fifo => SourceInv))
  <1>1. ASSUME Init PROVE NumberInv /\ SourceInv
    <2>1. /\ bodies = <<>> /\ recv = <<>> /\ seqsrcs = <<>> /\ count_recv = 0 /\ count_drop = 0
          /\ sequence = 0 /\ sid = 1
      BY <1>1 DEF Init, InputInit, OutputInit
    <2>2. Len(bodies) = 0 /\ Len(recv) = 0 /\ Len(seqsrcs) = 0 /\ seqsrcs \in Seq(SourceType)
      BY <2>1
    <2>3. 0 \in Number /\ Newest = 0
      BY <2>1, WireAssumption DEF Number, Newest
    <2> QED
      BY <2>1, <2>2, <2>3 DEF NumberInv, SourceInv
  <1>2. ASSUME [Next]_vars PROVE conf' = conf
    BY <1>2, InputKeeps DEF Next, OutputNext, Call, AddFull, AddBuffered, AddWrite, AddFrag, Close,
       Open, Finished, vars
  <1> DEFINE Inv == NumberInv /\ (conf.type = "sock" /\ conf.fifo => SourceInv)
             Base == SizeInv /\ BodyInv /\ ReadInv
             Order == conf.fifo => FifoInv
  <1>3. Init => Inv
    BY <1>1
  <1>4. Base /\ Base' /\ Order /\ Inv /\ [Next]_vars => Inv'
    BY <1>2, NumberStep, SourceStep
  <1>5. Spec => []Base
    BY ReadInvariance
  <1>6. Spec => []Order
    <2>1. Spec => [](/\ ShapeInv /\ TakenInv
                     /\ conf.fifo => FifoInv
                     /\ conf.type = "file" => FifoInv /\ FileInv)
      BY FileInvariance
    <2>2. (/\ ShapeInv /\ TakenInv
           /\ conf.fifo => FifoInv
           /\ conf.type = "file" => FifoInv /\ FileInv) => Order
      OBVIOUS
    <2> QED
      BY <2>1, <2>2, PTL
  <1> HIDE DEF Inv, Base, Order
  <1>7. Spec => []Inv
    BY <1>3, <1>4, <1>5, <1>6, PTL DEF Spec
  <1> QED
    BY <1>7 DEF Inv

\* On every network that keeps the order, as long as no source loses as many
\* containers in a row as there are sequence numbers, what a source was seen to
\* send and what it is said to have lost add up to the containers it numbered,
\* and the input's own totals never exceed what was written.
THEOREM DropsAreExact == Spec => [](GapsShort => DropsExact)
  <1>1. ASSUME BodyInv, RecvInv, conf.type = "sock" /\ conf.fifo => SourceInv, GapsShort
        PROVE  DropsExact
    <2> SUFFICES ASSUME SourceInv PROVE
             /\ \A i \in 1..Len(seqsrcs) :
                  seqsrcs[i].count + seqsrcs[i].dropped
                      = Max({b \in Range(recv) : bodies[b].sid = seqsrcs[i].sid}) + 1 - seqsrcs[i].from
             /\ count_drop + count_recv <= Len(bodies)
      BY <1>1 DEF DropsExact
    <2>1. /\ Len(bodies) \in Nat /\ Len(recv) \in Nat /\ recv \in Seq(1..Len(bodies))
          /\ DOMAIN recv = 1..Len(recv)
      BY <1>1 DEF RecvInv, BodyInv
    <2>2. ASSUME NEW i \in 1..Len(seqsrcs)
          PROVE  seqsrcs[i].count + seqsrcs[i].dropped
                     = Max({b \in Range(recv) : bodies[b].sid = seqsrcs[i].sid}) + 1 - seqsrcs[i].from
      <3> DEFINE src == seqsrcs[i]
                 mine == {b \in Range(recv) : bodies[b].sid = src.sid}
      <3>1. PICK a \in 1..Len(bodies) :
              LastOf(src, a) /\ src.count + src.dropped = a + 1 - src.from
        BY <1>1, <2>2 DEF SourceInv
      <3>2. a \in mine
        BY <3>1, <2>1 DEF LastOf, Range
      <3>3. \A b \in mine : b \in 1..Len(bodies) /\ b <= a
        BY <3>1, <2>1 DEF LastOf, Range
      <3> HIDE DEF mine
      <3>4. \A x \in mine : (\A y \in mine : x >= y) => x = a
        BY <2>1, <3>2, <3>3
      <3>5. \A y \in mine : a >= y
        BY <2>1, <3>3
      <3>6. Max(mine) = a
        BY <3>2, <3>4, <3>5 DEF Max
      <3> QED
        BY <3>1, <3>6 DEF mine
    <2>3. Newest <= Len(bodies) /\ Newest \in Int
      <3>1. Len(recv) # 0 => recv[Len(recv)] \in 1..Len(bodies)
        BY <2>1
      <3> QED
        BY <3>1, <2>1 DEF Newest
    <2>4. count_drop + count_recv <= Len(bodies)
      BY <2>1, <2>3 DEF SourceInv
    <2> QED
      BY <2>2, <2>4
  <1> DEFINE Base == SizeInv /\ BodyInv /\ ReadInv
             Inv == NumberInv /\ (conf.type = "sock" /\ conf.fifo => SourceInv)
  <1>2. Base /\ Inv => (GapsShort => DropsExact)
    BY <1>1 DEF ReadInv
  <1>3. Spec => []Base
    BY ReadInvariance
  <1>4. Spec => []Inv
    BY SourceInvariance
  <1> HIDE DEF Base, Inv
  <1> QED
    BY <1>2, <1>3, <1>4, PTL

\* ... the totals even when a gap is longer: losses that wrap the numbers are
\* missed, and none is made up.
THEOREM NoDropMadeUp ==
    Spec => [](conf.type = "sock" /\ conf.fifo => count_drop + count_recv <= Len(bodies))
  <1>1. ASSUME BodyInv, RecvInv, SourceInv PROVE count_drop + count_recv <= Len(bodies)
    <2>1. Len(bodies) \in Nat /\ Len(recv) \in Nat /\ recv \in Seq(1..Len(bodies))
      BY <1>1 DEF RecvInv, BodyInv
    <2>2. Len(recv) # 0 => recv[Len(recv)] \in 1..Len(bodies)
      BY <2>1
    <2>3. Newest <= Len(bodies) /\ Newest \in Int
      BY <2>1, <2>2 DEF Newest
    <2> QED
      BY <1>1, <2>1, <2>3 DEF SourceInv
  <1> DEFINE Base == SizeInv /\ BodyInv /\ ReadInv
             Inv == NumberInv /\ (conf.type = "sock" /\ conf.fifo => SourceInv)
  <1>2. Base /\ Inv => (conf.type = "sock" /\ conf.fifo => count_drop + count_recv <= Len(bodies))
    BY <1>1 DEF ReadInv
  <1>3. Spec => []Base
    BY ReadInvariance
  <1>4. Spec => []Inv
    BY SourceInvariance
  <1> HIDE DEF Base, Inv
  <1> QED
    BY <1>2, <1>3, <1>4, PTL
=============================================================================
