------------------------------ MODULE MCStream ------------------------------
(***************************************************************************)
(* Small instances of a stream.  Buffers have the smallest size the code   *)
(* allows and messages are chosen around its thresholds: three of 100      *)
(* bytes share a container, 128 and 290 bytes together find it full by     *)
(* the margin only, 454 bytes fill a datagram to the last byte, 472 bytes  *)
(* would fit but for the sequence fields, 600 and 1000 bytes make two and  *)
(* three fragments.                                                        *)
(***************************************************************************)
EXTENDS NmsgStream

Msg(kind, len) == [kind |-> kind, tag |-> 0, len |-> len, fixed |-> 20]

Base == [type |-> "sock", bufsz |-> 512, buffered |-> TRUE, zlib |-> FALSE,
         outKind |-> 0, inKind |-> 0, outTag |-> 0, inTag |-> 0,
         fifo |-> FALSE, fail |-> FALSE, messages |-> {Msg(1, 150)},
         max |-> [writes |-> 3, opens |-> 1, reads |-> 3, time |-> 0]]

MCConfigs ==
    { \* fragments lost, repeated, overtaking each other, and expired
      [Base EXCEPT !.messages = {Msg(1, 150), Msg(1, 600)}, !.max.writes = 2,
                   !.max.reads = 4, !.max.time = 4],
      \* numbered containers lost, an output restarted, a source forgotten
      [Base EXCEPT !.buffered = FALSE, !.fifo = TRUE, !.max.writes = 5,
                   !.max.reads = 5, !.max.opens = 2, !.max.time = 3],
      \* containers that fill up, and sends that fail
      [Base EXCEPT !.fail = TRUE, !.max.writes = 4, !.max.reads = 1,
                   !.messages = {Msg(1, l) : l \in {0, 128, 290, 454, 472, 1000}}],
      \* a file, read with a filter
      [Base EXCEPT !.type = "file", !.fifo = TRUE, !.inKind = 1,
                   !.messages = {Msg(1, 100), Msg(2, 130), Msg(1, 600)},
                   !.max.writes = 4, !.max.reads = 8],
      \* filters at both ends
      [Base EXCEPT !.outKind = 1, !.outTag = 1, !.inTag = 1, !.fifo = TRUE,
                   !.messages = {Msg(1, 100), Msg(2, 100)}],
      [Base EXCEPT !.inTag = 1, !.fifo = TRUE, !.messages = {Msg(1, 100),
                     [Msg(1, 100) EXCEPT !.tag = 1]}],
      \* compressed, in fragments or short enough for one datagram
      [Base EXCEPT !.zlib = TRUE, !.messages = {Msg(1, 150), Msg(1, 1000)},
                   !.max.writes = 2] }

\* One message whose container is packed into exactly twice MaxFragsz bytes.
MultipleConfigs == {[Base EXCEPT !.messages = {Msg(1, 917)}, !.fifo = TRUE]}

\* One large message that compresses well.
BareConfigs == {[Base EXCEPT !.messages = {Msg(1, 1000)}, !.zlib = TRUE,
                             !.fifo = TRUE]}
=============================================================================
