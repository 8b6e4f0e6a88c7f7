-------------------------------- MODULE MCPcap --------------------------------
(***************************************************************************)
(* Two datagrams in fragments of up to 16 bytes that may be lost, repeated *)
(* and reordered, or belong to another datagram under the same id.         *)
(***************************************************************************)
EXTENDS NmsgPcap

CONSTANTS d4, d6, dt    \* UDP over IPv4 and IPv6, and TCP

MCDatagrams ==
    [id \in Ids |-> [ip |-> IF id = d6 THEN 6 ELSE 4, udp |-> id # dt,
                     match |-> id # d6]]

Frag(id, offset, len, last) ==
    [kind |-> "fragment",
     frag |-> [id |-> id, offset |-> offset, len |-> len, last |-> last]]

Whole(id, kind) == [Frag(id, 0, 8, TRUE) EXCEPT !.kind = kind]

MCFrames ==
    {Whole(d4, "other"), Whole(d4, "whole"), Whole(d6, "whole"),
     Whole(dt, "whole"), Whole(d4, "short")}
    \cup {Frag(d4, o, 8, FALSE) : o \in {0, 8, 16}}
    \cup {Frag(d4, 0, 16, FALSE), Frag(d4, 8, 4, FALSE), Frag(d4, 8, 0, FALSE)}
    \cup {Frag(d4, 16, l, TRUE) : l \in {0, 4}} \cup {Frag(d4, 24, 8, TRUE)}
    \cup {Frag(d6, 0, 8, l) : l \in BOOLEAN} \cup {Frag(d6, 8, 24, TRUE)}

MCFilters == SUBSET {4, 6}
=============================================================================
