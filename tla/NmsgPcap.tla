------------------------------- MODULE NmsgPcap -------------------------------
(***************************************************************************)
(* The pcap input, nmsg/pcap_input.c over nmsg/ipdg.c and IpReasm: it      *)
(* reads frames that libpcap has captured, reassembles the fragmented      *)
(* datagrams among them and hands on UDP datagrams.                        *)
(*                                                                         *)
(* libpcap filters frames and the user's filter is about datagrams, so     *)
(* nmsg_pcap_input_setfilter() asks libpcap for more than the user wants,  *)
(* and a reassembled datagram is filtered again.                           *)
(***************************************************************************)
EXTENDS IpReasm

CONSTANTS
    Datagrams,  \* the datagram of each id: its IP version, whether it is UDP,
                \* whether the user's filter matches it
    Frames,     \* the frames on the wire
    Filters,    \* what the user's filter can match: the IP versions
    MaxFrames,  \* bound: frames captured
    MaxTime     \* bound: their timestamps

\* A frame that is no IP packet, or cut off by the capture; a datagram in one
\* packet; a fragment; or a fragment shorter than its header says.
Frame == [kind : {"other", "whole", "fragment", "short"}, frag : Fragment]

(***************************************************************************)
(* An IPv4 packet with offset 0 and no more to follow is no fragment.  A   *)
(* first fragment has some bytes; one that is empty and the last leaves    *)
(* assemble() with nothing to take the header from, and is left out.       *)
(***************************************************************************)
FrameOk(p) ==
    /\ p \in Frame
    /\ p.frag.offset % 8 = 0
    /\ p.kind = "fragment" =>
         /\ End(p.frag) > 0
         /\ Datagrams[p.frag.id].ip = 4 => p.frag.offset > 0 \/ ~p.frag.last

ASSUME PcapAssumption ==
    /\ Datagrams \in [Ids -> [ip : {4, 6}, udp : BOOLEAN, match : BOOLEAN]]
    /\ \A p \in Frames : FrameOk(p)
    /\ Filters \subseteq SUBSET {4, 6}
    /\ MaxFrames \in Nat /\ MaxTime \in Nat

VARIABLES
    versions,   \* the filter set: the IP versions it can match, {} for none
    now,        \* the timestamp of the last frame
    res,        \* what nmsg_pcap_input_read() returned
    frames,     \* frames read so far
    handed,     \* history: the frame or datagram handed on by this read
    seen        \* history: the timestamp of the last fragment

vars == <<reasmVars, versions, now, res, frames, handed, seen>>

Init ==
    /\ ReasmInit
    /\ versions \in Filters
    /\ now = 0 /\ res = "again" /\ frames = 0 /\ handed = {} /\ seen = 0

-----------------------------------------------------------------------------
\* The user's filter on a datagram.
Matches(id) ==
    versions = {} \/ (Datagrams[id].ip \in versions /\ Datagrams[id].match)

\* nmsg_pcap_input_setfilter(): the frames libpcap lets through.
Captured(p) ==
    LET ip == Datagrams[p.frag.id].ip
    IN  \/ versions = {}
        \/ /\ p.kind = "whole" /\ Matches(p.frag.id)
           /\ 4 \in versions => ip = 4
        \/ 4 \in versions /\ ip = 4 /\ p.kind \in {"fragment", "short"}
        \/ 6 \in versions /\ ip = 6 /\ p.kind # "other"

\* pcap_next_ex() with the next frame.
Capture(p, ts) ==
    /\ res \notin {"eof", "error"}
    /\ frames < MaxFrames
    /\ Captured(p)
    /\ now' = ts
    /\ frames' = frames + 1
    /\ UNCHANGED versions

Again == res' = "again" /\ handed' = {}

Hand(id, how) == res' = "success" /\ handed' = {[id |-> id, how |-> how]}

\* The frame is no IP packet, or was cut off by the capture.
ReadOther(p, ts) ==
    /\ p.kind = "other"
    /\ Capture(p, ts)
    /\ Again
    /\ UNCHANGED <<reasmVars, seen>>

\* A datagram in one packet.
ReadWhole(p, ts) ==
    /\ p.kind = "whole"
    /\ Capture(p, ts)
    /\ IF Datagrams[p.frag.id].udp THEN Hand(p.frag.id, "whole") ELSE Again
    /\ UNCHANGED <<reasmVars, seen>>

\* A fragment whose header does not agree with it.
ReadShort(p, ts) ==
    /\ p.kind = "short"
    /\ Capture(p, ts)
    /\ FragUnrecognized(ts)
    /\ seen' = ts
    /\ Again

\* A fragment that does not complete its datagram.
ReadFragment(p, ts) ==
    /\ p.kind = "fragment"
    /\ Capture(p, ts)
    /\ FragDropped(p.frag, ts) \/ FragRejected(p.frag, ts) \/ FragStored(p.frag, ts)
    /\ seen' = ts
    /\ Again

\* Mutant: a reassembled datagram is not filtered again.
Refilter_None(id, d) == d.len + HdrSz <= OutSz /\ Datagrams[id].udp

\* What becomes of a reassembled datagram: it has to fit the buffer, to be UDP
\* and to pass the user's filter.
Refilter(id, d) ==
    d.len + HdrSz <= OutSz /\ Datagrams[id].udp /\ Matches(id)

\* A fragment that completes its datagram.
ReadDatagram(p, ts) ==
    /\ p.kind = "fragment"
    /\ Capture(p, ts)
    /\ FragCompletes(p.frag, ts)
    /\ IF \A d \in out' : Refilter(p.frag.id, d)
       THEN Hand(p.frag.id, "reassembled") ELSE Again
    /\ seen' = ts

\* pcap_next_ex() times out, fails, or reaches the end of the file.
ReadNone ==
    /\ res \notin {"eof", "error"}
    /\ res' \in {"again", "error", "eof"}
    /\ handed' = {}
    /\ UNCHANGED <<reasmVars, versions, now, frames, seen>>

\* nmsg_pcap_input_close()
Close ==
    /\ res \in {"eof", "error"}
    /\ entries # <<>>
    /\ ReasmFree
    /\ UNCHANGED <<versions, now, res, frames, handed, seen>>

Finished == res \in {"eof", "error"} /\ entries = <<>> /\ UNCHANGED vars

Next ==
    \/ \E p \in Frames, ts \in now..MaxTime :
          \/ ReadOther(p, ts) \/ ReadWhole(p, ts) \/ ReadShort(p, ts)
          \/ ReadFragment(p, ts) \/ ReadDatagram(p, ts)
    \/ ReadNone \/ Close \/ Finished

Spec == Init /\ [][Next]_vars

-----------------------------------------------------------------------------
(***************************************************************************)
(* Properties                                                              *)
(***************************************************************************)

\* Every variable stays within its type.
TypeOK ==
    /\ entries \in Seq(Entry)
    /\ waiting = Len(entries) /\ max_waiting >= waiting
    /\ timed_out \in Nat /\ dropped_frags \in Nat
    /\ out \subseteq Entry
    /\ versions \in Filters
    /\ now \in 0..MaxTime /\ seen \in 0..now
    /\ res \in {"again", "success", "error", "eof"}
    /\ frames \in 0..MaxFrames
    /\ handed \subseteq [id : Ids, how : {"whole", "reassembled"}]

\* The bytes of a datagram that have come are below its end, and none has come
\* twice: the overlap checks look at two neighbours only, and those are enough.
FragmentsDisjoint ==
    \A i \in DOMAIN entries :
        LET ent == entries[i]
        IN  /\ \A f, g \in ent.frags : f = g \/ End(f) <= g.offset \/ End(g) <= f.offset
            /\ ent.len # 0 /\ ent.state = "active" => \A f \in ent.frags : End(f) <= ent.len

\* Where the holes of an entry start: at the first byte or behind a fragment,
\* where a byte is missing.  The end of the datagram is unknown until the last
\* fragment has come.
Covered(ent, b) == \E f \in ent.frags : f.offset <= b /\ b < End(f)
HoleStarts(ent) ==
    {b \in {0} \cup {End(f) : f \in ent.frags} :
        ~Covered(ent, b) /\ (ent.len = 0 \/ b < ent.len)}

\* "Reception of a complete packet is detected by counting the number of
\* 'holes' that remain": the count, kept by increments, is the number of holes,
\* in whatever order fragments come.  (An empty last fragment that comes before
\* its neighbour makes it too large, never too small.)
HoleCount ==
    \A i \in DOMAIN entries :
        LET ent == entries[i]
            holes == Cardinality(HoleStarts(ent))
        IN  ent.state = "active" =>
                /\ ent.holes >= holes
                /\ ent.early \/ ent.holes = holes
                /\ ent.holes > 0

\* What is assembled has every byte of the datagram once.
AssembledWhole ==
    \A ent \in out : \A b \in 0..(ent.len - 1) :
        Cardinality({f \in ent.frags : f.offset <= b /\ b < End(f)}) = 1

\* No datagram is ever reassembled from fragments further apart than the time
\* allows: after a fragment no entry is overdue, although the walk ends at the
\* first that is not; and a datagram has one entry.
NoneOverdue ==
    /\ \A i \in DOMAIN entries : entries[i].timeout >= seen
    /\ \A i, j \in DOMAIN entries : entries[i].id = entries[j].id => i = j

\* The user's filter holds for every reassembled datagram, also when none of
\* its fragments was seen to match, and for every IPv4 datagram.
FilteredDelivery ==
    \A d \in handed :
        Matches(d.id) \/ (d.how = "whole" /\ Datagrams[d.id].ip = 6)

-----------------------------------------------------------------------------
(***************************************************************************)
(* What the documentation says, and the code does not do                   *)
(***************************************************************************)

\* "Filter pcap inputs (-p or -i) with the BPF expression": what is handed on
\* matches the filter.
FilterHolds == \A d \in handed : Matches(d.id)
=============================================================================
