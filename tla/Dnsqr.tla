--------------------------------- MODULE Dnsqr ---------------------------------
(***************************************************************************)
(* The dnsqr message module, nmsg/base/dnsqr.c: a pcap input in raw mode   *)
(* calls dnsqr_pkt_to_payload() again and again; each call gives up at     *)
(* most one query, then reads at most one packet.  Queries wait in the     *)
(* table (DnsqrTable) for their responses; fragments are reassembled first *)
(* (DnsqrReasm).                                                           *)
(*                                                                         *)
(* The table is behind a lock that is held for the whole of an insert, a   *)
(* trim or a retrieve; the rounds of dnsqr_remove() are steps of their own *)
(* here, and nothing else moves while pc is "shift".                       *)
(***************************************************************************)
EXTENDS DnsqrTable, DnsqrReasm

CONSTANTS
    Datagrams,      \* the datagram of each id
    Frames,         \* the frames on the wire
    Confs,          \* what dnsqr_init() can find in the environment
    Suffixes,       \* a name and what wdns_left_chop() leaves of it
    QueryTimeout,   \* ctx->query_timeout
    MaxFrames,      \* bound: frames captured
    Times           \* bound: their timestamps

(***************************************************************************)
(* A datagram: what the parsers find in it.  "dns": the ports are right,   *)
(* and, over UDP, there is a whole header and question.  "qr": it comes    *)
(* from port 53 and is a response.  "err": one of the four rcodes of       *)
(* dnsqr_eq().  "match": the filter given to nmsgtool matches it; "listed":*)
(* its server is in DNSQR_AUTH_ADDRS or its client in DNSQR_RES_ADDRS.     *)
(***************************************************************************)
Datagram ==
    [ip : {4, 6}, proto : {"udp", "tcp", "icmp", "other"}, match : BOOLEAN,
     listed : BOOLEAN, dns : BOOLEAN, qr : BOOLEAN, key : Keys,
     name : Names \cup {NoName}, rd : {0, 1}, err : BOOLEAN,
     sum : {"absent", "correct", "incorrect"}]

Response == [key : Keys, name : Names \cup {NoName}, rd : {0, 1}, err : BOOLEAN,
             sum : {"absent", "correct", "incorrect"}, time : Int]

\* DNSQR_CAPTURE_QR, DNSQR_CAPTURE_RD, DNSQR_FILTER_QNAMES_INCLUDE and _EXCLUDE,
\* DNSQR_ZERO_RESOLVER_ADDRESS; addresses are given.
Conf == [qr : {-1, 0, 1}, rd : {-1, 0, 1}, include : SUBSET Names,
         exclude : SUBSET Names, zero : BOOLEAN, addrs : BOOLEAN]

ASSUME DnsqrAssumption ==
    /\ Datagrams \in [Ids -> Datagram]
    /\ Frames \subseteq [kind : {"other", "whole", "fragment", "short"}, frag : Fragment]
    /\ \A p \in Frames : p.kind = "fragment" => End(p.frag) > 0
    /\ Timeout = 0      \* nothing calls reasm_ip_set_timeout()
    /\ Confs \subseteq Conf
    /\ Suffixes \in [Names -> SUBSET Names]
    /\ QueryTimeout \in Nat \ {0} /\ MaxFrames \in Nat /\ Times \subseteq Nat

VARIABLES
    conf,       \* ctx->capture_qr and so on
    now,        \* ctx->now
    stop,       \* ctx->stop
    pc,         \* where the call stands: "call", "shift", "unanswered", "read",
                \* "merge"; "closed" when the input is
    res,        \* what the last call returned
    report,     \* the query and the response in hand
    parts,      \* the fragments of the response in hand
    msg,        \* the message the last call made
    frames,     \* frames read
    late        \* history: the timestamps have gone back

callVars == <<pc, res, report, parts, msg>>
vars == <<tableVars, reasmVars, conf, now, stop, callVars, frames, late>>

Nothing == [what |-> "nothing", query |-> 0, response |-> {}]

\* dnsqr_init()
Init ==
    /\ TableInit /\ ReasmInit
    /\ conf \in Confs
    /\ now = 0 /\ stop = FALSE
    /\ pc = "call" /\ res = "again" /\ report = Nothing /\ parts = {} /\ msg = {}
    /\ frames = 0 /\ late = FALSE

-----------------------------------------------------------------------------
(***************************************************************************)
(* dnsqr_pcap_init                                                         *)
(***************************************************************************)

(***************************************************************************)
(* What the patterns for addresses match: to and from them, all of IPv6;   *)
(* of IPv4 the UDP datagrams of the kind wanted, the fragments of          *)
(* responses, and ICMP.  The ports are in the first fragment only.         *)
(***************************************************************************)
PatternMatches(d, fragment, first) ==
    /\ d.listed
    /\ \/ d.ip = 6
       \/ d.proto = "udp" /\ d.dns /\ first /\ conf.qr \in {-1, IF d.qr THEN 1 ELSE 0}
       \/ fragment /\ d.qr /\ conf.qr \in {-1, 1}
       \/ d.proto = "icmp" /\ ~d.qr /\ conf.qr = -1

\* nmsg_pcap_filter(): the filter on a whole datagram.
PcapFilter(d) == IF conf.addrs THEN PatternMatches(d, FALSE, TRUE) ELSE d.match

\* The frames libpcap lets through: nmsg_pcap_input_setfilter_raw() gives it the
\* patterns, nmsg_pcap_input_setfilter() more than the user asked for.
Captured(p) ==
    LET d == Datagrams[p.frag.id]
        fragment == p.kind \in {"fragment", "short"}
    IN  IF conf.addrs THEN PatternMatches(d, fragment, p.frag.offset = 0)
        ELSE d.match \/ d.ip = 6 \/ fragment

-----------------------------------------------------------------------------
(***************************************************************************)
(* do_filter                                                               *)
(***************************************************************************)
FilterRd(rd) == conf.rd # -1 /\ rd # conf.rd

\* get_query_flags() cannot read the flags of a fragmented query.
FilterQueryRd(q) == q.whole /\ FilterRd(q.rd)

\* A name in the first list is kept; one that is not is kept as well, unless it
\* is in the second.
Listed(list, name) == Suffixes[name] \cap list # {}
FilterQueryName(name) ==
    /\ name # NoName
    /\ ~Listed(conf.include, name)
    /\ Listed(conf.exclude, name)

DoFilter(q, name) == FilterQueryRd(q) \/ FilterQueryName(name)

\* dnsqr_merge(): the response's question, or else the query's.
MergedName(q, r) == IF r.name # NoName THEN r.name ELSE q.name

\* dnsqr_checksum_verify(): what is found out about the response; and
\* dnsqr_zero_resolver_address(), which would spoil it.
ChecksumVerify(response) == {r.sum : r \in response}
ZeroResolverAddress == conf.zero

\* dnsqr_to_message(): the checksum is verified, then the address zeroed.
ToMessage(type, query, response, pieces, time) ==
    [type |-> type, query |-> query, response |-> response, pieces |-> pieces,
     time |-> time, sum |-> ChecksumVerify(response), zeroed |-> ZeroResolverAddress]

-----------------------------------------------------------------------------
(***************************************************************************)
(* dnsqr_pkt_to_payload                                                    *)
(***************************************************************************)
Return(r, m) == pc' = "call" /\ res' = r /\ msg' = m

\* Mutant: only the time-out is looked at.
Overdue_TimeOnly(k) == stop \/ now - asked[k].time > QueryTimeout

\* Mutant: a full table is taken for one that is too full.
Overdue_Early(k) == count >= MaxValues \/ stop \/ now - asked[k].time > QueryTimeout

\* Mutant: a query waits as long as there is room for it.
Overdue_CountOnly(k) == count > MaxValues \/ stop

\* The head of the list has to go.
Overdue(k) == count > MaxValues \/ stop \/ now - asked[k].time > QueryTimeout

\* dnsqr_trim(): it goes, and is reported as unanswered.
Trim ==
    /\ pc = "call" /\ res \notin {"eof", "error"}
    /\ \E k \in Head1 :
          /\ Overdue(table[he[k]])
          /\ RemoveAt(he[k])
          /\ report' = [what |-> "unanswered", query |-> table[he[k]], response |-> {}]
    /\ pc' = "shift" /\ res' = "again" /\ msg' = {}
    /\ UNCHANGED <<reasmVars, conf, now, stop, parts, frames, late>>

\* Mutant: the end of the packets is looked at before the table.
NoTrim_StopFirst ==
    /\ pc = "call" /\ res \notin {"eof", "error"}
    /\ stop \/ ~\E k \in Head1 : Overdue(table[he[k]])
    /\ IF stop THEN Return("eof", {}) ELSE pc' = "read" /\ res' = "again" /\ msg' = {}
    /\ report' = Nothing
    /\ UNCHANGED <<tableVars, reasmVars, conf, now, stop, parts, frames, late>>

\* Mutant: the caller is told to call again.
NoTrim_Again ==
    /\ pc = "call" /\ res \notin {"eof", "error"}
    /\ ~\E k \in Head1 : Overdue(table[he[k]])
    /\ IF stop THEN Return("again", {}) ELSE pc' = "read" /\ res' = "again" /\ msg' = {}
    /\ report' = Nothing
    /\ UNCHANGED <<tableVars, reasmVars, conf, now, stop, parts, frames, late>>

\* None goes: the end of the packets has been seen before, or one is read.
NoTrim ==
    /\ pc = "call" /\ res \notin {"eof", "error"}
    /\ ~\E k \in Head1 : Overdue(table[he[k]])
    /\ IF stop THEN Return("eof", {}) ELSE pc' = "read" /\ res' = "again" /\ msg' = {}
    /\ report' = Nothing
    /\ UNCHANGED <<tableVars, reasmVars, conf, now, stop, parts, frames, late>>

\* The rounds of dnsqr_remove(), for a trim or for a retrieve.
Shift ==
    /\ pc = "shift"
    /\ \/ ShiftMove /\ UNCHANGED pc
       \/ ShiftKeep /\ UNCHANGED pc
       \/ ShiftDone /\ pc' = IF report.what = "answered" THEN "merge" ELSE "unanswered"
    /\ UNCHANGED <<reasmVars, conf, now, stop, res, report, parts, msg, frames, late>>

\* The query given up is returned, unless it is filtered: then a packet is read.
Unanswered ==
    /\ pc = "unanswered"
    /\ LET q == asked[report.query]
       IN  IF DoFilter(q, q.name) THEN pc' = "read" /\ UNCHANGED <<res, msg>>
           ELSE Return("success", {ToMessage("UDP_UNANSWERED_QUERY", report.query, {}, {}, q.time)})
    /\ UNCHANGED <<tableVars, reasmVars, conf, now, stop, report, parts, frames, late>>

\* nmsg_pcap_input_read_raw() has no packet, or fails, or is at the end.
ReadNone ==
    /\ pc = "read"
    /\ \/ res' \in {"again", "error"} /\ UNCHANGED stop
       \/ res' = "again" /\ stop' = TRUE
    /\ pc' = "call" /\ msg' = {} /\ report' = Nothing
    /\ UNCHANGED <<tableVars, reasmVars, conf, now, parts, frames, late>>

-----------------------------------------------------------------------------
(***************************************************************************)
(* do_packet                                                               *)
(***************************************************************************)
ReadFrame(p) ==
    /\ pc = "read"
    /\ frames < MaxFrames
    /\ Captured(p)
    /\ frames' = frames + 1
    /\ UNCHANGED <<conf, stop>>

\* Nothing comes of the packet.
Again ==
    /\ Return("again", {})
    /\ report' = Nothing
    /\ UNCHANGED <<tableVars, parts>>

\* It is a message of its own.
Single(m) ==
    /\ Return("success", {m})
    /\ report' = Nothing
    /\ UNCHANGED <<tableVars, parts>>

\* do_packet_v4() and do_packet_v6() make nothing of it.
Ignored(d) == ~d.dns \/ d.proto = "other"

AsQuery(d, t, whole) ==
    [key |-> d.key, name |-> d.name, rd |-> d.rd, whole |-> whole, time |-> t]
AsResponse(d, t) ==
    [key |-> d.key, name |-> d.name, rd |-> d.rd, err |-> d.err, sum |-> d.sum, time |-> t]

\* A query, when they are paired: it waits in the table.
ArriveQuery(d, t, whole) ==
    /\ conf.qr = -1 /\ d.proto = "udp" /\ ~d.qr
    /\ InsertQuery(AsQuery(d, t, whole))
    /\ Return("again", {}) /\ report' = Nothing
    /\ UNCHANGED parts

\* A response that answers a query in the table: that is taken out.
ArriveAnswer(d, t, pieces) ==
    LET r == AsResponse(d, t)
    IN  /\ conf.qr = -1 /\ d.proto = "udp" /\ d.qr
        /\ \E s \in Probe(r) :
              /\ table[s] # Empty
              /\ RemoveAt(s)
              /\ report' = [what |-> "answered", query |-> table[s], response |-> {r}]
        /\ parts' = pieces
        /\ pc' = "shift"
        /\ UNCHANGED <<res, msg>>

\* A response that answers none.
ArriveUnsolicited(d, t, pieces) ==
    LET r == AsResponse(d, t)
    IN  /\ conf.qr = -1 /\ d.proto = "udp" /\ d.qr
        /\ \E s \in Probe(r) : table[s] = Empty
        /\ report' = [what |-> "unsolicited", query |-> 0, response |-> {r}]
        /\ IF FilterRd(d.rd) THEN Return("again", {})
           ELSE Return("success", {ToMessage("UDP_UNSOLICITED_RESPONSE", 0, {r}, pieces, t)})
        /\ UNCHANGED <<tableVars, parts>>

\* Queries and responses are not paired, and only one kind is wanted; TCP and
\* ICMP are passed on as they are.
ArriveSingle(d, t, ts, pieces) ==
    \/ /\ d.proto = "udp" /\ conf.qr = 0
       /\ IF d.qr THEN Again ELSE Single(ToMessage("UDP_QUERY_ONLY", 0, {}, {}, ts))
    \/ /\ d.proto = "udp" /\ conf.qr = 1
       /\ IF d.qr THEN Single(ToMessage("UDP_RESPONSE_ONLY", 0, {AsResponse(d, t)}, pieces, t))
          ELSE Again
    \/ /\ d.proto \in {"tcp", "icmp"}
       /\ Single(ToMessage(d.proto, 0, {}, {}, ts))

\* A datagram in fragments, or ({}) in one packet; t is the time of the first of
\* its packets, ts of the last.
Arrive(d, t, ts, whole, pieces) ==
    \/ ArriveQuery(d, t, whole)
    \/ ArriveAnswer(d, t, pieces)
    \/ ArriveUnsolicited(d, t, pieces)
    \/ ArriveSingle(d, t, ts, pieces)

\* The frame was cut off by the capture, or nmsg_ipdg_parse_pcap_raw() finds no
\* IP datagram in it, or none of a protocol it knows.
Unparsed(p) ==
    \/ p.kind = "other"
    \/ Datagrams[p.frag.id].proto = "other" /\ (p.kind = "whole" \/ p.frag.offset = 0)
    \/ Datagrams[p.frag.id].ip = 6 /\ p.kind = "short"

FrameOther(p) ==
    /\ Unparsed(p)
    /\ ReadFrame(p)
    /\ Again
    /\ UNCHANGED <<reasmVars, now, late>>

Tick(ts) == now' = ts /\ late' = (late \/ ts < now)

\* A datagram in one packet.  IPv6 is filtered again.
FrameWhole(p, ts) ==
    LET d == Datagrams[p.frag.id]
    IN  /\ p.kind = "whole" /\ ~Unparsed(p)
        /\ ReadFrame(p) /\ Tick(ts)
        /\ ReasmOther(ts)
        /\ IF Ignored(d) \/ (d.ip = 6 /\ ~PcapFilter(d)) THEN Again ELSE Arrive(d, ts, ts, TRUE, {})

\* A fragment with a length field that is wrong is none to reasm_ip_next(); if
\* it is the first of its datagram, an IPv4 one is taken for all of it.
FrameShort(p, ts) ==
    LET d == Datagrams[p.frag.id]
    IN  /\ p.kind = "short" /\ ~Unparsed(p)
        /\ ReadFrame(p) /\ Tick(ts)
        /\ ReasmOther(ts)
        /\ IF Ignored(d) \/ p.frag.offset # 0 THEN Again
           ELSE Arrive(d, ts, ts, FALSE, {})

\* A fragment: its datagram is not complete yet.
FrameMore(p, ts) ==
    /\ p.kind = "fragment" /\ ~Unparsed(p)
    /\ ReadFrame(p) /\ Tick(ts)
    /\ ReasmMore(p.frag, ts)
    /\ Again

\* The last of the fragments: the datagram is assembled and filtered.
FrameDone(p, ts) ==
    LET d == Datagrams[p.frag.id]
    IN  /\ p.kind = "fragment" /\ ~Unparsed(p)
        /\ ReadFrame(p) /\ Tick(ts)
        /\ ReasmDone(p.frag, ts)
        /\ IF Ignored(d) \/ ~PcapFilter(d) \/ \E ent \in out' : ~Assembles(ent) THEN Again
           ELSE \E ent \in out' : Arrive(d, FirstPiece(ent).ts, ts, FALSE, ent.frags)

\* The response is merged with the query it answers.
Merge ==
    /\ pc = "merge"
    /\ LET q == asked[report.query]
       IN  \E r \in report.response :
              IF DoFilter(q, MergedName(q, r)) THEN Return("again", {})
              ELSE Return("success",
                          {ToMessage("UDP_QUERY_RESPONSE", report.query, {r}, parts, q.time)})
    /\ parts' = {}
    /\ UNCHANGED <<tableVars, reasmVars, conf, now, stop, report, frames, late>>

-----------------------------------------------------------------------------
(***************************************************************************)
(* Fields of a message that are computed when they are read                *)
(***************************************************************************)

\* dnsqr_get_response(): two or more fragments are reassembled once more, in the
\* order in which they were appended; one by itself cannot be read.
AddAgain(ent, p) ==
    IF Rejected(ent, p) THEN [ent EXCEPT !.state = "invalid"] ELSE BaseAdd(ent, p, p.ts)

Readd(pieces) ==
    LET entry[n \in 0..Cardinality(pieces)] ==
          IF n = 0 THEN NewEntry("none", 0)
          ELSE AddAgain(entry[n - 1], Lowest(pieces \ entry[n - 1].frags))
    IN  entry[Cardinality(pieces)]

\* Mutant: entry->holes is left at 0.
GetResponse_NoHole(m) ==
    \/ m.pieces = {}
    \/ /\ Cardinality(m.pieces) > 1
       /\ Readd(m.pieces).state = "active" /\ Readd(m.pieces).holes = 1

GetResponse(m) ==
    \/ m.pieces = {}
    \/ /\ Cardinality(m.pieces) > 1
       /\ Readd(m.pieces).state = "active" /\ Readd(m.pieces).holes = 0

\* dnsqr_get_delay(), for a query in one packet: to the response, or to the last
\* of its fragments and not below 0.
GetDelay(m) ==
    LET q == asked[m.query].time
        after == {0} \cup {p.ts - q : p \in m.pieces}
    IN  IF m.pieces = {} THEN (CHOOSE r \in m.response : TRUE).time - q
        ELSE CHOOSE t \in after : \A u \in after : u <= t

-----------------------------------------------------------------------------
\* dnsqr_fini(), when the input is closed between two calls: what is in the
\* table is freed.
Fini ==
    /\ pc = "call"
    /\ pc' = "closed" /\ report' = Nothing /\ parts' = {} /\ msg' = {}
    /\ table' = [s \in Slots |-> Empty] /\ linked' = {} /\ he' = <<>> /\ count' = 0
    /\ ReasmFree
    /\ UNCHANGED <<asked, shifting, hole, scan, conf, now, stop, res, frames, late>>

Closed == pc = "closed" /\ UNCHANGED vars

\* The packets, and what the module makes of them without any.
Packet ==
    \E p \in Frames :
        \/ FrameOther(p)
        \/ \E ts \in Times :
              FrameWhole(p, ts) \/ FrameShort(p, ts) \/ FrameMore(p, ts) \/ FrameDone(p, ts)

Work == Trim \/ NoTrim \/ Shift \/ Unanswered \/ Merge

Next == Work \/ Packet \/ ReadNone \/ Fini \/ Closed

Spec == Init /\ [][Next]_vars

\* The thread of nmsg_io calls again and again; libpcap need not give packets,
\* but does not wait for any once it has reached the end of them.
FairSpec == Spec /\ WF_vars(Work) /\ WF_vars(stop /\ ReadNone)

-----------------------------------------------------------------------------
(***************************************************************************)
(* Properties                                                              *)
(***************************************************************************)
\* Every variable stays within its type.
TypeOK ==
    /\ asked \in Seq(Query)
    /\ table \in [Slots -> 0..Len(asked)]
    /\ linked \subseteq 1..Len(asked)
    /\ he \in [linked -> Slots]
    /\ count \in Nat
    /\ shifting = (pc = "shift") /\ hole \in Slots /\ scan \in Slots
    /\ conf \in Conf
    /\ now \in Nat /\ stop \in BOOLEAN /\ late \in BOOLEAN
    /\ pc \in {"call", "shift", "unanswered", "read", "merge", "closed"}
    /\ res \in {"again", "success", "error", "eof"}
    /\ report.query \in 0..Len(asked) /\ report.response \subseteq Response
    /\ frames \in 0..MaxFrames

\* No query is lost in the table: from the slot a query hashes to up to the slot
\* it is in there is no gap, where dnsqr_retrieve() would stop, whatever has
\* been removed before it.
ProbeFindsAll ==
    ~shifting =>
        \A s, u \in Slots :
            LET h == NaturalOf(table[s])
            IN  table[s] # Empty /\ Dist(h, u) < Dist(h, s) => table[u] # Empty

\* The list and the table hold the same queries, each once; every entry of the
\* list points to the slot its query is in, also after it has been moved; and
\* the count is right.
ListMatchesTable ==
    /\ \A k \in linked : table[he[k]] = k
    /\ \A s \in Slots : table[s] # Empty => table[s] \in linked /\ he[table[s]] = s
    /\ count = Cardinality(linked)

\* "assert(slot != slot_stop)": when a packet is read the table is at most half
\* full, although only one query is given up for each packet, so that every
\* probe ends.
RoomLeft == pc = "read" => count <= MaxValues /\ Free # {}

\* At the end of the packets no query is forgotten: each has been taken out.
EofDrained == res = "eof" => linked = {}

\* Only the head of the list is looked at, once for each packet; as long as the
\* timestamps do not go back, no query waits longer than the time-out when a
\* packet is read, unless one has just been given up and filtered.
NoneTooOld ==
    pc = "read" /\ ~late /\ report.what # "unanswered" =>
        \A k \in linked : now - asked[k].time <= QueryTimeout

\* The response in a message can be read: its fragments, stored in the order of
\* their offsets and not as they came, make a datagram again, unless there is
\* but one or the last was empty and has not been stored.  The delay is not negative as long as the
\* timestamps do not go back.
FieldsReadable ==
    \A m \in msg :
        /\ Cardinality(m.pieces) # 1 /\ (\A p \in m.pieces : \E q \in m.pieces : q.last) =>
             GetResponse(m)
        /\ m.type = "UDP_QUERY_RESPONSE" /\ ~late => GetDelay(m) >= 0

\* The module pairs queries and responses as DnsqrQueue says.
Queue == INSTANCE DnsqrQueue WITH
    Matches <- Eq, Capacity <- MaxValues, Patience <- QueryTimeout,
    waiting <- linked, clock <- now, over <- stop

PairsOldestFirst == Queue!Spec

\* Once the packets have ended the module drains its table and says eof, unless
\* the input fails or is closed.
Drains == stop ~> (res \in {"eof", "error"} \/ pc = "closed")
=============================================================================
