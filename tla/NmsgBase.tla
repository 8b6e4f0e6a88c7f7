------------------------------- MODULE NmsgBase -------------------------------
(***************************************************************************)
(* The base message modules (nmsg/base): the tables of their fields, with  *)
(* the labels their .proto files give them, and what ncap computes from a  *)
(* message that has been received.  dnsqr is modelled in Dnsqr.            *)
(***************************************************************************)
EXTENDS NmsgPres

Field(name, type) ==
    [name |-> name, type |-> type, hidden |-> FALSE, noprint |-> FALSE, get |-> FALSE,
     print |-> "none", values |-> {}]
Enum(name, values) == [Field(name, "enum") EXCEPT !.values = values]
Hidden(f) == [f EXCEPT !.hidden = TRUE]
Computed(f) == [f EXCEPT !.get = TRUE]
PrintedBy(f, printer) == [f EXCEPT !.print = printer]

LabelsOf(required, optional, repeated) ==
    [name \in required \cup optional \cup repeated |->
        IF name \in required THEN "required"
        ELSE IF name \in optional THEN "optional" ELSE "repeated"]

\* NMSG_MSGMOD_REQUIRED_INIT: a transparent module of this version.
Base(id, mname, fields, labels) ==
    [vid |-> 1, vname |-> "base", msgtype |-> id, mname |-> mname,
     type |-> "transparent", version |-> TRUE, fields |-> fields, labels |-> labels,
     load |-> FALSE]

email ==
    Base(2, "email",
         <<Enum("type", 0..4), Field("headers", "mlstring"), Field("srcip", "ip"),
           Field("srchost", "string"), Field("helo", "string"), Field("from", "string"),
           Field("rcpt", "string"), Field("bodyurl", "string"), Field("body", "mlstring")>>,
         LabelsOf({}, {"type", "headers", "srcip", "srchost", "helo", "from", "body"},
                  {"rcpt", "bodyurl"}))

http ==
    Base(4, "http",
         <<Enum("type", {0, 1}), Field("srcip", "ip"), Field("srchost", "string"),
           Field("srcport", "uint16"), Field("dstip", "ip"), Field("dstport", "uint16"),
           Field("request", "mlstring"), Field("p0f_genre", "string"),
           Field("p0f_detail", "string"), Field("p0f_dist", "int16"),
           Field("p0f_link", "string"), Field("p0f_tos", "string"),
           Field("p0f_fw", "uint16"), Field("p0f_nat", "uint16"),
           Field("p0f_real", "uint16"), Field("p0f_score", "int16"),
           Field("p0f_mflags", "uint16"), Field("p0f_uptime", "int32")>>,
         LabelsOf({"type"},
                  {"srcip", "srchost", "srcport", "dstip", "dstport", "request",
                   "p0f_genre", "p0f_detail", "p0f_dist", "p0f_link", "p0f_tos", "p0f_fw",
                   "p0f_nat", "p0f_real", "p0f_score", "p0f_mflags", "p0f_uptime"}, {}))

ipconn ==
    Base(5, "ipconn",
         <<Field("proto", "uint16"), Field("srcip", "ip"), Field("srcport", "uint16"),
           Field("dstip", "ip"), Field("dstport", "uint16")>>,
         LabelsOf({}, {"proto", "srcip", "srcport", "dstip", "dstport"}, {}))

linkpair ==
    Base(3, "linkpair",
         <<Enum("type", {0, 1}), Field("src", "string"), Field("dst", "string"),
           Field("headers", "mlstring")>>,
         LabelsOf({"type", "src", "dst"}, {"headers"}, {}))

logline ==
    Base(6, "logline", <<Field("category", "string"), Field("message", "string")>>,
         LabelsOf({}, {"category", "message"}, {}))

dns ==
    Base(7, "dns",
         <<PrintedBy(Field("qname", "bytes"), "name"),
           PrintedBy(Field("qclass", "uint16"), "class"),
           PrintedBy(Field("qtype", "uint16"), "type"), Field("section", "uint16"),
           PrintedBy(Field("rrname", "bytes"), "name"),
           PrintedBy(Field("rrclass", "uint16"), "class"),
           PrintedBy(Field("rrtype", "uint16"), "type"), Field("rrttl", "uint32"),
           PrintedBy(Field("rdata", "bytes"), "rdata")>>,
         LabelsOf({}, {"section", "qname", "qtype", "qclass", "rrname", "rrtype",
                       "rrclass", "rrttl"}, {"rdata"}))

pkt ==
    Base(8, "pkt", <<Field("len_frame", "uint32"), Field("payload", "bytes")>>,
         LabelsOf({"payload"}, {"len_frame"}, {}))

xml ==
    Base(10, "xml", <<Field("xmltype", "string"), Field("xmlpayload", "bytes")>>,
         LabelsOf({"xmltype", "xmlpayload"}, {}, {}))

encode ==
    Base(11, "encode", <<Enum("type", 0..4), Field("payload", "bytes")>>,
         LabelsOf({"type", "payload"}, {}, {}))

packet ==
    Base(12, "packet", <<Enum("payload_type", {1}), Field("payload", "bytes")>>,
         LabelsOf({"payload_type", "payload"}, {}, {}))

ncap ==
    [Base(1, "ncap",
          <<Enum("type", 0..2), Hidden(Enum("ltype", 0..2)), Computed(Field("srcip", "ip")),
            Computed(Field("dstip", "ip")), Hidden(Field("lint0", "uint32")),
            Hidden(Field("lint1", "uint32")), Computed(Field("srcport", "uint16")),
            Computed(Field("dstport", "uint16")), Computed(Field("proto", "uint16")),
            PrintedBy(Field("payload", "bytes"), "ncap"),
            [Computed(Field("dns", "bytes")) EXCEPT !.noprint = TRUE]>>,
          LabelsOf({"type", "payload"}, {"ltype", "srcip", "dstip", "lint0", "lint1"}, {}))
     EXCEPT !.load = TRUE]

\* nmsg_msgmod_ctx_array, without dnsqr.
BasePlugins == <<email, http, ipconn, linkpair, logline, ncap, dns, pkt, xml, encode, packet>>

\* The names of the base modules' fields in the order of strcmp().
BaseNames ==
    <<"body", "bodyurl", "category", "dns", "dst", "dstip", "dstport", "from", "headers",
      "helo", "len_frame", "lint0", "lint1", "ltype", "message", "p0f_detail", "p0f_dist",
      "p0f_fw", "p0f_genre", "p0f_link", "p0f_mflags", "p0f_nat", "p0f_real", "p0f_score",
      "p0f_tos", "p0f_uptime", "payload", "payload_type", "proto", "qclass", "qname",
      "qtype", "rcpt", "rdata", "request", "rrclass", "rrname", "rrttl", "rrtype",
      "section", "src", "srchost", "srcip", "srcport", "type", "xmlpayload", "xmltype">>

-----------------------------------------------------------------------------
(***************************************************************************)
(* ncap                                                                    *)
(*                                                                         *)
(* An IP datagram is <<W("dgram", n)>>, n the UDP port it comes from, or 0 *)
(* for another protocol; it goes to DstPort.                               *)
(***************************************************************************)
IPV4 == 0
IPV6 == 1
Legacy == 2
UDP == 17
TCP == 6
ICMP == 1
DstPort == 9

LegacyProto == [t \in 0..2 |-> CASE t = 0 -> UDP [] t = 1 -> TCP [] t = 2 -> ICMP]

TypeOf(c) == c["type"][1][1].n
LtypeOf(c) == IF c["ltype"] = <<>> THEN 0 ELSE c["ltype"][1][1].n

\* ncap_msg_load(), from the message object: {} or the private data.  The
\* addresses of a legacy message are not copied.
NcapLoad(c) ==
    LET payload == c["payload"][1]
        ports(n, port) == IF n = 0 THEN <<>> ELSE <<Num(port)>>
    IN  IF payload \in {Null, <<>>} THEN {}
        ELSE IF TypeOf(c) = Legacy
        THEN {[ip |-> Null,
               srcport |-> IF LtypeOf(c) = 2 THEN <<>> ELSE c["lint0"],
               dstport |-> IF LtypeOf(c) = 2 THEN <<>> ELSE c["lint1"],
               proto |-> LegacyProto[LtypeOf(c)]]}
        ELSE LET n == payload[1].n
             IN  {[ip |-> <<W("ip", TypeOf(c))>>, srcport |-> ports(n, n),
                   dstport |-> ports(n, DstPort), proto |-> IF n = 0 THEN TCP ELSE UDP]}

\* assert(0): a type of datagram that the enumerations do not have.
NcapAsserts(c) ==
    /\ c["payload"][1] \notin {Null, <<>>}
    /\ TypeOf(c) \notin 0..2 \/ (TypeOf(c) = Legacy /\ LtypeOf(c) \notin 0..2)

\* ncap_get_srcip(), ncap_get_dstip(): for a legacy message without the address
\* the pointer is left as it was, and success returned.
NcapIp(c, p, name, junk) ==
    IF TypeOf(c) # Legacy THEN <<p.ip>>
    ELSE IF c[name] # <<>> THEN c[name] ELSE <<junk>>

\* ncap_get_dns(): the payload of a datagram from or to a DNS port.
NcapDns(c, p) ==
    IF \E port \in {53, 5353} : <<Num(port)>> \in {p.srcport, p.dstport}
    THEN c["payload"] ELSE <<>>

\* The values of the computed fields, from private data p ({} or one).
NcapGet(c, priv, junk) ==
    [name \in {"srcip", "dstip", "srcport", "dstport", "proto", "dns"} |->
        IF priv = {} THEN <<>>
        ELSE LET p == CHOOSE x \in priv : TRUE
             IN  CASE name \in {"srcip", "dstip"} -> NcapIp(c, p, name, junk)
                   [] name = "srcport" -> p.srcport
                   [] name = "dstport" -> p.dstport
                   [] name = "proto"   -> <<Num(p.proto)>>
                   [] name = "dns"     -> NcapDns(c, p)]

\* What the getters of a module return for message object c.
GetterValues(mod, c, priv, junk) ==
    IF mod.plugin.mname = "ncap" THEN NcapGet(c, priv, junk) ELSE [name \in {} |-> <<>>]

-----------------------------------------------------------------------------
(***************************************************************************)
(* ncap, pkt and packet from captured packets                              *)
(*                                                                         *)
(* A frame has its link type, the bytes captured of it (cap) and on the    *)
(* wire (len), the type of what it carries and, behind a VLAN tag, the     *)
(* type within.  A slice of it, from an offset on, is <<W("slice", off)>>. *)
(***************************************************************************)
\* packet_pcap_init(), pkt_pcap_init(): the handles that can be used.
PacketOpens(dlt, live) ==
    dlt \in {"EN10MB", "RAW", "LINUX_SLL"} \/ (live /\ dlt \in {"NULL", "LOOP"})
PktOpens(dlt) == dlt = "EN10MB"

\* packet_load(): {} or the offset of the IP packet in the frame.
PacketLoad(fr) ==
    LET size == CASE fr.dlt = "EN10MB" -> IF fr.type = "vlan" THEN 18 ELSE 14
                  [] fr.dlt = "RAW" -> 0
                  [] fr.dlt = "LINUX_SLL" -> 16
                  [] fr.dlt \in {"NULL", "LOOP"} -> 4
        type == IF fr.dlt = "EN10MB" /\ fr.type = "vlan" THEN fr.vtype ELSE fr.type
    IN  IF fr.cap = fr.len /\ fr.cap >= size /\ (type = "ip" \/ fr.dlt = "RAW")
        THEN {size} ELSE {}

\* packet_pkt_to_payload(): {} ("again") or the message.
PacketContent(fr) ==
    {[payload_type |-> <<Num(1)>>, payload |-> <<<<W("slice", off)>>>>] :
        off \in PacketLoad(fr)}

\* pkt_pkt_to_payload(): the frame as it is.
PktContent(fr) ==
    [payload |-> <<<<W("slice", 0)>>>>, len_frame |-> <<Num(fr.len)>>]

\* ncap_ipdg_to_payload()
IpdgContent(type, dgram) ==
    [name \in DOMAIN ncap.labels |->
        CASE name = "type" -> <<Num(type)>>
          [] name = "payload" -> <<dgram>>
          [] OTHER -> <<>>]
=============================================================================
