------------------------------- MODULE MCMessage -------------------------------
(***************************************************************************)
(* The base modules and two small vendors, in directories that load well   *)
(* or badly; messages of linkpair, email, ncap and pkt; linkpair is read.  *)
(***************************************************************************)
EXTENDS NmsgMessage, TLC

CONSTANTS a, b

HandleSymmetry == Permutations(Handles)

MCNames == SubSeq(BaseNames, 1, 15) \o <<"none">> \o SubSeq(BaseNames, 16, Len(BaseNames))

opaque == [Base(2, "opaque", <<>>, LabelsOf({}, {}, {}))
           EXCEPT !.vid = 3, !.vname = "SIE", !.type = "opaque"]
other == [logline EXCEPT !.vid = 2, !.vname = "SIE2", !.msgtype = 1]
isc == [opaque EXCEPT !.vid = 4, !.vname = "ISC"]
again == [ipconn EXCEPT !.fields = <<Field("proto", "uint16")>>]
dated == [logline EXCEPT !.version = FALSE]
wrong == [logline EXCEPT !.fields = <<Field("none", "string")>>]

File(ps) == [kind |-> "module", opens |-> TRUE, plugins |-> ps]
Skipped == {[kind |-> k, opens |-> TRUE, plugins |-> <<>>] : k \in {"other", "old", "module"}}
Unopened(kind) == [kind |-> kind, opens |-> FALSE, plugins |-> <<>>]

MCDirectories ==
    {<<File(BasePlugins), File(<<opaque, other>>)>>,
     <<File(<<opaque>>), File(<<linkpair, again>>), File(<<other, ipconn>>), File(<<linkpair>>)>>,
     <<File(<<linkpair, logline, isc>>), Unopened("module"), File(<<other>>)>>,
     <<Unopened("nodir")>>, <<Unopened("module"), File(<<other>>)>>, <<File(<<other, dated>>)>>,
     <<File(<<other, wrong>>)>>}
    \cup {<<f, File(<<ipconn>>)>> : f \in Skipped}

word1 == <<W("word", 1)>>
word2 == <<W("word", 2), W("word", 1)>>
head == <<Line("", word1), Blank>>

MCInits == {[vid |-> 1, msgtype |-> 3], [vid |-> 3, msgtype |-> 2]}

Pair(h) == [type |-> <<Num(1)>>, src |-> <<word1>>, dst |-> <<word1>>, headers |-> h]
Legacy1 == [IpdgContent(Legacy, <<W("slice", 0)>>) EXCEPT !["lint0"] = <<Num(53)>>]
Wire(msgtype, c) == [vid |-> 1, msgtype |-> msgtype, content |-> c]
MCReceived ==
    {Wire(3, Pair(<<head>>)), Wire(3, Garbage), Wire(1, Garbage), Wire(1, Legacy1),
     Wire(20, Garbage)}

Email == [name \in DOMAIN email.labels |-> <<>>]
Frame == [dlt |-> "EN10MB", cap |-> 60, len |-> 60, type |-> "vlan", vtype |-> "ip"]
MCCaptured ==
    {Wire(1, IpdgContent(IPV4, <<W("dgram", 53)>>)), Wire(2, Email), Wire(8, PktContent(Frame))}
    \cup {Wire(12, c) : c \in PacketContent(Frame)}

Set(mname, name, idx, value) == [mname |-> mname, name |-> name, idx |-> idx, value |-> value]
MCSettings ==
    {Set("linkpair", "headers", 0, <<>>), Set("linkpair", "src", 0, word2),
     Set("linkpair", "type", 0, Num(7)),
     Set("email", "rcpt", 0, word1), Set("email", "rcpt", 1, word2),
     Set("email", "srcip", 0, word1),
     Set("ncap", "payload", 0, <<W("dgram", 0)>>)}

MCReader == [vname |-> "base", mname |-> "linkpair"]
=============================================================================
