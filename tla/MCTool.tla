------------------------------- MODULE MCTool -------------------------------
(***************************************************************************)
(* Model checking of NmsgTool: command lines that between them use every   *)
(* kind of input and output, with and without a kicker, as a daemon and as *)
(* another user, and environments with good and bad alias files.           *)
(***************************************************************************)
EXTENDS NmsgTool

\* The command line without arguments.
None == <<>>
Bare ==
    [help |-> FALSE, vname |-> "", mname |-> "", kicker |-> "none", count |-> FALSE,
     interval |-> FALSE, set |-> <<"", "", "">>, get |-> <<"", "", "">>, daemon |-> FALSE,
     pidfile |-> FALSE, user |-> "none", debug |-> FALSE, zlib |-> FALSE,
     unbuffered |-> FALSE, endline |-> None, mtu |-> 0, byteRate |-> FALSE,
     rIf |-> None, rPcap |-> None, rSock |-> None, rChan |-> None, rXs |-> None,
     rXchan |-> None, rNmsg |-> None, rPres |-> None, wSock |-> None, wXs |-> None,
     wNmsg |-> None, wPres |-> None]

F == [base |-> "f", abs |-> FALSE]
G == [base |-> "g", abs |-> TRUE]
Sock(addr, lo, hi, rate, freq) ==
    [form |-> "ok", addr |-> addr, lo |-> lo, hi |-> hi, rate |-> rate, freq |-> freq, opts |-> None]

\* Two files of one base name, rotated; a daemon with three files.
Rotating == [Bare EXCEPT !.kicker = "cmd", !.count = TRUE, !.rNmsg = <<F>>, !.wNmsg = <<G>>,
                         !.wPres = <<G>>, !.zlib = TRUE, !.set = <<"5", "two", "one">>,
                         !.endline = <<"backslash", "n", "x">>, !.debug = TRUE]
MCCommands == {
    Rotating,
    [Rotating EXCEPT !.rNmsg = <<Dash>>, !.rPres = <<Dash>>, !.mname = "text", !.endline = None],
    [Rotating EXCEPT !.daemon = TRUE, !.wNmsg = <<F, G>>, !.wPres = <<F>>],
    [Rotating EXCEPT !.kicker = "", !.wPres = <<>>, !.wSock = <<Sock("ok", 2, 3, "yes", 0)>>,
                     !.interval = TRUE, !.unbuffered = TRUE, !.rNmsg = <<Dash, F>>],
    [Bare EXCEPT !.mname = "ncap", !.rIf = <<F>>, !.rPcap = <<F>>, !.user = "user",
                 !.pidfile = TRUE, !.daemon = TRUE],
    [Bare EXCEPT !.mname = "pkt", !.rPres = <<Dash, F>>, !.rPcap = <<F>>, !.user = "user",
                 !.pidfile = TRUE, !.wNmsg = <<G, Dash>>, !.wXs = <<<<"accept">>>>, !.count = TRUE,
                 !.mtu = 1],
    [Bare EXCEPT !.rChan = <<"ch">>, !.rXs = <<<<>>>>, !.wPres = <<F, Dash>>, !.byteRate = TRUE,
                 !.get = <<"5", "two", "">>, !.rNmsg = <<G>>],
    [Bare EXCEPT !.rSock = <<Sock("ok", 0, 1, "bad", 0)>>, !.wNmsg = <<F>>],
    [Bare EXCEPT !.rSock = <<Sock("ok", MaxPort, MaxPort + 1, "none", 0)>>,
                 !.rXchan = <<"xch">>, !.kicker = "cmd", !.wXs = <<<<"pushpull">>>>],
    [Bare EXCEPT !.rXs = <<<<"accept", "connect">>>>],
    [Bare EXCEPT !.wNmsg = <<F>>, !.kicker = "cmd"],
    [Bare EXCEPT !.rNmsg = <<F>>, !.kicker = "cmd"],
    [Bare EXCEPT !.help = TRUE],
    [Bare EXCEPT !.vname = "base"],
    [Bare EXCEPT !.rPcap = <<F>>],
    [Bare EXCEPT !.mname = "text", !.rPcap = <<F>>],
    [Bare EXCEPT !.set = <<"bad", "", "">>]}

Line(k, n) == [key |-> k, name |-> n]
MCEnv ==
    [kicker |-> "none", xs |-> TRUE, opLines |-> <<Line(1, "one"), Line(7, "two")>>,
     grLines |-> <<Line(2, "one"), Line(5, "far"), Line(2, "one")>>,
     chalias |-> {<<[channel |-> "ch", addrs |-> <<Sock("ok", 1, 1, "none", 0)>>],
                    [channel |-> "xch", addrs |-> <<[Sock("ok", 1, 1, "none", 0)
                                                     EXCEPT !.form = "xs", !.opts = <<"connect">>]>>]>>},
     chalias2 |-> {}]
MCEnvs == {
    MCEnv,
    [MCEnv EXCEPT !.xs = FALSE, !.chalias2 = @, !.chalias = {}],
    [MCEnv EXCEPT !.opLines = <<Line(1, "two"), BadLine>>],
    [MCEnv EXCEPT !.grLines = <<Line(UIntMax, "one")>>],
    [MCEnv EXCEPT !.grLines = <<Line(UIntMax - 2, "one")>>],
    [MCEnv EXCEPT !.grLines = <<Line(5, "one"), Line(UIntMax - 3, "far"), Line(1, "two")>>]}

MCVendors == {"base"}
MCModules == [ncap |-> "ipdg", pkt |-> "pkt", text |-> "text"]
=============================================================================
