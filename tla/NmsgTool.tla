------------------------------- MODULE NmsgTool -------------------------------
(***************************************************************************)
(* nmsgtool around the nmsg_io engine: its arguments (process_args.c), the *)
(* inputs and outputs they open (io.c, getsock.c, rwfile.c, nmsg/input.c,  *)
(* nmsg/output.c, nmsg/xsio.c), privileges, daemon and pidfile (daemon.c), *)
(* and the files that are rotated while it runs (io_close() of nmsgtool.c, *)
(* kickfile.c).                                                            *)
(*                                                                         *)
(* What is shared here is the process itself: descriptor numbers, of which *)
(* open() takes the lowest that is free, the working directory, the user   *)
(* and the names in the file system.  Each step of process_args() is one   *)
(* item of a script made from the command line.  Outputs are closed and    *)
(* reopened by the threads of the engine, each in steps of its own; when   *)
(* they are is up to NmsgIo and free here.                                 *)
(***************************************************************************)
EXTENDS NmsgAlias

CONSTANTS
    Commands,   \* command lines
    Envs,       \* what they meet: alias files, NMSG_KICKER, libxs
    Vendors,    \* vendor names that are known
    Modules,    \* the kind of each known module: "pkt", "ipdg", "text"
    MaxSpan,    \* ports in a range, less one: 20 in the code
    MaxPort,    \* 2^16 - 1
    DefaultFreq,\* DEFAULT_FREQ
    WbufMin, WbufJumbo, WbufMax,    \* NMSG_WBUFSZ_...
    MaxFd,      \* bound: largest descriptor
    MaxStamp    \* bound: files opened for rotation

\* The argument of -r, -f, -w or -o, and that of -l, -s or a channel: an address
\* and a range of ports, the rate and its frequency, or an XS endpoint.
File == [base : STRING, abs : BOOLEAN]
Address == [form : {"ok", "bad", "xs"}, addr : {"ok", "bad"}, lo : Nat, hi : Nat,
            rate : {"none", "yes", "bad"}, freq : Nat, opts : Seq(STRING)]

\* --setsource, --setoperator, --setgroup, and the same with "get".
IdNames == [1..3 -> STRING]

\* What the table of arguments lets argv_process() find on a command line.
Command ==
    [help : BOOLEAN, debug : BOOLEAN, vname : STRING, mname : STRING, byteRate : BOOLEAN,
     endline : Seq(STRING), mtu : Nat, count : BOOLEAN, interval : BOOLEAN, kicker : STRING,
     rNmsg : Seq(File), rPres : Seq(File), rSock : Seq(Address), rXs : Seq(Seq(STRING)),
     rChan : Seq(STRING), rXchan : Seq(STRING), rPcap : Seq(File), rIf : Seq(File),
     wNmsg : Seq(File), wPres : Seq(File), wSock : Seq(Address), wXs : Seq(Seq(STRING)),
     zlib : BOOLEAN, daemon : BOOLEAN, pidfile : BOOLEAN, user : STRING,
     unbuffered : BOOLEAN, set : IdNames, get : IdNames]

\* A line of a channel file.  A file is {lines}, or {} if it is not there.
Channel == [channel : STRING, addrs : Seq(Address)]

ASSUME EnvAssumption ==
    \A e \in Envs :
        /\ e.kicker \in STRING /\ e.xs \in BOOLEAN
        /\ e.opLines \in Seq(AliasLine) /\ e.grLines \in Seq(AliasLine)
        /\ \A lines \in e.chalias \cup e.chalias2 : lines \in Seq(Channel)

ASSUME ToolAssumption ==
    /\ Commands \subseteq Command
    /\ MaxSpan \in Nat /\ MaxPort \in Nat /\ MaxFd \in Nat \ {0, 1} /\ MaxStamp \in Nat
    /\ WbufMin \in Nat /\ WbufJumbo \in Nat /\ WbufMax \in Nat
    /\ WbufMin <= WbufJumbo /\ WbufJumbo <= WbufMax

VARIABLES
    cmd, env,   \* the command line and its environment
    phase,      \* where main() is
    todo,       \* what process_args() has still to do
    aliases,    \* alias_operator and alias_group
    ids,        \* sources, operators and groups to set and to filter by
    uid, cwd,   \* user and working directory: "root" or "user", "start" or "/"
    process,    \* "parent", or "child" after daemonize()
    pidfile,    \* [state, fd]: "none", "open" (and empty), or the process whose pid is in it
    fds,        \* descriptors: the object open there, or {}
    made,       \* history: for each object, who opened it and as which user
    names,      \* file system: [name, obj]
    stamp,      \* kickfile_time(): never the same twice
    inputs, outputs,
    stop,       \* io->stop
    written,    \* history: <<object, who wrote to it>>
    fates       \* history: what became of closed files

envVars == <<cmd, env>>
procVars == <<aliases, ids, uid, cwd, process, pidfile>>
fileVars == <<fds, made, names, stamp>>
ioVars == <<inputs, outputs, stop>>
histVars == <<written, fates>>
vars == <<envVars, phase, todo, procVars, fileVars, ioVars, histVars>>

The(S) == CHOOSE x \in S : TRUE

\* "-" is standard input or output.
Dash == [base |-> "-", abs |-> FALSE]

Init ==
    /\ cmd \in Commands /\ env \in Envs
    /\ phase = "start" /\ todo = <<>>
    /\ aliases = [operator |-> NoTable, group |-> NoTable]
    /\ ids = [set |-> <<0, 0, 0>>, get |-> <<0, 0, 0>>]
    /\ uid = "root" /\ cwd = "start" /\ process = "parent" /\ pidfile = [state |-> "none", fd |-> -1]
    /\ fds = [d \in 0..MaxFd |-> IF d <= 2 THEN {d + 1} ELSE {}]
    /\ made = [i \in 1..3 |-> [by |-> "shell", uid |-> "root"]]
    /\ names = {} /\ stamp = 0
    /\ inputs = <<>> /\ outputs = <<>> /\ stop = FALSE
    /\ written = {} /\ fates = {}

-----------------------------------------------------------------------------
(***************************************************************************)
(* Arguments                                                               *)
(***************************************************************************)
Usage == [op |-> "usage"]

\* -V defaults to "base" when there is a -T.
VName(c) == IF c.vname = "" /\ c.mname # "" THEN "base" ELSE c.vname

\* The -V, -T checks: names without the other, unknown names, and inputs that
\* need a module.
NamesBad(c) ==
    \/ VName(c) # "" /\ (c.mname = "" \/ VName(c) \notin Vendors)
    \/ c.mname # "" /\ c.mname \notin DOMAIN Modules
    \/ c.rPres \o c.rPcap \o c.rIf # <<>> /\ c.mname = ""

\* The kicker, from -k or NMSG_KICKER.  "none" is NULL; "" runs no command.
Kicker == IF cmd.kicker # "none" THEN cmd.kicker ELSE env.kicker

\* add_sock_input(), add_sock_output() and getsock() for one argument: a socket
\* for each port of the range.  A port past the largest wraps in htons().
SockItems(op, a) ==
    IF a.form # "ok" \/ a.lo > a.hi \/ a.hi - a.lo > MaxSpan THEN <<Usage>>
    ELSE [i \in 1..(a.hi - a.lo + 1) |->
            IF a.addr = "bad" \/ (op = "sock_out" /\ a.rate = "bad") \/ a.lo + i - 1 = 0 THEN Usage
            ELSE [op |-> op, port |-> (a.lo + i - 1) % (MaxPort + 1),
                  rate |-> IF op = "sock_in" \/ a.rate = "none" THEN {}
                           ELSE {IF a.freq = 0 THEN DefaultFreq ELSE a.freq}]]

\* munge_endpoint(): ",accept", ",connect", ",pubsub", ",pushpull", each kind at
\* most once.
XsItem(op, opts) ==
    LET dirs == SelectSeq(opts, LAMBDA o : o \in {"accept", "connect"})
        types == SelectSeq(opts, LAMBDA o : o \in {"pubsub", "pushpull"})
        default == IF op = "xs_in" THEN "accept" ELSE "connect"
    IN  IF Len(dirs) > 1 \/ Len(types) > 1 THEN [op |-> "fail"]
        ELSE [op |-> op, dir |-> IF dirs = <<>> THEN default ELSE dirs[1],
              type |-> IF types = <<>> THEN "pubsub" ELSE types[1]]

\* A channel (-C) stands for sockets, an xchannel (-X) for XS endpoints.
ChanItems(ch) ==
    LET found == ChaliasLookup(env.chalias, env.chalias2, ch)
        one(a) == IF a.form = "xs" THEN <<Usage>> ELSE SockItems("sock_in", a)
    IN  IF found \in {{}, {<<>>}} THEN <<Usage>>
        ELSE FlattenSeq([i \in DOMAIN The(found) |-> one(The(found)[i])])
XchanItems(ch) ==
    LET found == ChaliasLookup(env.chalias, env.chalias2, ch)
    IN  IF found \in {{}, {<<>>}} THEN <<Usage>>
        ELSE [i \in DOMAIN The(found) |-> XsItem("xs_in", The(found)[i].opts)]

Map(op, seq) == [i \in DOMAIN seq |-> [op |-> op, file |-> seq[i]]]
Only(cond, op) == IF cond THEN <<[op |-> op]>> ELSE <<>>
Each(Items(_), seq) == FlattenSeq([i \in DOMAIN seq |-> Items(seq[i])])

\* Mutant: the privileges are dropped last.
Script_DropLast(c) ==
    Map("if", c.rIf) \o Only(c.pidfile, "pidfile") \o Map("pcap", c.rPcap)
    \o Map("file_in", c.rNmsg) \o Map("file_out", c.wNmsg)
    \o Map("pres_in", c.rPres) \o Map("pres_out", c.wPres)
    \o Only(c.user # "none", "droproot") \o <<[op |-> "validate"]>>
    \o Only(c.daemon, "daemonize") \o Only(c.pidfile, "pid") \o <<[op |-> "signals"]>>

\* process_args() after the settings, in its order.
Script(c) ==
    LET sockIn(a) == SockItems("sock_in", a)
        sockOut(a) == SockItems("sock_out", a)
        xsIn(a) == <<XsItem("xs_in", a)>>
        xsOut(a) == <<XsItem("xs_out", a)>>
    IN  Map("if", c.rIf)
        \o Only(c.pidfile, "pidfile") \o Only(c.user # "none", "droproot")
        \o Map("pcap", c.rPcap)
        \o Only(c.rXs \o c.wXs \o c.rXchan # <<>>, "xs_init")
        \o Each(sockIn, c.rSock) \o Each(sockOut, c.wSock)
        \o Each(xsIn, c.rXs) \o Each(xsOut, c.wXs)
        \o Map("file_in", c.rNmsg) \o Map("file_out", c.wNmsg)
        \o Each(ChanItems, c.rChan) \o Each(XchanItems, c.rXchan)
        \o Map("pres_in", c.rPres) \o Map("pres_out", c.wPres)
        \o <<[op |-> "validate"]>>
        \o Only(c.daemon, "daemonize") \o Only(c.pidfile, "pid")
        \o <<[op |-> "signals"]>>

\* nmsg_init(), whose alias files may not parse and whose result is not looked
\* at, or may be broken beyond that.
Start ==
    /\ phase = "start"
    /\ LET t == AliasTables(env.opLines, env.grLines)
       IN  \/ /\ aliases' = [operator |-> t.operator, group |-> t.group]
              /\ phase' = IF t.res = "crash" THEN "crashed" ELSE "args"
           \/ phase' = "exited" /\ UNCHANGED aliases     \* no module directory
    /\ UNCHANGED <<envVars, todo, ids, uid, cwd, process, pidfile, fileVars, ioVars, histVars>>

\* An id given on the command line: a number (source) or a name.  {} crashes.
Resolve(kind, s) ==
    IF s = "" THEN {0}
    ELSE IF kind = "source" THEN {IF s = "bad" THEN -1 ELSE 5}
    ELSE LET k == ByValue(aliases[kind], s)
         IN  IF k = {0} THEN {-1} ELSE k

Kinds == <<"source", "operator", "group">>

\* usage(): what was opened so far is closed as at the end, then exit.
UsageExit == phase' = "ending" /\ stop' = TRUE

\* process_args() up to the first input.  The ids are looked up one by one; the
\* first that is unknown ends it, the first that has no table crashes.
Settings ==
    /\ phase = "args"
    /\ LET all == [i \in 1..6 |-> IF i <= 3 THEN Resolve(Kinds[i], cmd.set[i])
                                  ELSE Resolve(Kinds[i - 3], cmd.get[i - 3])]
           wrong == {i \in 1..6 : all[i] \in {{}, {-1}}}
       IN  \/ /\ cmd.help /\ UsageExit /\ UNCHANGED <<todo, ids>>
           \/ /\ ~cmd.help /\ NamesBad([cmd EXCEPT !.rPres = <<>>, !.rPcap = <<>>, !.rIf = <<>>])
              /\ UsageExit /\ UNCHANGED <<todo, ids>>
           \/ /\ ~cmd.help /\ ~NamesBad([cmd EXCEPT !.rPres = <<>>, !.rPcap = <<>>, !.rIf = <<>>])
              /\ \/ /\ wrong # {} /\ all[Min(wrong)] = {}
                    /\ phase' = "crashed" /\ UNCHANGED <<todo, ids, stop>>
                 \/ /\ (wrong # {} /\ all[Min(wrong)] = {-1}) \/ (wrong = {} /\ NamesBad(cmd))
                    /\ UsageExit /\ UNCHANGED <<todo, ids>>
                 \/ /\ wrong = {} /\ ~NamesBad(cmd)
                    /\ ids' = [set |-> [i \in 1..3 |-> The(all[i])],
                               get |-> [i \in 1..3 |-> The(all[i + 3])]]
                    /\ phase' = "setup" /\ todo' = Script(cmd) /\ UNCHANGED stop
    /\ UNCHANGED <<envVars, aliases, uid, cwd, process, pidfile, fileVars, inputs, outputs, histVars>>

-----------------------------------------------------------------------------
(***************************************************************************)
(* Inputs and outputs                                                      *)
(***************************************************************************)
\* One character of unescape().  "?" is a byte that is never stored.
Unescaped(r, c) ==
    IF r.escape
    THEN [escape |-> FALSE,
          out |-> Append(r.out, CASE c = "n" -> "newline" [] c = "t" -> "tab"
                                  [] c = "backslash" -> c [] OTHER -> "?")]
    ELSE IF c = "backslash" THEN [r EXCEPT !.escape = TRUE]
    ELSE [r EXCEPT !.out = Append(@, c)]

\* unescape() of the --endline argument, a sequence of characters that ends with
\* "NUL".
Unescape(str) ==
    LET chars == Append(str, "NUL")
        read[i \in 0..Len(chars)] ==
          IF i = 0 THEN [escape |-> FALSE, out |-> <<>>]
          ELSE Unescaped(read[i - 1], chars[i])
    IN  read[Len(chars)].out

EndlineStr == IF cmd.endline = <<>> THEN <<"newline", "NUL">> ELSE Unescape(cmd.endline)

\* The output that nmsg_output_open_file(), _sock(), _xs() or _pres() makes.
Opened(type) ==
    LET asked == CASE type = "file" -> WbufMax
                   [] type = "sock" -> IF cmd.mtu = 0 THEN WbufJumbo ELSE cmd.mtu
                   [] OTHER -> WbufJumbo
    IN  [bufsz |-> IF type = "pres" THEN 0 ELSE Min({WbufMax, Max({WbufMin, asked})}),
         sequence |-> type \in {"sock", "xs"}, buffered |-> TRUE, zlib |-> FALSE,
         ids |-> <<0, 0, 0>>,
         endline |-> IF type = "pres" THEN <<"newline", "NUL">> ELSE <<>>]

\* setup_nmsg_output(): the setters ignore outputs they are not meant for.
Setup(type, conf) ==
    IF type = "pres"
    THEN [conf EXCEPT !.buffered = ~cmd.unbuffered, !.endline = EndlineStr]
    ELSE [conf EXCEPT !.buffered = ~cmd.unbuffered, !.zlib = cmd.zlib, !.ids = ids.set]

\* Mutant: io_close() opens the next file and leaves the output as it is made.
ReopenedConf_Bare(type) == Opened(type)

\* The output that io_close() puts in the place of the one it closed.
ReopenedConf(type) == Setup(type, Opened(type))

\* setup_nmsg_input(), for streams alone; raw packets for modules that take them.
InputConf(op) ==
    [module |-> IF op \in {"sock_in", "xs_in", "file_in"} THEN cmd.mname ELSE "",
     ids |-> IF op \in {"sock_in", "xs_in", "file_in"} THEN ids.get ELSE <<0, 0, 0>>,
     byteRate |-> op = "file_in" /\ cmd.byteRate,
     raw |-> op \in {"if", "pcap"} /\ Modules[cmd.mname] = "pkt"]

\* A name as the program uses it, and the place in the file system it stands for.
Plain(file) == [base |-> file.base, abs |-> file.abs, part |-> FALSE, suffix |-> "", stamp |-> 0]
Located(n) ==
    [at |-> IF n.abs THEN "abs" ELSE cwd, base |-> n.base, part |-> n.part,
     suffix |-> n.suffix, stamp |-> n.stamp]

\* Mutant: the temporary name has no time in it.
TmpName_NoTime(file, t) == [Plain(file) EXCEPT !.part = TRUE]

\* kickfile_rotate(): the file is written under the first name, and has the second
\* once it is complete.
TmpName(file, t) == [Plain(file) EXCEPT !.part = TRUE, !.stamp = t]
CurName(file, suffix, t) == [Plain(file) EXCEPT !.suffix = suffix, !.stamp = t]

FreeFds == {d \in 0..MaxFd : fds[d] = {}}
FreeFd == Min(FreeFds)

\* A new socket, interface or file that is read.
NewObject(by) ==
    /\ FreeFds # {}
    /\ fds' = [fds EXCEPT ![FreeFd] = {Len(made) + 1}]
    /\ made' = Append(made, [by |-> by, uid |-> uid])

\* open_wfile(): the file of that name, or a new one.
OpenWfile(n) ==
    LET old == {e.obj : e \in {e \in names : e.name = Located(n)}}
        obj == IF old = {} THEN Len(made) + 1 ELSE The(old)
    IN  /\ FreeFds # {}
        /\ fds' = [fds EXCEPT ![FreeFd] = {obj}]
        /\ made' = IF old = {} THEN Append(made, [by |-> "output", uid |-> uid]) ELSE made
        /\ names' = names \cup {[name |-> Located(n), obj |-> obj]}

Item(ops) == phase = "setup" /\ todo # <<>> /\ Head(todo).op \in ops
Next1 == todo' = Tail(todo) /\ UNCHANGED <<phase, stop>>

\* nmsg_io_add_input(): the input has descriptor fd, or none (-1).
NewInput(fd) ==
    /\ inputs' = Append(inputs, [op |-> Head(todo).op, conf |-> InputConf(Head(todo).op),
                                 open |-> TRUE, fd |-> fd])
    /\ Next1
    /\ UNCHANGED <<envVars, procVars, names, stamp, outputs, histVars>>

\* The module has to take packets.
AddPcapifInput ==
    /\ Item({"if"}) /\ Modules[cmd.mname] # "text"
    /\ NewObject("interface") /\ NewInput(FreeFd)
AddPcapfileInput ==
    /\ Item({"pcap"}) /\ Modules[cmd.mname] # "text"
    /\ NewObject("input") /\ NewInput(FreeFd)

AddSockInput == Item({"sock_in"}) /\ NewObject("input") /\ NewInput(FreeFd)
AddXsockInput == Item({"xs_in"}) /\ UNCHANGED <<fds, made>> /\ NewInput(-1)

\* open_rfile()
OpenRfile(file) ==
    IF file = Dash THEN UNCHANGED <<fds, made>> /\ NewInput(0)
    ELSE NewObject("input") /\ NewInput(FreeFd)

AddFileInput == Item({"file_in"}) /\ OpenRfile(Head(todo).file)
AddPresInput == Item({"pres_in"}) /\ OpenRfile(Head(todo).file)

\* An output as nmsg_io_add_output() takes it.
NewOutput(type, file, kick, fd, conf, rate) ==
    [type |-> type, file |-> file, fd |-> fd, open |-> TRUE, step |-> "idle", rate |-> rate,
     conf |-> conf, stamp |-> IF kick THEN stamp + 1 ELSE 0,
     user |-> IF Kicker = "none" THEN "null" ELSE IF kick THEN "kick" ELSE "ignore"]

AddSockOutput ==
    /\ Item({"sock_out"})
    /\ outputs' = Append(outputs, NewOutput("sock", Dash, FALSE, FreeFd,
                                            Setup("sock", Opened("sock")), Head(todo).rate))
    /\ NewObject("output")
    /\ Next1
    /\ UNCHANGED <<envVars, procVars, names, stamp, inputs, histVars>>

AddXsockOutput ==
    /\ Item({"xs_out"})
    /\ outputs' = Append(outputs, NewOutput("xs", Dash, FALSE, -1, Setup("xs", Opened("xs")), {}))
    /\ Next1
    /\ UNCHANGED <<envVars, procVars, fds, made, names, stamp, inputs, histVars>>

\* add_file_output() and add_pres_output().  With a kicker "-" is a base name too.
AddWfile(type, file) ==
    LET kick == Kicker # "none"
        n == IF kick THEN TmpName(file, stamp + 1) ELSE Plain(file)
        dash == ~kick /\ file = Dash
    IN  /\ outputs' = Append(outputs, NewOutput(type, file, kick, IF dash THEN 1 ELSE FreeFd,
                                                Setup(type, Opened(type)), {}))
        /\ IF dash THEN UNCHANGED <<fds, made, names>> ELSE OpenWfile(n)
        /\ stamp' = IF kick THEN stamp + 1 ELSE stamp

AddFileOutput ==
    /\ Item({"file_out"})
    /\ AddWfile("file", Head(todo).file)
    /\ Next1
    /\ UNCHANGED <<envVars, procVars, inputs, histVars>>

AddPresOutput ==
    /\ Item({"pres_out"})
    /\ AddWfile("pres", Head(todo).file)
    /\ Next1
    /\ UNCHANGED <<envVars, procVars, inputs, histVars>>

\* "no data sources specified"; the implicit "-o -".
Validate ==
    /\ Item({"validate"})
    /\ \/ inputs = <<>> /\ UsageExit /\ UNCHANGED <<todo, fileVars, outputs>>
       \/ inputs # <<>> /\ outputs # <<>> /\ Next1 /\ UNCHANGED <<fileVars, outputs>>
       \/ inputs # <<>> /\ outputs = <<>> /\ AddWfile("pres", Dash) /\ Next1
    /\ UNCHANGED <<envVars, procVars, inputs, histVars>>

UsageItem ==
    /\ Item({"usage"}) /\ UsageExit
    /\ UNCHANGED <<envVars, todo, procVars, fileVars, inputs, outputs, histVars>>

\* The other ways out of process_args(): exit() as it stands.
ItemFails ==
    /\ phase = "setup" /\ todo # <<>>
    /\ Head(todo).op \notin {"pidfile", "validate", "usage", "pid"}
    /\ phase' = "exited"
    /\ UNCHANGED <<envVars, todo, procVars, fileVars, ioVars, histVars>>

-----------------------------------------------------------------------------
(***************************************************************************)
(* The process                                                             *)
(***************************************************************************)
\* pidfile_open(): it goes on without a pidfile if that fails.
PidfileOpen ==
    /\ Item({"pidfile"})
    /\ \/ NewObject("pidfile") /\ pidfile' = [state |-> "open", fd |-> FreeFd]
       \/ UNCHANGED <<fds, made, pidfile>>
    /\ Next1
    /\ UNCHANGED <<envVars, aliases, ids, uid, cwd, process, names, stamp, inputs, outputs, histVars>>

\* droproot().
DropRoot ==
    /\ Item({"droproot"})
    /\ uid' = "user" /\ Next1
    /\ UNCHANGED <<envVars, aliases, ids, cwd, process, pidfile, fileVars, inputs, outputs, histVars>>

\* xs_init(), if the program has libxs at all.
XsInit ==
    /\ Item({"xs_init"}) /\ env.xs
    /\ Next1
    /\ UNCHANGED <<envVars, procVars, fileVars, inputs, outputs, histVars>>

\* daemonize(): the child goes on.
Daemonize ==
    /\ Item({"daemonize"})
    /\ process' = "child" /\ cwd' = "/"
    /\ fds' = [d \in 0..MaxFd |-> IF d <= 2 THEN {} ELSE fds[d]]
    /\ Next1
    /\ UNCHANGED <<envVars, aliases, ids, uid, pidfile, made, names, stamp, inputs, outputs, histVars>>

\* pidfile_write().
PidfileWrite ==
    /\ Item({"pid"})
    /\ IF pidfile.state = "open"
       THEN /\ pidfile' = [state |-> process, fd |-> -1]
            /\ fds' = [fds EXCEPT ![pidfile.fd] = {}]
       ELSE UNCHANGED <<pidfile, fds>>
    /\ Next1
    /\ UNCHANGED <<envVars, aliases, ids, uid, cwd, process, made, names, stamp, inputs, outputs, histVars>>

\* setup_signals(), and nmsg_io_loop() starts.
Signals ==
    /\ Item({"signals"})
    /\ phase' = "running" /\ todo' = <<>>
    /\ UNCHANGED <<envVars, procVars, fileVars, ioVars, histVars>>

-----------------------------------------------------------------------------
(***************************************************************************)
(* The loop                                                                *)
(***************************************************************************)
\* What a write to a descriptor reaches, by an output or by something else: the
\* kicker's command, perror(), a log line.
Other == 0
Reached(fd, who) == IF fd < 0 THEN {} ELSE {<<obj, who>> : obj \in fds[fd]}

\* nmsg_output_write() by some thread, buffered or not.
Write(o) ==
    /\ phase = "running" /\ ~stop
    /\ outputs[o].open /\ outputs[o].step = "idle"
    /\ written' = written \cup Reached(outputs[o].fd, o)
    /\ UNCHANGED <<envVars, phase, todo, procVars, fileVars, ioVars, fates>>

Closed(fd) == IF fd < 0 THEN fds ELSE [fds EXCEPT ![fd] = {}]

\* An input at its end: io_close() for its thread.
InputEof(i) ==
    /\ phase = "running" /\ inputs[i].open
    /\ fds' = Closed(inputs[i].fd)
    /\ inputs' = [inputs EXCEPT ![i].open = FALSE]
    /\ UNCHANGED <<envVars, phase, todo, procVars, made, names, stamp, outputs, stop, histVars>>

\* io_close() for an output whose count or interval is up: closed for good, left
\* alone, or closed to be rotated.
CloseOutput(o) ==
    /\ phase = "running" /\ (cmd.count \/ cmd.interval)
    /\ \E i \in DOMAIN inputs : inputs[i].open
    /\ outputs[o].open /\ outputs[o].step = "idle"
    /\ \/ /\ outputs[o].user = "null" /\ stop' = TRUE
          /\ outputs' = [outputs EXCEPT ![o].open = FALSE]
       \/ /\ outputs[o].user = "kick" /\ UNCHANGED stop
          /\ stamp + Len(SelectSeq(outputs, LAMBDA x : x.step # "idle")) < MaxStamp
          /\ outputs' = [outputs EXCEPT ![o].step = "closed"]
    /\ fds' = Closed(outputs[o].fd)
    /\ UNCHANGED <<envVars, phase, todo, procVars, made, names, stamp, inputs, histVars>>

Suffix(type) == IF type = "file" THEN ".nmsg" ELSE ""

\* kickfile_exec(): rename, or unlink what cannot be renamed; then the command,
\* which has the program's descriptors 1 and 2.
KickfileExec(o) ==
    LET x == outputs[o]
        tmp == Located(TmpName(x.file, x.stamp))
        cur == Located(CurName(x.file, Suffix(x.type), x.stamp))
        found == {e \in names : e.name = tmp}
        objs == {e.obj : e \in found}
        fate(how) == {[obj |-> b, output |-> o, stamp |-> x.stamp, how |-> how] : b \in objs}
    IN  \/ /\ found # {}
           /\ names' = (names \ found) \cup {[name |-> cur, obj |-> b] : b \in objs}
           /\ fates' = fates \cup fate("handed")
           /\ written' = IF Kicker = "" THEN written
                         ELSE written \cup Reached(1, Other) \cup Reached(2, Other)
        \/ /\ found # {}
           /\ names' = names \ found
           /\ fates' = fates \cup fate("unlinked")
           /\ written' = written \cup Reached(2, Other)
        \/ /\ found = {}
           /\ UNCHANGED names
           /\ fates' = fates \cup {[obj |-> 0, output |-> o, stamp |-> x.stamp, how |-> "left"]}
           /\ written' = written \cup Reached(2, Other)

Exec(o) ==
    /\ outputs[o].step = "closed"
    /\ KickfileExec(o)
    /\ outputs' = [outputs EXCEPT ![o].step = IF phase = "ending" THEN "idle" ELSE "execed",
                                  ![o].open = phase # "ending"]
    /\ UNCHANGED <<envVars, phase, todo, procVars, fds, made, stamp, inputs, stop>>

\* The rest of io_close(): the next file, or exit() if it cannot be opened.
Reopen(o) ==
    /\ outputs[o].step = "execed"
    /\ LET x == outputs[o]
       IN  \/ /\ OpenWfile(TmpName(x.file, stamp + 1))
              /\ stamp' = stamp + 1
              /\ outputs' = [outputs EXCEPT ![o].step = "idle", ![o].stamp = stamp + 1,
                                            ![o].fd = FreeFd, ![o].conf = ReopenedConf(x.type)]
              /\ written' = IF cmd.debug THEN written \cup {<<obj, Other>> : obj \in fds'[2]}
                            ELSE written
              /\ UNCHANGED phase
           \/ /\ phase' = "exited" /\ UNCHANGED <<fileVars, outputs, written>>
    /\ UNCHANGED <<envVars, todo, procVars, inputs, stop, fates>>

\* nmsg_io_loop() is over, after a signal, a closed output or the last input;
\* main() removes the pidfile, if it still can.
LoopEnds ==
    /\ phase = "running"
    /\ \A o \in DOMAIN outputs : outputs[o].step = "idle"
    /\ phase' = "ending" /\ stop' = TRUE
    /\ \/ pidfile' = [pidfile EXCEPT !.state = "none"] \/ UNCHANGED pidfile
    /\ UNCHANGED <<envVars, todo, aliases, ids, uid, cwd, process, fileVars, inputs, outputs, histVars>>

\* nmsg_io_destroy(): the inputs, then each output in turn.
EndInputs ==
    /\ phase = "ending" /\ \E i \in DOMAIN inputs : inputs[i].open
    /\ fds' = [d \in 0..MaxFd |->
                 IF \E i \in DOMAIN inputs : inputs[i].open /\ inputs[i].fd = d THEN {} ELSE fds[d]]
    /\ inputs' = [i \in DOMAIN inputs |-> [inputs[i] EXCEPT !.open = FALSE]]
    /\ UNCHANGED <<envVars, phase, todo, procVars, made, names, stamp, outputs, stop, histVars>>

EndOutput(o) ==
    /\ phase = "ending" /\ \A i \in DOMAIN inputs : ~inputs[i].open
    /\ outputs[o].open /\ outputs[o].step = "idle"
    /\ \A p \in 1..(o - 1) : ~outputs[p].open
    /\ fds' = Closed(outputs[o].fd)
    /\ outputs' = IF outputs[o].user = "kick" THEN [outputs EXCEPT ![o].step = "closed"]
                  ELSE [outputs EXCEPT ![o].open = FALSE]
    /\ UNCHANGED <<envVars, phase, todo, procVars, made, names, stamp, inputs, stop, histVars>>

Exit ==
    /\ phase = "ending"
    /\ \A i \in DOMAIN inputs : ~inputs[i].open
    /\ \A o \in DOMAIN outputs : ~outputs[o].open
    /\ phase' = "exited"
    /\ UNCHANGED <<envVars, todo, procVars, fileVars, ioVars, histVars>>

Terminated == phase \in {"exited", "crashed"} /\ UNCHANGED vars

Next ==
    \/ Start \/ Settings
    \/ AddPcapifInput \/ AddPcapfileInput \/ AddSockInput \/ AddXsockInput
    \/ AddFileInput \/ AddPresInput
    \/ AddSockOutput \/ AddXsockOutput \/ AddFileOutput \/ AddPresOutput
    \/ Validate \/ UsageItem \/ ItemFails
    \/ PidfileOpen \/ DropRoot \/ XsInit \/ Daemonize \/ PidfileWrite \/ Signals
    \/ \E i \in DOMAIN inputs : InputEof(i)
    \/ \E o \in DOMAIN outputs : Write(o) \/ CloseOutput(o) \/ EndOutput(o)
    \/ \E o \in DOMAIN outputs : phase \in {"running", "ending"} /\ (Exec(o) \/ Reopen(o))
    \/ LoopEnds \/ EndInputs \/ Exit \/ Terminated

Spec == Init /\ [][Next]_vars
-----------------------------------------------------------------------------
(***************************************************************************)
(* Properties                                                              *)
(***************************************************************************)
Relative(o) == ~outputs[o].file.abs

\* An output that can be written to is set up as the command line says, however
\* often its file was rotated by io_close(): its payloads carry the operator and
\* group that were named, it is rotated if and only if there is a kicker, and the
\* --endline string has an end, unless the argument ends with a backslash.
SettingsKept ==
    \A o \in DOMAIN outputs :
        LET x == outputs[o]
        IN  x.open /\ x.step = "idle" =>
              /\ x.conf.buffered = ~cmd.unbuffered
              /\ (x.user = "null") = (Kicker = "none")
              /\ x.type # "pres" =>
                   /\ x.conf.zlib = cmd.zlib /\ x.conf.bufsz \in WbufMin..WbufMax
                   /\ \A k \in 2..3 : IF cmd.set[k] = "" THEN x.conf.ids[k] = 0
                                      ELSE ByKey(aliases[Kinds[k]], x.conf.ids[k]) = cmd.set[k]
              /\ x.type = "pres" /\ (cmd.endline # <<>> => Last(cmd.endline) # "backslash") =>
                   "NUL" \in Range(x.conf.endline)

\* A file that kickfile_exec() has handed to the command is under its final name
\* and will not change: no descriptor is open on it, and all that is in it came
\* from its own output, unless descriptors are closed behind the program's back: by
\* daemonize(), or by two inputs on standard input, each of which closes it.  A file
\* is not handed over only if the system refused the rename, or a daemon left its
\* directory.
StdinTwice ==
    \E i, j \in DOMAIN inputs : i # j /\ inputs[i].fd = 0 /\ inputs[j].fd = 0
HandedOver ==
    \A f \in fates :
        /\ f.how = "handed" =>
             /\ \E e \in names : e.obj = f.obj /\ ~e.name.part /\ e.name.stamp = f.stamp
             /\ \A d \in 0..MaxFd : f.obj \notin fds[d]
             /\ \A w \in written : w[1] = f.obj => cmd.daemon \/ StdinTwice \/ w[2] = f.output
        /\ f.how = "left" => cmd.daemon /\ Relative(f.output)

\* With -U, whatever process_args() opens but for interfaces and the pidfile is
\* opened by that user, and the pidfile holds the pid of the process that runs.
RunsAsAsked ==
    /\ cmd.user # "none" /\ phase \in {"setup", "running"} =>
         \A b \in DOMAIN made :
             made[b].uid = "user" \/ made[b].by \in {"shell", "pidfile", "interface"}
    /\ phase = "running" => uid = (IF cmd.user = "none" THEN "root" ELSE "user")
    /\ phase = "running" => pidfile.state \in {"none", process}

\* Up to its first bad line every name of an alias file is there, whatever the
\* keys before it did to the size of the array; the program fails on one only when
\* the operator file has a bad line or a key is one of the three largest unsigned
\* numbers, at which alias_resize() wraps.
AliasesUsable ==
    LET good(lines) == {i \in DOMAIN lines : \A j \in 1..i : lines[j] # BadLine}
        kept(al, lines) ==
          \A i \in good(lines) :
              (\A j \in good(lines) : j > i => lines[j].key # lines[i].key)
              => ByKey(al, lines[i].key) = lines[i].name
        huge(lines) == \E i \in DOMAIN lines : lines[i].key + 3 > UIntMax
        whole == good(env.opLines) = DOMAIN env.opLines
    IN  /\ phase = "crashed" => ~whole \/ huge(env.opLines) \/ huge(env.grLines)
        /\ phase \in {"setup", "running"} /\ ~huge(env.opLines) /\ ~huge(env.grLines) =>
             /\ kept(aliases.operator, env.opLines)
             /\ whole => kept(aliases.group, env.grLines)
=============================================================================
