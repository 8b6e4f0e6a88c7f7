------------------------------- MODULE NmsgPres -------------------------------
(***************************************************************************)
(* The presentation form of a message: how a transparent module prints the *)
(* fields of a message (msgmod/transparent_payload.c) and reads them back, *)
(* line by line, into a closure (msgmod/transparent_pres.c).               *)
(*                                                                         *)
(* A word is what a value is printed as, up to the next space; a line has  *)
(* a key and words.  Lines of a multiline string have no key.              *)
(***************************************************************************)
EXTENDS NmsgMsgmod

CONSTANTS
    Short,      \* 2^16 in the code: values of uint16_t
    Word        \* 2^32 in the code: values of uint32_t

ASSUME WidthAssumption == Short \in Nat \ {0} /\ Word \in Nat \ {0}

W(sort, n) == [sort |-> sort, n |-> n]
Num(n) == <<W("num", n)>>
Odd == <<W("odd", 0)>>           \* "<BYTE ARRAY LEN=4>" and the like
NullText == <<W("word", 0)>>     \* "(null)"
Null == <<W("null", 0)>>         \* a byte array without data

Line(key, words) == [key |-> key, words |-> words]
Blank == Line("", <<>>)
Dot == Line("", <<W("dot", 0)>>)
Scrap == Line("", Odd)           \* what is left in a buffer, or "(null)."

Label(mod, f) == mod.plugin.labels[f.name]
HasDescr(mod, f) == f.name \in DOMAIN mod.plugin.labels

IsNumber(f) ==
    f.type \in {"enum", "bool", "uint16", "int16", "uint32", "int32", "int64", "double"}
ZeroValue(f) == IF IsNumber(f) THEN Num(0) ELSE Null

FieldNamed(mod, name) == CHOOSE f \in FieldSet(mod.plugin) : f.name = name

\* The protobuf message as calloc() leaves it: a required field is there and
\* zero, the others are absent.
ZeroMessage(mod) ==
    [name \in DOMAIN mod.plugin.labels |->
        IF mod.plugin.labels[name] = "required"
        THEN <<IF \E f \in FieldSet(mod.plugin) : f.name = name
               THEN ZeroValue(FieldNamed(mod, name)) ELSE Null>>
        ELSE <<>>]

-----------------------------------------------------------------------------
(***************************************************************************)
(* From the message to the text                                            *)
(***************************************************************************)
Signed(n, width) == IF n >= width \div 2 THEN n - width ELSE n

\* The words that _nmsg_message_payload_to_pres_load() prints for a value v.
Shown(f, v) ==
    CASE f.type = "string" -> IF v = Null THEN NullText ELSE v
      [] f.type = "enum"   -> IF v[1].n \in f.values THEN <<W("name", v[1].n)>> ELSE Odd
      [] f.type = "ip"     -> IF v # <<>> /\ v[1].sort = "ip" THEN v ELSE Odd
      [] f.type = "uint16" -> Num(v[1].n % Short)
      [] f.type = "int16"  -> Num(Signed(v[1].n % Short, Short))
      [] f.type = "int32"  -> Num(Signed(v[1].n, Word))
      [] f.type \in {"uint32", "int64", "double"} -> Num(v[1].n)
      [] f.type = "bool"   -> <<W("name", v[1].n)>>
      [] OTHER             -> Odd

\* ncap_print_payload(): it never fails; a payload it cannot decode is printed as
\* an error.
NcapPrinter(f) == <<Line(f.name, Odd)>>

\* The printers of dns: those of names print nothing without data, that of rdata
\* needs the type and the class of the record.
PrinterFails(f, c) == f.print = "rdata" /\ (c["rrtype"] = <<>> \/ c["rrclass"] = <<>>)
Printer(f, v) ==
    IF f.print = "ncap" THEN NcapPrinter(f)
    ELSE IF f.print = "name" /\ v = Null THEN <<>> ELSE <<Line(f.name, Odd)>>

\* _nmsg_message_payload_to_pres_load(): the lines of one value.
PresLoad(f, v) ==
    IF f.print # "none" THEN Printer(f, v)
    ELSE IF f.type = "mlstring"
         THEN <<Line(f.name, <<>>)>> \o (IF v = Null THEN <<Scrap>> ELSE Append(v, Dot))
    ELSE <<Line(f.name, Shown(f, v))>>

\* The lines of all the values of a field.
ValueLines(f, vs) ==
    LET lines[i \in 0..Len(vs)] == IF i = 0 THEN <<>> ELSE lines[i - 1] \o PresLoad(f, vs[i])
    IN  lines[Len(vs)]

Printed(f) == ~f.hidden /\ ~f.noprint

\* The values that are printed: those a getter computes (got), or the message's.
Values(f, c, got) == IF f.get THEN got[f.name] ELSE c[f.name]

\* The lines of all the fields, in the order of the plugin's table.
FieldLines(mod, c, got) ==
    LET fields == mod.plugin.fields
        lines[i \in 0..Len(mod.fields)] ==
            IF i = 0 THEN <<>>
            ELSE IF Printed(fields[i])
                 THEN lines[i - 1] \o ValueLines(fields[i], Values(fields[i], c, got))
            ELSE lines[i - 1]
    IN  lines[Len(mod.fields)]

\* _nmsg_message_payload_to_pres(): {} or the text of message object c.
PayloadToPres(mod, c, got) ==
    IF \E i \in DOMAIN mod.fields :
         LET f == mod.plugin.fields[i]
         IN  Printed(f) /\ Values(f, c, got) # <<>> /\ PrinterFails(f, c)
    THEN {}
    ELSE {FieldLines(mod, c, got)}

-----------------------------------------------------------------------------
(***************************************************************************)
(* From the text to the message                                            *)
(***************************************************************************)

\* _nmsg_msgmod_module_init(): a string buffer has no memory until it is used.
NewClosure(mod) ==
    [pbuf |-> {}, mode |-> "keyval", field |-> "",
     strbufs |-> [name \in DOMAIN mod.plugin.labels |-> [alloc |-> FALSE, lines |-> <<>>]]]

Result(res, cl) == [res |-> res, clos |-> cl]

\* "find the field named by this key": without one, the last field is left.
FieldForKey(mod, key) ==
    LET i == LeastOr0({j \in DOMAIN mod.fields : /\ HasDescr(mod, mod.fields[j])
                                                 /\ mod.fields[j].name = key})
    IN  mod.fields[IF i = 0 THEN Len(mod.fields) ELSE i]

\* _nmsg_msgmod_pres_to_payload_load() for a value of one line: {} if it cannot
\* be read.  uint16_t takes no negative number, int16_t any; wider types wrap.
ParsedNumber(f, n) ==
    CASE f.type = "uint16" -> IF n \in 0..(Short - 1) THEN {Num(n)} ELSE {}
      [] f.type = "int16"  -> IF n < Short \div 2 THEN {Num(n % Short)} ELSE {}
      [] f.type \in {"uint32", "int32"} -> {Num(n % Word)}
      [] OTHER             -> {Num(n)}
Parsed(f, w) ==
    CASE f.type = "string" -> {<<w>>}
      [] f.type = "enum"   -> IF w.sort = "name" /\ w.n \in f.values THEN {Num(w.n)} ELSE {}
      [] f.type = "ip"     -> IF w.sort = "ip" THEN {<<w>>} ELSE {}
      [] OTHER             -> IF w.sort = "num" THEN ParsedNumber(f, w.n) ELSE {}

\* bool and bytes are "NOT IMPLEMENTED": assert(0).
NotImplemented(f) == f.type \in {"bool", "bytes"}

\* A value of one line.  A repeated field has its new element before the value
\* is known to be good.
LoadValue(mod, cl, c, f, words) ==
    LET old == IF Label(mod, f) = "repeated" THEN c[f.name] ELSE <<>>
        with(v) == [cl EXCEPT !.pbuf = {[c EXCEPT ![f.name] = Append(old, v)]}]
        started == IF Label(mod, f) = "repeated" THEN with(ZeroValue(f))
                   ELSE [cl EXCEPT !.pbuf = {c}]
    IN  IF words = <<>> THEN Result("parse_error", [cl EXCEPT !.pbuf = {c}])
        ELSE IF NotImplemented(f) THEN Result("abort", cl)
        ELSE IF Parsed(f, words[1]) = {} THEN Result("parse_error", started)
        ELSE Result("success", with(CHOOSE v \in Parsed(f, words[1]) : TRUE))

\* A line of a multiline string; "." ends it.
LoadLine(cl, c, line) ==
    LET name == cl.field
        sb == cl.strbufs[name]
    IN  IF line = Dot
        THEN [cl EXCEPT !.mode = "keyval",
                        !.pbuf = {[c EXCEPT ![name] =
                                       <<IF sb.alloc THEN sb.lines ELSE Null>>]}]
        ELSE [cl EXCEPT !.pbuf = {c},
                        !.strbufs[name] = [alloc |-> TRUE, lines |-> Append(sb.lines, line)]]

\* _nmsg_msgmod_pres_to_payload(): one line.
PresToPayload(mod, cl, line) ==
    LET c == IF cl.pbuf = {} THEN ZeroMessage(mod) ELSE CHOOSE x \in cl.pbuf : TRUE
        f == FieldForKey(mod, line.key)
        now == [cl EXCEPT !.pbuf = {c}, !.mode = IF cl.pbuf = {} THEN "keyval" ELSE @]
    IN  IF now.mode = "multiline" THEN Result("success", LoadLine(now, c, line))
        ELSE IF line = Blank THEN Result("pbuf_ready", now)
        ELSE IF mod.fields = <<>> THEN Result("abort", now)
        ELSE IF ~HasDescr(mod, f) THEN Result("parse_error", now)
        ELSE IF f.type = "mlstring"
             THEN Result("success", [now EXCEPT !.mode = "multiline", !.field = f.name])
        ELSE LoadValue(mod, now, c, f, line.words)

Multiline(mod, c) ==
    {f.name : f \in {g \in FieldSet(mod.plugin) : /\ g.type = "mlstring"
                                                  /\ HasDescr(mod, g) /\ c[g.name] # <<>>}}

\* Mutant: the buffers of multiline strings are not reset.
AfterFinalize_Keep(mod, cl, c) == [cl EXCEPT !.pbuf = {}]

\* What _nmsg_msgmod_pres_to_payload_finalize() leaves for the next message.
AfterFinalize(mod, cl, c) ==
    [cl EXCEPT !.pbuf = {},
               !.strbufs = [name \in DOMAIN @ |->
                               IF name \in Multiline(mod, c)
                               THEN [alloc |-> TRUE, lines |-> <<>>] ELSE @[name]]]

\* _nmsg_msgmod_pres_to_payload_finalize(): the terminating null that is added
\* to a multiline string is not there when the string is empty.
Finalize(mod, cl, c) ==
    [res |-> IF \E name \in Multiline(mod, c) : c[name] = <<Null>> THEN "abort" ELSE "success",
     content |-> [name \in DOMAIN c |->
                     IF name \in Multiline(mod, c) /\ c[name] = <<<<>>>> THEN <<<<Scrap>>>>
                     ELSE c[name]],
     clos |-> AfterFinalize(mod, cl, c)]

-----------------------------------------------------------------------------
\* A text that can be read back: fields of the message alone, each printed in a
\* form that the reader knows.
ReadableValue(f, v) ==
    CASE f.type = "mlstring" -> v \notin {Null, <<>>} /\ \A i \in DOMAIN v : v[i] # Dot
      [] f.type = "string"   -> Len(v) = 1 /\ v # Null
      [] OTHER               -> Shown(f, v) # Odd
Readable(mod, c) ==
    \A f \in FieldSet(mod.plugin) :
        Printed(f) => /\ ~f.get /\ f.print = "none" /\ f.type \notin {"bool", "bytes"}
                      /\ \A i \in DOMAIN c[f.name] : ReadableValue(f, c[f.name][i])
=============================================================================
