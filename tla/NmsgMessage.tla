----------------------------- MODULE NmsgMessage -----------------------------
(***************************************************************************)
(* Message objects (msgmod/message.c, msgmod/transparent_message.c): a     *)
(* message has a payload in wire form (np), a decoded message object that  *)
(* is made when it is needed (message), and the flag "updated" that says   *)
(* the object is newer than the payload.  Programs create, read, change    *)
(* and write messages; writing hands np to the output and takes it away.   *)
(*                                                                         *)
(* The text that a presentation output writes is read by a presentation    *)
(* input (input_pres.c) with a closure of its own.                         *)
(*                                                                         *)
(* {} stands for NULL, a set of one element for the object.                *)
(***************************************************************************)
EXTENDS NmsgBase

CONSTANTS
    Handles,        \* variables of the program that hold a message
    Inits,          \* modules of the messages a program makes: [vid, msgtype]
    Received,       \* payloads that arrive: [vid, msgtype, content]
    Captured,       \* contents that ipdg_to_payload and pkt_to_payload make
    Settings,       \* [mname, name, idx, value] that the program may set
    Sources,        \* what it may set as source
    ReaderModule,   \* [vname, mname] of the presentation input
    MaxOps,         \* bound: operations on messages
    MaxTexts        \* bound: messages written as text

ASSUME BoundAssumption == MaxOps \in Nat /\ MaxTexts \in Nat

VARIABLES
    msgs,       \* the message of each handle
    lastWrite,  \* history: what the last write was to write, and what it wrote
    texts,      \* history: the texts written for the reader, and if readable
    input,      \* lines of text not yet read
    reader,     \* closure of the presentation input
    ended,      \* how reading ended: "no", "parse_error", "abort"
    delivered,  \* messages that the reader has returned
    ops         \* operations so far

msgVars == <<msgs, lastWrite, ops>>
presVars == <<texts, input, reader, ended, delivered>>
vars == <<modVars, msgVars, presVars>>

The(S) == CHOOSE x \in S : TRUE

\* A payload that protobuf_c_message_unpack() cannot decode.
Garbage == [name \in {} |-> <<>>]

Transparent(mod) == mod # {} /\ The(mod).plugin.type = "transparent"

Init ==
    /\ ModInit
    /\ msgs = [h \in Handles |-> {}]
    /\ lastWrite = {} /\ texts = <<>> /\ input = <<>> /\ reader = {}
    /\ ended = "no" /\ delivered = <<>> /\ ops = 0

-----------------------------------------------------------------------------
(***************************************************************************)
(* Making messages                                                         *)
(***************************************************************************)

\* _nmsg_message_init_payload(): no payload yet, no source, the time of now.
EmptyPayload == [payload |-> {}, source |-> 0]

\* view and source are history: what the program may expect to be written;
\* spoiled says why it may not ("dup", "compact", "failed").
NewMessage(mod, message, np) ==
    [mod |-> mod, message |-> message, np |-> np, updated |-> FALSE, priv |-> {},
     stale |-> FALSE, view |-> {}, source |-> 0, spoiled |-> {}]

Step == phase = "ready" /\ ops < MaxOps /\ ops' = ops + 1 /\ UNCHANGED modVars

Holds(h, m) == msgs' = [msgs EXCEPT ![h] = {m}]

Quiet == UNCHANGED <<lastWrite, presVars>>

\* nmsg_message_init(): the object is all zero; the payload is not made yet.
MessageInit(h) ==
    /\ Step /\ msgs[h] = {}
    /\ \E r \in Inits : \E mod \in Lookup(r.vid, r.msgtype) :
         Holds(h, NewMessage({mod},
                             IF mod.plugin.type = "transparent" THEN {ZeroMessage(mod)} ELSE {},
                             {EmptyPayload}))
    /\ Quiet

\* A message around a payload: what it holds is what is expected of it, if it
\* can be decoded.
Around(mod, content) ==
    [NewMessage(mod, {}, {[payload |-> {content}, source |-> 0]})
     EXCEPT !.view = IF content = Garbage THEN {} ELSE {content}]

\* _nmsg_message_from_payload(): a module that loads messages decodes them at
\* once, and nmsg_message_get_payload() asserts that it can be done.
FromPayload(h) ==
    /\ phase = "ready" /\ ops < MaxOps /\ ops' = ops + 1 /\ msgs[h] = {}
    /\ \E r \in Received :
         LET mod == Lookup(r.vid, r.msgtype)
             m == Around(mod, r.content)
             loads == mod # {} /\ The(mod).plugin.load
         IN  IF loads /\ (r.content = Garbage \/ NcapAsserts(r.content))
             THEN phase' = "aborted" /\ UNCHANGED msgs
             ELSE /\ Holds(h, IF loads
                              THEN [m EXCEPT !.message = {r.content}, !.priv = NcapLoad(r.content)]
                              ELSE m)
                  /\ UNCHANGED phase
    /\ UNCHANGED <<dirents, plugins, loadRes, vendors, described, loaded>> /\ Quiet

\* nmsg_message_from_raw_payload(), from a captured packet: msg_load is not
\* called.
FromRawPayload(h) ==
    /\ Step /\ msgs[h] = {}
    /\ \E r \in Captured : Holds(h, Around(Lookup(r.vid, r.msgtype), r.content))
    /\ Quiet

\* _nmsg_message_dup(): neither "updated" nor the private data is copied.
Dup(h) ==
    /\ Step
    /\ \E m \in msgs[h], g \in Handles :
         /\ msgs[g] = {}
         /\ Holds(g, [NewMessage(m.mod, IF Transparent(m.mod) THEN m.message ELSE {}, m.np)
                      EXCEPT !.view = m.view, !.source = m.source,
                             !.spoiled = IF m.updated /\ m.np # {} THEN m.spoiled \cup {"dup"}
                                         ELSE m.spoiled])
    /\ Quiet

\* nmsg_message_destroy()
Destroy(h) ==
    /\ Step /\ msgs[h] # {}
    /\ msgs' = [msgs EXCEPT ![h] = {}]
    /\ Quiet

-----------------------------------------------------------------------------
(***************************************************************************)
(* Reading and changing messages                                           *)
(***************************************************************************)

\* _nmsg_message_deserialize() succeeds, and the message object it leaves.
Decodes(m) ==
    \/ m.message # {}
    \/ m.np # {} /\ m.mod # {} /\ \E np \in m.np : np.payload \notin {{}, {Garbage}}
Decoded(m) == IF m.message # {} THEN m.message ELSE The(m.np).payload

\* nmsg_message_get_field_by_idx() and nmsg_message_get_payload(): all they
\* change is that the object is there.
GetField(h) ==
    /\ Step
    /\ \E m \in msgs[h] :
         /\ Transparent(m.mod) /\ Decodes(m)
         /\ Holds(h, [m EXCEPT !.message = Decoded(m)])
    /\ Quiet

\* Mutant: the object is changed and "updated" is not set.
Changed_Silent(m, c) == [m EXCEPT !.message = {c}]

\* nmsg_message_set_field_by_idx(), past its checks: c is the object then.
Changed(m, c) == [m EXCEPT !.message = {c}, !.updated = TRUE]

\* The private data of ncap points into the payload.
Touches(m, name) == m.stale \/ (m.priv # {} /\ name = "payload")

\* The values of a field once the one with index idx is v.
SetAt(vs, idx, v) == IF idx = Len(vs) THEN Append(vs, v) ELSE [vs EXCEPT ![idx + 1] = v]

\* Indices that can be set: one more than a repeated field has makes it longer.
Settable(mod, f, c, idx) ==
    IF Label(mod, f) = "repeated" THEN idx <= Len(c[f.name]) ELSE idx = 0

\* A length that is not that of an address; the field is there all the same.
BadLength(f, v) == f.type = "ip" /\ (v = <<>> \/ v[1].sort # "ip")
Present(f, vs, idx) == IF idx = Len(vs) THEN Append(vs, ZeroValue(f)) ELSE vs

\* The change is what the program expects; without one it expects the object.
Expect(m, c, name, vs) ==
    IF m.view = {} THEN {[c EXCEPT ![name] = vs]}
    ELSE {[w EXCEPT ![name] = vs] : w \in m.view}

SetField(h) ==
    /\ Step
    /\ \E m \in msgs[h], s \in Settings :
         /\ Transparent(m.mod) /\ Decodes(m)
         /\ The(m.mod).plugin.mname = s.mname
         /\ LET mod == The(m.mod)
                c == The(Decoded(m))
                i == FieldIdx(mod, s.name)
                f == mod.fields[i]
            IN  /\ i # 0 /\ ~f.get /\ ~f.hidden
                /\ \/ /\ ~Settable(mod, f, c, s.idx)
                      /\ Holds(h, Changed(m, c))
                   \/ /\ Settable(mod, f, c, s.idx) /\ BadLength(f, s.value)
                      /\ Holds(h, [Changed(m, [c EXCEPT ![s.name] = Present(f, @, s.idx)])
                                   EXCEPT !.spoiled = m.spoiled \cup {"failed"}])
                   \/ /\ Settable(mod, f, c, s.idx) /\ ~BadLength(f, s.value)
                      /\ LET vs == SetAt(c[s.name], s.idx, s.value)
                         IN  Holds(h, [Changed(m, [c EXCEPT ![s.name] = vs])
                                       EXCEPT !.view = Expect(m, c, s.name, vs),
                                              !.stale = Touches(m, s.name)])
    /\ Quiet

\* nmsg_message_update(), after a change to what nmsg_message_get_payload()
\* returned, or without one.
Update(h) ==
    /\ Step
    /\ \E m \in msgs[h] : Holds(h, [m EXCEPT !.updated = TRUE])
    /\ Quiet

\* nmsg_message_set_source(), and likewise operator and group: they are in np.
SetSource(h) ==
    /\ Step
    /\ \E m \in msgs[h] : \E np \in m.np, s \in Sources :
         Holds(h, [m EXCEPT !.np = {[np EXCEPT !.source = s]}, !.source = s])
    /\ Quiet

\* nmsg_message_compact_payload(): the object goes, with changes not yet in np.
Compact(h) ==
    /\ Step
    /\ \E m \in msgs[h] :
         /\ m.message # {}
         /\ Holds(h, [m EXCEPT !.message = {}, !.stale = m.priv # {},
                               !.spoiled = IF m.updated \/ m.np = {}
                                           THEN m.spoiled \cup {"compact"} ELSE m.spoiled])
    /\ Quiet

-----------------------------------------------------------------------------
(***************************************************************************)
(* Writing messages                                                        *)
(***************************************************************************)

\* _nmsg_message_serialize(): the object is packed when it is newer than np, or
\* when there is no np, as after a write.
Serialized(m) ==
    IF m.message # {} /\ (m.updated \/ m.np = {})
    THEN [m EXCEPT !.np = {[payload |-> m.message,
                            source |-> IF m.np = {} THEN 0 ELSE The(m.np).source]},
                   !.updated = FALSE]
    ELSE m

\* nmsg_output_write() to an output whose filter the message does not pass, or
\* whose container is full.
WriteNothing(h) ==
    /\ Step
    /\ \E m \in msgs[h] : Holds(h, Serialized(m))
    /\ Quiet

\* nmsg_output_write() to a stream: nmsg_container_add() detaches np.
Write(h) ==
    /\ Step
    /\ \E m \in msgs[h] :
         LET s == Serialized(m)
         IN  /\ s.np # {}
             /\ lastWrite' = {[want |-> m.view, got |-> The(s.np).payload,
                               wantSource |-> m.source, gotSource |-> The(s.np).source,
                               spoiled |-> m.spoiled]}
             /\ Holds(h, [s EXCEPT !.np = {}, !.source = 0])
    /\ UNCHANGED presVars

\* The values that a pointer to freed or uninitialized memory may yield.
Junk == {Null, <<W("ip", 7)>>}

\* nmsg_output_write() to a presentation output: _output_pres_write().  The text
\* of a message that cannot be printed is left out, and success returned.  The
\* body of each message of ReaderModule is also put where the reader finds it.
WritePres(h) ==
    /\ Step /\ Len(texts) < MaxTexts
    /\ \E m \in msgs[h], junk \in Junk :
         LET s == Serialized(m)
             c == The(Decoded(s))
             mod == The(s.mod)
             got == GetterValues(mod, c, IF s.stale THEN {} ELSE s.priv, junk)
             body == PayloadToPres(mod, c, got)
             ours == mod.plugin.vname = ReaderModule.vname
                     /\ mod.plugin.mname = ReaderModule.mname
             printed == Transparent(s.mod) /\ Decodes(s)
         IN  /\ s.np # {}
             /\ Holds(h, IF printed THEN [s EXCEPT !.message = {c}] ELSE s)
             /\ IF printed /\ body # {} /\ ours
                THEN /\ texts' = Append(texts, [text |-> The(body), readable |-> Readable(mod, c)])
                     /\ input' = Append(input \o The(body), Blank)
                ELSE UNCHANGED <<texts, input>>
    /\ UNCHANGED <<lastWrite, reader, ended, delivered>>

-----------------------------------------------------------------------------
(***************************************************************************)
(* Reading text                                                            *)
(***************************************************************************)
ReaderMod == LookupByname(ReaderModule.vname, ReaderModule.mname)

\* nmsg_input_open_pres()
OpenPres ==
    /\ phase = "ready" /\ reader = {} /\ Transparent(ReaderMod)
    /\ reader' = {NewClosure(The(ReaderMod))}
    /\ UNCHANGED <<modVars, msgVars, texts, input, ended, delivered>>

\* One line of _input_pres_read().  An error ends the reading: the thread of
\* nmsg_io that reads stops.
ReadPres ==
    /\ reader # {} /\ ended = "no" /\ input # <<>>
    /\ LET mod == The(ReaderMod)
           r == PresToPayload(mod, The(reader), Head(input))
       IN  \/ /\ r.res = "success"
              /\ reader' = {r.clos} /\ UNCHANGED <<ended, delivered>>
           \/ /\ r.res \in {"parse_error", "abort"}
              /\ reader' = {r.clos} /\ ended' = r.res /\ UNCHANGED delivered
           \/ /\ r.res = "pbuf_ready"
              /\ LET fin == Finalize(mod, r.clos, The(r.clos.pbuf))
                 IN  \/ /\ fin.res = "success"
                        /\ reader' = {fin.clos}
                        /\ delivered' = Append(delivered, fin.content) /\ UNCHANGED ended
                     \/ /\ fin.res = "abort"
                        /\ ended' = "abort" /\ UNCHANGED <<reader, delivered>>
    /\ input' = Tail(input)
    /\ UNCHANGED <<modVars, msgVars, texts>>

MessageNext ==
    \E h \in Handles :
        \/ MessageInit(h) \/ FromPayload(h) \/ FromRawPayload(h) \/ Dup(h) \/ Destroy(h)
        \/ GetField(h) \/ SetField(h) \/ Update(h) \/ SetSource(h) \/ Compact(h)
        \/ WriteNothing(h) \/ Write(h) \/ WritePres(h)

Next ==
    \/ ModNext /\ UNCHANGED <<msgVars, presVars>>
    \/ MessageNext
    \/ OpenPres \/ ReadPres

Spec == Init /\ [][Next]_vars

-----------------------------------------------------------------------------
(***************************************************************************)
(* Properties                                                              *)
(***************************************************************************)

\* However a message was made, read, changed, printed, written and used again,
\* the payload that nmsg_output_write() hands on is the one the program built,
\* with the source it gave.  Lost is only a change made before the message was
\* duplicated or compacted, and what a call that failed has done.
WrittenIsCurrent ==
    \A w \in lastWrite :
        w.spoiled = {} => /\ w.want # {} => w.got = w.want
                          /\ w.gotSource = w.wantSource

\* "nmsg_output, when writing nmsg_messages, needs to synchronize the ->message
\* object (if it is non-NULL) with the ->np object" (nmsg/private.h:350): also
\* when the message is the duplicate that mirroring makes for each output.
WriteSynchronizes ==
    \A w \in lastWrite : w.spoiled \subseteq {"dup"} => (w.want # {} => w.got = w.want)

\* Messages that were printed in a form the reader knows come back from the
\* text one by one, with the same text, whatever was read before them: nothing
\* but a text it cannot read ends the reading or puts it out of step.
TextReadsBack ==
    /\ ended # "no" => \E i \in DOMAIN texts : ~texts[i].readable
    /\ \A i \in DOMAIN delivered :
         (\A j \in 1..i : texts[j].readable) =>
             LET mod == The(ReaderMod)
             IN  PayloadToPres(mod, delivered[i], [name \in {} |-> <<>>]) = {texts[i].text}
=============================================================================
