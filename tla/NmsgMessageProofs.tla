--------------------------- MODULE NmsgMessageProofs ---------------------------
(***************************************************************************)
(* What is written is what the program built (WrittenIsCurrent), and every *)
(* module that has been loaded is found (ModulesFound).                    *)
(*                                                                         *)
(* The first invariant is about the three copies of the content a message  *)
(* may have.  The message object, when there is one, is what the program   *)
(* expects; the payload is, unless the object is newer; and no message can *)
(* be written without one of them.  The second is about the places of the  *)
(* module set: what is in them, and that Insert leaves all but one alone.  *)
(*                                                                         *)
(* Two parts of the way back from the text follow: a value of one line     *)
(* survives printing and reading (WordsReadBack), and the reader takes     *)
(* nothing from one message to the next (MessagesStartFresh).              *)
(***************************************************************************)
EXTENDS NmsgMessage, TLAPS, FiniteSetTheorems, WellFoundedInduction

Option(S) == S = {} \/ \E x : S = {x}

\* A payload with its ids left out, or none.
IsPayload(np) == np = {} \/ \E p, s : np = {[payload |-> p, source |-> s]}

Rec(mod, message, np, updated, priv, stale, view, source, spoiled) ==
    [mod |-> mod, message |-> message, np |-> np, updated |-> updated, priv |-> priv,
     stale |-> stale, view |-> view, source |-> source, spoiled |-> spoiled]

IsRecord(m) ==
    m = Rec(m.mod, m.message, m.np, m.updated, m.priv, m.stale, m.view, m.source, m.spoiled)

IsMessage(m) ==
    /\ IsRecord(m)
    /\ Option(m.message) /\ Option(m.view) /\ IsPayload(m.np)
    /\ \A np \in m.np : Option(np.payload)

\* The object is what is expected.
ObjectCurrent(m) == m.view # {} /\ m.message # {} => m.message = m.view

\* The payload is, unless the object is newer.
PayloadCurrent(m) ==
    m.view # {} /\ (m.message = {} \/ ~m.updated) => \A np \in m.np : np.payload = m.view

SourceCurrent(m) ==
    /\ \A np \in m.np : np.source = m.source
    /\ m.np = {} => m.source = 0

MessageOK(m) ==
    /\ IsMessage(m)
    /\ m.spoiled = {} => ObjectCurrent(m) /\ PayloadCurrent(m) /\ SourceCurrent(m)

\* The inductive invariant.
MsgInv ==
    /\ DOMAIN msgs = Handles
    /\ \A h \in Handles : \A m \in msgs[h] : MessageOK(m)
    /\ WrittenIsCurrent

LEMMA TheOne == \A x : The({x}) = x
  BY DEF The

LEMMA OptionThe == ASSUME NEW S, Option(S), S # {} PROVE S = {The(S)}
  BY TheOne DEF Option

-----------------------------------------------------------------------------
(***************************************************************************)
(* Records, and single fields of them replaced                             *)
(***************************************************************************)
LEMMA Put_message ==
  ASSUME NEW m, IsRecord(m), NEW x
  PROVE  [m EXCEPT !.message = x]
           = Rec(m.mod, x, m.np, m.updated, m.priv, m.stale, m.view, m.source, m.spoiled)
  BY DEF IsRecord, Rec

LEMMA Put_np ==
  ASSUME NEW m, IsRecord(m), NEW x
  PROVE  [m EXCEPT !.np = x]
           = Rec(m.mod, m.message, x, m.updated, m.priv, m.stale, m.view, m.source, m.spoiled)
  BY DEF IsRecord, Rec

LEMMA Put_updated ==
  ASSUME NEW m, IsRecord(m), NEW x
  PROVE  [m EXCEPT !.updated = x]
           = Rec(m.mod, m.message, m.np, x, m.priv, m.stale, m.view, m.source, m.spoiled)
  BY DEF IsRecord, Rec

LEMMA Put_priv ==
  ASSUME NEW m, IsRecord(m), NEW x
  PROVE  [m EXCEPT !.priv = x]
           = Rec(m.mod, m.message, m.np, m.updated, x, m.stale, m.view, m.source, m.spoiled)
  BY DEF IsRecord, Rec

LEMMA Put_stale ==
  ASSUME NEW m, IsRecord(m), NEW x
  PROVE  [m EXCEPT !.stale = x]
           = Rec(m.mod, m.message, m.np, m.updated, m.priv, x, m.view, m.source, m.spoiled)
  BY DEF IsRecord, Rec

LEMMA Put_view ==
  ASSUME NEW m, IsRecord(m), NEW x
  PROVE  [m EXCEPT !.view = x]
           = Rec(m.mod, m.message, m.np, m.updated, m.priv, m.stale, x, m.source, m.spoiled)
  BY DEF IsRecord, Rec

LEMMA Put_source ==
  ASSUME NEW m, IsRecord(m), NEW x
  PROVE  [m EXCEPT !.source = x]
           = Rec(m.mod, m.message, m.np, m.updated, m.priv, m.stale, m.view, x, m.spoiled)
  BY DEF IsRecord, Rec

LEMMA Put_spoiled ==
  ASSUME NEW m, IsRecord(m), NEW x
  PROVE  [m EXCEPT !.spoiled = x]
           = Rec(m.mod, m.message, m.np, m.updated, m.priv, m.stale, m.view, m.source, x)
  BY DEF IsRecord, Rec

\* When a record is a message as it should be.
LEMMA FieldsOK ==
  ASSUME NEW m, IsRecord(m), Option(m.message), Option(m.view), IsPayload(m.np),
         \A x \in m.np : Option(x.payload),
         m.spoiled = {} =>
             /\ m.view # {} /\ m.message # {} => m.message = m.view
             /\ m.view # {} /\ (m.message = {} \/ ~m.updated) =>
                  \A x \in m.np : x.payload = m.view
             /\ \A x \in m.np : x.source = m.source
             /\ m.np = {} => m.source = 0
  PROVE  MessageOK(m)
  BY Zenon DEF MessageOK, IsMessage, ObjectCurrent, PayloadCurrent, SourceCurrent

\* Decoding gives the expected object.
LEMMA DecodedOK ==
  ASSUME NEW m, MessageOK(m), Decodes(m)
  PROVE  /\ Option(Decoded(m)) /\ Decoded(m) # {}
         /\ Decoded(m) = {The(Decoded(m))}
         /\ m.spoiled = {} /\ m.view # {} => Decoded(m) = m.view
<1>1. CASE m.message # {}
  BY <1>1, OptionThe DEF Decoded, MessageOK, IsMessage, ObjectCurrent
<1>2. CASE m.message = {}
  <2>1. PICK p, s : m.np = {[payload |-> p, source |-> s]}
    BY <1>2 DEF Decodes, MessageOK, IsMessage, IsPayload
  <2>2. The(m.np) = [payload |-> p, source |-> s]
    BY <2>1, TheOne
  <2>3. Decoded(m) = p
    BY <1>2, <2>2 DEF Decoded
  <2>4. p # {} /\ Option(p)
    BY <1>2, <2>1 DEF Decodes, MessageOK, IsMessage
  <2>5. m.spoiled = {} /\ m.view # {} => p = m.view
    BY <1>2, <2>1 DEF MessageOK, PayloadCurrent
  <2> QED BY <2>3, <2>4, <2>5, OptionThe
<1> QED BY <1>1, <1>2

LEMMA MessageFields ==
  ASSUME NEW m, MessageOK(m)
  PROVE  /\ IsRecord(m) /\ Option(m.message) /\ Option(m.view) /\ IsPayload(m.np)
         /\ \A np \in m.np : Option(np.payload)
         /\ m.spoiled = {} =>
              /\ m.view # {} /\ m.message # {} => m.message = m.view
              /\ m.view # {} /\ (m.message = {} \/ ~m.updated) =>
                   \A x \in m.np : x.payload = m.view
              /\ \A x \in m.np : x.source = m.source
              /\ m.np = {} => m.source = 0
  BY Zenon DEF MessageOK, IsMessage, ObjectCurrent, PayloadCurrent, SourceCurrent

-----------------------------------------------------------------------------
(***************************************************************************)
(* The messages that each operation makes                                  *)
(***************************************************************************)
\* nmsg_message_init()
LEMMA InitOK ==
  ASSUME NEW mod, NEW message, Option(message)
  PROVE  MessageOK(NewMessage(mod, message, {EmptyPayload}))
<1> DEFINE np == {EmptyPayload}
<1>1. IsPayload(np) /\ \A x \in np : Option(x.payload) /\ x.source = 0
  <2>1. EmptyPayload = [payload |-> {}, source |-> 0]
    BY DEF EmptyPayload
  <2>2. EmptyPayload.payload = {} /\ EmptyPayload.source = 0
    BY DEF EmptyPayload
  <2>3. IsPayload(np)
    BY <2>1, Zenon DEF IsPayload
  <2>4. \A x \in np : Option(x.payload) /\ x.source = 0
    BY <2>2, Zenon DEF Option
  <2> QED BY <2>3, <2>4
<1>2. np # {} /\ Option({})
  BY DEF Option
<1> HIDE DEF np
<1>3. PICK m : m = NewMessage(mod, message, np)
  OBVIOUS
<1>4. /\ IsRecord(m) /\ m.message = message /\ m.np = np
      /\ m.view = {} /\ m.source = 0
  BY <1>3, Zenon DEF NewMessage, Rec, IsRecord
<1>5. MessageOK(m)
  BY <1>1, <1>2, <1>4, FieldsOK
<1> QED BY <1>3, <1>5 DEF np

\* _nmsg_message_from_payload(), nmsg_message_from_raw_payload()
LEMMA AroundOK ==
  ASSUME NEW mod, NEW content
  PROVE  /\ MessageOK(Around(mod, content))
         /\ content # Garbage =>
              \A priv : MessageOK([Around(mod, content) EXCEPT !.message = {content},
                                                               !.priv = priv])
<1> DEFINE np == {[payload |-> {content}, source |-> 0]}
<1> DEFINE view == IF content = Garbage THEN {} ELSE {content}
<1> DEFINE new == NewMessage(mod, {}, np)
<1>1. PICK m : m = Around(mod, content) /\ m = [new EXCEPT !.view = view]
  BY DEF Around
<1>2. Option(view) /\ Option({}) /\ Option({content}) /\ IsPayload(np)
  BY DEF Option, IsPayload
<1>3. \A x \in np : x.payload = {content} /\ x.source = 0
  OBVIOUS
<1>4. np # {} /\ {content} # {}
  OBVIOUS
<1>5. (view # {} => view = {content}) /\ (content # Garbage => view = {content})
  OBVIOUS
<1> HIDE DEF np, view
<1>5a. new = NewMessage(mod, {}, np)
  OBVIOUS
<1> HIDE DEF new
<1>6. /\ IsRecord(new) /\ new.message = {} /\ new.np = np /\ new.source = 0
  BY <1>5a, Zenon DEF NewMessage, Rec, IsRecord
<1>7. /\ IsRecord(m) /\ m.message = new.message /\ m.np = new.np
      /\ m.view = view /\ m.source = new.source
  <2>1. m = Rec(new.mod, new.message, new.np, new.updated, new.priv, new.stale, view, new.source, new.spoiled)
    BY <1>1, <1>6, Put_view, Zenon
  <2> QED BY <2>1, Zenon DEF Rec, IsRecord
<1>8. MessageOK(m)
  BY <1>2, <1>3, <1>4, <1>5, <1>6, <1>7, FieldsOK
<1>9. ASSUME content # Garbage, NEW priv
      PROVE  MessageOK([m EXCEPT !.message = {content}, !.priv = priv])
  <2>a. PICK m1 : m1 = [m EXCEPT !.message = {content}]
    OBVIOUS
  <2>b. PICK m2 : m2 = [m1 EXCEPT !.priv = priv]
    OBVIOUS
  <2>1. /\ IsRecord(m1) /\ m1.message = {content} /\ m1.np = m.np
        /\ m1.view = m.view /\ m1.source = m.source
    <3>1. m1 = Rec(m.mod, {content}, m.np, m.updated, m.priv, m.stale, m.view, m.source, m.spoiled)
      BY <1>7, <2>a, Put_message, Zenon
    <3> QED BY <3>1, Zenon DEF Rec, IsRecord
  <2>2. /\ IsRecord(m2) /\ m2.message = m1.message /\ m2.np = m1.np
        /\ m2.view = m1.view /\ m2.source = m1.source
    <3>1. m2 = Rec(m1.mod, m1.message, m1.np, m1.updated, priv, m1.stale, m1.view, m1.source, m1.spoiled)
      BY <2>1, <2>b, Put_priv, Zenon
    <3> QED BY <3>1, Zenon DEF Rec, IsRecord
  <2>3. MessageOK(m2)
    BY <1>2, <1>3, <1>4, <1>5, <1>6, <1>7, <1>9, <2>1, <2>2, FieldsOK
  <2> QED BY <2>3, <2>a, <2>b, Zenon
<1> QED BY <1>1, <1>8, <1>9, Zenon

\* _nmsg_message_serialize(): packing the object makes the payload current.
LEMMA SerializedOK ==
  ASSUME NEW m, MessageOK(m)
  PROVE  /\ MessageOK(Serialized(m))
         /\ m.spoiled = {} =>
              \A np \in Serialized(m).np :
                  (m.view # {} => np.payload = m.view) /\ np.source = m.source
<1> DEFINE src == IF m.np = {} THEN 0 ELSE The(m.np).source
<1> DEFINE np1 == {[payload |-> m.message, source |-> src]}
<1>1. CASE m.message # {} /\ (m.updated \/ m.np = {})
  <2>a. PICK m1 : m1 = [m EXCEPT !.np = np1]
    OBVIOUS
  <2>b. PICK m2 : m2 = [m1 EXCEPT !.updated = FALSE]
    OBVIOUS
  <2>0. IsRecord(m)
    BY MessageFields
  <2>1. IsPayload(np1) /\ \A np \in np1 : np.payload = m.message /\ np.source = src
    BY DEF IsPayload
  <2>2. m.spoiled = {} => src = m.source
    <3>1. CASE m.np = {}
      BY <3>1, MessageFields
    <3>2. CASE m.np # {}
      <4>1. The(m.np) \in m.np
        BY <3>2, TheOne, MessageFields DEF IsPayload
      <4> QED BY <3>2, <4>1, MessageFields
    <3> QED BY <3>1, <3>2
  <2>3. np1 # {}
    OBVIOUS
  <2>4. Serialized(m) = m2
    BY <1>1, <2>a, <2>b, Zenon DEF Serialized
  <2> HIDE DEF np1, src
  <2>5. /\ IsRecord(m1) /\ m1.message = m.message /\ m1.np = np1
        /\ m1.view = m.view /\ m1.source = m.source /\ m1.spoiled = m.spoiled
    <3>1. m1 = Rec(m.mod, m.message, np1, m.updated, m.priv, m.stale, m.view, m.source, m.spoiled)
      BY <2>a, <2>0, Put_np, Zenon
    <3> QED BY <3>1, Zenon DEF Rec, IsRecord
  <2>6. /\ IsRecord(m2) /\ m2.message = m1.message /\ m2.np = m1.np
        /\ m2.view = m1.view /\ m2.source = m1.source /\ m2.spoiled = m1.spoiled
    <3>1. m2 = Rec(m1.mod, m1.message, m1.np, FALSE, m1.priv, m1.stale, m1.view, m1.source, m1.spoiled)
      BY <2>5, <2>b, Put_updated, Zenon
    <3> QED BY <3>1, Zenon DEF Rec, IsRecord
  <2>7. m.spoiled = {} =>
          /\ m.view # {} /\ m.message # {} => m.message = m.view
          /\ m.view # {} => \A x \in np1 : x.payload = m.view
          /\ \A x \in np1 : x.source = m.source
    BY <1>1, <2>1, <2>2, MessageFields
  <2>8. Option(m.message) /\ Option(m.view) /\ \A x \in np1 : Option(x.payload)
    BY <2>1, MessageFields
  <2>9. MessageOK(m2)
    BY <2>1, <2>3, <2>5, <2>6, <2>7, <2>8, FieldsOK
  <2> QED BY <2>4, <2>5, <2>6, <2>7, <2>9
<1>2. CASE ~(m.message # {} /\ (m.updated \/ m.np = {}))
  <2>1. Serialized(m) = m
    BY <1>2 DEF Serialized
  <2>2. m.np # {} => (m.message = {} \/ ~m.updated)
    BY <1>2
  <2>3. ASSUME m.spoiled = {}, NEW np \in m.np
        PROVE  (m.view # {} => np.payload = m.view) /\ np.source = m.source
    BY <2>2, <2>3, MessageFields
  <2> QED BY <2>1, <2>3
<1> QED BY <1>1, <1>2
\* nmsg_message_get_field_by_idx() and printing: the object is the decoded one.
LEMMA GetOK ==
  ASSUME NEW m, MessageOK(m), Decodes(m), NEW d, d = Decoded(m)
  PROVE  MessageOK([m EXCEPT !.message = d])
<1>0. IsRecord(m)
  BY MessageFields
<1>a. PICK m1 : m1 = [m EXCEPT !.message = d]
  OBVIOUS
<1>1. /\ IsRecord(m1)
      /\ m1.message = d /\ m1.np = m.np /\ m1.updated = m.updated
      /\ m1.view = m.view /\ m1.source = m.source /\ m1.spoiled = m.spoiled
  <2>1. m1 = Rec(m.mod, d, m.np, m.updated, m.priv,
              m.stale, m.view, m.source, m.spoiled)
    BY <1>a, <1>0, Put_message, Zenon
  <2> QED BY <2>1, Zenon DEF Rec, IsRecord
<1>2. /\ Option(d) /\ d # {}
      /\ m.spoiled = {} /\ m.view # {} => d = m.view
  BY DecodedOK
<1>3. MessageOK(m1)
  BY <1>1, <1>2, MessageFields, FieldsOK
<1> QED BY <1>3, <1>a

\* nmsg_message_set_field_by_idx(): the fields of a changed message.
LEMMA ChangedIs ==
  ASSUME NEW m, IsRecord(m), NEW c
  PROVE  Changed(m, c) =
           Rec(m.mod, {c}, m.np, TRUE, m.priv, m.stale, m.view, m.source, m.spoiled)
<1>a. PICK m1 : m1 = [m EXCEPT !.message = {c}]
  OBVIOUS
<1>1. m1 = Rec(m.mod, {c}, m.np, m.updated, m.priv, m.stale, m.view, m.source, m.spoiled)
  BY <1>a, Put_message, Zenon
<1>2. IsRecord(m1)
  BY <1>1, Zenon DEF Rec, IsRecord
<1>3. [m1 EXCEPT !.updated = TRUE] =
        Rec(m1.mod, m1.message, m1.np, TRUE, m1.priv, m1.stale, m1.view, m1.source, m1.spoiled)
  BY <1>2, Put_updated, Zenon
<1>4. Rec(m1.mod, m1.message, m1.np, TRUE, m1.priv, m1.stale, m1.view, m1.source, m1.spoiled)
        = Rec(m.mod, {c}, m.np, TRUE, m.priv, m.stale, m.view, m.source, m.spoiled)
  BY <1>1, Zenon DEF Rec
<1>5. Changed(m, c) = [m1 EXCEPT !.updated = TRUE]
  BY <1>a, Zenon DEF Changed
<1> QED BY <1>3, <1>4, <1>5, Zenon

\* It returned an error before it changed anything.
LEMMA NotSetOK ==
  ASSUME NEW m, MessageOK(m), Decodes(m)
  PROVE  MessageOK(Changed(m, The(Decoded(m))))
<1> DEFINE c == The(Decoded(m))
<1>1. {c} = Decoded(m) /\ (m.spoiled = {} /\ m.view # {} => {c} = m.view)
  BY DecodedOK
<1>2. Option({c})
  BY DEF Option
<1> HIDE DEF c
<1>3. PICK m2 : m2 = Changed(m, c)
  OBVIOUS
<1>4. /\ IsRecord(m2) /\ m2.message = {c} /\ m2.np = m.np /\ m2.updated = TRUE
      /\ m2.view = m.view /\ m2.source = m.source /\ m2.spoiled = m.spoiled
  <2>1. m2 = Rec(m.mod, {c}, m.np, TRUE, m.priv, m.stale, m.view, m.source, m.spoiled)
    <3>1. IsRecord(m)
      BY MessageFields
    <3> QED BY <1>3, <3>1, ChangedIs, Zenon
  <2> QED BY <2>1, Zenon DEF Rec, IsRecord
<1>5. MessageOK(m2)
  BY <1>1, <1>2, <1>4, MessageFields, FieldsOK
<1> QED BY <1>3, <1>5 DEF c

\* It failed half-way.
LEMMA SpoiledOK ==
  ASSUME NEW m, MessageOK(m), NEW c
  PROVE  MessageOK([Changed(m, c) EXCEPT !.spoiled = m.spoiled \cup {"failed"}])
<1> DEFINE sp == m.spoiled \cup {"failed"}
<1>1. Option({c}) /\ sp # {}
  BY DEF Option
<1> HIDE DEF sp
<1>2. PICK m2 : m2 = Changed(m, c)
  OBVIOUS
<1>3. /\ IsRecord(m2) /\ m2.message = {c} /\ m2.np = m.np /\ m2.updated = TRUE
      /\ m2.view = m.view /\ m2.source = m.source /\ m2.spoiled = m.spoiled
  <2>1. m2 = Rec(m.mod, {c}, m.np, TRUE, m.priv, m.stale, m.view, m.source, m.spoiled)
    <3>1. IsRecord(m)
      BY MessageFields
    <3> QED BY <1>2, <3>1, ChangedIs, Zenon
  <2> QED BY <2>1, Zenon DEF Rec, IsRecord
<1>a. PICK m3 : m3 = [m2 EXCEPT !.spoiled = sp]
  OBVIOUS
<1>4. /\ IsRecord(m3)
      /\ m3.message = m2.message /\ m3.np = m2.np /\ m3.updated = m2.updated
      /\ m3.view = m2.view /\ m3.source = m2.source /\ m3.spoiled = sp
  <2>1. m3 = Rec(m2.mod, m2.message, m2.np, m2.updated, m2.priv,
              m2.stale, m2.view, m2.source, sp)
    <3>1. IsRecord(m2)
      BY <1>3
    <3> QED BY <1>a, <3>1, Put_spoiled, Zenon
  <2> QED BY <2>1, Zenon DEF Rec, IsRecord
<1>5. MessageOK(m3)
  BY <1>1, <1>3, <1>4, MessageFields, FieldsOK
<1> QED BY <1>2, <1>a, <1>5 DEF sp

\* It set the field.
LEMMA SetOK ==
  ASSUME NEW m, MessageOK(m), Decodes(m), NEW name, NEW vs, NEW st
  PROVE  LET c == The(Decoded(m))
         IN  MessageOK([Changed(m, [c EXCEPT ![name] = vs])
                        EXCEPT !.view = Expect(m, c, name, vs), !.stale = st])
<1> DEFINE c == The(Decoded(m))
<1> DEFINE new == [c EXCEPT ![name] = vs]
<1> DEFINE view == Expect(m, c, name, vs)
<1>1. {c} = Decoded(m) /\ (m.spoiled = {} /\ m.view # {} => {c} = m.view)
  BY DecodedOK
<1>2. Option({new}) /\ {new} # {}
  BY DEF Option
<1> HIDE DEF c
<1>3. Option(view)
  <2>1. CASE m.view = {}
    BY <2>1 DEF Expect, Option
  <2>2. CASE m.view # {}
    <3>1. PICK w : m.view = {w}
      BY <2>2, MessageFields DEF Option
    <3>2. view = {[w EXCEPT ![name] = vs]}
      BY <2>2, <3>1 DEF Expect
    <3> QED BY <3>2 DEF Option
  <2> QED BY <2>1, <2>2
<1>4. m.spoiled = {} => view = {new}
  <2>1. CASE m.view = {}
    BY <2>1 DEF Expect
  <2>2. CASE m.view # {}
    BY <2>2, <1>1 DEF Expect
  <2> QED BY <2>1, <2>2
<1> HIDE DEF view, new
<1>5. PICK m2 : m2 = Changed(m, new)
  OBVIOUS
<1>6. /\ IsRecord(m2) /\ m2.message = {new} /\ m2.np = m.np /\ m2.updated = TRUE
      /\ m2.view = m.view /\ m2.source = m.source /\ m2.spoiled = m.spoiled
  <2>1. m2 = Rec(m.mod, {new}, m.np, TRUE, m.priv, m.stale, m.view, m.source, m.spoiled)
    <3>1. IsRecord(m)
      BY MessageFields
    <3> QED BY <1>5, <3>1, ChangedIs, Zenon
  <2> QED BY <2>1, Zenon DEF Rec, IsRecord
<1>a. PICK m3 : m3 = [m2 EXCEPT !.view = view]
  OBVIOUS
<1>b. PICK m4 : m4 = [m3 EXCEPT !.stale = st]
  OBVIOUS
<1>7. /\ IsRecord(m3)
      /\ m3.message = m2.message /\ m3.np = m2.np /\ m3.updated = m2.updated
      /\ m3.view = view /\ m3.source = m2.source /\ m3.spoiled = m2.spoiled
  <2>1. m3 = Rec(m2.mod, m2.message, m2.np, m2.updated, m2.priv,
              m2.stale, view, m2.source, m2.spoiled)
    BY <1>a, <1>6, Put_view, Zenon
  <2> QED BY <2>1, Zenon DEF Rec, IsRecord
<1>8. /\ IsRecord(m4)
      /\ m4.message = m3.message /\ m4.np = m3.np /\ m4.updated = m3.updated
      /\ m4.view = m3.view /\ m4.source = m3.source /\ m4.spoiled = m3.spoiled
  <2>1. m4 = Rec(m3.mod, m3.message, m3.np, m3.updated, m3.priv,
              st, m3.view, m3.source, m3.spoiled)
    BY <1>b, <1>7, Put_stale, Zenon
  <2> QED BY <2>1, Zenon DEF Rec, IsRecord
<1>9. MessageOK(m4)
  <2>1. /\ m4.message = {new} /\ m4.np = m.np /\ m4.updated = TRUE
        /\ m4.view = view /\ m4.source = m.source /\ m4.spoiled = m.spoiled
    BY <1>6, <1>7, <1>8
  <2>2. /\ IsPayload(m4.np) /\ \A x \in m4.np : Option(x.payload)
        /\ m4.spoiled = {} => (\A x \in m4.np : x.source = m4.source)
                              /\ (m4.np = {} => m4.source = 0)
    BY <2>1, MessageFields
  <2>3. Option(m4.message) /\ Option(m4.view) /\ m4.message # {}
    BY <2>1, <1>2, <1>3
  <2>4. m4.spoiled = {} => m4.message = m4.view
    BY <2>1, <1>4
  <2> QED BY <2>1, <2>2, <2>3, <2>4, <1>8, FieldsOK
<1>10. m4 = [Changed(m, new) EXCEPT !.view = view, !.stale = st]
  BY <1>5, <1>a, <1>b, Zenon
<1> QED BY <1>9, <1>10, Zenon DEF c, new, view

\* nmsg_message_update()
LEMMA UpdateOK ==
  ASSUME NEW m, MessageOK(m)
  PROVE  MessageOK([m EXCEPT !.updated = TRUE])
<1>0. IsRecord(m)
  BY MessageFields
<1>a. PICK m1 : m1 = [m EXCEPT !.updated = TRUE]
  OBVIOUS
<1>1. /\ IsRecord(m1)
      /\ m1.message = m.message /\ m1.np = m.np /\ m1.updated = TRUE
      /\ m1.view = m.view /\ m1.source = m.source /\ m1.spoiled = m.spoiled
  <2>1. m1 = Rec(m.mod, m.message, m.np, TRUE, m.priv,
              m.stale, m.view, m.source, m.spoiled)
    BY <1>a, <1>0, Put_updated, Zenon
  <2> QED BY <2>1, Zenon DEF Rec, IsRecord
<1>2. MessageOK(m1)
  BY <1>1, MessageFields, FieldsOK
<1> QED BY <1>2, <1>a

\* nmsg_message_set_source()
LEMMA SourceOK ==
  ASSUME NEW m, MessageOK(m), NEW np \in m.np, NEW s
  PROVE  MessageOK([m EXCEPT !.np = {[np EXCEPT !.source = s]}, !.source = s])
<1> DEFINE new == {[np EXCEPT !.source = s]}
<1>0. IsRecord(m)
  BY MessageFields
<1>1. PICK p, o : np = [payload |-> p, source |-> o]
  BY MessageFields DEF IsPayload
<1>2. /\ new = {[payload |-> np.payload, source |-> s]} /\ new # {}
      /\ IsPayload(new)
      /\ \A x \in new : x.payload = np.payload /\ x.source = s
  <2>1. [np EXCEPT !.source = s] = [payload |-> np.payload, source |-> s]
    BY <1>1
  <2>2. IsPayload(new)
    BY <2>1 DEF IsPayload
  <2> QED BY <2>1, <2>2
<1> HIDE DEF new
<1>a. PICK m1 : m1 = [m EXCEPT !.np = new]
  OBVIOUS
<1>b. PICK m2 : m2 = [m1 EXCEPT !.source = s]
  OBVIOUS
<1>3. /\ IsRecord(m1)
      /\ m1.message = m.message /\ m1.np = new /\ m1.updated = m.updated
      /\ m1.view = m.view /\ m1.source = m.source /\ m1.spoiled = m.spoiled
  <2>1. m1 = Rec(m.mod, m.message, new, m.updated, m.priv,
              m.stale, m.view, m.source, m.spoiled)
    BY <1>a, <1>0, Put_np, Zenon
  <2> QED BY <2>1, Zenon DEF Rec, IsRecord
<1>4. /\ IsRecord(m2)
      /\ m2.message = m1.message /\ m2.np = m1.np /\ m2.updated = m1.updated
      /\ m2.view = m1.view /\ m2.source = s /\ m2.spoiled = m1.spoiled
  <2>1. m2 = Rec(m1.mod, m1.message, m1.np, m1.updated, m1.priv,
              m1.stale, m1.view, s, m1.spoiled)
    BY <1>b, <1>3, Put_source, Zenon
  <2> QED BY <2>1, Zenon DEF Rec, IsRecord
<1>5. MessageOK(m2)
  <2>1. Option(np.payload) /\ \A x \in new : Option(x.payload)
    BY <1>2, MessageFields
  <2>2. \A x \in m2.np : x.source = m2.source
    BY <1>2, <1>3, <1>4
  <2>3. m.spoiled = {} /\ m.view # {} /\ (m.message = {} \/ ~m.updated) =>
          \A x \in new : x.payload = m.view
    BY <1>2, MessageFields
  <2> QED BY <2>1, <2>2, <2>3, <1>2, <1>3, <1>4, MessageFields, FieldsOK
<1> QED BY <1>5, <1>a, <1>b, Zenon DEF new

\* nmsg_message_compact_payload()
LEMMA CompactOK ==
  ASSUME NEW m, MessageOK(m), NEW st
  PROVE  MessageOK([m EXCEPT !.message = {}, !.stale = st,
                             !.spoiled = IF m.updated \/ m.np = {}
                                         THEN m.spoiled \cup {"compact"} ELSE m.spoiled])
<1> DEFINE sp == IF m.updated \/ m.np = {} THEN m.spoiled \cup {"compact"} ELSE m.spoiled
<1>0. IsRecord(m)
  BY MessageFields
<1>1. sp = {} => m.spoiled = {} /\ ~m.updated /\ m.np # {}
  OBVIOUS
<1> HIDE DEF sp
<1>a. PICK m1 : m1 = [m EXCEPT !.message = {}]
  OBVIOUS
<1>b. PICK m2 : m2 = [m1 EXCEPT !.stale = st]
  OBVIOUS
<1>c. PICK m3 : m3 = [m2 EXCEPT !.spoiled = sp]
  OBVIOUS
<1>2. /\ IsRecord(m1)
      /\ m1.message = {} /\ m1.np = m.np /\ m1.updated = m.updated
      /\ m1.view = m.view /\ m1.source = m.source /\ m1.spoiled = m.spoiled
  <2>1. m1 = Rec(m.mod, {}, m.np, m.updated, m.priv,
              m.stale, m.view, m.source, m.spoiled)
    BY <1>a, <1>0, Put_message, Zenon
  <2> QED BY <2>1, Zenon DEF Rec, IsRecord
<1>3. /\ IsRecord(m2)
      /\ m2.message = m1.message /\ m2.np = m1.np /\ m2.updated = m1.updated
      /\ m2.view = m1.view /\ m2.source = m1.source /\ m2.spoiled = m1.spoiled
  <2>1. m2 = Rec(m1.mod, m1.message, m1.np, m1.updated, m1.priv,
              st, m1.view, m1.source, m1.spoiled)
    BY <1>b, <1>2, Put_stale, Zenon
  <2> QED BY <2>1, Zenon DEF Rec, IsRecord
<1>4. /\ IsRecord(m3)
      /\ m3.message = m2.message /\ m3.np = m2.np /\ m3.updated = m2.updated
      /\ m3.view = m2.view /\ m3.source = m2.source /\ m3.spoiled = sp
  <2>1. m3 = Rec(m2.mod, m2.message, m2.np, m2.updated, m2.priv,
              m2.stale, m2.view, m2.source, sp)
    BY <1>c, <1>3, Put_spoiled, Zenon
  <2> QED BY <2>1, Zenon DEF Rec, IsRecord
<1>5. MessageOK(m3)
  <2>1. Option({})
    BY DEF Option
  <2>2. /\ m3.message = {} /\ m3.np = m.np /\ m3.updated = m.updated
        /\ m3.view = m.view /\ m3.source = m.source /\ m3.spoiled = sp
    BY <1>2, <1>3, <1>4
  <2> QED BY <2>1, <2>2, <1>1, <1>4, MessageFields, FieldsOK
<1> QED BY <1>5, <1>a, <1>b, <1>c, Zenon DEF sp

\* nmsg_output_write(): np is detached.
LEMMA DetachOK ==
  ASSUME NEW m, MessageOK(m)
  PROVE  MessageOK([m EXCEPT !.np = {}, !.source = 0])
<1>0. IsRecord(m)
  BY MessageFields
<1>a. PICK m1 : m1 = [m EXCEPT !.np = {}]
  OBVIOUS
<1>b. PICK m2 : m2 = [m1 EXCEPT !.source = 0]
  OBVIOUS
<1>1. /\ IsRecord(m1)
      /\ m1.message = m.message /\ m1.np = {} /\ m1.updated = m.updated
      /\ m1.view = m.view /\ m1.source = m.source /\ m1.spoiled = m.spoiled
  <2>1. m1 = Rec(m.mod, m.message, {}, m.updated, m.priv,
              m.stale, m.view, m.source, m.spoiled)
    BY <1>a, <1>0, Put_np, Zenon
  <2> QED BY <2>1, Zenon DEF Rec, IsRecord
<1>2. /\ IsRecord(m2)
      /\ m2.message = m1.message /\ m2.np = m1.np /\ m2.updated = m1.updated
      /\ m2.view = m1.view /\ m2.source = 0 /\ m2.spoiled = m1.spoiled
  <2>1. m2 = Rec(m1.mod, m1.message, m1.np, m1.updated, m1.priv,
              m1.stale, m1.view, 0, m1.spoiled)
    BY <1>b, <1>1, Put_source, Zenon
  <2> QED BY <2>1, Zenon DEF Rec, IsRecord
<1>3. MessageOK(m2)
  <2>1. IsPayload({}) /\ \A x \in {} : Option(x.payload)
    BY DEF IsPayload
  <2> QED BY <2>1, <1>1, <1>2, MessageFields, FieldsOK
<1> QED BY <1>3, <1>a, <1>b, Zenon

\* _nmsg_message_dup()
LEMMA DupOK ==
  ASSUME NEW m, MessageOK(m), NEW mod, NEW message, message \in {{}, m.message}
  PROVE  MessageOK([NewMessage(mod, message, m.np)
                    EXCEPT !.view = m.view, !.source = m.source,
                           !.spoiled = IF m.updated /\ m.np # {} THEN m.spoiled \cup {"dup"}
                                       ELSE m.spoiled])
<1> DEFINE sp == IF m.updated /\ m.np # {} THEN m.spoiled \cup {"dup"} ELSE m.spoiled
<1>1. sp = {} => m.spoiled = {} /\ (~m.updated \/ m.np = {})
  OBVIOUS
<1> HIDE DEF sp
<1>n. PICK new : new = NewMessage(mod, message, m.np)
  OBVIOUS
<1>2. /\ IsRecord(new) /\ new.message = message /\ new.np = m.np /\ new.updated = FALSE
  BY <1>n, Zenon DEF NewMessage, Rec, IsRecord
<1>a. PICK m1 : m1 = [new EXCEPT !.view = m.view]
  OBVIOUS
<1>b. PICK m2 : m2 = [m1 EXCEPT !.source = m.source]
  OBVIOUS
<1>c. PICK m3 : m3 = [m2 EXCEPT !.spoiled = sp]
  OBVIOUS
<1>3. /\ IsRecord(m1)
      /\ m1.message = new.message /\ m1.np = new.np /\ m1.updated = new.updated
      /\ m1.view = m.view /\ m1.source = new.source /\ m1.spoiled = new.spoiled
  <2>1. m1 = Rec(new.mod, new.message, new.np, new.updated, new.priv,
              new.stale, m.view, new.source, new.spoiled)
    BY <1>a, <1>2, Put_view, Zenon
  <2> QED BY <2>1, Zenon DEF Rec, IsRecord
<1>4. /\ IsRecord(m2)
      /\ m2.message = m1.message /\ m2.np = m1.np /\ m2.updated = m1.updated
      /\ m2.view = m1.view /\ m2.source = m.source /\ m2.spoiled = m1.spoiled
  <2>1. m2 = Rec(m1.mod, m1.message, m1.np, m1.updated, m1.priv,
              m1.stale, m1.view, m.source, m1.spoiled)
    BY <1>b, <1>3, Put_source, Zenon
  <2> QED BY <2>1, Zenon DEF Rec, IsRecord
<1>5. /\ IsRecord(m3)
      /\ m3.message = m2.message /\ m3.np = m2.np /\ m3.updated = m2.updated
      /\ m3.view = m2.view /\ m3.source = m2.source /\ m3.spoiled = sp
  <2>1. m3 = Rec(m2.mod, m2.message, m2.np, m2.updated, m2.priv,
              m2.stale, m2.view, m2.source, sp)
    BY <1>c, <1>4, Put_spoiled, Zenon
  <2> QED BY <2>1, Zenon DEF Rec, IsRecord
<1>6. MessageOK(m3)
  <2>1. Option(message)
    BY MessageFields DEF Option
  <2>2. /\ m3.message = message /\ m3.np = m.np /\ m3.view = m.view
        /\ m3.source = m.source /\ m3.spoiled = sp
    BY <1>2, <1>3, <1>4, <1>5
  <2> QED BY <2>1, <2>2, <1>1, <1>5, MessageFields, FieldsOK
<1> QED BY <1>6, <1>n, <1>a, <1>b, <1>c, Zenon DEF sp
-----------------------------------------------------------------------------
(***************************************************************************)
(* Every step keeps the invariant                                          *)
(***************************************************************************)
MessagesOK == DOMAIN msgs = Handles /\ \A h \in Handles : \A m \in msgs[h] : MessageOK(m)

LEMMA HoldsOK ==
  ASSUME MessagesOK, NEW h \in Handles, NEW m, MessageOK(m), Holds(h, m)
  PROVE  MessagesOK'
<1>1. DOMAIN msgs' = Handles
  BY DEF Holds, MessagesOK
<1>2. \A g \in Handles : msgs'[g] = IF g = h THEN {m} ELSE msgs[g]
  BY DEF Holds, MessagesOK
<1>3. ASSUME NEW g \in Handles, NEW x \in msgs'[g] PROVE MessageOK(x)
  BY <1>2, <1>3 DEF MessagesOK
<1> QED BY <1>1, <1>3 DEF MessagesOK

LEMMA MsgInit == Init => MsgInv
  BY DEF Init, MsgInv, WrittenIsCurrent

\* Write: what is handed on is the payload of the serialized message.
LEMMA WriteStep ==
  ASSUME MessagesOK, NEW h \in Handles, Write(h)
  PROVE  MessagesOK' /\ WrittenIsCurrent'
<1>1. PICK m \in msgs[h] :
        /\ Serialized(m).np # {}
        /\ lastWrite' = {[want |-> m.view, got |-> The(Serialized(m).np).payload,
                          wantSource |-> m.source, gotSource |-> The(Serialized(m).np).source,
                          spoiled |-> m.spoiled]}
        /\ Holds(h, [Serialized(m) EXCEPT !.np = {}, !.source = 0])
  BY Zenon DEF Write
<1>2. MessageOK(m)
  BY DEF MessagesOK
<1>3. MessageOK(Serialized(m))
  BY <1>2, SerializedOK
<1>4. MessagesOK'
  BY <1>1, <1>3, DetachOK, HoldsOK
<1> DEFINE np == The(Serialized(m).np)
<1>5. np \in Serialized(m).np
  BY <1>1, <1>3, MessageFields, TheOne DEF IsPayload
<1>6. m.spoiled = {} => (m.view # {} => np.payload = m.view) /\ np.source = m.source
  BY <1>2, <1>5, SerializedOK
<1> HIDE DEF np
<1>7. \A w \in lastWrite' : /\ w.want = m.view /\ w.got = np.payload /\ w.spoiled = m.spoiled
                            /\ w.wantSource = m.source /\ w.gotSource = np.source
  BY <1>1 DEF np
<1>8. WrittenIsCurrent'
  BY <1>6, <1>7 DEF WrittenIsCurrent
<1> QED BY <1>4, <1>8

LEMMA SetFieldStep ==
  ASSUME MessagesOK, NEW h \in Handles, SetField(h)
  PROVE  MessagesOK'
<1>1. PICK m \in msgs[h], s \in Settings :
        /\ Decodes(m)
        /\ LET mod == The(m.mod)
               c == The(Decoded(m))
               i == FieldIdx(mod, s.name)
               f == mod.fields[i]
           IN  \/ Holds(h, Changed(m, c))
               \/ Holds(h, [Changed(m, [c EXCEPT ![s.name] = Present(f, @, s.idx)])
                            EXCEPT !.spoiled = m.spoiled \cup {"failed"}])
               \/ LET vs == SetAt(c[s.name], s.idx, s.value)
                  IN  Holds(h, [Changed(m, [c EXCEPT ![s.name] = vs])
                                EXCEPT !.view = Expect(m, c, s.name, vs),
                                       !.stale = Touches(m, s.name)])
  BY Zenon DEF SetField
<1>2. MessageOK(m)
  BY DEF MessagesOK
<1> DEFINE c == The(Decoded(m))
<1> DEFINE f == The(m.mod).fields[FieldIdx(The(m.mod), s.name)]
<1> DEFINE half == [c EXCEPT ![s.name] = Present(f, @, s.idx)]
<1> DEFINE vs == SetAt(c[s.name], s.idx, s.value)
<1>3. CASE Holds(h, Changed(m, c))
  BY <1>1, <1>2, <1>3, NotSetOK, HoldsOK
<1>4. CASE Holds(h, [Changed(m, half) EXCEPT !.spoiled = m.spoiled \cup {"failed"}])
  <2>1. MessageOK([Changed(m, half) EXCEPT !.spoiled = m.spoiled \cup {"failed"}])
    BY <1>2, SpoiledOK
  <2> QED BY <2>1, <1>4, HoldsOK
<1>5. CASE Holds(h, [Changed(m, [c EXCEPT ![s.name] = vs])
                     EXCEPT !.view = Expect(m, c, s.name, vs), !.stale = Touches(m, s.name)])
  <2>1. MessageOK([Changed(m, [c EXCEPT ![s.name] = vs])
                   EXCEPT !.view = Expect(m, c, s.name, vs), !.stale = Touches(m, s.name)])
    BY <1>1, <1>2, SetOK
  <2> QED BY <2>1, <1>5, HoldsOK
<1> QED BY <1>1, <1>3, <1>4, <1>5

LEMMA WritePresStep ==
  ASSUME MessagesOK, NEW h \in Handles, WritePres(h)
  PROVE  MessagesOK'
<1>1. PICK m \in msgs[h] :
        LET s == Serialized(m)
            c == The(Decoded(s))
        IN  Holds(h, IF Transparent(s.mod) /\ Decodes(s) THEN [s EXCEPT !.message = {c}] ELSE s)
  BY Zenon DEF WritePres
<1> DEFINE s == Serialized(m)
<1>2. MessageOK(s)
  BY SerializedOK DEF MessagesOK
<1> HIDE DEF s
<1>3. CASE Transparent(s.mod) /\ Decodes(s)
  <2>1. Decoded(s) = {The(Decoded(s))}
    BY <1>2, <1>3, DecodedOK
  <2>2. Holds(h, [s EXCEPT !.message = {The(Decoded(s))}])
    BY <1>1, <1>3 DEF s
  <2>3. MessageOK([s EXCEPT !.message = {The(Decoded(s))}])
    BY <2>1, <1>2, <1>3, GetOK
  <2> QED BY <2>2, <2>3, HoldsOK
<1>4. CASE ~(Transparent(s.mod) /\ Decodes(s))
  <2>1. Holds(h, s)
    BY <1>1, <1>4 DEF s
  <2> QED BY <2>1, <1>2, HoldsOK
<1> QED BY <1>3, <1>4

LEMMA FromPayloadStep ==
  ASSUME MessagesOK, NEW h \in Handles, FromPayload(h)
  PROVE  MessagesOK'
<1>1. PICK r \in Received :
        LET mod == Lookup(r.vid, r.msgtype)
            m == Around(mod, r.content)
            loads == mod # {} /\ The(mod).plugin.load
        IN  IF loads /\ (r.content = Garbage \/ NcapAsserts(r.content))
            THEN phase' = "aborted" /\ UNCHANGED msgs
            ELSE /\ Holds(h, IF loads
                             THEN [m EXCEPT !.message = {r.content}, !.priv = NcapLoad(r.content)]
                             ELSE m)
                 /\ UNCHANGED phase
  BY Zenon DEF FromPayload
<1> DEFINE mod == Lookup(r.vid, r.msgtype)
<1> DEFINE m == Around(mod, r.content)
<1> DEFINE loads == mod # {} /\ The(mod).plugin.load
<1>2. CASE loads /\ (r.content = Garbage \/ NcapAsserts(r.content))
  BY <1>1, <1>2 DEF MessagesOK
<1>3. CASE loads /\ ~(r.content = Garbage \/ NcapAsserts(r.content))
  <2>1. Holds(h, [m EXCEPT !.message = {r.content}, !.priv = NcapLoad(r.content)])
    BY <1>1, <1>3
  <2>2. MessageOK([m EXCEPT !.message = {r.content}, !.priv = NcapLoad(r.content)])
    BY <1>3, AroundOK
  <2> QED BY <2>1, <2>2, HoldsOK
<1>4. CASE ~loads
  <2>1. Holds(h, m)
    BY <1>1, <1>4
  <2> QED BY <2>1, AroundOK, HoldsOK
<1> QED BY <1>2, <1>3, <1>4

LEMMA DupStep ==
  ASSUME MessagesOK, NEW h \in Handles, Dup(h)
  PROVE  MessagesOK'
<1>1. PICK m \in msgs[h], g \in Handles :
        Holds(g, [NewMessage(m.mod, IF Transparent(m.mod) THEN m.message ELSE {}, m.np)
                  EXCEPT !.view = m.view, !.source = m.source,
                         !.spoiled = IF m.updated /\ m.np # {} THEN m.spoiled \cup {"dup"}
                                     ELSE m.spoiled])
  BY Zenon DEF Dup
<1> DEFINE message == IF Transparent(m.mod) THEN m.message ELSE {}
<1>2. MessageOK(m) /\ message \in {{}, m.message}
  BY DEF MessagesOK
<1> HIDE DEF message
<1>3. MessageOK([NewMessage(m.mod, message, m.np)
                 EXCEPT !.view = m.view, !.source = m.source,
                        !.spoiled = IF m.updated /\ m.np # {} THEN m.spoiled \cup {"dup"}
                                    ELSE m.spoiled])
  BY <1>2, DupOK
<1> QED BY <1>1, <1>3, HoldsOK DEF message

LEMMA MsgStep == ASSUME MsgInv, [Next]_vars PROVE MsgInv'
<1>0. MessagesOK /\ WrittenIsCurrent
  BY DEF MsgInv, MessagesOK
<1> SUFFICES MessagesOK' /\ WrittenIsCurrent'
  BY DEF MsgInv, MessagesOK
<1>q. ASSUME UNCHANGED lastWrite PROVE WrittenIsCurrent'
  BY <1>0, <1>q DEF WrittenIsCurrent
<1>1. ASSUME NEW h \in Handles, MessageInit(h) PROVE MessagesOK' /\ WrittenIsCurrent'
  <2>1. PICK mod, message : /\ Holds(h, NewMessage(mod, message, {EmptyPayload}))
                            /\ Option(message)
    BY <1>1 DEF MessageInit, Option
  <2>2. MessagesOK'
    BY <1>0, <2>1, InitOK, HoldsOK
  <2> QED BY <2>2, <1>1, <1>q DEF MessageInit, Quiet
<1>2. ASSUME NEW h \in Handles, FromPayload(h) PROVE MessagesOK' /\ WrittenIsCurrent'
  BY <1>0, <1>2, <1>q, FromPayloadStep DEF FromPayload, Quiet
<1>3. ASSUME NEW h \in Handles, FromRawPayload(h) PROVE MessagesOK' /\ WrittenIsCurrent'
  BY <1>0, <1>3, <1>q, AroundOK, HoldsOK DEF FromRawPayload, Quiet
<1>4. ASSUME NEW h \in Handles, Dup(h) PROVE MessagesOK' /\ WrittenIsCurrent'
  BY <1>0, <1>4, <1>q, DupStep DEF Dup, Quiet
<1>5. ASSUME NEW h \in Handles, Destroy(h) PROVE MessagesOK' /\ WrittenIsCurrent'
  BY <1>0, <1>5, <1>q DEF Destroy, Quiet, MessagesOK
<1>6. ASSUME NEW h \in Handles, GetField(h) PROVE MessagesOK' /\ WrittenIsCurrent'
  <2>1. PICK m \in msgs[h] : Decodes(m) /\ Holds(h, [m EXCEPT !.message = Decoded(m)])
    BY <1>6, Zenon DEF GetField
  <2>2. MessageOK(m)
    BY <1>0 DEF MessagesOK
  <2>3. MessageOK([m EXCEPT !.message = Decoded(m)])
    BY <2>1, <2>2, GetOK
  <2> QED BY <1>0, <2>1, <2>3, <1>6, <1>q, HoldsOK DEF GetField, Quiet
<1>7. ASSUME NEW h \in Handles, SetField(h) PROVE MessagesOK' /\ WrittenIsCurrent'
  BY <1>0, <1>7, <1>q, SetFieldStep DEF SetField, Quiet
<1>8. ASSUME NEW h \in Handles, Update(h) PROVE MessagesOK' /\ WrittenIsCurrent'
  <2>1. PICK m \in msgs[h] : Holds(h, [m EXCEPT !.updated = TRUE])
    BY <1>8, Zenon DEF Update
  <2>2. MessageOK(m)
    BY <1>0 DEF MessagesOK
  <2>3. MessageOK([m EXCEPT !.updated = TRUE])
    BY <2>2, UpdateOK
  <2> QED BY <1>0, <2>1, <2>3, <1>8, <1>q, HoldsOK DEF Update, Quiet
<1>9. ASSUME NEW h \in Handles, SetSource(h) PROVE MessagesOK' /\ WrittenIsCurrent'
  <2>1. PICK m \in msgs[h] : \E np \in m.np, s \in Sources :
          Holds(h, [m EXCEPT !.np = {[np EXCEPT !.source = s]}, !.source = s])
    BY <1>9, Zenon DEF SetSource
  <2>2. PICK np \in m.np, s \in Sources :
          Holds(h, [m EXCEPT !.np = {[np EXCEPT !.source = s]}, !.source = s])
    BY <2>1, Zenon
  <2>3. MessageOK(m)
    BY <1>0 DEF MessagesOK
  <2>4. MessageOK([m EXCEPT !.np = {[np EXCEPT !.source = s]}, !.source = s])
    BY <2>3, SourceOK
  <2> QED BY <1>0, <2>2, <2>4, <1>9, <1>q, HoldsOK DEF SetSource, Quiet
<1>10. ASSUME NEW h \in Handles, Compact(h) PROVE MessagesOK' /\ WrittenIsCurrent'
  <2>1. PICK m \in msgs[h] :
          Holds(h, [m EXCEPT !.message = {}, !.stale = m.priv # {},
                             !.spoiled = IF m.updated \/ m.np = {}
                                         THEN m.spoiled \cup {"compact"} ELSE m.spoiled])
    BY <1>10, Zenon DEF Compact
  <2>2. MessageOK(m)
    BY <1>0 DEF MessagesOK
  <2>3. MessageOK([m EXCEPT !.message = {}, !.stale = m.priv # {},
                            !.spoiled = IF m.updated \/ m.np = {}
                                        THEN m.spoiled \cup {"compact"} ELSE m.spoiled])
    BY <2>2, CompactOK
  <2> QED BY <1>0, <2>1, <2>3, <1>10, <1>q, HoldsOK DEF Compact, Quiet
<1>11. ASSUME NEW h \in Handles, WriteNothing(h) PROVE MessagesOK' /\ WrittenIsCurrent'
  <2>1. PICK m \in msgs[h] : Holds(h, Serialized(m))
    BY <1>11, Zenon DEF WriteNothing
  <2>2. MessageOK(m)
    BY <1>0 DEF MessagesOK
  <2>3. MessageOK(Serialized(m))
    BY <2>2, SerializedOK
  <2> QED BY <1>0, <2>1, <2>3, <1>11, <1>q, HoldsOK DEF WriteNothing, Quiet
<1>12. ASSUME NEW h \in Handles, Write(h) PROVE MessagesOK' /\ WrittenIsCurrent'
  BY <1>0, <1>12, WriteStep
<1>13. ASSUME NEW h \in Handles, WritePres(h) PROVE MessagesOK' /\ WrittenIsCurrent'
  BY <1>0, <1>13, <1>q, WritePresStep DEF WritePres
<1>14. ASSUME UNCHANGED <<msgs, lastWrite>> PROVE MessagesOK' /\ WrittenIsCurrent'
  BY <1>0, <1>14, <1>q DEF MessagesOK
<1>15. CASE MessageNext
  BY <1>15, <1>1, <1>2, <1>3, <1>4, <1>5, <1>6, <1>7, <1>8, <1>9, <1>10, <1>11, <1>12, <1>13, Zenon
     DEF MessageNext
<1>16. CASE ModNext /\ UNCHANGED <<msgVars, presVars>>
  BY <1>14, <1>16 DEF msgVars
<1>17. CASE OpenPres \/ ReadPres
  BY <1>14, <1>17 DEF OpenPres, ReadPres, msgVars
<1>18. CASE UNCHANGED vars
  BY <1>14, <1>18 DEF vars, msgVars
<1> QED BY <1>15, <1>16, <1>17, <1>18 DEF Next

\* The three copies of a message's content agree as they should after every
\* sequence of calls: the inductive invariant.
THEOREM MessagesInductive == Spec => []MsgInv
  BY MsgInit, MsgStep, PTL DEF Spec

\* What nmsg_output_write() hands on is what the program built, for any modules,
\* any number of messages and any sequence of calls.
THEOREM Current == Spec => []WrittenIsCurrent
<1>1. MsgInv => WrittenIsCurrent
  BY DEF MsgInv
<1> QED BY <1>1, MessagesInductive, PTL

-----------------------------------------------------------------------------
(***************************************************************************)
(* The table of fields: what qsort() leaves has every field, and the       *)
(* search by name finds it.                                                *)
(***************************************************************************)
LEMMA LeastOne == ASSUME NEW x \in Int PROVE LeastOr0({x}) = x
<1>1. Least({x}) \in {x}
  <2>1. \E y \in {x} : \A z \in {x} : y <= z
    OBVIOUS
  <2> QED BY <2>1 DEF Least
<1> QED BY <1>1 DEF LeastOr0

LEMMA PositionOne ==
  ASSUME NEW f \in Elements(NameOrder), NEW g \in Elements(NameOrder),
         Position(f) = Position(g)
  PROVE  f = g
<1>1. \A h \in Elements(NameOrder) : NameOrder[Position(h)] = h
  <2> SUFFICES ASSUME NEW h \in Elements(NameOrder) PROVE NameOrder[Position(h)] = h
    OBVIOUS
  <2>1. \E i \in DOMAIN NameOrder : NameOrder[i] = h
    BY DEF Elements
  <2> QED BY <2>1 DEF Position
<1> QED BY <1>1

LEMMA PositionNat ==
  ASSUME NEW f \in Elements(NameOrder)
  PROVE  Position(f) \in Nat
<1>1. \E i \in DOMAIN NameOrder : NameOrder[i] = f
  BY DEF Elements
<1>2. Position(f) \in DOMAIN NameOrder
  BY <1>1 DEF Position
<1>3. DOMAIN NameOrder = 1..Len(NameOrder) /\ Len(NameOrder) \in Nat
  BY PluginAssumption
<1> QED BY <1>2, <1>3

\* The place of a field in the sorted table.
Before(p, f) == {g \in FieldSet(p) : Position(g.name) <= Position(f.name)}
Rank(p, f) == Cardinality(Before(p, f))

LEMMA FieldsFinite ==
  ASSUME NEW p \in Plugins
  PROVE  /\ DOMAIN p.fields = 1..Len(p.fields) /\ Len(p.fields) \in Nat
         /\ IsFiniteSet(FieldSet(p)) /\ Cardinality(FieldSet(p)) = Len(p.fields)
<1>1. /\ p.fields \in Seq(FieldSet(p))
      /\ \A i, j \in DOMAIN p.fields : p.fields[i].name = p.fields[j].name => i = j
  BY PluginAssumption
<1> DEFINE s == p.fields
           n == Len(s)
<1>2. DOMAIN s = 1..n /\ n \in Nat /\ s \in [1..n -> FieldSet(p)]
  BY <1>1
<1>3. s \in Surjection(1..n, FieldSet(p))
  BY <1>2 DEF Surjection, FieldSet, Elements
<1>4. s \in Injection(1..n, FieldSet(p))
  BY <1>1, <1>2 DEF Injection, IsInjective
<1>5. IsFiniteSet(1..n) /\ Cardinality(1..n) = n
  BY <1>2, FS_Interval
<1> HIDE DEF s, n
<1>6. IsFiniteSet(FieldSet(p)) /\ Cardinality(FieldSet(p)) = Cardinality(1..n)
  BY <1>3, <1>4, <1>5, FS_Surjection
<1> QED BY <1>2, <1>5, <1>6 DEF s, n

LEMMA FieldNames ==
  ASSUME NEW p \in Plugins, NEW f \in FieldSet(p), NEW g \in FieldSet(p)
  PROVE  /\ Position(f.name) \in Nat /\ f.name \in Elements(NameOrder)
         /\ f.name = g.name => f = g
         /\ Position(f.name) = Position(g.name) => f = g
<1>1. f.name \in Elements(NameOrder) /\ g.name \in Elements(NameOrder)
  BY PluginAssumption
<1>2. PICK i \in DOMAIN p.fields : f = p.fields[i]
  BY DEF FieldSet, Elements
<1>3. PICK j \in DOMAIN p.fields : g = p.fields[j]
  BY DEF FieldSet, Elements
<1>4. f.name = g.name => f = g
  BY <1>2, <1>3, PluginAssumption
<1> QED BY <1>1, <1>4, PositionOne, PositionNat

LEMMA RankLess ==
  ASSUME NEW p \in Plugins, NEW f \in FieldSet(p), NEW g \in FieldSet(p),
         Position(f.name) < Position(g.name)
  PROVE  Rank(p, f) < Rank(p, g)
<1>1. \A h \in FieldSet(p) : Position(h.name) \in Nat
  BY FieldNames
<1>2. Before(p, f) \subseteq Before(p, g) /\ Before(p, g) \subseteq FieldSet(p)
  BY <1>1 DEF Before
<1>3. g \in Before(p, g) /\ g \notin Before(p, f)
  BY <1>1 DEF Before
<1>4. IsFiniteSet(Before(p, g))
  BY <1>2, FieldsFinite, FS_Subset
<1>5. /\ Cardinality(Before(p, f)) <= Cardinality(Before(p, g))
      /\ Cardinality(Before(p, f)) # Cardinality(Before(p, g))
  BY <1>2, <1>3, <1>4, FS_Subset
<1>6. Cardinality(Before(p, f)) \in Nat /\ Cardinality(Before(p, g)) \in Nat
  BY <1>2, <1>4, FS_Subset, FS_CardinalityType
<1> QED BY <1>5, <1>6 DEF Rank

LEMMA RankOne ==
  ASSUME NEW p \in Plugins, NEW f \in FieldSet(p), NEW g \in FieldSet(p),
         Rank(p, f) = Rank(p, g)
  PROVE  f = g
<1>1. /\ Position(f.name) \in Nat /\ Position(g.name) \in Nat
      /\ Position(f.name) = Position(g.name) => f = g
  BY FieldNames
<1>2. ~(Rank(p, f) < Rank(p, f)) /\ ~(Rank(p, g) < Rank(p, g))
  <2>1. \A h \in FieldSet(p) : Rank(p, h) \in Nat
    <3> SUFFICES ASSUME NEW h \in FieldSet(p) PROVE Rank(p, h) \in Nat
      OBVIOUS
    <3>1. Before(p, h) \subseteq FieldSet(p)
      BY DEF Before
    <3> QED BY <3>1, FieldsFinite, FS_Subset, FS_CardinalityType DEF Rank
  <2> QED BY <2>1
<1>3. ~(Position(f.name) < Position(g.name)) /\ ~(Position(g.name) < Position(f.name))
  BY <1>2, RankLess
<1> QED BY <1>1, <1>3

LEMMA RankRange ==
  ASSUME NEW p \in Plugins, NEW f \in FieldSet(p)
  PROVE  Rank(p, f) \in 1..Len(p.fields)
<1>1. Before(p, f) \subseteq FieldSet(p) /\ f \in Before(p, f)
  BY FieldNames DEF Before
<1>2. IsFiniteSet(Before(p, f)) /\ Cardinality(Before(p, f)) <= Len(p.fields)
  BY <1>1, FieldsFinite, FS_Subset
<1>3. Cardinality(Before(p, f)) \in Nat /\ Cardinality(Before(p, f)) # 0
  BY <1>1, <1>2, FS_CardinalityType, FS_EmptySet
<1> QED BY <1>2, <1>3, FieldsFinite DEF Rank

LEMMA RankOnto ==
  ASSUME NEW p \in Plugins, NEW i \in 1..Len(p.fields)
  PROVE  \E f \in FieldSet(p) : Rank(p, f) = i
<1> DEFINE n == Len(p.fields)
           r == [f \in FieldSet(p) |-> Rank(p, f)]
<1>1. n \in Nat /\ IsFiniteSet(FieldSet(p)) /\ Cardinality(FieldSet(p)) = n
  BY FieldsFinite
<1>2. r \in [FieldSet(p) -> 1..n]
  BY RankRange
<1>3. r \in Injection(FieldSet(p), 1..n)
  <2>1. \A f, g \in FieldSet(p) : r[f] = r[g] => f = g
    BY RankOne
  <2> HIDE DEF r
  <2> QED BY <1>2, <2>1 DEF Injection, IsInjective
<1> HIDE DEF r, n
<1>4. IsFiniteSet(1..n) /\ Cardinality(1..n) = n
  BY <1>1, FS_Interval
<1>5. r \in Surjection(FieldSet(p), 1..n)
  BY <1>1, <1>3, <1>4, FS_Injection
<1>6. i \in 1..n
  BY DEF n
<1>7. \E f \in FieldSet(p) : r[f] = i
  BY <1>5, <1>6 DEF Surjection
<1> QED BY <1>7 DEF r

LEMMA SortedIs ==
  ASSUME NEW p \in Plugins
  PROVE  /\ DOMAIN Sorted(p) = 1..Len(p.fields)
         /\ \A f \in FieldSet(p) : Sorted(p)[Rank(p, f)] = f
         /\ \A i \in 1..Len(p.fields) : Sorted(p)[i] \in FieldSet(p) /\ Rank(p, Sorted(p)[i]) = i
<1>1. Sorted(p) = [i \in 1..Len(p.fields) |-> CHOOSE f \in FieldSet(p) : Rank(p, f) = i]
  BY FieldsFinite DEF Sorted, Rank, Before
<1>2. ASSUME NEW i \in 1..Len(p.fields)
      PROVE  Sorted(p)[i] \in FieldSet(p) /\ Rank(p, Sorted(p)[i]) = i
  BY <1>1, RankOnto
<1>3. ASSUME NEW f \in FieldSet(p) PROVE Sorted(p)[Rank(p, f)] = f
  BY <1>2, RankRange, RankOne
<1> QED BY <1>1, <1>2, <1>3

LEMMA FieldsAre ==
  ASSUME NEW p \in Plugins, NEW m, m.fields = Sorted(p), NEW f \in FieldSet(p)
  PROVE  m.fields[FieldIdx(m, f.name)] = f
<1> DEFINE F == m.fields
<1>1. F = Sorted(p)
  OBVIOUS
<1> DEFINE S == {i \in DOMAIN F : F[i].name = f.name}
<1>2. Rank(p, f) \in 1..Len(p.fields) /\ F[Rank(p, f)] = f /\ DOMAIN F = 1..Len(p.fields)
  BY <1>1, SortedIs, RankRange
<1>3. ASSUME NEW i \in DOMAIN F, F[i].name = f.name PROVE i = Rank(p, f)
  BY <1>1, <1>2, <1>3, SortedIs, FieldNames
<1>4. S = {Rank(p, f)}
  BY <1>2, <1>3
<1>5. FieldIdx(m, f.name) = LeastOr0(S)
  BY DEF FieldIdx
<1> HIDE DEF S, F
<1>6. LeastOr0(S) = Rank(p, f)
  BY <1>2, <1>4, LeastOne
<1> QED BY <1>2, <1>5, <1>6 DEF F

-----------------------------------------------------------------------------
(***************************************************************************)
(* The module set                                                          *)
(***************************************************************************)
\* The module at a place of a set of vendors: {} or one.
At(vs, v, t) == IF v \in DOMAIN vs /\ t \in DOMAIN vs[v] THEN vs[v][t] ELSE NoMod

Shape(vs) == DOMAIN vs \subseteq Nat /\ \A v \in DOMAIN vs : DOMAIN vs[v] \subseteq Nat

LEMMA GrownIs ==
  ASSUME NEW arr, NEW n \in Nat, NEW none, DOMAIN arr \subseteq Nat,
         NEW new, new = Grown(arr, n, none)
  PROVE  /\ DOMAIN new \subseteq Nat /\ n \in DOMAIN new /\ DOMAIN arr \subseteq DOMAIN new
         /\ \A i \in DOMAIN arr : new[i] = arr[i]
         /\ \A i \in DOMAIN new \ DOMAIN arr : new[i] = none
  BY DEF Grown

LEMMA InsertIs ==
  ASSUME NEW vs, Shape(vs), NEW mod, NEW vid \in Nat, NEW mt \in Nat,
         mod.plugin.vid = vid, mod.plugin.msgtype = mt
  PROVE  /\ Shape(Insert(vs, mod))
         /\ \A v, t : At(Insert(vs, mod), v, t)
                        = IF v = vid /\ t = mt THEN {mod} ELSE At(vs, v, t)
<1>1. PICK grown : grown = Grown(vs, vid, NoVendor)
  OBVIOUS
<1>2. PICK types : types = Grown(grown[vid], mt, NoMod)
  OBVIOUS
<1>3. Insert(vs, mod) = [grown EXCEPT ![vid] = [types EXCEPT ![mt] = {mod}]]
  BY <1>1, <1>2 DEF Insert
<1>4. /\ DOMAIN grown \subseteq Nat /\ vid \in DOMAIN grown
      /\ DOMAIN vs \subseteq DOMAIN grown
      /\ \A i \in DOMAIN vs : grown[i] = vs[i]
      /\ \A i \in DOMAIN grown \ DOMAIN vs : grown[i] = NoVendor
  <2>1. DOMAIN vs \subseteq Nat
    BY DEF Shape
  <2> QED BY <1>1, <2>1, GrownIs
<1>5. DOMAIN NoVendor = {}
  BY DEF NoVendor
<1>6. /\ \A v \in DOMAIN grown : DOMAIN grown[v] \subseteq Nat
      /\ \A v, t : At(grown, v, t) = At(vs, v, t)
  BY <1>4, <1>5 DEF At, Shape
<1>7. /\ DOMAIN types \subseteq Nat /\ mt \in DOMAIN types
      /\ DOMAIN grown[vid] \subseteq DOMAIN types
      /\ \A i \in DOMAIN grown[vid] : types[i] = grown[vid][i]
      /\ \A i \in DOMAIN types \ DOMAIN grown[vid] : types[i] = NoMod
  <2>1. DOMAIN grown[vid] \subseteq Nat
    BY <1>4, <1>6
  <2> QED BY <1>2, <2>1, GrownIs
<1>8. PICK new : new = [types EXCEPT ![mt] = {mod}]
  OBVIOUS
<1>9. types = [i \in DOMAIN types |-> types[i]] /\ grown = [i \in DOMAIN grown |-> grown[i]]
  BY <1>1, <1>2 DEF Grown
<1>10. /\ DOMAIN new = DOMAIN types /\ new[mt] = {mod}
       /\ \A t \in DOMAIN types : t # mt => new[t] = types[t]
  BY <1>7, <1>8, <1>9
<1>11. PICK ins : ins = [grown EXCEPT ![vid] = new]
  OBVIOUS
<1>12. /\ DOMAIN ins = DOMAIN grown /\ ins[vid] = new
       /\ \A v \in DOMAIN grown : v # vid => ins[v] = grown[v]
  BY <1>4, <1>9, <1>11
<1>13. Insert(vs, mod) = ins
  BY <1>3, <1>8, <1>11
<1>14. Shape(ins)
  BY <1>4, <1>6, <1>7, <1>10, <1>12 DEF Shape
<1>15. ASSUME NEW v, NEW t
       PROVE  At(ins, v, t) = IF v = vid /\ t = mt THEN {mod} ELSE At(vs, v, t)
  <2>1. CASE v # vid
    <3>1. At(ins, v, t) = At(grown, v, t)
      BY <1>12, <2>1 DEF At
    <3> QED BY <2>1, <3>1, <1>6
  <2>2. CASE v = vid /\ t = mt
    BY <2>2, <1>4, <1>7, <1>10, <1>12 DEF At
  <2>3. CASE v = vid /\ t # mt
    <3>1. At(ins, v, t) = IF t \in DOMAIN types THEN types[t] ELSE NoMod
      BY <2>3, <1>4, <1>10, <1>12 DEF At
    <3>2. At(grown, v, t) = IF t \in DOMAIN grown[vid] THEN grown[vid][t] ELSE NoMod
      BY <2>3, <1>4 DEF At
    <3> QED BY <2>3, <3>1, <3>2, <1>6, <1>7
  <2> QED BY <2>1, <2>2, <2>3
<1> QED BY <1>13, <1>14, <1>15

\* No other plugin is the same.
Once(i) == \A j \in DOMAIN loaded : j # i => loaded[j] # loaded[i]

LoadTypes ==
    /\ dirents \subseteq Seq(Files) /\ plugins \in Seq(Plugins) /\ loaded \in Seq(Plugins)
    /\ described \subseteq Elements(loaded)
    /\ \A i \in DOMAIN loaded : loaded[i].vid # 0 /\ loaded[i].msgtype # 0

\* Whatever is in the set is a plugin that has been loaded, under its ids.
Placed ==
    \A v \in DOMAIN vendors : \A t \in DOMAIN vendors[v] : \A m \in vendors[v][t] :
        \E i \in DOMAIN loaded :
            m.plugin = loaded[i] /\ loaded[i].vid = v /\ loaded[i].msgtype = t

\* The plugin loaded last for its ids is there, alone, with a table of its own.
LatestFound ==
    \A i \in DOMAIN loaded : Latest(i) =>
        \E m \in Lookup(loaded[i].vid, loaded[i].msgtype) :
            /\ Lookup(loaded[i].vid, loaded[i].msgtype) = {m}
            /\ m.plugin = loaded[i]
            /\ loaded[i].type = "transparent" /\ Once(i) => m.fields = Sorted(loaded[i])

\* The inductive invariant.
ModInv ==
    phase \in {"scan", "load", "ready"} =>
        LoadTypes /\ Shape(vendors) /\ Placed /\ LatestFound

LEMMA LookupAt == \A v, t : Lookup(v, t) = At(vendors, v, t)
  BY DEF Lookup, At

LEMMA PlacedAt ==
  Placed <=> \A v, t : \A m \in At(vendors, v, t) : \E i \in DOMAIN loaded :
                 m.plugin = loaded[i] /\ loaded[i].vid = v /\ loaded[i].msgtype = t
  BY DEF Placed, At, NoMod

LEMMA ModInitInv == ModInit => ModInv
<1> SUFFICES ASSUME ModInit PROVE ModInv
  OBVIOUS
<1>1. PICK d \in Directories : dirents = {d}
  BY DEF ModInit
<1>2. /\ plugins = <<>> /\ vendors = [v \in {0} |-> NoVendor]
      /\ described = {} /\ loaded = <<>>
  BY DEF ModInit
<1>3. LoadTypes
  BY <1>1, <1>2, PluginAssumption DEF LoadTypes, Elements
<1>4. DOMAIN NoVendor = {}
  BY DEF NoVendor
<1>5. Shape(vendors) /\ Placed
  BY <1>2, <1>4 DEF Shape, Placed
<1>6. LatestFound
  BY <1>2 DEF LatestFound
<1> QED BY <1>3, <1>5, <1>6 DEF ModInv

LEMMA SetKept ==
  ASSUME ModInv, phase \in {"scan", "load", "ready"}, UNCHANGED <<vendors, loaded>>, LoadTypes'
  PROVE  ModInv'
  BY DEF ModInv, Shape, Placed, LatestFound, Latest, Once, Same, Lookup

LEMMA OutKept ==
  ASSUME ModInv, phase \in {"scan", "load"}, NEW res, Out(res), UNCHANGED <<described, loaded>>
  PROVE  ModInv'
<1>1. CASE res = "success"
  <2>1. LoadTypes'
    BY <1>1 DEF ModInv, LoadTypes, Out
  <2> QED BY <1>1, <2>1, SetKept DEF Out
<1>2. CASE res # "success"
  BY <1>2 DEF Out, ModInv
<1> QED BY <1>1, <1>2

LEMMA ReadDirKeeps == ASSUME ModInv, ReadDir PROVE ModInv'
<1>1. phase = "scan" /\ UNCHANGED <<described, loaded>>
  BY DEF ReadDir
<1>2. LoadTypes
  BY <1>1 DEF ModInv
<1>3. PICK d \in dirents : SkipFile(d) \/ BadFile(d) \/ OpenFile(d) \/ EndOfFiles(d)
  BY DEF ReadDir
<1>4. d \in Seq(Files)
  BY <1>2, <1>3 DEF LoadTypes
<1>5. CASE SkipFile(d)
  <2>1. Tail(d) \in Seq(Files)
    BY <1>4, <1>5 DEF SkipFile
  <2>2. LoadTypes'
    BY <1>1, <1>2, <1>5, <2>1 DEF SkipFile, LoadTypes
  <2> QED BY <1>1, <1>5, <2>2, SetKept DEF SkipFile
<1>6. CASE BadFile(d)
  BY <1>1, <1>6, OutKept DEF BadFile
<1>7. CASE OpenFile(d)
  <2>1. Tail(d) \in Seq(Files) /\ Head(d) \in Files
    BY <1>4, <1>7 DEF OpenFile
  <2>2. Head(d).plugins \in Seq(Plugins)
    BY <2>1, PluginAssumption
  <2>3. LoadTypes'
    BY <1>1, <1>2, <1>7, <2>1, <2>2 DEF OpenFile, LoadTypes
  <2> QED BY <1>1, <1>7, <2>3, SetKept DEF OpenFile
<1>8. CASE EndOfFiles(d)
  BY <1>1, <1>8, OutKept DEF EndOfFiles
<1> QED BY <1>3, <1>5, <1>6, <1>7, <1>8

\* The sequence of the plugins loaded, with one more.
LEMMA OneMore ==
  ASSUME NEW s \in Seq(Plugins), NEW p \in Plugins, NEW s1, s1 = Append(s, p)
  PROVE  /\ s1 \in Seq(Plugins) /\ DOMAIN s \subseteq DOMAIN s1
         /\ Len(s) + 1 \in DOMAIN s1 /\ s1[Len(s) + 1] = p
         /\ \A i \in DOMAIN s : s1[i] = s[i] /\ i \in Nat /\ i < Len(s) + 1
         /\ \A i \in DOMAIN s1 : i \in DOMAIN s \/ i = Len(s) + 1
         /\ Len(s) + 1 \in Nat
  OBVIOUS

LEMMA LoadModuleKeeps == ASSUME ModInv, LoadModule PROVE ModInv'
<1>1. phase = "load" /\ plugins # <<>>
  BY DEF LoadModule
<1>2. LoadTypes /\ Shape(vendors) /\ Placed /\ LatestFound
  BY <1>1 DEF ModInv
<1>3. plugins \in Seq(Plugins) /\ loaded \in Seq(Plugins)
  BY <1>2 DEF LoadTypes
<1>4. PICK p : p = Head(plugins)
  OBVIOUS
<1>5. p \in Plugins /\ Tail(plugins) \in Seq(Plugins)
  BY <1>1, <1>3, <1>4
<1>6. CASE ~Loadable(p)
  <2>1. Out("failure") /\ UNCHANGED <<described, loaded>>
    BY <1>4, <1>6 DEF LoadModule
  <2> QED BY <1>1, <2>1, OutKept
<1>7. CASE Loadable(p)
  <2>1. /\ vendors' = Insert(vendors, Start(p))
        /\ described' \subseteq described \cup {p}
        /\ loaded' = Append(loaded, p)
        /\ plugins' = Tail(plugins)
        /\ phase' \in {"scan", "load"}
        /\ dirents' = dirents
    BY <1>4, <1>7 DEF LoadModule
  <2>2. PICK mod : mod = Start(p)
    OBVIOUS
  <2>3. /\ mod.plugin = p
        /\ p.type = "transparent" /\ p \notin described => mod.fields = Sorted(p)
    BY <2>2 DEF Start, HasTable
  <2>4. PICK vid \in Nat, mt \in Nat : vid = p.vid /\ mt = p.msgtype
    BY <1>5, PluginAssumption
  <2>5. vid # 0 /\ mt # 0
    BY <1>7, <2>4 DEF Loadable
  <2>6. /\ Shape(vendors')
        /\ \A v, t : At(vendors', v, t)
                       = IF v = vid /\ t = mt THEN {mod} ELSE At(vendors, v, t)
    BY <1>2, <2>1, <2>2, <2>3, <2>4, InsertIs
  <2> DEFINE new == loaded'
             n == Len(loaded) + 1
  <2>8. /\ new \in Seq(Plugins) /\ DOMAIN loaded \subseteq DOMAIN new
        /\ n \in DOMAIN new /\ new[n] = p /\ n \in Nat
        /\ \A i \in DOMAIN loaded : new[i] = loaded[i] /\ i \in Nat /\ i < n
        /\ \A i \in DOMAIN new : i \in DOMAIN loaded \/ i = n
    BY <1>3, <1>5, <2>1, OneMore
  <2> HIDE DEF new, n
  <2>9. LoadTypes'
    <3>1. dirents' \subseteq Seq(Files) /\ plugins' \in Seq(Plugins)
      BY <1>2, <1>5, <2>1 DEF LoadTypes
    <3>2. described' \subseteq Elements(new)
      BY <1>2, <2>1, <2>8 DEF LoadTypes, Elements
    <3>3. \A i \in DOMAIN new : new[i].vid # 0 /\ new[i].msgtype # 0
      BY <1>2, <2>4, <2>5, <2>8 DEF LoadTypes
    <3> QED BY <2>8, <3>1, <3>2, <3>3 DEF LoadTypes, new
  <2>10. Placed'
    <3>1. ASSUME NEW v, NEW t, NEW m \in At(vendors', v, t)
          PROVE  \E i \in DOMAIN new :
                     m.plugin = new[i] /\ new[i].vid = v /\ new[i].msgtype = t
      <4>1. CASE v = vid /\ t = mt
        <5>1. m = mod
          BY <2>6, <3>1, <4>1
        <5> QED BY <2>3, <2>4, <2>8, <4>1, <5>1
      <4>2. CASE ~(v = vid /\ t = mt)
        <5>1. m \in At(vendors, v, t)
          BY <2>6, <3>1, <4>2
        <5>2. PICK i \in DOMAIN loaded :
                m.plugin = loaded[i] /\ loaded[i].vid = v /\ loaded[i].msgtype = t
          BY <1>2, <5>1, PlacedAt
        <5> QED BY <2>8, <5>2
      <4> QED BY <4>1, <4>2
    <3>2. \A v, t : \A m \in At(vendors', v, t) : \E i \in DOMAIN new :
              m.plugin = new[i] /\ new[i].vid = v /\ new[i].msgtype = t
      BY <3>1
    <3> QED BY <3>2 DEF Placed, At, new
  <2>11. LatestFound'
    <3> SUFFICES ASSUME NEW i \in DOMAIN new, Latest(i)'
                 PROVE  \E m \in At(vendors', new[i].vid, new[i].msgtype) :
                          /\ At(vendors', new[i].vid, new[i].msgtype) = {m}
                          /\ m.plugin = new[i]
                          /\ new[i].type = "transparent" /\ Once(i)' => m.fields = Sorted(new[i])
      BY DEF LatestFound, Lookup, At, new
    <3>1. CASE i = n
      <4>1. At(vendors', new[i].vid, new[i].msgtype) = {mod}
        BY <2>4, <2>6, <2>8, <3>1
      <4>2. ASSUME Once(i)' PROVE p \notin described
        <5>1. \A j \in DOMAIN new : j # i => new[j] # new[i]
          BY <4>2 DEF Once, new
        <5>2. p \notin Elements(loaded)
          BY <2>8, <3>1, <5>1 DEF Elements
        <5> QED BY <1>2, <5>2 DEF LoadTypes
      <4> QED BY <2>3, <2>8, <3>1, <4>1, <4>2
    <3>2. CASE i \in DOMAIN loaded
      <4>1. \A j \in DOMAIN new : j > i => ~Same(new[i], new[j])
        BY DEF Latest, new
      <4>2. Latest(i)
        BY <2>8, <3>2, <4>1 DEF Latest
      <4>3. ~Same(loaded[i], p)
        BY <2>8, <3>2, <4>1
      <4>4. ~(loaded[i].vid = vid /\ loaded[i].msgtype = mt)
        BY <2>4, <4>3 DEF Same
      <4>5. At(vendors', new[i].vid, new[i].msgtype) = Lookup(loaded[i].vid, loaded[i].msgtype)
        BY <2>6, <2>8, <3>2, <4>4, LookupAt
      <4>6. Once(i)' => Once(i)
        BY <2>8, <3>2 DEF Once, new
      <4>7. new[i] = loaded[i]
        BY <2>8, <3>2
      <4> QED BY <1>2, <3>2, <4>2, <4>5, <4>6, <4>7 DEF LatestFound
    <3> QED BY <2>8, <3>1, <3>2
  <2>12. Shape(vendors)'
    BY <2>6
  <2> QED BY <2>9, <2>10, <2>11, <2>12 DEF ModInv
<1> QED BY <1>6, <1>7

LEMMA ModStep == ASSUME ModInv, [Next]_vars PROVE ModInv'
<1>1. ASSUME UNCHANGED modVars PROVE ModInv'
  BY <1>1 DEF modVars, ModInv, LoadTypes, Shape, Placed, LatestFound, Latest, Once, Same, Lookup
<1>2. CASE ModNext
  BY <1>2, ReadDirKeeps, LoadModuleKeeps DEF ModNext
<1>3. ASSUME NEW h \in Handles, FromPayload(h) PROVE ModInv'
  <2>1. phase = "ready" /\ (UNCHANGED phase \/ phase' = "aborted")
    BY <1>3 DEF FromPayload
  <2>2. CASE UNCHANGED phase
    BY <1>1, <1>3, <2>2 DEF FromPayload, modVars
  <2>3. CASE phase' = "aborted"
    BY <2>3 DEF ModInv
  <2> QED BY <2>1, <2>2, <2>3
<1>4. CASE MessageNext
  BY <1>1, <1>3, <1>4
     DEF MessageNext, Step, MessageInit, FromRawPayload, Dup, Destroy, GetField, SetField, Update,
         SetSource, Compact, WriteNothing, Write, WritePres
<1>5. CASE OpenPres \/ ReadPres \/ UNCHANGED vars
  BY <1>1, <1>5 DEF OpenPres, ReadPres, vars
<1> QED BY <1>2, <1>4, <1>5 DEF Next

-----------------------------------------------------------------------------
(***************************************************************************)
(* Names                                                                   *)
(***************************************************************************)
Alone(i) ==
    \A j \in DOMAIN loaded :
        /\ loaded[j].vname = loaded[i].vname => loaded[j].vid = loaded[i].vid
        /\ loaded[j].vid = loaded[i].vid /\ loaded[j].mname = loaded[i].mname
             => Same(loaded[i], loaded[j])

LEMMA VendorFound ==
  ASSUME Shape(vendors), Placed, NEW i \in DOMAIN loaded, Alone(i), loaded[i].vname # "ISC",
         NEW m \in Lookup(loaded[i].vid, loaded[i].msgtype), m.plugin = loaded[i]
  PROVE  VnameToVid(loaded[i].vname) = loaded[i].vid /\ loaded[i].vid \in Nat
<1> DEFINE p == loaded[i]
           V == {v \in DOMAIN vendors : \E x \in Modules(v) : x.plugin.vname = p.vname}
<1>1. p.vid \in DOMAIN vendors /\ m \in Modules(p.vid)
  BY DEF Lookup, Modules, NoMod
<1>2. ASSUME NEW v \in DOMAIN vendors, NEW x \in Modules(v), x.plugin.vname = p.vname
      PROVE  v = p.vid
  <2>1. PICK t \in DOMAIN vendors[v] : x \in vendors[v][t]
    BY <1>2 DEF Modules
  <2>2. PICK j \in DOMAIN loaded : x.plugin = loaded[j] /\ loaded[j].vid = v
    BY <2>1 DEF Placed
  <2> QED BY <1>2, <2>2 DEF Alone
<1>3. p.vid \in Nat
  BY <1>1 DEF Shape
<1>4. V = {p.vid}
  BY <1>1, <1>2
<1>5. VnameToVid(p.vname) = LeastOr0(V)
  BY DEF VnameToVid
<1> HIDE DEF V, p
<1>6. VnameToVid(p.vname) = p.vid
  BY <1>3, <1>4, <1>5, LeastOne
<1> QED BY <1>3, <1>6 DEF p

LEMMA TypeFound ==
  ASSUME Shape(vendors), Placed, NEW i \in DOMAIN loaded, Alone(i),
         NEW m \in Lookup(loaded[i].vid, loaded[i].msgtype), m.plugin = loaded[i]
  PROVE  MnameToMsgtype(loaded[i].vid, loaded[i].mname) = loaded[i].msgtype
<1> DEFINE p == loaded[i]
           T == {t \in DOMAIN vendors[p.vid] :
                     \E x \in vendors[p.vid][t] : x.plugin.mname = p.mname}
<1>1. /\ p.vid \in DOMAIN vendors /\ p.msgtype \in DOMAIN vendors[p.vid]
      /\ m \in vendors[p.vid][p.msgtype]
  BY DEF Lookup, NoMod
<1>2. ASSUME NEW t \in DOMAIN vendors[p.vid], NEW x \in vendors[p.vid][t],
             x.plugin.mname = p.mname
      PROVE  t = p.msgtype
  <2>1. PICK j \in DOMAIN loaded :
          x.plugin = loaded[j] /\ loaded[j].vid = p.vid /\ loaded[j].msgtype = t
    BY <1>1, <1>2 DEF Placed
  <2> QED BY <1>2, <2>1 DEF Alone, Same
<1>3. p.msgtype \in Nat
  BY <1>1 DEF Shape
<1>4. T = {p.msgtype}
  BY <1>1, <1>2
<1>5. MnameToMsgtype(p.vid, p.mname) = LeastOr0(T)
  BY <1>1 DEF MnameToMsgtype
<1> HIDE DEF T, p
<1>6. MnameToMsgtype(p.vid, p.mname) = p.msgtype
  BY <1>3, <1>4, <1>5, LeastOne
<1> QED BY <1>6 DEF p

LEMMA FoundNow == ModInv => ModulesFound
<1> SUFFICES ASSUME ModInv, phase = "ready", NEW i \in DOMAIN loaded, Latest(i)
             PROVE  FoundById(i) /\ (NamesItself(i) => FoundByName(i))
  BY DEF ModulesFound
<1> DEFINE p == loaded[i]
<1>1. LoadTypes /\ Shape(vendors) /\ Placed /\ LatestFound
  BY DEF ModInv
<1>2. p \in Plugins
  BY <1>1 DEF LoadTypes
<1>3. PICK m \in Lookup(p.vid, p.msgtype) :
        /\ m.plugin = p
        /\ p.type = "transparent" /\ Once(i) => m.fields = Sorted(p)
  BY <1>1, Zenon DEF LatestFound
<1>4. p \notin Others(i) => Once(i)
  BY DEF Once, Others
<1>5. ASSUME p.type = "transparent", p \notin Others(i)
      PROVE  \A f \in FieldSet(p) : m.fields[FieldIdx(m, f.name)] = f
  <2>1. m.fields = Sorted(p)
    BY <1>3, <1>4, <1>5
  <2> HIDE DEF p
  <2> QED BY <1>2, <2>1, FieldsAre
<1>6. ASSUME NamesItself(i) PROVE FoundByName(i)
  <2>1. Alone(i) /\ p.vname # "ISC"
    BY <1>6 DEF Alone, Same, NamesItself, Others
  <2>2. VnameToVid(p.vname) = p.vid
    BY <1>1, <1>3, <2>1, VendorFound
  <2>3. MnameToMsgtype(p.vid, p.mname) = p.msgtype
    BY <1>1, <1>3, <2>1, TypeFound
  <2>4. p.vid # 0 /\ p.msgtype # 0
    BY <1>1 DEF LoadTypes
  <2> QED BY <2>2, <2>3, <2>4 DEF LookupByname, FoundByName
<1>7. FoundById(i)
  BY <1>3, <1>5 DEF FoundById
<1> QED BY <1>6, <1>7

\* Loading keeps every module where it is found: the inductive invariant.
THEOREM ModulesInductive == Spec => []ModInv
<1>1. Init => ModInv
  BY ModInitInv DEF Init
<1> QED BY <1>1, ModStep, PTL DEF Spec

\* Every module that nmsg_init() has loaded is found under its ids and, unless
\* another has them too, under its names, with all of its fields, for any
\* directories, any ids and any number of plugins.
THEOREM Found == Spec => []ModulesFound
  BY ModulesInductive, FoundNow, PTL

-----------------------------------------------------------------------------
(***************************************************************************)
(* The words of a value                                                    *)
(***************************************************************************)
\* A value as the protobuf message holds it: 32 bits for each integer but
\* int64_t, whatever of them the type of the field uses.
Held(f, v) ==
    CASE f.type \in {"uint16", "int16", "uint32", "int32"} -> \E n \in 0..(Word - 1) : v = Num(n)
      [] f.type \in {"int64", "double", "enum"} -> \E n \in Int : v = Num(n)
      [] OTHER -> f.type \in {"string", "ip"} /\ \E w : v = <<w>>

LEMMA SignedIs ==
  ASSUME NEW width \in Nat \ {0}, NEW n \in 0..(width - 1)
  PROVE  /\ Signed(n, width) \in Int /\ Signed(n, width) < width
         /\ Signed(n, width) % width = n
         /\ width \div 2 \in Nat /\ (Signed(n, width) < width \div 2)
<1>1. width \div 2 \in Nat
  OBVIOUS
<1>2. CASE n >= width \div 2
  <2>1. Signed(n, width) = n - width /\ n - width < 0
    BY <1>2 DEF Signed
  <2>2. (n - width) % width = n
    OBVIOUS
  <2> QED BY <1>1, <2>1, <2>2
<1>3. CASE ~(n >= width \div 2)
  <2>1. Signed(n, width) = n /\ n < width \div 2
    BY <1>1, <1>3 DEF Signed
  <2>2. n % width = n
    OBVIOUS
  <2> QED BY <1>1, <2>1, <2>2
<1> QED BY <1>2, <1>3

\* What _nmsg_message_payload_to_pres_load() prints of a value of one line is a
\* word that _nmsg_msgmod_pres_to_payload_load() takes, and what it makes of it
\* prints as the same, for any widths: uint16_t and int16_t lose the upper half of
\* their 32 bits before they are printed, and no sign is lost.
THEOREM WordsReadBack ==
  ASSUME NEW f, NEW v, Held(f, v), ReadableValue(f, v)
  PROVE  \E w : Parsed(f, Shown(f, v)[1]) = {w} /\ Shown(f, w) = Shown(f, v)
<1>1. \A n : Num(n)[1].n = n /\ Num(n)[1].sort = "num"
  BY DEF Num, W
<1>2. Short \in Nat \ {0} /\ Word \in Nat \ {0}
  BY WidthAssumption
<1>3. CASE f.type = "uint16"
  <2>1. PICK n \in 0..(Word - 1) : v = Num(n)
    BY <1>3 DEF Held
  <2> DEFINE k == n % Short
  <2>2. k \in 0..(Short - 1) /\ k % Short = k
    BY <1>2
  <2> HIDE DEF k
  <2>3. Shown(f, v) = Num(k) /\ Shown(f, Num(k)) = Num(k % Short)
    BY <1>1, <1>3, <2>1 DEF Shown, k
  <2>4. Parsed(f, Num(k)[1]) = {Num(k)}
    BY <1>1, <1>3, <2>2 DEF Parsed, ParsedNumber
  <2> QED BY <2>2, <2>3, <2>4
<1>4. CASE f.type = "int16"
  <2>1. PICK n \in 0..(Word - 1) : v = Num(n)
    BY <1>4 DEF Held
  <2> DEFINE k == n % Short
             s == Signed(k, Short)
  <2>2. k \in 0..(Short - 1) /\ k % Short = k
    BY <1>2
  <2> HIDE DEF k
  <2>3. s % Short = k /\ s < Short \div 2
    BY <1>2, <2>2, SignedIs
  <2>4. Shown(f, v) = Num(s) /\ Shown(f, Num(k)) = Num(Signed(k % Short, Short))
    BY <1>1, <1>4, <2>1 DEF Shown, k
  <2> HIDE DEF s
  <2>5. Parsed(f, Num(s)[1]) = {Num(k)}
    BY <1>1, <1>4, <2>3 DEF Parsed, ParsedNumber
  <2> QED BY <2>2, <2>4, <2>5 DEF s
<1>5. CASE f.type = "uint32"
  <2>1. PICK n \in 0..(Word - 1) : v = Num(n)
    BY <1>5 DEF Held
  <2>2. n % Word = n
    BY <1>2
  <2>3. Shown(f, v) = Num(n)
    BY <1>1, <1>5, <2>1 DEF Shown
  <2>4. Parsed(f, Num(n)[1]) = {Num(n)}
    BY <1>1, <1>5, <2>2 DEF Parsed, ParsedNumber
  <2> QED BY <2>1, <2>3, <2>4
<1>6. CASE f.type = "int32"
  <2>1. PICK n \in 0..(Word - 1) : v = Num(n)
    BY <1>6 DEF Held
  <2> DEFINE s == Signed(n, Word)
  <2>2. s % Word = n
    BY <1>2, SignedIs
  <2>3. Shown(f, v) = Num(s)
    BY <1>1, <1>6, <2>1 DEF Shown
  <2> HIDE DEF s
  <2>4. Parsed(f, Num(s)[1]) = {Num(n)}
    BY <1>1, <1>6, <2>2 DEF Parsed, ParsedNumber
  <2> QED BY <2>1, <2>3, <2>4
<1>7. CASE f.type \in {"int64", "double"}
  <2>1. PICK n \in Int : v = Num(n)
    BY <1>7 DEF Held
  <2>2. Shown(f, v) = Num(n)
    BY <1>1, <1>7, <2>1 DEF Shown
  <2>3. Parsed(f, Num(n)[1]) = {Num(n)}
    BY <1>1, <1>7 DEF Parsed, ParsedNumber
  <2> QED BY <2>1, <2>2, <2>3
<1>8. CASE f.type = "enum"
  <2>1. PICK n \in Int : v = Num(n)
    BY <1>8 DEF Held
  <2>2. Shown(f, v) = IF n \in f.values THEN <<W("name", n)>> ELSE Odd
    BY <1>1, <1>8, <2>1 DEF Shown
  <2>3. Shown(f, v) # Odd
    BY <1>8 DEF ReadableValue
  <2>4. n \in f.values
    BY <2>2, <2>3
  <2>5. W("name", n).sort = "name" /\ W("name", n).n = n /\ <<W("name", n)>>[1] = W("name", n)
    BY DEF W
  <2>6. Parsed(f, W("name", n)) = {Num(n)}
    BY <1>8, <2>4, <2>5 DEF Parsed, ParsedNumber
  <2> QED BY <2>1, <2>2, <2>4, <2>5, <2>6
<1>9. CASE f.type = "string"
  <2>1. PICK w : v = <<w>>
    BY <1>9 DEF Held
  <2>2. Shown(f, v) = v
    BY <1>9 DEF ReadableValue, Shown
  <2>3. v[1] = w
    BY <2>1
  <2>4. Parsed(f, w) = {v}
    BY <1>9, <2>1 DEF Parsed, ParsedNumber
  <2> QED BY <2>2, <2>3, <2>4
<1>10. CASE f.type = "ip"
  <2>1. PICK w : v = <<w>>
    BY <1>10 DEF Held
  <2>2. Shown(f, v) = IF w.sort = "ip" THEN v ELSE Odd
    BY <1>10, <2>1 DEF Shown
  <2>3. Shown(f, v) # Odd
    BY <1>10 DEF ReadableValue
  <2>4. v[1] = w /\ w.sort = "ip"
    BY <2>1, <2>2, <2>3
  <2>5. Parsed(f, w) = {v}
    BY <1>10, <2>1, <2>4 DEF Parsed, ParsedNumber
  <2> QED BY <2>2, <2>4, <2>5
<1> QED BY <1>3, <1>4, <1>5, <1>6, <1>7, <1>8, <1>9, <1>10 DEF Held

-----------------------------------------------------------------------------
(***************************************************************************)
(* The reader's closure                                                    *)
(***************************************************************************)
\* A module in the set: its table is that of its plugin, or has not been made.
Tabled(m) == m.plugin \in Plugins /\ (m.fields = Sorted(m.plugin) \/ m.fields = <<>>)
AllTabled == \A v, t : \A m \in At(vendors, v, t) : Tabled(m)

LEMMA TabledStep == ASSUME ModInv, AllTabled, [Next]_vars PROVE AllTabled'
<1>1. ASSUME UNCHANGED vendors PROVE AllTabled'
  BY <1>1 DEF AllTabled
<1>2. ASSUME vendors' = [v \in {0} |-> NoVendor] PROVE AllTabled'
  <2>1. \A v, t : At(vendors', v, t) = NoMod
    BY <1>2 DEF At, NoVendor
  <2> QED BY <2>1 DEF AllTabled, NoMod
<1>3. ASSUME NEW res, Out(res) PROVE AllTabled'
  BY <1>1, <1>2, <1>3 DEF Out
<1>4. CASE ReadDir
  BY <1>1, <1>3, <1>4 DEF ReadDir, SkipFile, BadFile, OpenFile, EndOfFiles
<1>5. CASE LoadModule
  <2>1. phase = "load" /\ plugins # <<>>
    BY <1>5 DEF LoadModule
  <2>2. plugins \in Seq(Plugins) /\ Shape(vendors)
    BY <2>1 DEF ModInv, LoadTypes
  <2>3. PICK p \in Plugins : p = Head(plugins)
    BY <2>1, <2>2
  <2>4. CASE Out("failure")
    BY <1>3, <2>4
  <2>5. CASE vendors' = Insert(vendors, Start(p))
    <3>1. PICK mod : mod = Start(p)
      OBVIOUS
    <3>2. mod.plugin = p /\ (mod.fields = Sorted(p) \/ mod.fields = <<>>)
      BY <3>1 DEF Start
    <3>3. PICK vid \in Nat, mt \in Nat : vid = p.vid /\ mt = p.msgtype
      BY <2>3, PluginAssumption
    <3>4. \A v, t : At(vendors', v, t) = IF v = vid /\ t = mt THEN {mod} ELSE At(vendors, v, t)
      BY <2>2, <2>5, <3>1, <3>2, <3>3, InsertIs
    <3>5. Tabled(mod)
      BY <2>3, <3>2 DEF Tabled
    <3> QED BY <3>4, <3>5 DEF AllTabled
  <2> QED BY <1>5, <2>3, <2>4, <2>5 DEF LoadModule
<1>6. CASE MessageNext
  BY <1>1, <1>6
     DEF MessageNext, Step, MessageInit, FromPayload, FromRawPayload, Dup, Destroy, GetField, SetField,
         Update, SetSource, Compact, WriteNothing, Write, WritePres, modVars
<1>7. CASE OpenPres \/ ReadPres \/ UNCHANGED vars
  BY <1>1, <1>7 DEF OpenPres, ReadPres, vars, modVars
<1> QED BY <1>4, <1>5, <1>6, <1>7 DEF Next, ModNext

LEMMA LeastIn ==
  ASSUME NEW S, S \subseteq Nat, S # {}
  PROVE  LeastOr0(S) \in S
<1>1. \E x \in S : \A y \in S : x <= y
  <2>1. PICK R : /\ IsWellFoundedOn(R, Nat)
                 /\ \A y, x \in Nat : y < x => <<y, x>> \in R
    <3>1. IsWellFoundedOn(OpToRel(<, Nat), Nat)
      BY NatLessThanWellFounded
    <3>2. \A y, x \in Nat : y < x => <<y, x>> \in OpToRel(<, Nat)
      BY DEF OpToRel
    <3> QED BY <3>1, <3>2
  <2>2. S \subseteq Nat /\ S # {} /\ IsWellFoundedOn(R, Nat)
    BY <2>1
  <2>3. \E x \in S : \A y \in S : ~(<<y, x>> \in R)
    BY ONLY <2>2, WFMin, ZenonT(30)
  <2>4. PICK x \in S : \A y \in S : ~(<<y, x>> \in R)
    BY <2>3
  <2>5. ASSUME NEW y \in S PROVE x <= y
    <3>1. x \in Nat /\ y \in Nat /\ ~(y < x)
      BY <2>1, <2>2, <2>4
    <3> QED BY <3>1
  <2> QED BY <2>5
<1> QED BY <1>1 DEF LeastOr0, Least

\* The field that a key names, or the last one, is a field of the plugin.
LEMMA KeyedField ==
  ASSUME NEW mod, Tabled(mod), mod.fields # <<>>, NEW key
  PROVE  FieldForKey(mod, key) \in FieldSet(mod.plugin)
<1> DEFINE p == mod.plugin
           F == mod.fields
           S == {j \in DOMAIN F : HasDescr(mod, F[j]) /\ F[j].name = key}
           i == LeastOr0(S)
<1>1. p \in Plugins /\ F = Sorted(p)
  BY DEF Tabled
<1> HIDE DEF p
<1>2. DOMAIN F = 1..Len(p.fields) /\ Len(p.fields) \in Nat /\ \A j \in DOMAIN F : F[j] \in FieldSet(p)
  BY <1>1, SortedIs, FieldsFinite
<1>3. F = [j \in 1..Len(p.fields) |-> F[j]]
  BY <1>1, FieldsFinite DEF Sorted
<1>4. F \in Seq(FieldSet(p))
  <2>1. PICK n \in Nat : n = Len(p.fields)
    BY <1>2
  <2>2. F \in [1..n -> FieldSet(p)]
    BY <1>2, <1>3, <2>1
  <2> HIDE DEF F
  <2> QED BY <2>2
<1>5. Len(F) \in DOMAIN F
  BY <1>4
<1>6. S \subseteq DOMAIN F /\ S \subseteq Nat
  BY <1>2
<1>7. FieldForKey(mod, key) = F[IF i = 0 THEN Len(F) ELSE i]
  BY DEF FieldForKey
<1> HIDE DEF F, S
<1>8. i \in S \/ i = 0
  <2>1. CASE S = {}
    BY <2>1 DEF LeastOr0
  <2>2. CASE S # {}
    BY <1>6, <2>2, LeastIn
  <2> QED BY <2>1, <2>2
<1> QED BY <1>2, <1>5, <1>6, <1>7, <1>8 DEF p

\* The closure, its buffers and the names of the multiline strings.
Clo(pbuf, mode, field, bufs) == [pbuf |-> pbuf, mode |-> mode, field |-> field, strbufs |-> bufs]
Names(mod) == DOMAIN mod.plugin.labels
IsText(mod, name) ==
    \E f \in FieldSet(mod.plugin) : f.type = "mlstring" /\ f.name = name /\ name \in Names(mod)
AreBufs(mod, bufs) == bufs = [name \in Names(mod) |-> bufs[name]]

\* Nothing is left in a buffer.
Empty(mod, bufs) == \A name \in Names(mod) : bufs[name].lines = <<>>

\* What is in a buffer belongs to message c: to the string that is being read,
\* or to one that has been.
Owned(mod, c, mode, field, bufs) ==
    /\ c = [name \in Names(mod) |-> c[name]]
    /\ mode = "multiline" => IsText(mod, field)
    /\ \A name \in Names(mod) :
         bufs[name].lines # <<>> =>
             IsText(mod, name) /\ (c[name] # <<>> \/ (mode = "multiline" /\ field = name))

Fresh(mod, cl) ==
    \E pbuf, mode, field, bufs :
        /\ cl = Clo(pbuf, mode, field, bufs) /\ AreBufs(mod, bufs)
        /\ \/ pbuf = {} /\ Empty(mod, bufs)
           \/ \E c : pbuf = {c} /\ Owned(mod, c, mode, field, bufs)

Started(cl, pbuf, mode) == [cl EXCEPT !.pbuf = pbuf, !.mode = mode]
Turned(cl, mode, field) == [cl EXCEPT !.mode = mode, !.field = field]

LEMMA CloPut ==
  ASSUME NEW pbuf, NEW mode, NEW field, NEW bufs, NEW cl, cl = Clo(pbuf, mode, field, bufs),
         NEW x, NEW y
  PROVE  Started(cl, x, y) = Clo(x, y, field, bufs) /\ Turned(cl, x, y) = Clo(pbuf, x, y, bufs)
<1> DEFINE K == {"pbuf", "mode", "field", "strbufs"}
<1>1. cl = [k \in K |-> cl[k]] /\ cl.pbuf = pbuf /\ cl.field = field /\ cl.strbufs = bufs
  BY DEF Clo
<1>2. [cl EXCEPT !.pbuf = x, !.mode = y]
        = [k \in K |-> IF k = "mode" THEN y ELSE IF k = "pbuf" THEN x ELSE cl[k]]
  BY <1>1
<1>3. [cl EXCEPT !.mode = x, !.field = y]
        = [k \in K |-> IF k = "field" THEN y ELSE IF k = "mode" THEN x ELSE cl[k]]
  BY <1>1
<1>4. Clo(x, y, field, bufs) = [k \in K |-> IF k = "mode" THEN y ELSE IF k = "pbuf" THEN x ELSE cl[k]]
  BY <1>1 DEF Clo
<1>5. Clo(pbuf, x, y, bufs) = [k \in K |-> IF k = "field" THEN y ELSE IF k = "mode" THEN x ELSE cl[k]]
  BY <1>1 DEF Clo
<1> QED BY <1>2, <1>3, <1>4, <1>5 DEF Started, Turned

\* A value of one line changes no multiline string.
LEMMA ValueOwned ==
  ASSUME NEW mod, Tabled(mod), NEW c, NEW mode, NEW field, NEW bufs,
         Owned(mod, c, mode, field, bufs), NEW f \in FieldSet(mod.plugin), f.type # "mlstring",
         NEW vs
  PROVE  Owned(mod, [c EXCEPT ![f.name] = vs], mode, field, bufs)
<1> DEFINE d == [c EXCEPT ![f.name] = vs]
<1>1. c = [name \in Names(mod) |-> c[name]]
  BY DEF Owned
<1>2. d = [name \in Names(mod) |-> d[name]] /\ \A name \in Names(mod) : name # f.name => d[name] = c[name]
  BY <1>1
<1>3. \A name : IsText(mod, name) => name # f.name
  BY FieldNames DEF IsText, Tabled
<1> HIDE DEF d
<1>4. Owned(mod, d, mode, field, bufs)
  BY <1>2, <1>3 DEF Owned
<1> QED BY <1>4 DEF d

LEMMA ValueFresh ==
  ASSUME NEW mod, Tabled(mod), NEW c, NEW mode, NEW field, NEW bufs, AreBufs(mod, bufs),
         Owned(mod, c, mode, field, bufs), NEW f \in FieldSet(mod.plugin), f.type # "mlstring",
         NEW words, NEW cl, cl = Clo({c}, mode, field, bufs)
  PROVE  /\ Fresh(mod, LoadValue(mod, cl, c, f, words).clos)
         /\ LoadValue(mod, cl, c, f, words).res # "pbuf_ready"
<1> DEFINE r == LoadValue(mod, cl, c, f, words)
<1>1. \A x, y : Result(x, y).clos = y /\ Result(x, y).res = x
  BY DEF Result
<1>2. [cl EXCEPT !.pbuf = {c}] = cl
  BY DEF Clo
<1>3. ASSUME NEW vs PROVE Fresh(mod, [cl EXCEPT !.pbuf = {[c EXCEPT ![f.name] = vs]}])
  <2>1. Owned(mod, [c EXCEPT ![f.name] = vs], mode, field, bufs)
    BY ValueOwned
  <2>2. \A x : [cl EXCEPT !.pbuf = x] = Clo(x, mode, field, bufs)
    BY DEF Clo
  <2> QED BY <2>1, <2>2 DEF Fresh
<1>4. Fresh(mod, cl)
  BY DEF Fresh
<1>5. \/ \E x \in {"parse_error", "abort"} : r = Result(x, cl)
      \/ \E vs : \E x \in {"parse_error", "success"} :
            r = Result(x, [cl EXCEPT !.pbuf = {[c EXCEPT ![f.name] = vs]}])
  BY <1>2 DEF LoadValue
<1> HIDE DEF r
<1>6. CASE \E x \in {"parse_error", "abort"} : r = Result(x, cl)
  BY <1>1, <1>4, <1>6 DEF r
<1>7. ASSUME NEW vs, NEW x \in {"parse_error", "success"},
             r = Result(x, [cl EXCEPT !.pbuf = {[c EXCEPT ![f.name] = vs]}])
      PROVE  Fresh(mod, r.clos) /\ r.res # "pbuf_ready"
  <2>1. PICK y : y = [cl EXCEPT !.pbuf = {[c EXCEPT ![f.name] = vs]}]
    OBVIOUS
  <2>2. r = Result(x, y) /\ Fresh(mod, y)
    BY <1>3, <1>7, <2>1
  <2> QED BY <1>1, <2>2
<1> QED BY <1>5, <1>6, <1>7 DEF r

LEMMA TextFresh ==
  ASSUME NEW mod, NEW c, NEW field, NEW bufs, AreBufs(mod, bufs),
         Owned(mod, c, "multiline", field, bufs),
         NEW cl, cl = Clo({c}, "multiline", field, bufs), NEW line
  PROVE  Fresh(mod, LoadLine(cl, c, line))
<1>1. /\ c = [name \in Names(mod) |-> c[name]] /\ IsText(mod, field) /\ field \in Names(mod)
      /\ bufs = [name \in Names(mod) |-> bufs[name]]
      /\ cl.field = field /\ cl.strbufs = bufs
  <2>1. cl.field = field /\ cl.strbufs = bufs
    BY DEF Clo
  <2> QED BY <2>1 DEF Owned, IsText, AreBufs
<1>2. CASE line = Dot
  <2> DEFINE v == <<IF bufs[field].alloc THEN bufs[field].lines ELSE Null>>
             d == [c EXCEPT ![field] = v]
  <2>1. LoadLine(cl, c, line) = Clo({d}, "keyval", field, bufs)
    <3>1. LoadLine(cl, c, line) = [cl EXCEPT !.mode = "keyval", !.pbuf = {d}]
      BY <1>1, <1>2 DEF LoadLine
    <3> HIDE DEF d
    <3> QED BY <3>1 DEF Clo
  <2>2. v # <<>>
    OBVIOUS
  <2> HIDE DEF v
  <2>3. /\ d = [name \in Names(mod) |-> d[name]] /\ d[field] # <<>>
        /\ \A name \in Names(mod) : name # field => d[name] = c[name]
    BY <1>1, <2>2
  <2> HIDE DEF d
  <2>4. Owned(mod, d, "keyval", field, bufs)
    BY <2>3 DEF Owned
  <2> QED BY <2>1, <2>4 DEF Fresh
<1>3. CASE line # Dot
  <2> DEFINE sb == [alloc |-> TRUE, lines |-> Append(bufs[field].lines, line)]
             new == [bufs EXCEPT ![field] = sb]
  <2>1. LoadLine(cl, c, line) = Clo({c}, "multiline", field, new)
    <3>1. LoadLine(cl, c, line) = [cl EXCEPT !.pbuf = {c}, !.strbufs[field] = sb]
      BY <1>1, <1>3 DEF LoadLine
    <3> HIDE DEF sb
    <3> QED BY <1>1, <3>1 DEF Clo
  <2> HIDE DEF sb
  <2>2. AreBufs(mod, new) /\ \A name \in Names(mod) : name # field => new[name] = bufs[name]
    BY <1>1 DEF AreBufs
  <2> HIDE DEF new
  <2>3. Owned(mod, c, "multiline", field, new)
    BY <1>1, <2>2 DEF Owned
  <2> QED BY <2>1, <2>2, <2>3 DEF Fresh
<1> QED BY <1>2, <1>3

\* One line, in whatever state the last one has left the closure.
LEMMA LineFresh ==
  ASSUME NEW mod, Tabled(mod), NEW cl, Fresh(mod, cl), NEW line
  PROVE  LET r == PresToPayload(mod, cl, line)
         IN  /\ Fresh(mod, r.clos)
             /\ r.res = "pbuf_ready" => r.clos.pbuf # {} /\ r.clos.mode # "multiline"
<1>1. PICK pbuf, mode0, field, bufs :
        /\ cl = Clo(pbuf, mode0, field, bufs) /\ AreBufs(mod, bufs)
        /\ \/ pbuf = {} /\ Empty(mod, bufs)
           \/ \E c : pbuf = {c} /\ Owned(mod, c, mode0, field, bufs)
  BY DEF Fresh
<1> DEFINE c == IF cl.pbuf = {} THEN ZeroMessage(mod) ELSE CHOOSE x \in cl.pbuf : TRUE
           mode == IF cl.pbuf = {} THEN "keyval" ELSE cl.mode
           f == FieldForKey(mod, line.key)
           now == [cl EXCEPT !.pbuf = {c}, !.mode = IF cl.pbuf = {} THEN "keyval" ELSE @]
           r == PresToPayload(mod, cl, line)
<1>2. cl.pbuf = pbuf /\ cl.mode = mode0 /\ now = Clo({c}, mode, field, bufs)
  <2>1. cl.pbuf = pbuf /\ cl.mode = mode0 /\ now = Started(cl, {c}, mode)
    BY <1>1 DEF Clo, Started
  <2> HIDE DEF c, mode, now
  <2> QED BY <1>1, <2>1, CloPut
<1>3. Owned(mod, c, mode, field, bufs)
  <2>1. CASE pbuf = {} /\ Empty(mod, bufs)
    <3>1. c = ZeroMessage(mod) /\ mode = "keyval"
      BY <1>2, <2>1
    <3>2. c = [name \in Names(mod) |-> c[name]]
      BY <3>1 DEF ZeroMessage, Names
    <3> HIDE DEF c, mode
    <3> QED BY <2>1, <3>1, <3>2 DEF Owned, Empty
  <2>2. ASSUME NEW d, pbuf = {d}, Owned(mod, d, mode0, field, bufs) PROVE Owned(mod, c, mode, field, bufs)
    BY <1>2, <2>2
  <2> QED BY <1>1, <2>1, <2>2
<1>4. r = IF now.mode = "multiline" THEN Result("success", LoadLine(now, c, line))
          ELSE IF line = Blank THEN Result("pbuf_ready", now)
          ELSE IF mod.fields = <<>> THEN Result("abort", now)
          ELSE IF ~HasDescr(mod, f) THEN Result("parse_error", now)
          ELSE IF f.type = "mlstring"
               THEN Result("success", [now EXCEPT !.mode = "multiline", !.field = f.name])
          ELSE LoadValue(mod, now, c, f, line.words)
  BY DEF PresToPayload
<1>5. mod.fields # <<>> => f \in FieldSet(mod.plugin)
  BY KeyedField
<1>6. \A x, y : Result(x, y).clos = y /\ Result(x, y).res = x
  BY DEF Result
<1> HIDE DEF c, mode, f, now, r
<1>7. now.pbuf = {c} /\ now.mode = mode
  BY <1>2 DEF Clo
<1>8. Fresh(mod, now)
  BY <1>1, <1>2, <1>3 DEF Fresh
<1> DEFINE Good == Fresh(mod, r.clos) /\ (r.res = "pbuf_ready" => r.clos.pbuf # {} /\ r.clos.mode # "multiline")
<1>9. CASE mode = "multiline"
  <2>1. r = Result("success", LoadLine(now, c, line))
    BY <1>4, <1>7, <1>9
  <2>2. Fresh(mod, LoadLine(now, c, line))
    BY <1>1, <1>2, <1>3, <1>9, TextFresh
  <2> QED BY <1>6, <2>1, <2>2 DEF r
<1>10. CASE mode # "multiline" /\ (line = Blank \/ mod.fields = <<>> \/ ~HasDescr(mod, f))
  <2>1. \E x : r = Result(x, now)
    BY <1>4, <1>7, <1>10
  <2>2. r.clos = now
    BY <1>6, <2>1
  <2> QED BY <1>7, <1>8, <1>10, <2>2 DEF r
<1>11. CASE mode # "multiline" /\ line # Blank /\ mod.fields # <<>> /\ HasDescr(mod, f) /\ f.type = "mlstring"
  <2>1. r = Result("success", Turned(now, "multiline", f.name))
    BY <1>4, <1>7, <1>11 DEF Turned
  <2>2. Turned(now, "multiline", f.name) = Clo({c}, "multiline", f.name, bufs)
    BY <1>2, CloPut
  <2>4. IsText(mod, f.name)
    BY <1>5, <1>11 DEF IsText, HasDescr, Names
  <2>5. Owned(mod, c, "multiline", f.name, bufs)
    BY <1>3, <1>11, <2>4 DEF Owned
  <2>6. Fresh(mod, Clo({c}, "multiline", f.name, bufs))
    BY <1>1, <2>5 DEF Fresh
  <2>7. r.clos = Clo({c}, "multiline", f.name, bufs) /\ r.res = "success"
    BY <1>6, <2>1, <2>2
  <2> QED BY <2>6, <2>7 DEF r
<1>12. CASE mode # "multiline" /\ line # Blank /\ mod.fields # <<>> /\ HasDescr(mod, f) /\ f.type # "mlstring"
  <2>1. r = LoadValue(mod, now, c, f, line.words)
    BY <1>4, <1>7, <1>12
  <2> QED BY <1>1, <1>2, <1>3, <1>5, <1>12, <2>1, ValueFresh DEF r
<1> QED BY <1>9, <1>10, <1>11, <1>12

LEMMA NewFresh == ASSUME NEW mod PROVE Fresh(mod, NewClosure(mod))
<1> DEFINE bufs == [name \in Names(mod) |-> [alloc |-> FALSE, lines |-> <<>>]]
<1>1. PICK none : NewClosure(mod) = Clo({}, "keyval", none, bufs)
  BY Zenon DEF NewClosure, Clo, Names
<1>2. AreBufs(mod, bufs) /\ Empty(mod, bufs)
  BY DEF AreBufs, Empty
<1> HIDE DEF bufs
<1> QED BY <1>1, <1>2 DEF Fresh

\* _nmsg_msgmod_pres_to_payload_finalize() empties every buffer that was used.
LEMMA FinalFresh ==
  ASSUME NEW mod, NEW cl, Fresh(mod, cl), cl.pbuf # {}, cl.mode # "multiline"
  PROVE  Fresh(mod, AfterFinalize(mod, cl, The(cl.pbuf)))
<1>1. PICK pbuf, mode, field, bufs :
        /\ cl = Clo(pbuf, mode, field, bufs) /\ AreBufs(mod, bufs)
        /\ \/ pbuf = {} /\ Empty(mod, bufs)
           \/ \E c : pbuf = {c} /\ Owned(mod, c, mode, field, bufs)
  BY DEF Fresh
<1>2. cl.pbuf = pbuf /\ cl.mode = mode /\ cl.strbufs = bufs
  BY <1>1 DEF Clo
<1>3. PICK c : pbuf = {c} /\ Owned(mod, c, mode, field, bufs)
  BY <1>1, <1>2
<1>4. The(cl.pbuf) = c
  BY <1>2, <1>3, TheOne
<1> DEFINE new == [name \in Names(mod) |->
                      IF name \in Multiline(mod, c) THEN [alloc |-> TRUE, lines |-> <<>>] ELSE bufs[name]]
<1>5. DOMAIN bufs = Names(mod)
  BY <1>1 DEF AreBufs
<1>6. AfterFinalize(mod, cl, c) = Clo({}, mode, field, new)
  <2> DEFINE K == {"pbuf", "mode", "field", "strbufs"}
  <2>1. /\ cl = [k \in K |-> cl[k]] /\ cl.mode = mode /\ cl.field = field /\ cl.strbufs = bufs
    BY <1>1 DEF Clo
  <2>2. AfterFinalize(mod, cl, c) = [cl EXCEPT !.pbuf = {}, !.strbufs = new]
    BY <1>5, <2>1 DEF AfterFinalize
  <2> HIDE DEF new
  <2>3. [cl EXCEPT !.pbuf = {}, !.strbufs = new]
          = [k \in K |-> IF k = "strbufs" THEN new ELSE IF k = "pbuf" THEN {} ELSE cl[k]]
    BY <2>1
  <2>4. Clo({}, mode, field, new)
          = [k \in K |-> IF k = "strbufs" THEN new ELSE IF k = "pbuf" THEN {} ELSE cl[k]]
    BY <2>1 DEF Clo
  <2> QED BY <2>2, <2>3, <2>4
<1>7. \A name \in Names(mod) : bufs[name].lines # <<>> => name \in Multiline(mod, c)
  <2> SUFFICES ASSUME NEW name \in Names(mod), bufs[name].lines # <<>> PROVE name \in Multiline(mod, c)
    OBVIOUS
  <2>1. IsText(mod, name) /\ c[name] # <<>>
    BY <1>2, <1>3 DEF Owned
  <2> QED BY <2>1 DEF IsText, Multiline, HasDescr, Names
<1>8. AreBufs(mod, new) /\ Empty(mod, new)
  BY <1>7 DEF AreBufs, Empty
<1> HIDE DEF new
<1> QED BY <1>4, <1>6, <1>8 DEF Fresh

FreshInv ==
    /\ Option(reader)
    /\ reader # {} => phase \notin {"scan", "load"} /\ Tabled(The(ReaderMod))
    /\ \A cl \in reader : Fresh(The(ReaderMod), cl)

LEMMA ReaderTabled == ASSUME AllTabled, ReaderMod # {} PROVE Tabled(The(ReaderMod))
<1>1. PICK v, t : ReaderMod = Lookup(v, t)
  BY DEF ReaderMod, LookupByname, NoMod
<1>2. The(ReaderMod) \in At(vendors, v, t)
  BY <1>1, LookupAt DEF The
<1> QED BY <1>2 DEF AllTabled

LEMMA FreshStep == ASSUME AllTabled, FreshInv, [Next]_vars PROVE FreshInv'
<1>1. ASSUME UNCHANGED vendors PROVE ReaderMod' = ReaderMod
  BY <1>1 DEF ReaderMod, LookupByname, VnameToVid, MnameToMsgtype, Modules, Lookup
<1>2. ASSUME UNCHANGED <<vendors, reader>>,
             phase' = phase \/ phase' = "aborted" \/ reader = {}
      PROVE  FreshInv'
  <2>1. ReaderMod' = ReaderMod
    BY <1>1, <1>2
  <2> QED BY <1>2, <2>1 DEF FreshInv
<1>3. CASE ModNext /\ UNCHANGED <<msgVars, presVars>>
  <2>1. phase \in {"scan", "load"} /\ reader' = reader
    BY <1>3 DEF ModNext, ReadDir, LoadModule, presVars
  <2>2. reader = {}
    BY <2>1 DEF FreshInv
  <2> QED BY <2>1, <2>2 DEF FreshInv, Option
<1>4. CASE MessageNext
  <2>1. UNCHANGED <<vendors, reader>> /\ (phase' = phase \/ phase' = "aborted")
    BY <1>4
       DEF MessageNext, Step, MessageInit, FromPayload, FromRawPayload, Dup, Destroy, GetField, SetField,
           Update, SetSource, Compact, WriteNothing, Write, WritePres, modVars, Quiet, presVars
  <2> QED BY <1>2, <2>1
<1>5. CASE OpenPres
  <2>1. /\ phase = "ready" /\ UNCHANGED <<vendors, phase>> /\ ReaderMod # {}
        /\ reader' = {NewClosure(The(ReaderMod))}
    BY <1>5 DEF OpenPres, modVars, Transparent
  <2>2. ReaderMod' = ReaderMod /\ Tabled(The(ReaderMod)) /\ Fresh(The(ReaderMod), NewClosure(The(ReaderMod)))
    BY <1>1, <2>1, ReaderTabled, NewFresh
  <2> QED BY <2>1, <2>2 DEF FreshInv, Option
<1>6. CASE ReadPres
  <2> DEFINE mod == The(ReaderMod)
             r == PresToPayload(mod, The(reader), Head(input))
             fin == Finalize(mod, r.clos, The(r.clos.pbuf))
  <2>1. /\ reader # {} /\ UNCHANGED <<vendors, phase>>
        /\ \/ reader' = {r.clos} \/ reader' = reader
           \/ r.res = "pbuf_ready" /\ reader' = {fin.clos}
    BY <1>6 DEF ReadPres, modVars
  <2>2. ReaderMod' = ReaderMod
    BY <1>1, <2>1
  <2>3. Tabled(mod) /\ Fresh(mod, The(reader)) /\ phase \notin {"scan", "load"} /\ Option(reader)
    BY <2>1, OptionThe DEF FreshInv
  <2> HIDE DEF mod
  <2>4. /\ Fresh(mod, r.clos)
        /\ r.res = "pbuf_ready" => r.clos.pbuf # {} /\ r.clos.mode # "multiline"
    BY <2>3, LineFresh
  <2>5. fin.clos = AfterFinalize(mod, r.clos, The(r.clos.pbuf))
    BY DEF Finalize
  <2> HIDE DEF r, fin
  <2>6. r.res = "pbuf_ready" => Fresh(mod, fin.clos)
    BY <2>4, <2>5, FinalFresh
  <2>7. Option(reader') /\ \A cl \in reader' : Fresh(mod, cl)
    <3>1. \A cl \in reader : Fresh(mod, cl)
      BY DEF FreshInv, mod
    <3> QED BY <2>1, <2>3, <2>4, <2>6, <3>1 DEF Option
  <2> QED BY <2>1, <2>2, <2>3, <2>7 DEF FreshInv, mod
<1>7. CASE UNCHANGED vars
  BY <1>2, <1>7 DEF vars, modVars, presVars
<1> QED BY <1>3, <1>4, <1>5, <1>6, <1>7 DEF Next

\* Between two messages the reader's closure holds no line of a multiline string.
StartsFresh ==
    \A cl \in reader : cl.pbuf = {} => \A name \in DOMAIN cl.strbufs : cl.strbufs[name].lines = <<>>

\* Whatever lines the presentation input has been given, strings that were left
\* out, repeated or printed by another module among them: when
\* _nmsg_msgmod_pres_to_payload_finalize() has made a payload, no buffer has a
\* line that could get into the next message.
THEOREM MessagesStartFresh == Spec => []StartsFresh
<1>1. Init => AllTabled /\ FreshInv
  <2> SUFFICES ASSUME Init PROVE AllTabled /\ FreshInv
    OBVIOUS
  <2>1. reader = {} /\ vendors = [v \in {0} |-> NoVendor]
    BY DEF Init, ModInit
  <2>2. \A v, t : At(vendors, v, t) = NoMod
    BY <2>1 DEF At, NoVendor
  <2> QED BY <2>1, <2>2 DEF AllTabled, FreshInv, Option, NoMod
<1>2. FreshInv => StartsFresh
  <2> SUFFICES ASSUME FreshInv, NEW cl \in reader, cl.pbuf = {}, NEW name \in DOMAIN cl.strbufs
               PROVE  cl.strbufs[name].lines = <<>>
    BY DEF StartsFresh
  <2>1. PICK pbuf, mode, field, bufs :
          /\ cl = Clo(pbuf, mode, field, bufs) /\ AreBufs(The(ReaderMod), bufs)
          /\ \/ pbuf = {} /\ Empty(The(ReaderMod), bufs)
             \/ \E c : pbuf = {c}
    BY DEF FreshInv, Fresh
  <2>2. cl.pbuf = pbuf /\ cl.strbufs = bufs
    BY <2>1 DEF Clo
  <2>3. DOMAIN bufs = Names(The(ReaderMod))
    BY <2>1 DEF AreBufs
  <2> QED BY <2>1, <2>2, <2>3 DEF Empty
<1> QED BY <1>1, <1>2, TabledStep, FreshStep, ModulesInductive, PTL DEF Spec
=============================================================================
