------------------------------ MODULE DnsqrTable ------------------------------
(***************************************************************************)
(* The state table of the dnsqr message module, nmsg/base/dnsqr.c: the DNS *)
(* queries that have not been answered yet, in an open-addressing hash     *)
(* table with linear probing and in a list in the order in which they were *)
(* inserted.                                                               *)
(*                                                                         *)
(* A query is known by its serial number, the place it has in "asked"; 0   *)
(* is an empty slot.  A hash_entry_t and its list_entry_t move together, so*)
(* that a slot holds one serial number for both; the pointer back from the *)
(* list entry to its slot is "he".  Entries are only appended to the list, *)
(* so that it is the set "linked" in the order of the serial numbers.      *)
(***************************************************************************)
EXTENDS Integers, Sequences, FiniteSets

CONSTANTS
    Keys,           \* addresses, ports, protocol and id: what is hashed
    Names,          \* question names, with their type and class
    NoName,         \* there is not exactly one question
    Hash,           \* my_hashlittle() of a key
    MaxValues       \* ctx->max_values, DNSQR_STATE_TABLE_MAX

ASSUME TableAssumption ==
    /\ Hash \in [Keys -> Nat]
    /\ NoName \notin Names
    /\ MaxValues \in Nat \ {0}

\* dnsqr_init(): twice as many slots as values.
NumSlots == 2 * MaxValues
Slots == 0..(NumSlots - 1)

Empty == 0

\* A query; "whole" when it came in one packet.
Query == [key : Keys, name : Names \cup {NoName}, rd : {0, 1}, whole : BOOLEAN,
          time : Int]

VARIABLES
    asked,      \* history: every query inserted
    table,      \* ctx->table: the serial number in each slot
    linked,     \* ctx->list
    he,         \* le->he of each list entry
    count,      \* ctx->count
    shifting,   \* dnsqr_remove() is closing the gap it has made,
    hole, scan  \* its i and j

tableVars == <<asked, table, linked, he, count, shifting, hole, scan>>

TableInit ==
    /\ asked = <<>> /\ linked = {} /\ he = <<>> /\ count = 0
    /\ table = [s \in Slots |-> Empty]
    /\ shifting = FALSE /\ hole = 0 /\ scan = 0

-----------------------------------------------------------------------------
\* hash % num_slots
Natural(key) == Hash[key] % NumSlots
NaturalOf(k) == Natural(asked[k].key)

\* The probe: one slot up, and from the last to the first.
Succ(s) == IF s + 1 >= NumSlots THEN 0 ELSE s + 1
Dist(a, b) == IF b >= a THEN b - a ELSE b - a + NumSlots

\* The slot of S that a probe from slot h comes to first.
First(h, S) == {s \in S : \A u \in S : Dist(h, s) <= Dist(h, u)}

Free == {s \in Slots : table[s] = Empty}

\* dnsqr_eq(): the question is compared when both have one; otherwise only an
\* error (FORMERR, SERVFAIL, NOTIMP, REFUSED) is taken for the answer.
Eq(r, q) ==
    /\ r.key = q.key
    /\ IF r.name # NoName /\ q.name # NoName THEN r.name = q.name ELSE r.err

-----------------------------------------------------------------------------
\* The entry put into slot s and at the end of the list.
InsertAt(q, s) ==
    LET k == Len(asked) + 1
    IN  /\ asked' = Append(asked, q)
        /\ table' = [table EXCEPT ![s] = k]
        /\ linked' = linked \cup {k}
        /\ he' = [l \in linked' |-> IF l = k THEN s ELSE he[l]]
        /\ count' = count + 1
        /\ UNCHANGED <<shifting, hole, scan>>

\* dnsqr_insert_query()
InsertQuery(q) == \E s \in First(Natural(q.key), Free) : InsertAt(q, s)

\* dnsqr_remove() up to its loop: slot s is emptied and its entry unlinked.
RemoveAt(s) ==
    LET k == table[s]
    IN  /\ table' = [table EXCEPT ![s] = Empty]
        /\ linked' = linked \ {k}
        /\ he' = [l \in linked' |-> he[l]]
        /\ count' = count - 1
        /\ shifting' = TRUE /\ hole' = s /\ scan' = s
        /\ UNCHANGED asked

\* Mutant: a value whose natural slot is the hole itself stays where it is.
MovesUp_Strict(i, j, k) ==
    \/ j > i /\ (k < i \/ k > j)
    \/ j < i /\ (k < i /\ k > j)

\* The value at slot j, of natural slot k, cannot be found past a hole at i.
MovesUp(i, j, k) ==
    \/ j > i /\ (k <= i \/ k > j)
    \/ j < i /\ (k <= i /\ k > j)

\* Mutant: the list pointer is not fixed up.
ShiftMove_NoFix ==
    LET j == Succ(scan)
    IN  /\ shifting /\ table[j] # Empty
        /\ MovesUp(hole, j, NaturalOf(table[j]))
        /\ table' = [table EXCEPT ![hole] = table[j], ![j] = Empty]
        /\ hole' = j /\ scan' = j
        /\ UNCHANGED <<asked, linked, he, count, shifting>>

\* One round of the loop of dnsqr_remove(): the value is moved up,
ShiftMove ==
    LET j == Succ(scan)
    IN  /\ shifting /\ table[j] # Empty
        /\ MovesUp(hole, j, NaturalOf(table[j]))
        /\ table' = [table EXCEPT ![hole] = table[j], ![j] = Empty]
        /\ he' = [he EXCEPT ![table[j]] = hole]
        /\ hole' = j /\ scan' = j
        /\ UNCHANGED <<asked, linked, count, shifting>>

\* or stays,
ShiftKeep ==
    LET j == Succ(scan)
    IN  /\ shifting /\ table[j] # Empty
        /\ ~MovesUp(hole, j, NaturalOf(table[j]))
        /\ scan' = j
        /\ UNCHANGED <<asked, table, linked, he, count, shifting, hole>>

\* or there is none, and the loop ends.
ShiftDone ==
    /\ shifting /\ table[Succ(scan)] = Empty
    /\ shifting' = FALSE
    /\ UNCHANGED <<asked, table, linked, he, count, hole, scan>>

-----------------------------------------------------------------------------
\* ISC_LIST_HEAD(ctx->list)
Head1 == {k \in linked : \A l \in linked : k <= l}

\* dnsqr_retrieve(): the slot where the probe for the response r ends.
Answers(r) == {s \in Slots : table[s] # Empty /\ Eq(r, asked[table[s]])}
Probe(r) == First(Natural(r.key), Free \cup Answers(r))
=============================================================================
