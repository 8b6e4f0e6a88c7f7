------------------------------ MODULE DnsqrQueue ------------------------------
(***************************************************************************)
(* What the dnsqr module promises of the queries it keeps, with no word of *)
(* how it keeps them: a response is paired with the oldest query it        *)
(* answers, it is unsolicited only when it answers none, and a query that  *)
(* is given up is the oldest of all and is given up for a reason.          *)
(***************************************************************************)
EXTENDS Integers, Sequences, FiniteSets

CONSTANTS
    Matches(_, _),      \* a response answers a query
    Capacity,           \* queries kept
    Patience            \* the age at which one is given up

VARIABLES
    asked,      \* every query, in the order asked
    waiting,    \* those that are kept, by their place in asked
    report,     \* what is being reported
    clock,      \* the time of the last packet
    over        \* there will be no more packets

vars == <<asked, waiting, report, clock, over>>

Nothing == [what |-> "nothing", query |-> 0, response |-> {}]

Init == asked = <<>> /\ waiting = {} /\ report = Nothing /\ clock = 0 /\ over = FALSE

Oldest(S) == {k \in S : \A l \in S : k <= l}
Answered(r) == {k \in waiting : Matches(r, asked[k])}

\* One query more is asked.
Ask ==
    /\ Len(asked') = Len(asked) + 1
    /\ asked' = Append(asked, asked'[Len(asked) + 1])
    /\ waiting' = waiting \cup {Len(asked) + 1}
    /\ report' = Nothing
    /\ clock' \in Int
    /\ UNCHANGED over

\* It is answered: of those a response could be for, the oldest is.
Answer ==
    /\ report'.what = "answered"
    /\ report'.query \in waiting
    /\ \A r \in report'.response : report'.query \in Oldest(Answered(r))
    /\ waiting' = waiting \ {report'.query}
    /\ clock' \in Int
    /\ UNCHANGED <<asked, over>>

\* No query is waiting for the response.
Unsolicited ==
    /\ report'.what = "unsolicited"
    /\ \A r \in report'.response : Answered(r) = {}
    /\ clock' \in Int
    /\ UNCHANGED <<asked, waiting, over>>

\* A query is given up: there are too many, or no more packets, or it is old.
GiveUp ==
    /\ \E k \in Oldest(waiting) :
          /\ \/ Cardinality(waiting) > Capacity
             \/ over
             \/ clock - asked[k].time > Patience
          /\ report' = [what |-> "unanswered", query |-> k, response |-> {}]
          /\ waiting' = waiting \ {k}
    /\ UNCHANGED <<asked, clock, over>>

\* Packets that are no query and no response, and the end of the packets.
Other ==
    /\ report' = Nothing
    /\ clock' \in Int /\ over' \in {over, TRUE}
    /\ UNCHANGED <<asked, waiting>>

\* The module is unloaded.
Drop == waiting' = {} /\ report' = Nothing /\ UNCHANGED <<asked, clock, over>>

Next == Ask \/ Answer \/ Unsolicited \/ GiveUp \/ Other \/ Drop

Spec == Init /\ [][Next]_vars
=============================================================================
