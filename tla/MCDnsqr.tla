-------------------------------- MODULE MCDnsqr --------------------------------
(***************************************************************************)
(* Queries and responses over two keys that hash to the last slot and one  *)
(* that hashes to the first, so that probes collide and wrap around.       *)
(***************************************************************************)
EXTENDS Dnsqr

CONSTANTS k1, k2, k3, com, org

MCHash == [k \in Keys |-> IF k = k3 THEN 0 ELSE 2 * MaxValues - 1]
MCSuffixes == [n \in Names |-> {n}]

\* q: queries; r: responses, rx to an address not listed; t: TCP; o: no DNS
Base(key, name, qr) ==
    [ip |-> 4, proto |-> "udp", match |-> TRUE,
     listed |-> TRUE, dns |-> TRUE, qr |-> qr, key |-> key,
     name |-> name, rd |-> 1, err |-> FALSE, sum |-> "correct"]
MCDatagrams ==
    [id \in Ids |->
        CASE id = "q1" -> Base(k1, com, FALSE)
          [] id = "q2" -> [Base(k2, com, FALSE) EXCEPT !.rd = 0]
          [] id = "q3" -> Base(k3, org, FALSE)
          [] id = "r1" -> Base(k1, com, TRUE)
          [] id = "r2" -> [Base(k2, NoName, TRUE) EXCEPT !.err = TRUE]
          [] id = "r3" -> [Base(k3, org, TRUE) EXCEPT !.ip = 6, !.match = FALSE]
          [] id = "rx" -> [Base(k3, NoName, TRUE) EXCEPT !.listed = FALSE]
          [] id = "t"  -> [Base(k1, NoName, FALSE) EXCEPT !.proto = "tcp"]
          [] id = "o"  -> [Base(k1, NoName, FALSE) EXCEPT !.proto = "other"]]

Frame(id, kind) ==
    [kind |-> kind, frag |-> [id |-> id, offset |-> 0, len |-> 8, last |-> TRUE]]
Frag(id, offset, last) ==
    [kind |-> "fragment",
     frag |-> [id |-> id, offset |-> offset, len |-> 8, last |-> last]]

MCFrames ==
    {Frame(id, "whole") : id \in Ids}
    \cup {Frame("q3", "short"), Frag("r1", 0, FALSE), Frag("r1", 8, TRUE)}

Plain == [qr |-> -1, rd |-> -1, include |-> {}, exclude |-> {}, zero |-> FALSE,
          addrs |-> FALSE]
MCConfs ==
    {Plain, [Plain EXCEPT !.qr = 0], [Plain EXCEPT !.qr = 1],
     [Plain EXCEPT !.rd = 1, !.include = {com}, !.exclude = {com, org}, !.zero = TRUE,
                   !.addrs = TRUE]}
=============================================================================
