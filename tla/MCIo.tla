-------------------------------- MODULE MCIo --------------------------------
(***************************************************************************)
(* Small instances of the nmsg_io engine: two input threads, up to two     *)
(* outputs, two messages per input.                                        *)
(***************************************************************************)
EXTENDS NmsgIo, TLC

CONSTANTS t1, t2

Base == [mode |-> "stripe", closeFp |-> TRUE, count |-> 0, interval |-> 0,
         n |-> 2, user |-> [o \in Outputs |-> "kick"],
         signal |-> TRUE]

\* nmsgtool without -c and -t; with -c (stop, or rotate files and ignore
\* sockets); with -t; mirrored; and a library user without a close_fp.
MCConfigs ==
    { [Base EXCEPT !.n = 0],
      [Base EXCEPT !.count = 2, !.n = 1],
      [Base EXCEPT !.count = 2, !.user = [o \in Outputs |-> "null"]],
      [Base EXCEPT !.interval = 2, !.n = 1, !.signal = FALSE],
      [Base EXCEPT !.mode = "mirror", !.count = 2, !.user = [o \in Outputs |->
                                  IF o = 1 THEN "ignore" ELSE "null"]],
      [Base EXCEPT !.closeFp = FALSE, !.count = 2],
      [Base EXCEPT !.closeFp = FALSE, !.interval = 2, !.n = 1,
                   !.signal = FALSE] }

\* Termination: a close for good under contention, mirrored, and no close_fp.
LiveConfigs ==
    { [Base EXCEPT !.count = 1, !.user = [o \in Outputs |-> "null"]],
      [Base EXCEPT !.count = 1, !.n = 1],
      [Base EXCEPT !.closeFp = FALSE, !.count = 2, !.mode = "mirror"] }

MCSymmetry == Permutations(Threads)

\* -c 2 -k: two inputs feeding one file.
RaceConfigs == {[Base EXCEPT !.count = 2, !.n = 1, !.signal = FALSE]}

\* -c 1 -k: one input.
IdleConfigs == {[Base EXCEPT !.count = 1, !.n = 1, !.signal = FALSE]}

\* -c 1 -k and SIGTERM.
SignalConfigs == {[Base EXCEPT !.count = 1, !.n = 1]}
=============================================================================
