------------------------------- MODULE NmsgIo -------------------------------
(***************************************************************************)
(* The multi-threaded nmsg_io engine of nmsg/io.c, driven the way          *)
(* src/nmsgtool.c drives it.                                               *)
(*                                                                         *)
(* nmsg_io_loop() starts one thread per input.  A thread reads a message,  *)
(* writes it to one output (stripe mode, a cursor private to the thread)   *)
(* or to every output (mirror mode), then checks whether the output under  *)
(* its cursor has reached its payload count or its time interval.  When a  *)
(* close_fp callback is installed each output is guarded by a mutex and    *)
(* the callback may close the output for good, rotate it, or ignore the    *)
(* event.  nmsg_io_breakloop() may arrive from a signal handler at any     *)
(* step.                                                                   *)
(*                                                                         *)
(* Every load, store and lock operation on state that two threads share is *)
(* a step of its own; steps on thread-local state are merged into them.    *)
(***************************************************************************)
EXTENDS Integers, FiniteSets

CONSTANTS
    Threads,    \* one per nmsg_io_input: its io_thr_input thread
    NOut,       \* the outputs are 1..NOut, in list order
    Configs,    \* what the nmsg_io_set_* calls may have left behind
    MaxMessages,\* bound: messages of an input; it may be idle any number of times
    MaxFiles,   \* bound: files of an output at which idle reads cease to rotate it
    MaxTime,    \* bound: the clock, in seconds
    None        \* no thread

Outputs == 1..NOut
NULL == 0

\* The 'user' pointer of an output decides what nmsgtool's io_close() does:
\* "null" closes it for good, "kick" (a struct kickfile) rotates it,
\* "ignore" ((void *) -1) leaves it alone until end of file.
Users == {"null", "kick", "ignore"}

ConfigType ==
    [mode : {"stripe", "mirror"}, closeFp : BOOLEAN, count : Nat,
     interval : Nat, n : 0..NOut, user : [Outputs -> Users],
     signal : BOOLEAN]      \* whether SIGINT or SIGTERM may arrive

ASSUME NOutAssumption == NOut \in Nat
ASSUME ConfigAssumption == Configs \subseteq ConfigType
ASSUME BoundAssumption == MaxMessages \in Nat /\ MaxFiles \in Nat /\ MaxTime \in Nat
ASSUME ThreadAssumption == None \notin Threads /\ IsFiniteSet(Threads)

Results == {"success", "again", "eof", "failure", "stop"}

\* The places of a thread at which it holds its output's mutex (when there
\* is a close_fp), in io_write() and in check_close_event().
WritePC == {"writing"}
CheckPC == {"count", "close", "closed", "kick", "reopen", "interval", "unlock"}
PC == {"idle", "read", "reading", "wlock", "count_load", "count_store",
       "total", "check", "after", "done"} \cup WritePC \cup CheckPC

VARIABLES
    conf,       \* configuration, fixed before the loop starts
    clock,      \* nmsg_timespec_get(), seconds
    main,       \* where main() is
    stop,       \* io->stop
    loopRes,    \* what nmsg_io_loop() returned
    total,      \* io->count_nmsg_payload_out
    inputOpen,  \* inputs whose nmsg_input_t has not been closed
    output,     \* io_output->output: NULL or the number of the object
    lock,       \* io_output->lock: its holder
    countOut,   \* io_output->count_nmsg_payload_out
    last,       \* io_output->last, seconds
    gen,        \* history: objects opened so far for each output
    live,       \* per output, the objects allocated and not freed
    stopped,    \* per output, the objects whose ->stop flag is set
    published,  \* per output, the objects whose file kickfile_exec() renamed
    pc, res, now, cursor, target, reg, got, again, event,
                \* per thread: program point, iothr->res, iothr->now,
                \* io_output, the output being written, the counter loaded
                \* by a += 1, count_nmsg_payload_in, whether the last read
                \* said "again", the close event being handled
    mlive,      \* nmsg_message_t objects <<t, n, copy>> not destroyed
    bpc, bidx, bobj,
                \* nmsg_io_breakloop(): program point, output, object loaded
    wrote,      \* history: messages accepted by each output
    fill,       \* history: payloads accepted by the current object
    ticks       \* history: interval close events of each output

\* Groups of variables for UNCHANGED.
ioVars    == <<stop, total>>
mainVars  == <<conf, main, loopRes, inputOpen>>
objVars   == <<output, gen, live, published, fill>>
eventVars == <<lock, last, ticks, event>>
readVars  == <<now, got, again>>
writeVars == <<countOut, target, reg, mlive, wrote>>
breakVars == <<stopped, bpc, bidx, bobj>>
vars == <<clock, ioVars, mainVars, objVars, eventVars, readVars, writeVars,
          breakVars, pc, res, cursor>>

Outs == 1..conf.n

\* now.tv_sec - (now.tv_sec % io->interval)
RoundDown(s, i) == s - (s % i)

Init ==
    /\ conf \in Configs
    /\ clock = 0
    /\ main = "setup" /\ stop = FALSE /\ loopRes = "success" /\ total = 0
    /\ inputOpen = Threads
    /\ output = [o \in Outputs |-> IF o <= conf.n THEN 1 ELSE NULL]
    /\ lock = [o \in Outputs |-> None]
    /\ countOut = [o \in Outputs |-> 0]
    /\ last = [o \in Outputs |-> 0]
    /\ gen = output
    /\ live = [o \in Outputs |-> IF o <= conf.n THEN {1} ELSE {}]
    /\ stopped = [o \in Outputs |-> {}]
    /\ published = [o \in Outputs |-> {}]
    /\ pc = [t \in Threads |-> "idle"]
    /\ res = [t \in Threads |-> "success"]
    /\ now = [t \in Threads |-> 0]
    /\ cursor = [t \in Threads |-> 1]
    /\ target = [t \in Threads |-> 1]
    /\ reg = [t \in Threads |-> 0]
    /\ got = [t \in Threads |-> 0]
    /\ again = [t \in Threads |-> FALSE]
    /\ event = [t \in Threads |-> "none"]
    /\ mlive = {}
    /\ bpc = "idle" /\ bidx = 1 /\ bobj = NULL
    /\ wrote = [o \in Outputs |-> {}]
    /\ fill = [o \in Outputs |-> 0]
    /\ ticks = [o \in Outputs |-> 0]

-----------------------------------------------------------------------------
(***************************************************************************)
(* io_thr_input: reading                                                   *)
(***************************************************************************)
Goto(t, label) == pc' = [pc EXCEPT ![t] = label]

\* Leave the loop, with iothr->res set to r.
Exit(t, r) == Goto(t, "done") /\ res' = [res EXCEPT ![t] = r]

\* nmsg_timespec_get(&iothr->now), then the blocking nmsg_input_read().
ReadStart(t) ==
    /\ pc[t] = "read"
    /\ now' = [now EXCEPT ![t] = clock]
    /\ Goto(t, "reading")
    /\ UNCHANGED <<clock, ioVars, mainVars, objVars, eventVars, got, again,
                   writeVars, breakVars, res, cursor>>

\* The read returned but io->stop is set: a message just read is destroyed.
ReadStopped(t) ==
    /\ pc[t] = "reading"
    /\ stop
    /\ Goto(t, "done")
    /\ UNCHANGED <<clock, ioVars, mainVars, objVars, eventVars, readVars,
                   writeVars, breakVars, res, cursor>>

CountReached(o) ==
    /\ conf.count > 0
    /\ countOut[o] > 0
    /\ countOut[o] % conf.count = 0

\* Mutant: an idle input is read again before io->stop is looked at.
ReadAgain_Continue(t) ==
    /\ pc[t] = "reading"
    /\ Goto(t, "read")
    /\ UNCHANGED <<clock, ioVars, mainVars, objVars, eventVars, readVars,
                   writeVars, breakVars, res, cursor>>

\* nmsg_res_again: nothing to write, but a close event may be due.  An input may
\* be idle for ever; only the files that idle reads open are bounded.
ReadAgain(t) ==
    /\ pc[t] = "reading"
    /\ ~stop
    /\ CountReached(cursor[t]) => gen[cursor[t]] < MaxFiles
    /\ again' = [again EXCEPT ![t] = TRUE]
    /\ Goto(t, "check")
    /\ UNCHANGED <<clock, ioVars, mainVars, objVars, eventVars, now, got,
                   writeVars, breakVars, res, cursor>>

\* End of file, or a read error.
ReadEnd(t) ==
    /\ pc[t] = "reading"
    /\ ~stop
    /\ \E r \in {"eof", "failure"} : Exit(t, r)
    /\ UNCHANGED <<clock, ioVars, mainVars, objVars, eventVars, readVars,
                   writeVars, breakVars, cursor>>

\* A message arrived: io_write() to the cursor's output in stripe mode, or
\* io_write_mirrored(), which starts with a duplicate for the first output.
ReadMessage(t) ==
    LET n == got[t] + 1
        mirror == conf.mode = "mirror"
    IN  /\ pc[t] = "reading"
        /\ ~stop
        /\ n <= MaxMessages
        /\ got' = [got EXCEPT ![t] = n]
        /\ again' = [again EXCEPT ![t] = FALSE]
        /\ target' = [target EXCEPT ![t] = IF mirror THEN 1 ELSE cursor[t]]
        /\ mlive' = mlive \cup {<<t, n, 0>>}
                          \cup (IF mirror THEN {<<t, n, 1>>} ELSE {})
        /\ Goto(t, "wlock")
        /\ UNCHANGED <<clock, ioVars, mainVars, objVars, eventVars, now, countOut,
                       reg, wrote, breakVars, res, cursor>>

-----------------------------------------------------------------------------
(***************************************************************************)
(* io_write, called directly (stripe) or from io_write_mirrored            *)
(***************************************************************************)

\* The nmsg_message_t objects in t's hands: the one io_write() was passed,
\* and in mirror mode also the original.
Passed(t) == <<t, got[t], IF conf.mode = "mirror" THEN target[t] ELSE 0>>
Original(t) == <<t, got[t], 0>>

\* Mutant: looks at the pointer without taking the mutex.
WriteLock_NoLock(t) ==
    /\ pc[t] = "wlock"
    /\ conf.closeFp => output[target[t]] # NULL
    /\ Goto(t, "writing")
    /\ UNCHANGED <<clock, ioVars, mainVars, objVars, eventVars, readVars,
                   writeVars, breakVars, res, cursor>>

\* Lock the output when a close_fp could close it under us.
WriteLock(t) ==
    LET o == target[t]
    IN  /\ pc[t] = "wlock"
        /\ conf.closeFp => lock[o] = None /\ output[o] # NULL
        /\ lock' = IF conf.closeFp THEN [lock EXCEPT ![o] = t] ELSE lock
        /\ Goto(t, "writing")
        /\ UNCHANGED <<clock, ioVars, mainVars, objVars, last, ticks, event,
                       readVars, writeVars, breakVars, res, cursor>>

\* The output has been closed for good: unlock and return nmsg_res_stop.  The
\* message passed in is not destroyed on this path; io_write_mirrored()
\* destroys the original.
WriteClosed(t) ==
    LET o == target[t]
    IN  /\ pc[t] = "wlock"
        /\ conf.closeFp /\ lock[o] = None /\ output[o] = NULL
        /\ Exit(t, "stop")
        /\ mlive' = IF conf.mode = "mirror" THEN mlive \ {Original(t)} ELSE mlive
        /\ UNCHANGED <<clock, ioVars, mainVars, objVars, eventVars, readVars,
                       countOut, target, reg, wrote, breakVars, cursor>>

Unlock(t, o) == lock' = IF conf.closeFp THEN [lock EXCEPT ![o] = None] ELSE lock

\* nmsg_output_write() accepted the message; it is destroyed (or, for a
\* callback output, now belongs to the callback).
WriteOk(t) ==
    LET o == target[t]
    IN  /\ pc[t] = "writing"
        /\ Unlock(t, o)
        /\ wrote' = [wrote EXCEPT ![o] = @ \cup {<<t, got[t]>>}]
        /\ fill' = [fill EXCEPT ![o] = @ + 1]
        /\ mlive' = mlive \ {Passed(t)}
        /\ Goto(t, "count_load")
        /\ UNCHANGED <<clock, ioVars, mainVars, output, gen, live, published,
                       last, ticks, event, readVars, countOut, target, reg,
                       breakVars, res, cursor>>

\* Mutant: the result of the write is not looked at.
WriteFail_Ignored(t) ==
    /\ pc[t] = "writing"
    /\ Unlock(t, target[t])
    /\ mlive' = mlive \ {Passed(t), Original(t)}
    /\ Goto(t, "check")
    /\ UNCHANGED <<clock, ioVars, mainVars, objVars, last, ticks, event,
                   readVars, countOut, target, reg, wrote, breakVars, res, cursor>>

\* Mutant: returns before destroying the message.
WriteFail_Leak(t) ==
    /\ pc[t] = "writing"
    /\ Unlock(t, target[t])
    /\ Exit(t, "failure")
    /\ UNCHANGED <<clock, ioVars, mainVars, objVars, last, ticks, event,
                   readVars, writeVars, breakVars, cursor>>

\* nmsg_output_write() failed, or gave up waiting because breakloop set the
\* object's stop flag: the thread ends with that result.
WriteFail(t) ==
    LET o == target[t]
    IN  /\ pc[t] = "writing"
        /\ Unlock(t, o)
        /\ mlive' = mlive \ {Passed(t), Original(t)}
        /\ \/ Exit(t, "failure")
           \/ output[o] \in stopped[o] /\ Exit(t, "stop")
        /\ UNCHANGED <<clock, ioVars, mainVars, objVars, last, ticks, event,
                       readVars, countOut, target, reg, wrote, breakVars, cursor>>

\* io_output->count_nmsg_payload_out += 1, with no lock held: a load ...
CountLoad(t) ==
    /\ pc[t] = "count_load"
    /\ reg' = [reg EXCEPT ![t] = countOut[target[t]]]
    /\ Goto(t, "count_store")
    /\ UNCHANGED <<clock, ioVars, mainVars, objVars, eventVars, readVars,
                   countOut, target, mlive, wrote, breakVars, res, cursor>>

\* ... and a store.
CountStore(t) ==
    /\ pc[t] = "count_store"
    /\ countOut' = [countOut EXCEPT ![target[t]] = reg[t] + 1]
    /\ reg' = [reg EXCEPT ![t] = 0]
    /\ Goto(t, "total")
    /\ UNCHANGED <<clock, ioVars, mainVars, objVars, eventVars, readVars, target,
                   mlive, wrote, breakVars, res, cursor>>

\* io->count_nmsg_payload_out += 1 under io->lock; io_write() returns.  In
\* mirror mode the next output gets a duplicate, and after the last one the
\* original is destroyed.
CountTotal(t) ==
    LET more == conf.mode = "mirror" /\ target[t] < conf.n
        next == target[t] + 1
    IN  /\ pc[t] = "total"
        /\ total' = total + 1
        /\ target' = IF more THEN [target EXCEPT ![t] = next] ELSE target
        /\ mlive' = IF more THEN mlive \cup {<<t, got[t], next>>}
                            ELSE mlive \ {Original(t)}
        /\ Goto(t, IF more THEN "wlock" ELSE "check")
        /\ UNCHANGED <<clock, stop, mainVars, objVars, eventVars, readVars,
                       countOut, reg, wrote, breakVars, res, cursor>>

-----------------------------------------------------------------------------
(***************************************************************************)
(* check_close_event, on the output under the thread's cursor              *)
(***************************************************************************)
CheckLock(t) ==
    LET o == cursor[t]
    IN  /\ pc[t] = "check"
        /\ conf.closeFp => lock[o] = None
        /\ lock' = IF conf.closeFp THEN [lock EXCEPT ![o] = t] ELSE lock
        /\ Goto(t, IF output[o] = NULL THEN "unlock" ELSE "count")
        /\ UNCHANGED <<clock, ioVars, mainVars, objVars, last, ticks, event,
                       readVars, writeVars, breakVars, res, cursor>>

\* The unlocked counter is read once, here.  Without a close_fp a limit
\* simply stops the loop.
CheckCount(t) ==
    LET hit == CountReached(cursor[t])
    IN  /\ pc[t] = "count"
        /\ stop' = (stop \/ (hit /\ ~conf.closeFp))
        /\ event' = [event EXCEPT ![t] = "count"]
        /\ Goto(t, IF ~hit THEN "interval"
                   ELSE IF conf.closeFp THEN "close" ELSE "unlock")
        /\ UNCHANGED <<clock, total, mainVars, objVars, lock, last, ticks,
                       readVars, writeVars, breakVars, res, cursor>>

\* Mutant: an unsigned subtraction, huge when another thread moved last on.
IntervalReached_Unsigned(t, o) ==
    /\ conf.interval > 0
    /\ now[t] < last[o] \/ now[t] - last[o] >= conf.interval

IntervalReached(t, o) ==
    /\ conf.interval > 0
    /\ now[t] - last[o] >= conf.interval

CheckInterval(t) ==
    LET o == cursor[t]
        hit == IntervalReached(t, o)
        notify == hit /\ conf.closeFp
    IN  /\ pc[t] = "interval"
        /\ stop' = (stop \/ (hit /\ ~conf.closeFp))
        /\ last' = IF notify
                   THEN [last EXCEPT ![o] = RoundDown(now[t], conf.interval)]
                   ELSE last
        /\ ticks' = IF notify THEN [ticks EXCEPT ![o] = @ + 1] ELSE ticks
        /\ event' = [event EXCEPT ![t] = "interval"]
        /\ Goto(t, IF notify THEN "close" ELSE "unlock")
        /\ UNCHANGED <<clock, total, mainVars, objVars, lock, readVars,
                       writeVars, breakVars, res, cursor>>

\* check_close_event() goes on after close_fp returned with an output.
AfterClose(t) == IF event[t] = "count" THEN "interval" ELSE "unlock"

\* nmsgtool's io_close() for a count or interval event.
CloseIgnore(t) ==
    /\ pc[t] = "close"
    /\ conf.user[cursor[t]] = "ignore"
    /\ Goto(t, AfterClose(t))
    /\ UNCHANGED <<clock, ioVars, mainVars, objVars, eventVars, readVars,
                   writeVars, breakVars, res, cursor>>

\* Mutant: the rename comes before the close.
CloseOutput_Later(t) ==
    LET o == cursor[t]
    IN  /\ pc[t] = "close"
        /\ conf.user[o] # "ignore"
        /\ output' = [output EXCEPT ![o] = NULL]
        /\ Goto(t, IF conf.user[o] = "kick" THEN "kick" ELSE "closed")
        /\ UNCHANGED <<clock, ioVars, mainVars, gen, live, published, fill,
                       eventVars, readVars, writeVars, breakVars, res, cursor>>

\* user == NULL: nmsg_output_close() frees the object and clears the pointer.
CloseOutput(t) ==
    LET o == cursor[t]
    IN  /\ pc[t] = "close"
        /\ conf.user[o] # "ignore"
        /\ live' = [live EXCEPT ![o] = @ \ {output[o]}]
        /\ output' = [output EXCEPT ![o] = NULL]
        /\ Goto(t, IF conf.user[o] = "kick" THEN "kick" ELSE "closed")
        /\ UNCHANGED <<clock, ioVars, mainVars, gen, published, fill, eventVars,
                       readVars, writeVars, breakVars, res, cursor>>

\* Mutant: only this thread stops.
CloseStop_NoStop(t) ==
    /\ pc[t] = "closed"
    /\ Goto(t, "unlock")
    /\ UNCHANGED <<clock, ioVars, mainVars, objVars, eventVars, readVars,
                   writeVars, breakVars, res, cursor>>

\* close_fp left no output: io->stop = true, still under the lock.
CloseStop(t) ==
    /\ pc[t] = "closed"
    /\ stop' = TRUE
    /\ Goto(t, "unlock")
    /\ UNCHANGED <<clock, total, mainVars, objVars, eventVars, readVars,
                   writeVars, breakVars, res, cursor>>

\* kickfile_exec(): rename the closed file into place, or unlink it when the
\* rename fails.
KickfileExec(t) ==
    LET o == cursor[t]
    IN  /\ pc[t] = "kick"
        /\ \E renamed \in BOOLEAN :
             published' = IF renamed
                          THEN [published EXCEPT ![o] = @ \cup {gen[o]}]
                          ELSE published
        /\ Goto(t, "reopen")
        /\ UNCHANGED <<clock, ioVars, mainVars, output, gen, live, fill,
                       eventVars, readVars, writeVars, breakVars, res, cursor>>

\* kickfile_rotate() and nmsg_output_open_file() / _open_pres().
KickReopen(t) ==
    LET o == cursor[t]
    IN  /\ pc[t] = "reopen"
        /\ gen' = [gen EXCEPT ![o] = @ + 1]
        /\ output' = [output EXCEPT ![o] = gen[o] + 1]
        /\ live' = [live EXCEPT ![o] = @ \cup {gen[o] + 1}]
        /\ fill' = [fill EXCEPT ![o] = 0]
        /\ Goto(t, AfterClose(t))
        /\ UNCHANGED <<clock, ioVars, mainVars, published, eventVars, readVars,
                       writeVars, breakVars, res, cursor>>

CheckUnlock(t) ==
    /\ pc[t] = "unlock"
    /\ Unlock(t, cursor[t])
    /\ event' = [event EXCEPT ![t] = "none"]
    /\ Goto(t, "after")
    /\ UNCHANGED <<clock, ioVars, mainVars, objVars, last, ticks, readVars,
                   writeVars, breakVars, res, cursor>>

\* Back in io_thr_input: leave if io->stop, else move the cursor to the next
\* output (not after an nmsg_res_again) and read again.
AfterCheck(t) ==
    /\ pc[t] = "after"
    /\ Goto(t, IF stop THEN "done" ELSE "read")
    /\ cursor' = IF stop \/ again[t] THEN cursor
                 ELSE [cursor EXCEPT ![t] = IF @ = conf.n THEN 1 ELSE @ + 1]
    /\ UNCHANGED <<clock, ioVars, mainVars, objVars, eventVars, readVars,
                   writeVars, breakVars, res>>

-----------------------------------------------------------------------------
(***************************************************************************)
(* main(): nmsg_io_loop, nmsg_io_destroy; the signal handler runs on top   *)
(* of it, so main() itself does not move while the handler is active       *)
(***************************************************************************)
HandlerActive == bpc \in {"load", "store"}

\* init_timespec_intervals() and pthread_create(); a thread that finds no
\* output fails at once.
LoopStart ==
    /\ main = "setup" /\ ~HandlerActive
    /\ main' = "loop"
    /\ last' = IF conf.interval = 0 THEN last
               ELSE [o \in Outputs |-> RoundDown(clock, conf.interval)]
    /\ pc' = [t \in Threads |-> IF conf.n = 0 THEN "done" ELSE "read"]
    /\ res' = [t \in Threads |-> IF conf.n = 0 THEN "failure" ELSE "success"]
    /\ UNCHANGED <<clock, ioVars, conf, loopRes, inputOpen, objVars, lock, ticks,
                   event, readVars, writeVars, breakVars, cursor>>

LoopJoin ==
    /\ main = "loop" /\ ~HandlerActive
    /\ \A t \in Threads : pc[t] = "done"
    /\ loopRes' = IF \E t \in Threads : res[t] \notin {"success", "eof", "stop"}
                  THEN "failure" ELSE "success"
    /\ main' = "joined"
    /\ UNCHANGED <<clock, ioVars, conf, inputOpen, objVars, eventVars, readVars,
                   writeVars, breakVars, pc, res, cursor>>

\* nmsg_io_destroy(): an eof close event and nmsg_input_close() per input.
DestroyInputs ==
    /\ main = "joined" /\ ~HandlerActive
    /\ inputOpen' = {}
    /\ main' = "closing"
    /\ UNCHANGED <<clock, ioVars, conf, loopRes, objVars, eventVars, readVars,
                   writeVars, breakVars, pc, res, cursor>>

\* ... then an eof close event per output still open.  io_close() closes it
\* whatever its user pointer and hands a kickfile to kickfile_exec(); what is
\* left open nmsg_io_destroy() closes itself.
DestroyOutput ==
    /\ main = "closing" /\ ~HandlerActive
    /\ \E o \in Outs :
         /\ output[o] # NULL
         /\ \A p \in Outs : p < o => output[p] = NULL
         /\ output' = [output EXCEPT ![o] = NULL]
         /\ live' = [live EXCEPT ![o] = @ \ {output[o]}]
         /\ \E renamed \in BOOLEAN :
              published' = IF renamed /\ conf.closeFp /\ conf.user[o] = "kick"
                           THEN [published EXCEPT ![o] = @ \cup {output[o]}]
                           ELSE published
    /\ UNCHANGED <<clock, ioVars, mainVars, gen, fill, eventVars, readVars,
                   writeVars, breakVars, pc, res, cursor>>

\* Mutant: outputs whose close events are ignored are not closed here either.
DestroyDone_SkipIgnored ==
    /\ main = "closing" /\ ~HandlerActive
    /\ \A o \in Outs : output[o] = NULL \/ conf.user[o] = "ignore"
    /\ main' = "freed"
    /\ UNCHANGED <<clock, ioVars, conf, loopRes, inputOpen, objVars, eventVars,
                   readVars, writeVars, breakVars, pc, res, cursor>>

DestroyDone ==
    /\ main = "closing" /\ ~HandlerActive
    /\ \A o \in Outs : output[o] = NULL
    /\ main' = "freed"
    /\ UNCHANGED <<clock, ioVars, conf, loopRes, inputOpen, objVars, eventVars,
                   readVars, writeVars, breakVars, pc, res, cursor>>

-----------------------------------------------------------------------------
(***************************************************************************)
(* nmsg_io_breakloop, called by nmsgtool's signal handler: no lock         *)
(***************************************************************************)
BreakStart ==
    /\ conf.signal /\ bpc = "idle" /\ main # "freed"
    /\ bpc' = IF stop THEN "done" ELSE "load"
    /\ stop' = TRUE
    /\ UNCHANGED <<clock, total, mainVars, objVars, eventVars, readVars,
                   writeVars, stopped, bidx, bobj, pc, res, cursor>>

\* if (io_output->output != NULL) ...
BreakLoad ==
    /\ bpc = "load"
    /\ \/ /\ bidx > conf.n
          /\ bpc' = "done"
          /\ UNCHANGED <<bidx, bobj>>
       \/ /\ bidx <= conf.n
          /\ output[bidx] = NULL
          /\ bidx' = bidx + 1
          /\ UNCHANGED <<bpc, bobj>>
       \/ /\ bidx <= conf.n
          /\ output[bidx] # NULL
          /\ bobj' = output[bidx]
          /\ bpc' = "store"
          /\ UNCHANGED bidx
    /\ UNCHANGED <<clock, ioVars, mainVars, objVars, eventVars, readVars,
                   writeVars, stopped, pc, res, cursor>>

\* ... _output_stop(io_output->output).  The store into an object freed in the
\* meantime is recorded like any other; no thread reads it back.
BreakStore ==
    /\ bpc = "store"
    /\ stopped' = [stopped EXCEPT ![bidx] = @ \cup {bobj}]
    /\ bidx' = bidx + 1
    /\ bobj' = NULL
    /\ bpc' = "load"
    /\ UNCHANGED <<clock, ioVars, mainVars, objVars, eventVars, readVars,
                   writeVars, pc, res, cursor>>

\* The clock is observed only when an interval is set.
Tick ==
    /\ conf.interval > 0
    /\ clock < MaxTime
    /\ clock' = clock + 1
    /\ UNCHANGED <<ioVars, mainVars, objVars, eventVars, readVars, writeVars,
                   breakVars, pc, res, cursor>>

-----------------------------------------------------------------------------
ReadStep(t) ==
    ReadStart(t) \/ ReadStopped(t) \/ ReadAgain(t) \/ ReadEnd(t) \/ ReadMessage(t)

WriteStep(t) ==
    \/ WriteLock(t) \/ WriteClosed(t) \/ WriteOk(t) \/ WriteFail(t)
    \/ CountLoad(t) \/ CountStore(t) \/ CountTotal(t)

CheckStep(t) ==
    \/ CheckLock(t) \/ CheckCount(t) \/ CheckInterval(t) \/ CloseIgnore(t)
    \/ CloseOutput(t) \/ CloseStop(t) \/ KickfileExec(t) \/ KickReopen(t)
    \/ CheckUnlock(t) \/ AfterCheck(t)

io_thr_input(t) == ReadStep(t) \/ WriteStep(t) \/ CheckStep(t)

nmsg_io_loop == LoopStart \/ LoopJoin
nmsg_io_destroy == DestroyInputs \/ DestroyOutput \/ DestroyDone
nmsg_io_breakloop == BreakStart \/ BreakLoad \/ BreakStore

\* The process has left nmsg_io_destroy() and returns from main().
Finished == main = "freed" /\ UNCHANGED vars

Next ==
    \/ \E t \in Threads : io_thr_input(t)
    \/ nmsg_io_loop \/ nmsg_io_destroy \/ nmsg_io_breakloop
    \/ Tick \/ Finished

Spec == Init /\ [][Next]_vars

(***************************************************************************)
(* Threads are scheduled, and nmsg_input_read() returns: a socket read     *)
(* gives up with nmsg_res_again after NMSG_RBUF_TIMEOUT.  Which result it   *)
(* returns is not fair: an idle input says nmsg_res_again for ever, and    *)
(* need not end.  Weak fairness is enough: once io->stop is set a thread   *)
(* finishes the iteration it is in and then takes no mutex again, so       *)
(* nobody can be starved of one.  The clock and the signal are not fair.   *)
(***************************************************************************)
Fairness ==
    /\ \A t \in Threads : WF_vars(io_thr_input(t))
    /\ WF_vars(nmsg_io_loop)
    /\ WF_vars(nmsg_io_destroy)
    /\ WF_vars(BreakLoad \/ BreakStore)

FairSpec == Spec /\ Fairness

-----------------------------------------------------------------------------
(***************************************************************************)
(* Properties                                                              *)
(***************************************************************************)

\* Every variable stays within its type.
TypeOK ==
    /\ conf \in Configs
    /\ clock \in 0..MaxTime
    /\ main \in {"setup", "loop", "joined", "closing", "freed"}
    /\ stop \in BOOLEAN
    /\ loopRes \in Results
    /\ total \in Nat
    /\ inputOpen \subseteq Threads
    /\ output \in [Outputs -> Nat]
    /\ gen \in [Outputs -> Nat]
    /\ lock \in [Outputs -> Threads \cup {None}]
    /\ countOut \in [Outputs -> Nat]
    /\ last \in [Outputs -> Nat]
    /\ live \in [Outputs -> SUBSET Nat]
    /\ stopped \in [Outputs -> SUBSET Nat]
    /\ published \in [Outputs -> SUBSET Nat]
    /\ pc \in [Threads -> PC]
    /\ res \in [Threads -> Results]
    /\ now \in [Threads -> Nat]
    /\ cursor \in [Threads -> Nat \ {0}]
    /\ target \in [Threads -> Nat \ {0}]
    /\ reg \in [Threads -> Nat]
    /\ got \in [Threads -> Nat]
    /\ again \in [Threads -> BOOLEAN]
    /\ event \in [Threads -> {"none", "count", "interval"}]
    /\ mlive \subseteq Threads \X Nat \X Nat
    /\ bpc \in {"idle", "load", "store", "done"}
    /\ bidx \in Nat \ {0}
    /\ bobj \in Nat
    /\ wrote \in [Outputs -> SUBSET (Threads \X Nat)]
    /\ fill \in [Outputs -> Nat]
    /\ ticks \in [Outputs -> Nat]

\* A thread inside nmsg_output_write(), or dereferencing io_output->output in
\* check_close_event(), works on an object no other thread has closed: the
\* io_output lock (or the absence of a close_fp) protects the whole access.
UsesOpenOutput ==
    \A t \in Threads :
        /\ pc[t] = "writing" =>
             output[target[t]] \in live[target[t]]
        /\ pc[t] \in {"count", "interval", "close"} =>
             output[cursor[t]] \in live[cursor[t]]

\* While the loop runs, an output that was closed for good and whose lock is
\* free implies io->stop: a thread that meets the NULL pointer is on its way
\* out, and no thread keeps reading into a void.
ClosedMeansStop ==
    \A o \in Outs :
        main = "loop" /\ output[o] = NULL /\ lock[o] = None => stop

\* kickfile_exec() only ever publishes a file whose output object has been
\* flushed and closed: no published file is still being written.
PublishedIsClosed == \A o \in Outputs : published[o] \cap live[o] = {}

\* No message is skipped: before a thread reads its next message, the one
\* before was accepted by its output (stripe) or by every output (mirror).
NothingSkipped ==
    \A t \in Threads : \A n \in 1..(got[t] - 1) :
        IF conf.mode = "mirror"
        THEN \A o \in Outs : <<t, n>> \in wrote[o]
        ELSE \E o \in Outs : <<t, n>> \in wrote[o]

\* A message object outlives its trip through io_write() only on the path
\* that meets a closed output, so a thread leaks at most one, and only when it
\* ends with nmsg_res_stop.
MessagesReleased ==
    \A m \in mlive :
        /\ m[2] = got[m[1]]
        /\ pc[m[1]] \in {"wlock", "writing", "count_load", "count_store",
                         "total", "done"}
        /\ pc[m[1]] = "done" => res[m[1]] = "stop" /\ m = Passed(m[1])

\* After nmsg_io_destroy() every output object ever opened has been freed and
\* every input closed.
AllReclaimed ==
    main = "freed" => inputOpen = {} /\ \A o \in Outputs : live[o] = {}

\* An interval close event always belongs to a later slot of the clock than
\* the one before, although a thread compares against a time it took before
\* blocking in the read: no slot rotates an output twice.
IntervalSlotsAdvance ==
    [][\A o \in Outputs :
          ticks'[o] # ticks[o] =>
             /\ last'[o] % conf.interval = 0
             /\ last[o] + conf.interval <= last'[o]
             /\ last'[o] <= clock]_vars

\* Once io->stop is set, by a limit or by breakloop, every thread sees it, also
\* one whose input is idle for ever, and leaves its loop; nmsg_io_loop() returns
\* and everything is closed.
StopTerminates == stop ~> main = "freed"

-----------------------------------------------------------------------------
(***************************************************************************)
(* What the documentation says, and the code does not do                   *)
(***************************************************************************)

\* "Stop the process or (with -k specified) reopen outputs after count
\* payloads have been processed": when no thread is between a write and its
\* check, no output holds count payloads or more.
CountHonoured ==
    (/\ main = "loop" /\ ~stop /\ conf.count > 0
     /\ \A t \in Threads : pc[t] \in {"read", "reading"})
    => \A o \in Outs : conf.user[o] = "ignore" \/ fill[o] < conf.count

\* "reopen outputs after count payloads have been processed": a count close
\* event finds at least one payload in the output it closes.
CountEventHasPayloads ==
    \A t \in Threads :
        pc[t] = "close" /\ event[t] = "count" => fill[cursor[t]] > 0

\* "This function is safe to call inside a signal handler": breakloop only
\* touches output objects that still exist.
BreakloopTouchesLive == bpc = "store" => bobj \in live[bidx]
=============================================================================
