---------------------------- MODULE NmsgIoProofs ----------------------------
(***************************************************************************)
(* Safety of the nmsg_io engine for any number of threads, outputs and     *)
(* reads and for every configuration: proofs checked by TLAPS.             *)
(***************************************************************************)
EXTENDS NmsgIo, TLAPS

\* Where the threads are, given where main() is, and which outputs they and
\* breakloop work on.
PhaseInv ==
    /\ main = "setup" => \A t \in Threads : pc[t] = "idle" /\ cursor[t] = 1
    /\ main \in {"joined", "closing", "freed"} =>
         \A t \in Threads : pc[t] = "done"
    /\ \A t \in Threads : pc[t] \notin {"idle", "done"} =>
         /\ cursor[t] \in Outs
         /\ pc[t] \in {"wlock", "writing", "count_load", "count_store", "total"}
              => target[t] \in Outs
    /\ bpc = "store" => bidx \in Outs

\* The mutex protocol: with a close_fp, a thread in a critical section holds
\* the lock of the output it works on.
LockInv ==
    \A t \in Threads :
        conf.closeFp =>
          /\ pc[t] = "writing" => lock[target[t]] = t
          /\ pc[t] \in CheckPC => lock[cursor[t]] = t

\* Without a close_fp nothing is closed while the loop runs.
NoCloseInv ==
    ~conf.closeFp =>
      /\ \A t \in Threads : pc[t] \notin {"close", "closed", "kick", "reopen"}
      /\ main \in {"setup", "loop"} => \A o \in Outs : output[o] # NULL

\* What a thread in a critical section knows about its output.
HoldInv ==
    \A t \in Threads :
        /\ pc[t] = "writing" => output[target[t]] # NULL
        /\ pc[t] \in {"count", "interval", "close"} => output[cursor[t]] # NULL
        /\ pc[t] \in {"closed", "kick", "reopen"} => output[cursor[t]] = NULL

\* The live objects are exactly the ones the output pointers refer to, and a
\* published object is an earlier one.
ObjectInv ==
    /\ \A o \in Outputs : o > conf.n => output[o] = NULL
    /\ \A o \in Outputs : output[o] # NULL => output[o] \in live[o]
    /\ \A o \in Outputs : \A k \in live[o] :
         output[o] = k /\ gen[o] = k /\ k # NULL
    /\ \A o \in Outputs : \A k \in published[o] :
         k <= gen[o] /\ k \notin live[o]

\* An output pointer is NULL only after, or in the middle of, a close.
StopInv ==
    main \in {"setup", "loop"} =>
      \A o \in Outs : output[o] = NULL =>
         \/ stop
         \/ \E t \in Threads : /\ pc[t] \in {"closed", "kick", "reopen"}
                               /\ cursor[t] = o

\* io_output->last sits on a slot boundary, and no thread is ahead of time.
SlotInv ==
    /\ \A t \in Threads : now[t] <= clock
    /\ conf.interval > 0 => \A o \in Outputs : last[o] % conf.interval = 0

\* nmsg_io_destroy() leaves nothing behind.
EndInv ==
    /\ main \in {"closing", "freed"} => inputOpen = {}
    /\ main = "freed" => \A o \in Outs : output[o] = NULL

IInv == /\ TypeOK /\ PhaseInv /\ LockInv /\ NoCloseInv /\ HoldInv
        /\ ObjectInv /\ StopInv /\ SlotInv /\ EndInv

-----------------------------------------------------------------------------
\* Division with remainder.
LEMMA DivMod ==
    ASSUME NEW s \in Nat, NEW i \in Nat, i > 0
    PROVE  /\ s \div i \in Nat /\ s % i \in Nat
           /\ s % i < i /\ s = i * (s \div i) + (s % i)
  OBVIOUS

\* A multiple leaves no remainder.
LEMMA ModMul ==
    ASSUME NEW q \in Nat, NEW i \in Nat, i > 0
    PROVE  (i * q) % i = 0
  OBVIOUS

\* RoundDown() is the last slot boundary.
LEMMA RoundDownFacts ==
    ASSUME NEW s \in Nat, NEW i \in Nat, i > 0
    PROVE  /\ RoundDown(s, i) \in Nat
           /\ RoundDown(s, i) <= s
           /\ RoundDown(s, i) % i = 0
           /\ RoundDown(s, i) = i * (s \div i)
<1>1. RoundDown(s, i) = i * (s \div i)
  BY DivMod DEF RoundDown
<1>2. RoundDown(s, i) \in Nat /\ RoundDown(s, i) <= s
  BY DivMod DEF RoundDown
<1>3. (i * (s \div i)) % i = 0
  BY DivMod, ModMul
<1> QED
  BY <1>1, <1>2, <1>3

\* Multiples of i are i apart.
LEMMA NextMultiple ==
    ASSUME NEW a \in Nat, NEW b \in Nat, NEW i \in Nat, i > 0,
           i * a < i * b
    PROVE  i * a + i <= i * b
<1>1. a < b
  <2> SUFFICES ASSUME b <= a PROVE i * b <= i * a
    OBVIOUS
  <2>1. PICK d \in Nat : a = b + d
    <3>1. a - b \in Nat /\ a = b + (a - b)
      OBVIOUS
    <3> QED
      BY <3>1
  <2>2. i * a = i * b + i * d /\ i * d \in Nat /\ i * b \in Nat
    BY <2>1
  <2> QED
    BY <2>2
<1>2. PICK e \in Nat : b = a + 1 + e
  <2>1. b - a - 1 \in Nat /\ b = a + 1 + (b - a - 1)
    BY <1>1
  <2> QED
    BY <2>1
<1>3. i * b = i * a + i + i * e /\ i * e \in Nat /\ i * a \in Nat
  BY <1>2
<1> QED
  BY <1>3

\* A time a whole interval past a boundary rounds down to a later boundary.
LEMMA SlotAdvances ==
    ASSUME NEW l \in Nat, NEW s \in Nat, NEW i \in Nat, i > 0,
           l % i = 0, s - l >= i
    PROVE  l + i <= RoundDown(s, i)
<1>1. l = i * (l \div i) /\ l \div i \in Nat
  BY DivMod
<1>2. RoundDown(s, i) = i * (s \div i) /\ s \div i \in Nat
  BY DivMod, RoundDownFacts
<1>3. s < RoundDown(s, i) + i
  BY DivMod, <1>2
<1>4. i * (l \div i) < i * (s \div i)
  BY <1>1, <1>2, <1>3
<1> QED
  BY <1>1, <1>2, <1>4, NextMultiple
\* RoundDown() of a time is a time.
LEMMA RoundDownType ==
    ASSUME NEW s \in Nat, NEW i \in Nat, i > 0
    PROVE  RoundDown(s, i) \in Nat
  BY RoundDownFacts

\* The cursor of a stripe stays within the list of outputs.
LEMMA NextOutput ==
    ASSUME NEW n \in Nat, NEW c \in 1..n, NEW d,
           d = c \/ d = 1 \/ (c # n /\ d = c + 1)
    PROVE  d \in 1..n
  OBVIOUS

\* The settings of nmsgtool have their types.
LEMMA ConfFacts ==
    ASSUME TypeOK
    PROVE  /\ conf.n \in Nat /\ conf.n <= NOut
           /\ conf.count \in Nat /\ conf.interval \in Nat
           /\ conf.closeFp \in BOOLEAN
           /\ \A o \in Outs : o \in Outputs
<1>1. conf \in ConfigType
  BY ConfigAssumption DEF TypeOK
<1>2. conf.n \in 0..NOut
  BY <1>1 DEF ConfigType
<1>3. conf.count \in Nat /\ conf.interval \in Nat
  BY <1>1 DEF ConfigType
<1>4. conf.closeFp \in BOOLEAN
  BY <1>1 DEF ConfigType
<1> QED
  BY <1>2, <1>3, <1>4, NOutAssumption DEF Outs, Outputs

-----------------------------------------------------------------------------
\* Every action preserves the types.
LEMMA TypeStep == IInv /\ [Next]_vars => TypeOK'
<1> SUFFICES ASSUME TypeOK, PhaseInv, [Next]_vars
             PROVE  TypeOK'
  BY DEF IInv
<1> USE BoundAssumption
    DEF TypeOK, PC, WritePC, CheckPC, Goto, NULL,
        ioVars, mainVars, objVars, eventVars, readVars, writeVars, breakVars
<1>1. ASSUME NEW t \in Threads, ReadStart(t) PROVE TypeOK'
  BY <1>1 DEF ReadStart
<1>2. ASSUME NEW t \in Threads, ReadStopped(t) PROVE TypeOK'
  BY <1>2 DEF ReadStopped
<1>3. ASSUME NEW t \in Threads, ReadAgain(t) PROVE TypeOK'
  BY <1>3 DEF ReadAgain
<1>4. ASSUME NEW t \in Threads, ReadEnd(t) PROVE TypeOK'
  BY <1>4 DEF ReadEnd, Exit, Results
<1>5. ASSUME NEW t \in Threads, ReadMessage(t) PROVE TypeOK'
  BY <1>5 DEF ReadMessage
<1>6. ASSUME NEW t \in Threads, WriteLock(t) PROVE TypeOK'
  BY <1>6 DEF WriteLock
<1>7. ASSUME NEW t \in Threads, WriteClosed(t) PROVE TypeOK'
  BY <1>7 DEF WriteClosed, Exit, Original, Results
<1>8. ASSUME NEW t \in Threads, WriteOk(t) PROVE TypeOK'
  <2>1. target[t] \in Outputs
    BY <1>8, ConfFacts DEF PhaseInv, WriteOk
  <2>2. wrote' \in [Outputs -> SUBSET (Threads \X Nat)] /\ fill' \in [Outputs -> Nat]
    BY <1>8, <2>1 DEF WriteOk
  <2>3. lock' \in [Outputs -> Threads \cup {None}]
    BY <1>8, <2>1 DEF WriteOk, Unlock
  <2> QED
    BY <1>8, <2>2, <2>3 DEF WriteOk
<1>9. ASSUME NEW t \in Threads, WriteFail(t) PROVE TypeOK'
  BY <1>9 DEF WriteFail, Exit, Unlock, Passed, Original, Results
<1>10. ASSUME NEW t \in Threads, CountLoad(t) PROVE TypeOK'
  BY <1>10, ConfFacts DEF PhaseInv, CountLoad
<1>11. ASSUME NEW t \in Threads, CountStore(t) PROVE TypeOK'
  <2>1. target[t] \in Outputs /\ reg[t] + 1 \in Nat
    BY <1>11, ConfFacts DEF PhaseInv, CountStore
  <2>2. countOut' \in [Outputs -> Nat]
    BY <1>11, <2>1 DEF CountStore
  <2> QED
    BY <1>11, <2>2 DEF CountStore
<1>12. ASSUME NEW t \in Threads, CountTotal(t) PROVE TypeOK'
  BY <1>12, ConfFacts DEF PhaseInv, CountTotal, Original
<1>13. ASSUME NEW t \in Threads, CheckLock(t) PROVE TypeOK'
  BY <1>13 DEF CheckLock
<1>14. ASSUME NEW t \in Threads, CheckCount(t) PROVE TypeOK'
  BY <1>14 DEF CheckCount, CountReached
<1>15. ASSUME NEW t \in Threads, CheckInterval(t) PROVE TypeOK'
  <2>1. last' \in [Outputs -> Nat]
    <3>1. CASE IntervalReached(t, cursor[t]) /\ conf.closeFp
      <4>1. RoundDown(now[t], conf.interval) \in Nat
        BY <3>1, ConfFacts, RoundDownType DEF IntervalReached
      <4> QED
        BY <1>15, <3>1, <4>1 DEF CheckInterval
    <3>2. CASE ~(IntervalReached(t, cursor[t]) /\ conf.closeFp)
      BY <1>15, <3>2 DEF CheckInterval
    <3> QED
      BY <3>1, <3>2
  <2>2. ticks' \in [Outputs -> Nat]
    <3>1. cursor[t] \in Outputs
      BY <1>15, ConfFacts DEF PhaseInv, CheckInterval
    <3> QED
      BY <1>15, <3>1 DEF CheckInterval
  <2>3. stop' \in BOOLEAN
    BY <1>15, ConfFacts DEF CheckInterval, IntervalReached
  <2>4. pc' \in [Threads -> PC] /\ event' \in [Threads -> {"none", "count", "interval"}]
    BY <1>15 DEF CheckInterval
  <2> QED
    BY <1>15, <2>1, <2>2, <2>3, <2>4 DEF CheckInterval
<1>16. ASSUME NEW t \in Threads, CloseIgnore(t) PROVE TypeOK'
  BY <1>16 DEF CloseIgnore, AfterClose
<1>17. ASSUME NEW t \in Threads, CloseOutput(t) PROVE TypeOK'
  BY <1>17, ConfFacts DEF PhaseInv, CloseOutput
<1>18. ASSUME NEW t \in Threads, CloseStop(t) PROVE TypeOK'
  BY <1>18 DEF CloseStop
<1>19. ASSUME NEW t \in Threads, KickfileExec(t) PROVE TypeOK'
  <2>1. cursor[t] \in Outputs
    BY <1>19, ConfFacts DEF PhaseInv, KickfileExec
  <2>2. published' \in [Outputs -> SUBSET Nat]
    BY <1>19, <2>1 DEF KickfileExec
  <2> QED
    BY <1>19, <2>2 DEF KickfileExec
<1>20. ASSUME NEW t \in Threads, KickReopen(t) PROVE TypeOK'
  <2>1. cursor[t] \in Outputs
    BY <1>20, ConfFacts DEF PhaseInv, KickReopen
  <2>2. /\ gen' \in [Outputs -> Nat] /\ output' \in [Outputs -> Nat]
        /\ live' \in [Outputs -> SUBSET Nat] /\ fill' \in [Outputs -> Nat]
    BY <1>20, <2>1 DEF KickReopen
  <2> QED
    BY <1>20, <2>2 DEF KickReopen, AfterClose
<1>21. ASSUME NEW t \in Threads, CheckUnlock(t) PROVE TypeOK'
  BY <1>21 DEF CheckUnlock, Unlock
<1>22. ASSUME NEW t \in Threads, AfterCheck(t) PROVE TypeOK'
  BY <1>22, ConfFacts DEF AfterCheck
<1>23. CASE LoopStart
  <2>1. conf.interval # 0 => RoundDown(clock, conf.interval) \in Nat
    BY ConfFacts, RoundDownType
  <2>2. last' \in [Outputs -> Nat]
    BY <1>23, <2>1 DEF LoopStart
  <2>3. pc' \in [Threads -> PC] /\ res' \in [Threads -> Results]
    BY <1>23 DEF LoopStart, Results
  <2> QED
    BY <1>23, <2>2, <2>3 DEF LoopStart
<1>24. CASE LoopJoin
  BY <1>24 DEF LoopJoin, Results
<1>25. CASE DestroyInputs
  BY <1>25 DEF DestroyInputs
<1>26. CASE DestroyOutput
  BY <1>26, ConfFacts DEF DestroyOutput
<1>27. CASE DestroyDone
  BY <1>27 DEF DestroyDone
<1>28. CASE BreakStart
  BY <1>28 DEF BreakStart
<1>29. CASE BreakLoad
  <2>1. bidx <= conf.n => bidx \in Outputs
    BY ConfFacts DEF Outs
  <2>2. bobj' \in Nat /\ bidx' \in Nat \ {0}
    BY <1>29, <2>1 DEF BreakLoad
  <2> QED
    BY <1>29, <2>2 DEF BreakLoad
<1>30. CASE BreakStore
  <2>1. bidx \in Outputs
    BY <1>30, ConfFacts DEF PhaseInv, BreakStore
  <2>2. stopped' \in [Outputs -> SUBSET Nat]
    BY <1>30, <2>1 DEF BreakStore
  <2> QED
    BY <1>30, <2>2 DEF BreakStore
<1>31. CASE Tick
  BY <1>31 DEF Tick
<1>32. CASE UNCHANGED vars
  BY <1>32 DEF vars
<1> QED
  BY <1>1, <1>2, <1>3, <1>4, <1>5, <1>6, <1>7, <1>8, <1>9, <1>10, <1>11, <1>12, <1>13, <1>14, <1>15, <1>16, <1>17, <1>18, <1>19, <1>20, <1>21, <1>22, <1>23, <1>24, <1>25, <1>26, <1>27, <1>28, <1>29, <1>30, <1>31, <1>32
  DEF Next, io_thr_input, ReadStep, WriteStep, CheckStep, nmsg_io_loop,
      nmsg_io_destroy, nmsg_io_breakloop, Finished

\* A thread works on an existing output and only while nmsg_io_loop() waits.
LEMMA PhaseStep == IInv /\ [Next]_vars => PhaseInv'
<1> SUFFICES ASSUME IInv, [Next]_vars
             PROVE  PhaseInv'
  OBVIOUS
<1> USE ConfFacts
    DEF IInv, PhaseInv, TypeOK, Goto, PC, CheckPC, WritePC, Outs,
        ioVars, mainVars, objVars, eventVars, readVars, writeVars, breakVars
<1>1. ASSUME NEW t \in Threads, ReadStart(t) PROVE PhaseInv'
  BY <1>1 DEF ReadStart
<1>2. ASSUME NEW t \in Threads, ReadStopped(t) PROVE PhaseInv'
  BY <1>2 DEF ReadStopped
<1>3. ASSUME NEW t \in Threads, ReadAgain(t) PROVE PhaseInv'
  BY <1>3 DEF ReadAgain
<1>4. ASSUME NEW t \in Threads, ReadEnd(t) PROVE PhaseInv'
  BY <1>4 DEF ReadEnd, Exit
<1>5. ASSUME NEW t \in Threads, ReadMessage(t) PROVE PhaseInv'
  BY <1>5 DEF ReadMessage
<1>6. ASSUME NEW t \in Threads, WriteLock(t) PROVE PhaseInv'
  BY <1>6 DEF WriteLock
<1>7. ASSUME NEW t \in Threads, WriteClosed(t) PROVE PhaseInv'
  BY <1>7 DEF WriteClosed, Exit
<1>8. ASSUME NEW t \in Threads, WriteOk(t) PROVE PhaseInv'
  BY <1>8 DEF WriteOk, Unlock
<1>9. ASSUME NEW t \in Threads, WriteFail(t) PROVE PhaseInv'
  BY <1>9 DEF WriteFail, Exit, Unlock
<1>10. ASSUME NEW t \in Threads, CountLoad(t) PROVE PhaseInv'
  BY <1>10 DEF CountLoad
<1>11. ASSUME NEW t \in Threads, CountStore(t) PROVE PhaseInv'
  BY <1>11 DEF CountStore
<1>12. ASSUME NEW t \in Threads, CountTotal(t) PROVE PhaseInv'
  BY <1>12 DEF CountTotal
<1>13. ASSUME NEW t \in Threads, CheckLock(t) PROVE PhaseInv'
  BY <1>13 DEF CheckLock
<1>14. ASSUME NEW t \in Threads, CheckCount(t) PROVE PhaseInv'
  BY <1>14 DEF CheckCount, CountReached
<1>15. ASSUME NEW t \in Threads, CheckInterval(t) PROVE PhaseInv'
  BY <1>15 DEF CheckInterval, IntervalReached
<1>16. ASSUME NEW t \in Threads, CloseIgnore(t) PROVE PhaseInv'
  BY <1>16 DEF CloseIgnore, AfterClose
<1>17. ASSUME NEW t \in Threads, CloseOutput(t) PROVE PhaseInv'
  BY <1>17 DEF CloseOutput
<1>18. ASSUME NEW t \in Threads, CloseStop(t) PROVE PhaseInv'
  BY <1>18 DEF CloseStop
<1>19. ASSUME NEW t \in Threads, KickfileExec(t) PROVE PhaseInv'
  BY <1>19 DEF KickfileExec
<1>20. ASSUME NEW t \in Threads, KickReopen(t) PROVE PhaseInv'
  BY <1>20 DEF KickReopen, AfterClose
<1>21. ASSUME NEW t \in Threads, CheckUnlock(t) PROVE PhaseInv'
  BY <1>21 DEF CheckUnlock, Unlock
<1>22. ASSUME NEW t \in Threads, AfterCheck(t) PROVE PhaseInv'
  <2>1. conf.n \in Nat /\ cursor[t] \in 1..conf.n
    BY <1>22 DEF AfterCheck
  <2>2. \/ cursor'[t] = cursor[t]
        \/ cursor'[t] = 1
        \/ cursor[t] # conf.n /\ cursor'[t] = cursor[t] + 1
    BY <1>22 DEF AfterCheck
  <2>3. cursor'[t] \in 1..conf.n
    BY <2>1, <2>2, NextOutput
  <2> QED
    BY <1>22, <2>3 DEF AfterCheck
<1>23. CASE LoopStart
  <2>1. conf.n # 0 => 1 \in 1..conf.n
    OBVIOUS
  <2> QED
    BY <1>23, <2>1 DEF LoopStart
<1>24. CASE LoopJoin
  BY <1>24 DEF LoopJoin
<1>25. CASE DestroyInputs
  BY <1>25 DEF DestroyInputs
<1>26. CASE DestroyOutput
  BY <1>26 DEF DestroyOutput
<1>27. CASE DestroyDone
  BY <1>27 DEF DestroyDone
<1>28. CASE BreakStart
  BY <1>28 DEF BreakStart
<1>29. CASE BreakLoad
  BY <1>29 DEF BreakLoad
<1>30. CASE BreakStore
  BY <1>30 DEF BreakStore
<1>31. CASE Tick
  BY <1>31 DEF Tick
<1>32. CASE UNCHANGED vars
  BY <1>32 DEF vars
<1> QED
  BY <1>1, <1>2, <1>3, <1>4, <1>5, <1>6, <1>7, <1>8, <1>9, <1>10, <1>11, <1>12, <1>13, <1>14, <1>15, <1>16, <1>17, <1>18, <1>19, <1>20, <1>21, <1>22, <1>23, <1>24, <1>25, <1>26, <1>27, <1>28, <1>29, <1>30, <1>31, <1>32
  DEF Next, io_thr_input, ReadStep, WriteStep, CheckStep, nmsg_io_loop,
      nmsg_io_destroy, nmsg_io_breakloop, Finished

\* The io_output mutex protocol: taken before, released after each section.
LEMMA LockStep == IInv /\ [Next]_vars => LockInv'
<1> SUFFICES ASSUME IInv, [Next]_vars PROVE LockInv'
  OBVIOUS
<1> USE ConfFacts
    DEF IInv, LockInv, PhaseInv, TypeOK, Goto, CheckPC,
        ioVars, mainVars, objVars, eventVars, readVars, writeVars, breakVars
<1>1. ASSUME NEW t \in Threads, ReadStep(t) PROVE LockInv'
  BY <1>1 DEF ReadStep, ReadStart, ReadStopped, ReadAgain, ReadEnd, Exit,
      ReadMessage
<1>2. ASSUME NEW t \in Threads, WriteLock(t) PROVE LockInv'
  <2>1. target[t] \in Outputs
    BY <1>2 DEF WriteLock
  <2>2. conf.closeFp => lock[target[t]] = None /\ lock'[target[t]] = t
    BY <1>2, <2>1 DEF WriteLock
  <2>3. \A o \in Outputs : o # target[t] => lock'[o] = lock[o]
    BY <1>2 DEF WriteLock
  <2>4. \A s \in Threads : s # None
    BY ThreadAssumption
  <2> QED
    BY <1>2, <2>1, <2>2, <2>3, <2>4 DEF WriteLock
<1>3. ASSUME NEW t \in Threads, WriteClosed(t) PROVE LockInv'
  BY <1>3 DEF WriteClosed, Exit
<1>4. ASSUME NEW t \in Threads, WriteOk(t) PROVE LockInv'
  BY <1>4 DEF WriteOk, Unlock
<1>5. ASSUME NEW t \in Threads, WriteFail(t) PROVE LockInv'
  BY <1>5 DEF WriteFail, Exit, Unlock
<1>6. ASSUME NEW t \in Threads, CountLoad(t) \/ CountStore(t) \/ CountTotal(t) PROVE LockInv'
  BY <1>6 DEF CountLoad, CountStore, CountTotal
<1>7. ASSUME NEW t \in Threads, CheckLock(t) PROVE LockInv'
  <2>1. cursor[t] \in Outputs
    BY <1>7 DEF CheckLock
  <2>2. conf.closeFp => lock[cursor[t]] = None /\ lock'[cursor[t]] = t
    BY <1>7, <2>1 DEF CheckLock
  <2>3. \A o \in Outputs : o # cursor[t] => lock'[o] = lock[o]
    BY <1>7 DEF CheckLock
  <2>4. \A s \in Threads : s # None
    BY ThreadAssumption
  <2> QED
    BY <1>7, <2>1, <2>2, <2>3, <2>4 DEF CheckLock
<1>8. ASSUME NEW t \in Threads, CheckCount(t) PROVE LockInv'
  BY <1>8 DEF CheckCount, CountReached
<1>9. ASSUME NEW t \in Threads, CheckInterval(t) PROVE LockInv'
  BY <1>9 DEF CheckInterval, IntervalReached
<1>10. ASSUME NEW t \in Threads, CloseIgnore(t) PROVE LockInv'
  BY <1>10 DEF CloseIgnore, AfterClose
<1>11. ASSUME NEW t \in Threads, CloseOutput(t) PROVE LockInv'
  BY <1>11 DEF CloseOutput
<1>12. ASSUME NEW t \in Threads, CloseStop(t) PROVE LockInv'
  BY <1>12 DEF CloseStop
<1>13. ASSUME NEW t \in Threads, KickfileExec(t) PROVE LockInv'
  BY <1>13 DEF KickfileExec
<1>14. ASSUME NEW t \in Threads, KickReopen(t) PROVE LockInv'
  BY <1>14 DEF KickReopen, AfterClose
<1>15. ASSUME NEW t \in Threads, CheckUnlock(t) PROVE LockInv'
  BY <1>15 DEF CheckUnlock, Unlock
<1>16. ASSUME NEW t \in Threads, AfterCheck(t) PROVE LockInv'
  BY <1>16 DEF AfterCheck
<1>17. CASE LoopStart
  BY <1>17 DEF LoopStart
<1>18. CASE LoopJoin
  BY <1>18 DEF LoopJoin
<1>19. CASE DestroyInputs
  BY <1>19 DEF DestroyInputs
<1>20. CASE DestroyOutput
  BY <1>20 DEF DestroyOutput
<1>21. CASE DestroyDone
  BY <1>21 DEF DestroyDone
<1>22. CASE nmsg_io_breakloop \/ Tick
  BY <1>22 DEF nmsg_io_breakloop, BreakStart, BreakLoad, BreakStore, Tick
<1>23. CASE UNCHANGED vars
  BY <1>23 DEF vars
<1> QED
  BY <1>1, <1>2, <1>3, <1>4, <1>5, <1>6, <1>7, <1>8, <1>9, <1>10, <1>11,
      <1>12, <1>13, <1>14, <1>15, <1>16, <1>17, <1>18, <1>19, <1>20, <1>21,
      <1>22, <1>23
  DEF Next, io_thr_input, ReadStep, WriteStep, CheckStep, nmsg_io_loop,
      nmsg_io_destroy, nmsg_io_breakloop, Finished

\* Without a close_fp no step of check_close_event() closes an output.
LEMMA NoCloseStep == IInv /\ [Next]_vars => NoCloseInv'
<1> SUFFICES ASSUME IInv, [Next]_vars PROVE NoCloseInv'
  OBVIOUS
<1> USE ConfFacts
    DEF IInv, NoCloseInv, PhaseInv, TypeOK, Goto, Outs,
        ioVars, mainVars, objVars, eventVars, readVars, writeVars, breakVars
<1>1. ASSUME NEW t \in Threads, ReadStep(t) PROVE NoCloseInv'
  BY <1>1 DEF ReadStep, ReadStart, ReadStopped, ReadAgain, ReadEnd, Exit,
      ReadMessage
<1>2. ASSUME NEW t \in Threads, WriteLock(t) PROVE NoCloseInv'
  BY <1>2 DEF WriteLock
<1>3. ASSUME NEW t \in Threads, WriteClosed(t) PROVE NoCloseInv'
  BY <1>3 DEF WriteClosed, Exit
<1>4. ASSUME NEW t \in Threads, WriteOk(t) PROVE NoCloseInv'
  BY <1>4 DEF WriteOk, Unlock
<1>5. ASSUME NEW t \in Threads, WriteFail(t) PROVE NoCloseInv'
  BY <1>5 DEF WriteFail, Exit, Unlock
<1>6. ASSUME NEW t \in Threads, CountLoad(t) \/ CountStore(t) \/ CountTotal(t) PROVE NoCloseInv'
  BY <1>6 DEF CountLoad, CountStore, CountTotal
<1>7. ASSUME NEW t \in Threads, CheckLock(t) PROVE NoCloseInv'
  BY <1>7 DEF CheckLock
<1>8. ASSUME NEW t \in Threads, CheckCount(t) PROVE NoCloseInv'
  BY <1>8 DEF CheckCount, CountReached
<1>9. ASSUME NEW t \in Threads, CheckInterval(t) PROVE NoCloseInv'
  BY <1>9 DEF CheckInterval, IntervalReached
<1>10. ASSUME NEW t \in Threads, CloseIgnore(t) PROVE NoCloseInv'
  BY <1>10 DEF CloseIgnore, AfterClose
<1>11. ASSUME NEW t \in Threads, CloseOutput(t) PROVE NoCloseInv'
  BY <1>11 DEF CloseOutput
<1>12. ASSUME NEW t \in Threads, CloseStop(t) PROVE NoCloseInv'
  BY <1>12 DEF CloseStop
<1>13. ASSUME NEW t \in Threads, KickfileExec(t) PROVE NoCloseInv'
  BY <1>13 DEF KickfileExec
<1>14. ASSUME NEW t \in Threads, KickReopen(t) PROVE NoCloseInv'
  BY <1>14 DEF KickReopen, AfterClose
<1>15. ASSUME NEW t \in Threads, CheckUnlock(t) PROVE NoCloseInv'
  BY <1>15 DEF CheckUnlock, Unlock
<1>16. ASSUME NEW t \in Threads, AfterCheck(t) PROVE NoCloseInv'
  BY <1>16 DEF AfterCheck
<1>17. CASE LoopStart
  BY <1>17 DEF LoopStart
<1>18. CASE LoopJoin
  BY <1>18 DEF LoopJoin
<1>19. CASE DestroyInputs
  BY <1>19 DEF DestroyInputs
<1>20. CASE DestroyOutput
  BY <1>20 DEF DestroyOutput
<1>21. CASE DestroyDone
  BY <1>21 DEF DestroyDone
<1>22. CASE nmsg_io_breakloop \/ Tick
  BY <1>22 DEF nmsg_io_breakloop, BreakStart, BreakLoad, BreakStore, Tick
<1>23. CASE UNCHANGED vars
  BY <1>23 DEF vars
<1> QED
  BY <1>1, <1>2, <1>3, <1>4, <1>5, <1>6, <1>7, <1>8, <1>9, <1>10, <1>11,
      <1>12, <1>13, <1>14, <1>15, <1>16, <1>17, <1>18, <1>19, <1>20, <1>21,
      <1>22, <1>23
  DEF Next, io_thr_input, ReadStep, WriteStep, CheckStep, nmsg_io_loop,
      nmsg_io_destroy, nmsg_io_breakloop, Finished

\* What a thread in a critical section knows of its output is not disturbed
\* by another: CloseOutput is the step to look at.
LEMMA HoldStep == IInv /\ [Next]_vars => HoldInv'
<1> SUFFICES ASSUME IInv, [Next]_vars PROVE HoldInv'
  OBVIOUS
<1> USE ConfFacts
    DEF IInv, HoldInv, LockInv, PhaseInv, NoCloseInv, ObjectInv, TypeOK,
        CheckPC, Goto, NULL,
        ioVars, mainVars, objVars, eventVars, readVars, writeVars, breakVars
<1>1. ASSUME NEW t \in Threads, ReadStep(t) PROVE HoldInv'
  BY <1>1 DEF ReadStep, ReadStart, ReadStopped, ReadAgain, ReadEnd, Exit,
      ReadMessage
<1>2. ASSUME NEW t \in Threads, WriteLock(t) PROVE HoldInv'
  BY <1>2 DEF WriteLock
<1>3. ASSUME NEW t \in Threads, WriteClosed(t) PROVE HoldInv'
  BY <1>3 DEF WriteClosed, Exit
<1>4. ASSUME NEW t \in Threads, WriteOk(t) PROVE HoldInv'
  BY <1>4 DEF WriteOk, Unlock
<1>5. ASSUME NEW t \in Threads, WriteFail(t) PROVE HoldInv'
  BY <1>5 DEF WriteFail, Exit, Unlock
<1>6. ASSUME NEW t \in Threads, CountLoad(t) \/ CountStore(t) \/ CountTotal(t) PROVE HoldInv'
  BY <1>6 DEF CountLoad, CountStore, CountTotal
<1>7. ASSUME NEW t \in Threads, CheckLock(t) PROVE HoldInv'
  BY <1>7 DEF CheckLock
<1>8. ASSUME NEW t \in Threads, CheckCount(t) PROVE HoldInv'
  BY <1>8 DEF CheckCount, CountReached
<1>9. ASSUME NEW t \in Threads, CheckInterval(t) PROVE HoldInv'
  BY <1>9 DEF CheckInterval, IntervalReached
<1>10. ASSUME NEW t \in Threads, CloseIgnore(t) PROVE HoldInv'
  BY <1>10 DEF CloseIgnore, AfterClose
<1>11. ASSUME NEW t \in Threads, CloseOutput(t) PROVE HoldInv'
  <2>1. conf.closeFp /\ lock[cursor[t]] = t /\ cursor[t] \in Outputs
    BY <1>11 DEF CloseOutput
  <2>2. ASSUME NEW s \in Threads, s # t
        PROVE  /\ pc[s] = "writing" => target[s] # cursor[t]
               /\ pc[s] \in CheckPC => cursor[s] # cursor[t]
    BY <2>1, <2>2
  <2>3. pc'[t] \in {"kick", "closed"} /\ output'[cursor[t]] = NULL
    BY <1>11, <2>1 DEF CloseOutput
  <2>4. ASSUME NEW s \in Threads, s # t
        PROVE  /\ pc'[s] = pc[s] /\ cursor'[s] = cursor[s]
               /\ target'[s] = target[s]
               /\ \A o \in Outputs : o # cursor[t] => output'[o] = output[o]
    BY <1>11, <2>4 DEF CloseOutput
  <2> QED
    BY <1>11, <2>2, <2>3, <2>4 DEF CloseOutput
<1>12. ASSUME NEW t \in Threads, CloseStop(t) PROVE HoldInv'
  BY <1>12 DEF CloseStop
<1>13. ASSUME NEW t \in Threads, KickfileExec(t) PROVE HoldInv'
  BY <1>13 DEF KickfileExec
<1>14. ASSUME NEW t \in Threads, KickReopen(t) PROVE HoldInv'
  <2>1. cursor[t] \in Outputs /\ conf.closeFp /\ lock[cursor[t]] = t
    BY <1>14 DEF KickReopen
  <2>2. ASSUME NEW s \in Threads, s # t
        PROVE  /\ pc[s] = "writing" => target[s] # cursor[t]
               /\ pc[s] \in CheckPC => cursor[s] # cursor[t]
    BY <2>1, <2>2
  <2>3. pc'[t] \in {"interval", "unlock"} /\ output'[cursor[t]] # NULL
    BY <1>14, <2>1 DEF KickReopen, AfterClose
  <2>4. ASSUME NEW s \in Threads, s # t
        PROVE  /\ pc'[s] = pc[s] /\ cursor'[s] = cursor[s]
               /\ target'[s] = target[s]
               /\ \A o \in Outputs : o # cursor[t] => output'[o] = output[o]
    BY <1>14, <2>4 DEF KickReopen
  <2>5. cursor'[t] = cursor[t]
    BY <1>14 DEF KickReopen
  <2>a. ASSUME NEW s \in Threads
        PROVE  /\ pc[s] = "writing" => /\ target[s] \in Outputs
                                        /\ output[target[s]] # NULL
               /\ pc[s] \in {"count", "interval", "close"} =>
                    cursor[s] \in Outputs /\ output[cursor[s]] # NULL
               /\ pc[s] \in {"closed", "kick", "reopen"} =>
                    cursor[s] \in Outputs /\ output[cursor[s]] = NULL
    OBVIOUS
  <2> HIDE DEF IInv, HoldInv, LockInv, PhaseInv, NoCloseInv, ObjectInv, TypeOK
  <2>6. ASSUME NEW s \in Threads, s # t
        PROVE  /\ pc'[s] = "writing" => output'[target'[s]] # NULL
               /\ pc'[s] \in {"count", "interval", "close"} =>
                    output'[cursor'[s]] # NULL
               /\ pc'[s] \in {"closed", "kick", "reopen"} =>
                    output'[cursor'[s]] = NULL
    BY <2>2, <2>4, <2>6, <2>a
  <2>7. /\ pc'[t] # "writing"
        /\ output'[cursor'[t]] # NULL
        /\ pc'[t] \notin {"closed", "kick", "reopen"}
    BY <2>3, <2>5
  <2> QED
    BY <2>6, <2>7 DEF HoldInv
<1>15. ASSUME NEW t \in Threads, CheckUnlock(t) PROVE HoldInv'
  BY <1>15 DEF CheckUnlock, Unlock
<1>16. ASSUME NEW t \in Threads, AfterCheck(t) PROVE HoldInv'
  BY <1>16 DEF AfterCheck
<1>17. CASE LoopStart
  BY <1>17 DEF LoopStart
<1>18. CASE LoopJoin
  BY <1>18 DEF LoopJoin
<1>19. CASE DestroyInputs
  BY <1>19 DEF DestroyInputs
<1>20. CASE DestroyOutput
  BY <1>20 DEF DestroyOutput
<1>21. CASE DestroyDone
  BY <1>21 DEF DestroyDone
<1>22. CASE nmsg_io_breakloop \/ Tick
  BY <1>22 DEF nmsg_io_breakloop, BreakStart, BreakLoad, BreakStore, Tick
<1>23. CASE UNCHANGED vars
  BY <1>23 DEF vars
<1> QED
  BY <1>1, <1>2, <1>3, <1>4, <1>5, <1>6, <1>7, <1>8, <1>9, <1>10, <1>11,
      <1>12, <1>13, <1>14, <1>15, <1>16, <1>17, <1>18, <1>19, <1>20, <1>21,
      <1>22, <1>23
  DEF Next, io_thr_input, ReadStep, WriteStep, CheckStep, nmsg_io_loop,
      nmsg_io_destroy, nmsg_io_breakloop, Finished

\* Objects are opened, closed and published one after the other.
LEMMA ObjectStep == IInv /\ [Next]_vars => ObjectInv'
<1> SUFFICES ASSUME IInv, [Next]_vars PROVE ObjectInv'
  OBVIOUS
<1> USE ConfFacts
    DEF IInv, ObjectInv, HoldInv, PhaseInv, TypeOK, Goto, NULL,
        ioVars, mainVars, objVars, eventVars, readVars, writeVars, breakVars
<1>1. ASSUME NEW t \in Threads, ReadStep(t) PROVE ObjectInv'
  BY <1>1 DEF ReadStep, ReadStart, ReadStopped, ReadAgain, ReadEnd, Exit,
      ReadMessage
<1>2. ASSUME NEW t \in Threads, WriteLock(t) PROVE ObjectInv'
  BY <1>2 DEF WriteLock
<1>3. ASSUME NEW t \in Threads, WriteClosed(t) PROVE ObjectInv'
  BY <1>3 DEF WriteClosed, Exit
<1>4. ASSUME NEW t \in Threads, WriteOk(t) PROVE ObjectInv'
  BY <1>4 DEF WriteOk, Unlock
<1>5. ASSUME NEW t \in Threads, WriteFail(t) PROVE ObjectInv'
  BY <1>5 DEF WriteFail, Exit, Unlock
<1>6. ASSUME NEW t \in Threads, CountLoad(t) \/ CountStore(t) \/ CountTotal(t) PROVE ObjectInv'
  BY <1>6 DEF CountLoad, CountStore, CountTotal
<1>7. ASSUME NEW t \in Threads, CheckLock(t) PROVE ObjectInv'
  BY <1>7 DEF CheckLock
<1>8. ASSUME NEW t \in Threads, CheckCount(t) PROVE ObjectInv'
  BY <1>8 DEF CheckCount, CountReached
<1>9. ASSUME NEW t \in Threads, CheckInterval(t) PROVE ObjectInv'
  BY <1>9 DEF CheckInterval, IntervalReached
<1>10. ASSUME NEW t \in Threads, CloseIgnore(t) PROVE ObjectInv'
  BY <1>10 DEF CloseIgnore, AfterClose
<1>11. ASSUME NEW t \in Threads, CloseOutput(t) PROVE ObjectInv'
  BY <1>11 DEF CloseOutput
<1>12. ASSUME NEW t \in Threads, CloseStop(t) PROVE ObjectInv'
  BY <1>12 DEF CloseStop
<1>13. ASSUME NEW t \in Threads, KickfileExec(t) PROVE ObjectInv'
  BY <1>13 DEF KickfileExec
<1>14. ASSUME NEW t \in Threads, KickReopen(t) PROVE ObjectInv'
  <2> DEFINE c == cursor[t]
  <2>a. c \in Outs /\ c \in Outputs /\ output[c] = NULL
    BY <1>14 DEF KickReopen
  <2>b. c <= conf.n
    BY <2>a DEF Outs
  <2>c. live[c] = {}
    BY <2>a
  <2>1. c \in Outputs /\ c <= conf.n /\ output[c] = NULL /\ live[c] = {}
    BY <2>a, <2>b, <2>c
  <2>2. /\ output'[c] = gen[c] + 1 /\ gen'[c] = gen[c] + 1
        /\ live'[c] = {gen[c] + 1} /\ published' = published
    BY <1>14, <2>1 DEF KickReopen
  <2>3. \A o \in Outputs : o # c =>
          output'[o] = output[o] /\ gen'[o] = gen[o] /\ live'[o] = live[o]
    BY <1>14 DEF KickReopen
  <2>4. conf' = conf /\ gen[c] \in Nat
    BY <1>14, <2>1 DEF KickReopen
  <2>5. \A o \in Outputs : o > conf.n => output'[o] = NULL
    BY <2>1, <2>3
  <2>6. \A o \in Outputs : output'[o] # NULL => output'[o] \in live'[o]
    <3>1. output'[c] \in live'[c]
      BY <2>2
    <3> QED
      BY <3>1, <2>3
  <2>7. \A o \in Outputs : \A k \in live'[o] :
          output'[o] = k /\ gen'[o] = k /\ k # NULL
    BY <2>2, <2>3, <2>4
  <2>8. \A o \in Outputs : \A k \in published'[o] :
          k <= gen'[o] /\ k \notin live'[o]
    BY <2>2, <2>3, <2>4
  <2> QED
    BY <2>4, <2>5, <2>6, <2>7, <2>8
<1>15. ASSUME NEW t \in Threads, CheckUnlock(t) PROVE ObjectInv'
  BY <1>15 DEF CheckUnlock, Unlock
<1>16. ASSUME NEW t \in Threads, AfterCheck(t) PROVE ObjectInv'
  BY <1>16 DEF AfterCheck
<1>17. CASE LoopStart
  BY <1>17 DEF LoopStart
<1>18. CASE LoopJoin
  BY <1>18 DEF LoopJoin
<1>19. CASE DestroyInputs
  BY <1>19 DEF DestroyInputs
<1>20. CASE DestroyOutput
  BY <1>20 DEF DestroyOutput
<1>21. CASE DestroyDone
  BY <1>21 DEF DestroyDone
<1>22. CASE nmsg_io_breakloop \/ Tick
  BY <1>22 DEF nmsg_io_breakloop, BreakStart, BreakLoad, BreakStore, Tick
<1>23. CASE UNCHANGED vars
  BY <1>23 DEF vars
<1> QED
  BY <1>1, <1>2, <1>3, <1>4, <1>5, <1>6, <1>7, <1>8, <1>9, <1>10, <1>11,
      <1>12, <1>13, <1>14, <1>15, <1>16, <1>17, <1>18, <1>19, <1>20, <1>21,
      <1>22, <1>23
  DEF Next, io_thr_input, ReadStep, WriteStep, CheckStep, nmsg_io_loop,
      nmsg_io_destroy, nmsg_io_breakloop, Finished

\* Every path that leaves an output NULL sets io->stop before it unlocks.
LEMMA StopStep == IInv /\ [Next]_vars => StopInv'
<1> SUFFICES ASSUME IInv, [Next]_vars
             PROVE  StopInv'
  OBVIOUS
<1> USE ConfFacts
    DEF IInv, StopInv, PhaseInv, TypeOK, Goto, NULL, Outs,
        ioVars, mainVars, objVars, eventVars, readVars, writeVars, breakVars
<1>1. ASSUME NEW t \in Threads, ReadStart(t) PROVE StopInv'
  BY <1>1 DEF ReadStart
<1>2. ASSUME NEW t \in Threads, ReadStopped(t) PROVE StopInv'
  BY <1>2 DEF ReadStopped
<1>3. ASSUME NEW t \in Threads, ReadAgain(t) PROVE StopInv'
  BY <1>3 DEF ReadAgain
<1>4. ASSUME NEW t \in Threads, ReadEnd(t) PROVE StopInv'
  BY <1>4 DEF ReadEnd, Exit
<1>5. ASSUME NEW t \in Threads, ReadMessage(t) PROVE StopInv'
  BY <1>5 DEF ReadMessage
<1>6. ASSUME NEW t \in Threads, WriteLock(t) PROVE StopInv'
  BY <1>6 DEF WriteLock
<1>7. ASSUME NEW t \in Threads, WriteClosed(t) PROVE StopInv'
  BY <1>7 DEF WriteClosed, Exit
<1>8. ASSUME NEW t \in Threads, WriteOk(t) PROVE StopInv'
  BY <1>8 DEF WriteOk, Unlock
<1>9. ASSUME NEW t \in Threads, WriteFail(t) PROVE StopInv'
  BY <1>9 DEF WriteFail, Exit, Unlock
<1>10. ASSUME NEW t \in Threads, CountLoad(t) PROVE StopInv'
  BY <1>10 DEF CountLoad
<1>11. ASSUME NEW t \in Threads, CountStore(t) PROVE StopInv'
  BY <1>11 DEF CountStore
<1>12. ASSUME NEW t \in Threads, CountTotal(t) PROVE StopInv'
  BY <1>12 DEF CountTotal
<1>13. ASSUME NEW t \in Threads, CheckLock(t) PROVE StopInv'
  BY <1>13 DEF CheckLock
<1>14. ASSUME NEW t \in Threads, CheckCount(t) PROVE StopInv'
  BY <1>14 DEF CheckCount, CountReached
<1>15. ASSUME NEW t \in Threads, CheckInterval(t) PROVE StopInv'
  BY <1>15 DEF CheckInterval, IntervalReached
<1>16. ASSUME NEW t \in Threads, CloseIgnore(t) PROVE StopInv'
  BY <1>16 DEF CloseIgnore, AfterClose
<1>17. ASSUME NEW t \in Threads, CloseOutput(t) PROVE StopInv'
  BY <1>17 DEF CloseOutput
<1>18. ASSUME NEW t \in Threads, CloseStop(t) PROVE StopInv'
  BY <1>18 DEF CloseStop
<1>19. ASSUME NEW t \in Threads, KickfileExec(t) PROVE StopInv'
  BY <1>19 DEF KickfileExec
<1>20. ASSUME NEW t \in Threads, KickReopen(t) PROVE StopInv'
  BY <1>20 DEF KickReopen, AfterClose
<1>21. ASSUME NEW t \in Threads, CheckUnlock(t) PROVE StopInv'
  BY <1>21 DEF CheckUnlock, Unlock
<1>22. ASSUME NEW t \in Threads, AfterCheck(t) PROVE StopInv'
  BY <1>22 DEF AfterCheck
<1>23. CASE LoopStart
  BY <1>23 DEF LoopStart
<1>24. CASE LoopJoin
  BY <1>24 DEF LoopJoin
<1>25. CASE DestroyInputs
  BY <1>25 DEF DestroyInputs
<1>26. CASE DestroyOutput
  BY <1>26 DEF DestroyOutput
<1>27. CASE DestroyDone
  BY <1>27 DEF DestroyDone
<1>28. CASE BreakStart
  BY <1>28 DEF BreakStart
<1>29. CASE BreakLoad
  BY <1>29 DEF BreakLoad
<1>30. CASE BreakStore
  BY <1>30 DEF BreakStore
<1>31. CASE Tick
  BY <1>31 DEF Tick
<1>32. CASE UNCHANGED vars
  BY <1>32 DEF vars
<1> QED
  BY <1>1, <1>2, <1>3, <1>4, <1>5, <1>6, <1>7, <1>8, <1>9, <1>10, <1>11, <1>12, <1>13, <1>14, <1>15, <1>16, <1>17, <1>18, <1>19, <1>20, <1>21, <1>22, <1>23, <1>24, <1>25, <1>26, <1>27, <1>28, <1>29, <1>30, <1>31, <1>32
  DEF Next, io_thr_input, ReadStep, WriteStep, CheckStep, nmsg_io_loop,
      nmsg_io_destroy, nmsg_io_breakloop, Finished

\* init_timespec_intervals() and check_close_event() round to the interval.
LEMMA SlotStep == IInv /\ [Next]_vars => SlotInv'
<1> SUFFICES ASSUME IInv, [Next]_vars PROVE SlotInv'
  OBVIOUS
<1> USE ConfFacts
    DEF IInv, SlotInv, TypeOK, Goto,
        ioVars, mainVars, objVars, eventVars, readVars, writeVars, breakVars
<1>1. ASSUME NEW t \in Threads, ReadStep(t) PROVE SlotInv'
  <2>1. CASE ReadStart(t)
    BY <2>1 DEF ReadStart
  <2>2. CASE ReadStopped(t)
    BY <2>2 DEF ReadStopped
  <2>3. CASE ReadAgain(t)
    BY <2>3 DEF ReadAgain
  <2>4. CASE ReadEnd(t)
    BY <2>4 DEF ReadEnd, Exit
  <2>5. CASE ReadMessage(t)
    BY <2>5 DEF ReadMessage
  <2> QED BY <1>1, <2>1, <2>2, <2>3, <2>4, <2>5 DEF ReadStep
<1>2. ASSUME NEW t \in Threads, WriteLock(t) PROVE SlotInv'
  BY <1>2 DEF WriteLock
<1>3. ASSUME NEW t \in Threads, WriteClosed(t) PROVE SlotInv'
  BY <1>3 DEF WriteClosed, Exit
<1>4. ASSUME NEW t \in Threads, WriteOk(t) PROVE SlotInv'
  BY <1>4 DEF WriteOk, Unlock
<1>5. ASSUME NEW t \in Threads, WriteFail(t) PROVE SlotInv'
  BY <1>5 DEF WriteFail, Exit, Unlock
<1>6. ASSUME NEW t \in Threads, CountLoad(t) \/ CountStore(t) \/ CountTotal(t) PROVE SlotInv'
  BY <1>6 DEF CountLoad, CountStore, CountTotal
<1>7. ASSUME NEW t \in Threads, CheckLock(t) PROVE SlotInv'
  BY <1>7 DEF CheckLock
<1>8. ASSUME NEW t \in Threads, CheckCount(t) PROVE SlotInv'
  BY <1>8 DEF CheckCount, CountReached
<1>9. ASSUME NEW t \in Threads, CheckInterval(t) PROVE SlotInv'
  <2>1. CASE IntervalReached(t, cursor[t]) /\ conf.closeFp
    <3>1. RoundDown(now[t], conf.interval) % conf.interval = 0
      BY <2>1, RoundDownFacts DEF IntervalReached
    <3> QED
      BY <1>9, <2>1, <3>1 DEF CheckInterval
  <2>2. CASE ~(IntervalReached(t, cursor[t]) /\ conf.closeFp)
    BY <1>9, <2>2 DEF CheckInterval
  <2> QED
    BY <2>1, <2>2
<1>10. ASSUME NEW t \in Threads, CloseIgnore(t) PROVE SlotInv'
  BY <1>10 DEF CloseIgnore, AfterClose
<1>11. ASSUME NEW t \in Threads, CloseOutput(t) PROVE SlotInv'
  BY <1>11 DEF CloseOutput
<1>12. ASSUME NEW t \in Threads, CloseStop(t) PROVE SlotInv'
  BY <1>12 DEF CloseStop
<1>13. ASSUME NEW t \in Threads, KickfileExec(t) PROVE SlotInv'
  BY <1>13 DEF KickfileExec
<1>14. ASSUME NEW t \in Threads, KickReopen(t) PROVE SlotInv'
  BY <1>14 DEF KickReopen, AfterClose
<1>15. ASSUME NEW t \in Threads, CheckUnlock(t) PROVE SlotInv'
  BY <1>15 DEF CheckUnlock, Unlock
<1>16. ASSUME NEW t \in Threads, AfterCheck(t) PROVE SlotInv'
  BY <1>16 DEF AfterCheck
<1>17. CASE LoopStart
  <2>1. clock \in Nat /\ conf.interval \in Nat
    BY BoundAssumption
  <2>2. conf.interval > 0 =>
          RoundDown(clock, conf.interval) % conf.interval = 0
    BY <2>1, RoundDownFacts
  <2> QED
    BY <1>17, <2>1, <2>2 DEF LoopStart
<1>18. CASE LoopJoin
  BY <1>18 DEF LoopJoin
<1>19. CASE DestroyInputs
  BY <1>19 DEF DestroyInputs
<1>20. CASE DestroyOutput
  BY <1>20 DEF DestroyOutput
<1>21. CASE DestroyDone
  BY <1>21 DEF DestroyDone
<1>22. CASE BreakStart
  BY <1>22 DEF BreakStart
<1>23. CASE BreakLoad
  BY <1>23 DEF BreakLoad
<1>24. CASE BreakStore
  BY <1>24 DEF BreakStore
<1>25. CASE Tick
  BY <1>25, BoundAssumption DEF Tick
<1>26. CASE UNCHANGED vars
  BY <1>26 DEF vars
<1> QED
  BY <1>1, <1>2, <1>3, <1>4, <1>5, <1>6, <1>7, <1>8, <1>9, <1>10, <1>11,
      <1>12, <1>13, <1>14, <1>15, <1>16, <1>17, <1>18, <1>19, <1>20, <1>21,
      <1>22, <1>23, <1>24, <1>25, <1>26
  DEF Next, io_thr_input, ReadStep, WriteStep, CheckStep, nmsg_io_loop,
      nmsg_io_destroy, nmsg_io_breakloop, Finished

\* The last steps of main().
LEMMA EndStep == IInv /\ [Next]_vars => EndInv'
<1> SUFFICES ASSUME IInv, [Next]_vars PROVE EndInv'
  OBVIOUS
<1> USE ConfFacts
    DEF IInv, EndInv, PhaseInv, TypeOK, Goto, Outs,
        ioVars, mainVars, objVars, eventVars, readVars, writeVars, breakVars
<1>1. ASSUME NEW t \in Threads, ReadStep(t) PROVE EndInv'
  BY <1>1 DEF ReadStep, ReadStart, ReadStopped, ReadAgain, ReadEnd, Exit,
      ReadMessage
<1>2. ASSUME NEW t \in Threads, WriteLock(t) PROVE EndInv'
  BY <1>2 DEF WriteLock
<1>3. ASSUME NEW t \in Threads, WriteClosed(t) PROVE EndInv'
  BY <1>3 DEF WriteClosed, Exit
<1>4. ASSUME NEW t \in Threads, WriteOk(t) PROVE EndInv'
  BY <1>4 DEF WriteOk, Unlock
<1>5. ASSUME NEW t \in Threads, WriteFail(t) PROVE EndInv'
  BY <1>5 DEF WriteFail, Exit, Unlock
<1>6. ASSUME NEW t \in Threads, CountLoad(t) \/ CountStore(t) \/ CountTotal(t) PROVE EndInv'
  BY <1>6 DEF CountLoad, CountStore, CountTotal
<1>7. ASSUME NEW t \in Threads, CheckLock(t) PROVE EndInv'
  BY <1>7 DEF CheckLock
<1>8. ASSUME NEW t \in Threads, CheckCount(t) PROVE EndInv'
  BY <1>8 DEF CheckCount, CountReached
<1>9. ASSUME NEW t \in Threads, CheckInterval(t) PROVE EndInv'
  BY <1>9 DEF CheckInterval, IntervalReached
<1>10. ASSUME NEW t \in Threads, CloseIgnore(t) PROVE EndInv'
  BY <1>10 DEF CloseIgnore, AfterClose
<1>11. ASSUME NEW t \in Threads, CloseOutput(t) PROVE EndInv'
  BY <1>11 DEF CloseOutput
<1>12. ASSUME NEW t \in Threads, CloseStop(t) PROVE EndInv'
  BY <1>12 DEF CloseStop
<1>13. ASSUME NEW t \in Threads, KickfileExec(t) PROVE EndInv'
  BY <1>13 DEF KickfileExec
<1>14. ASSUME NEW t \in Threads, KickReopen(t) PROVE EndInv'
  BY <1>14 DEF KickReopen, AfterClose
<1>15. ASSUME NEW t \in Threads, CheckUnlock(t) PROVE EndInv'
  BY <1>15 DEF CheckUnlock, Unlock
<1>16. ASSUME NEW t \in Threads, AfterCheck(t) PROVE EndInv'
  BY <1>16 DEF AfterCheck
<1>17. CASE LoopStart
  BY <1>17 DEF LoopStart
<1>18. CASE LoopJoin
  BY <1>18 DEF LoopJoin
<1>19. CASE DestroyInputs
  BY <1>19 DEF DestroyInputs
<1>20. CASE DestroyOutput
  BY <1>20 DEF DestroyOutput
<1>21. CASE DestroyDone
  BY <1>21 DEF DestroyDone
<1>22. CASE nmsg_io_breakloop \/ Tick
  BY <1>22 DEF nmsg_io_breakloop, BreakStart, BreakLoad, BreakStore, Tick
<1>23. CASE UNCHANGED vars
  BY <1>23 DEF vars
<1> QED
  BY <1>1, <1>2, <1>3, <1>4, <1>5, <1>6, <1>7, <1>8, <1>9, <1>10, <1>11,
      <1>12, <1>13, <1>14, <1>15, <1>16, <1>17, <1>18, <1>19, <1>20, <1>21,
      <1>22, <1>23
  DEF Next, io_thr_input, ReadStep, WriteStep, CheckStep, nmsg_io_loop,
      nmsg_io_destroy, nmsg_io_breakloop, Finished

-----------------------------------------------------------------------------
\* main() starts with an open object in every output and no thread running.
LEMMA InitInv == Init => IInv
<1> SUFFICES ASSUME Init PROVE IInv
  OBVIOUS
<1> USE DEF Init
<1>1. TypeOK
  <2>1. /\ output \in [Outputs -> Nat] /\ gen \in [Outputs -> Nat]
        /\ live \in [Outputs -> SUBSET Nat]
    BY DEF NULL
  <2>2. pc \in [Threads -> PC] /\ res \in [Threads -> Results]
    BY DEF PC, WritePC, CheckPC, Results
  <2>3. clock \in 0..MaxTime
    BY BoundAssumption
  <2>4. /\ lock \in [Outputs -> Threads \cup {None}]
        /\ wrote \in [Outputs -> SUBSET (Threads \X Nat)]
        /\ stopped \in [Outputs -> SUBSET Nat]
        /\ published \in [Outputs -> SUBSET Nat]
        /\ mlive \subseteq Threads \X Nat \X Nat
    OBVIOUS
  <2>5. loopRes \in Results /\ bobj \in Nat
    BY DEF Results, NULL
  <2>6. /\ countOut \in [Outputs -> Nat] /\ last \in [Outputs -> Nat]
        /\ fill \in [Outputs -> Nat] /\ ticks \in [Outputs -> Nat]
    OBVIOUS
  <2>7. /\ now \in [Threads -> Nat] /\ reg \in [Threads -> Nat]
        /\ got \in [Threads -> Nat] /\ again \in [Threads -> BOOLEAN]
        /\ event \in [Threads -> {"none", "count", "interval"}]
        /\ cursor \in [Threads -> Nat \ {0}]
        /\ target \in [Threads -> Nat \ {0}]
    OBVIOUS
  <2>9. stop \in BOOLEAN
    OBVIOUS
  <2>8. /\ conf \in Configs /\ total \in Nat
        /\ main \in {"setup", "loop", "joined", "closing", "freed"}
        /\ inputOpen \subseteq Threads
        /\ bpc \in {"idle", "load", "store", "done"} /\ bidx \in Nat \ {0}
    OBVIOUS
  <2> HIDE DEF Init
  <2> QED
    BY <2>1, <2>2, <2>3, <2>4, <2>5, <2>6, <2>7, <2>8,
       <2>9 DEF TypeOK
<1>2. PhaseInv /\ LockInv /\ NoCloseInv /\ HoldInv /\ StopInv /\ EndInv
  BY <1>1, ConfFacts, NOutAssumption
  DEF PhaseInv, LockInv, NoCloseInv, HoldInv, StopInv, EndInv, CheckPC, Outs,
      Outputs, NULL
<1>3. ObjectInv
  BY <1>1, ConfFacts DEF ObjectInv, NULL, Outputs
<1>4. SlotInv
  BY <1>1, ConfFacts DEF SlotInv
<1> QED
  BY <1>1, <1>2, <1>3, <1>4 DEF IInv

\* The inductive invariant holds in every reachable state.
THEOREM Invariance == Spec => []IInv
<1>1. IInv /\ [Next]_vars => IInv'
  BY TypeStep, PhaseStep, LockStep, NoCloseStep, HoldStep, ObjectStep, StopStep,
     SlotStep, EndStep DEF IInv
<1> QED
  BY InitInv, <1>1, PTL DEF Spec

\* Type correctness of the engine's state.
THEOREM TypeCorrect == Spec => []TypeOK
<1>1. IInv => TypeOK
  BY DEF IInv
<1> QED
  BY Invariance, <1>1, PTL

\* No thread ever works on an output object another thread has closed, for any
\* number of threads and outputs, stripe or mirror, with or without close_fp.
THEOREM WritersAreSafe == Spec => []UsesOpenOutput
<1>1. IInv => UsesOpenOutput
  <2> SUFFICES ASSUME IInv PROVE UsesOpenOutput
    OBVIOUS
  <2>1. \A t \in Threads : pc[t] \notin {"idle", "done"} => cursor[t] \in Outputs
    BY ConfFacts DEF IInv, PhaseInv
  <2>2. \A t \in Threads : pc[t] = "writing" => target[t] \in Outputs
    BY ConfFacts DEF IInv, PhaseInv
  <2> QED
    BY <2>1, <2>2 DEF IInv, HoldInv, ObjectInv, UsesOpenOutput, NULL
<1> QED
  BY Invariance, <1>1, PTL

\* A free lock over a closed output implies io->stop.
THEOREM ClosedOutputsStopTheLoop == Spec => []ClosedMeansStop
<1>1. IInv => ClosedMeansStop
  <2> SUFFICES ASSUME IInv, NEW o \in Outs, main = "loop", output[o] = NULL,
                      lock[o] = None, ~stop
               PROVE  FALSE
    BY DEF ClosedMeansStop
  <2>1. PICK t \in Threads : /\ pc[t] \in {"closed", "kick", "reopen"}
                             /\ cursor[t] = o
    BY DEF IInv, StopInv
  <2>2. conf.closeFp
    BY <2>1, ConfFacts DEF IInv, NoCloseInv
  <2>3. lock[o] = t
    BY <2>1, <2>2 DEF IInv, LockInv, CheckPC
  <2> QED
    BY <2>3, ThreadAssumption
<1> QED
  BY Invariance, <1>1, PTL

\* kickfile_exec() never publishes a file that is still open for writing.
THEOREM PublishedFilesAreComplete == Spec => []PublishedIsClosed
<1>1. IInv => PublishedIsClosed
  BY DEF IInv, ObjectInv, PublishedIsClosed
<1> QED
  BY Invariance, <1>1, PTL

\* nmsg_io_destroy() frees every output object that was ever opened.
THEOREM NothingIsLeft == Spec => []AllReclaimed
<1>1. IInv => AllReclaimed
  <2> SUFFICES ASSUME IInv, main = "freed" PROVE AllReclaimed
    BY DEF AllReclaimed
  <2>1. \A o \in Outputs : output[o] = NULL
    BY ConfFacts DEF IInv, EndInv, ObjectInv, Outs, Outputs
  <2> QED
    BY <2>1 DEF IInv, EndInv, ObjectInv, AllReclaimed, NULL
<1> QED
  BY Invariance, <1>1, PTL

\* An output is rotated at most once per slot of the interval, and slots only
\* move forward, however late a thread acts on the time it took.
THEOREM IntervalsAdvance == Spec => IntervalSlotsAdvance
<1> DEFINE Slots == \A o \in Outputs :
                       ticks'[o] # ticks[o] =>
                          /\ last'[o] % conf.interval = 0
                          /\ last[o] + conf.interval <= last'[o]
                          /\ last'[o] <= clock
<1>1. IInv /\ [Next]_vars => [Slots]_vars
  <2> SUFFICES ASSUME IInv, [Next]_vars PROVE Slots
    OBVIOUS
  <2>1. ASSUME NEW t \in Threads, CheckInterval(t) PROVE Slots
    <3> DEFINE s == RoundDown(now[t], conf.interval)
    <3>1. CASE IntervalReached(t, cursor[t]) /\ conf.closeFp
      <4>1. cursor[t] \in Outputs /\ conf.interval \in Nat /\ conf.interval > 0
        BY <2>1, <3>1, ConfFacts
        DEF IInv, PhaseInv, CheckInterval, IntervalReached
      <4>2. /\ now[t] \in Nat /\ now[t] <= clock /\ last[cursor[t]] \in Nat
            /\ clock \in Nat
        BY <4>1, BoundAssumption DEF IInv, TypeOK, SlotInv
      <4>3. s % conf.interval = 0 /\ s <= now[t] /\ s \in Nat
        BY <4>1, <4>2, RoundDownFacts
      <4>4. last[cursor[t]] % conf.interval = 0
        BY <4>1 DEF IInv, SlotInv
      <4>5. last[cursor[t]] + conf.interval <= s
        BY <3>1, <4>1, <4>2, <4>4, SlotAdvances DEF IntervalReached
      <4>6. /\ last' = [last EXCEPT ![cursor[t]] = s]
            /\ ticks' = [ticks EXCEPT ![cursor[t]] = @ + 1]
        BY <2>1, <3>1 DEF CheckInterval
      <4>7. \A o \in Outputs : ticks'[o] # ticks[o] => o = cursor[t]
        BY <4>6 DEF IInv, TypeOK
      <4>8. last'[cursor[t]] = s
        BY <4>1, <4>6 DEF IInv, TypeOK
      <4>9. s <= clock
        BY <4>2, <4>3
      <4> HIDE DEF s
      <4> QED
        BY <4>3, <4>5, <4>7, <4>8, <4>9
    <3>2. CASE ~(IntervalReached(t, cursor[t]) /\ conf.closeFp)
      BY <2>1, <3>2 DEF CheckInterval
    <3> QED
      BY <3>1, <3>2
  <2>2. \/ \E t \in Threads : CheckInterval(t)
        \/ ticks' = ticks
    BY DEF Next, vars, eventVars, io_thr_input, ReadStep, WriteStep, CheckStep,
       nmsg_io_loop, nmsg_io_destroy, nmsg_io_breakloop, Finished, Tick,
       ReadStart, ReadStopped, ReadAgain, ReadEnd, ReadMessage, WriteLock,
       WriteClosed, WriteOk, WriteFail, CountLoad, CountStore, CountTotal,
       CheckLock, CheckCount, CloseIgnore, CloseOutput, CloseStop,
       KickfileExec, KickReopen, CheckUnlock, AfterCheck, LoopStart, LoopJoin,
       DestroyInputs, DestroyOutput, DestroyDone, BreakStart, BreakLoad,
       BreakStore
  <2> QED
    BY <2>1, <2>2
<1>2. Spec => [][Slots]_vars
  BY Invariance, <1>1, PTL DEF Spec
<1> QED
  BY <1>2 DEF IntervalSlotsAdvance

-----------------------------------------------------------------------------
(***************************************************************************)
(* The messages                                                            *)
(*                                                                         *)
(* Two more invariants say where the message objects are and how far the   *)
(* current message of each thread has come.                                *)
(***************************************************************************)

\* The places at which a thread has a message in its hands: before the write
\* and after it.
BeforePC == {"wlock", "writing"}
BehindPC == {"count_load", "count_store", "total"}
HandPC == BeforePC \cup BehindPC

\* A message object that exists is the one a thread is writing, or the original
\* of it, or was left behind by a thread that met a closed output.
MsgInv ==
    \A m \in mlive :
        /\ m[2] = got[m[1]]
        /\ pc[m[1]] \in HandPC \cup {"done"}
        /\ pc[m[1]] \in BeforePC => m \in {Original(m[1]), Passed(m[1])}
        /\ pc[m[1]] \in BehindPC => m = Original(m[1])
        /\ pc[m[1]] = "done" => res[m[1]] = "stop" /\ m = Passed(m[1])

\* Message n of t was accepted by an output, or in mirror mode by all.
Arrived(t, n) ==
    IF conf.mode = "mirror" THEN \A o \in Outs : <<t, n>> \in wrote[o]
                            ELSE \E o \in Outs : <<t, n>> \in wrote[o]

\* A thread that has no message in its hands has had all of them accepted.  In
\* mirror mode the outputs in front of the current one have the message.
RouteInv ==
    \A t \in Threads :
        /\ \A n \in 1..(got[t] - 1) : Arrived(t, n)
        /\ pc[t] \notin HandPC \cup {"done"} => (got[t] # 0 => Arrived(t, got[t]))
        /\ pc[t] \in BehindPC => <<t, got[t]>> \in wrote[target[t]]
        /\ pc[t] \in HandPC /\ conf.mode = "mirror" =>
             \A o \in Outs : o < target[t] => <<t, got[t]>> \in wrote[o]

\* A step that leaves the messages alone: a thread may move on among the places
\* before the write, among those behind it, and among those with no message.
Quiet ==
    /\ UNCHANGED <<conf, got, target, mlive, wrote>>
    /\ \A t \in Threads :
         \/ pc'[t] = pc[t] /\ res'[t] = res[t]
         \/ pc[t] \in BeforePC /\ pc'[t] \in BeforePC
         \/ pc[t] \in BehindPC /\ pc'[t] \in BehindPC
         \/ pc[t] \notin HandPC \cup {"done"} /\ pc'[t] \notin HandPC

\* Only five actions touch the messages.
LEMMA QuietStep ==
    ASSUME IInv, [Next]_vars
    PROVE  \/ \E t \in Threads : \/ ReadMessage(t) \/ WriteClosed(t) \/ WriteOk(t)
                                 \/ WriteFail(t) \/ CountTotal(t)
           \/ Quiet
<1> USE DEF Quiet, HandPC, BeforePC, BehindPC, Goto,
        ioVars, mainVars, objVars, eventVars, readVars, writeVars, breakVars
<1>0. pc \in [Threads -> PC] /\ res \in [Threads -> Results]
  BY DEF IInv, TypeOK
<1>1. ASSUME NEW t \in Threads, ReadStart(t) PROVE Quiet
  BY <1>0, <1>1 DEF ReadStart
<1>2. ASSUME NEW t \in Threads, ReadStopped(t) PROVE Quiet
  BY <1>0, <1>2 DEF ReadStopped
<1>3. ASSUME NEW t \in Threads, ReadAgain(t) PROVE Quiet
  BY <1>0, <1>3 DEF ReadAgain
<1>4. ASSUME NEW t \in Threads, ReadEnd(t) PROVE Quiet
  BY <1>0, <1>4 DEF ReadEnd, Exit
<1>5. ASSUME NEW t \in Threads, WriteLock(t) PROVE Quiet
  BY <1>0, <1>5 DEF WriteLock
<1>6. ASSUME NEW t \in Threads, CountLoad(t) \/ CountStore(t) PROVE Quiet
  BY <1>0, <1>6 DEF CountLoad, CountStore
<1>7. ASSUME NEW t \in Threads, CheckLock(t) \/ CheckCount(t) \/ CheckInterval(t)
      PROVE  Quiet
  BY <1>0, <1>7 DEF CheckLock, CheckCount, CheckInterval
<1>8. ASSUME NEW t \in Threads, CloseIgnore(t) \/ CloseOutput(t) \/ CloseStop(t)
      PROVE  Quiet
  BY <1>0, <1>8 DEF CloseIgnore, CloseOutput, CloseStop, AfterClose
<1>9. ASSUME NEW t \in Threads, KickfileExec(t) \/ KickReopen(t) PROVE Quiet
  BY <1>0, <1>9 DEF KickfileExec, KickReopen, AfterClose
<1>10. ASSUME NEW t \in Threads, CheckUnlock(t) \/ AfterCheck(t) PROVE Quiet
  BY <1>0, <1>10 DEF CheckUnlock, AfterCheck
<1>11. CASE LoopStart
  <2>1. \A t \in Threads : pc[t] = "idle"
    BY <1>11 DEF IInv, PhaseInv, LoopStart
  <2> QED
    BY <1>0, <1>11, <2>1 DEF LoopStart
<1>12. CASE LoopJoin \/ DestroyInputs \/ DestroyOutput \/ DestroyDone
  BY <1>0, <1>12 DEF LoopJoin, DestroyInputs, DestroyOutput, DestroyDone
<1>13. CASE BreakStart \/ BreakLoad \/ BreakStore \/ Tick
  BY <1>0, <1>13 DEF BreakStart, BreakLoad, BreakStore, Tick
<1>14. CASE UNCHANGED vars
  BY <1>0, <1>14 DEF vars
<1> QED
  BY <1>1, <1>2, <1>3, <1>4, <1>5, <1>6, <1>7, <1>8, <1>9, <1>10, <1>11, <1>12,
     <1>13, <1>14
  DEF Next, io_thr_input, ReadStep, WriteStep, CheckStep, nmsg_io_loop,
      nmsg_io_destroy, nmsg_io_breakloop, Finished

\* Message objects are destroyed where the code destroys them.
LEMMA MsgStep == IInv /\ MsgInv /\ [Next]_vars => MsgInv'
<1> SUFFICES ASSUME IInv, MsgInv, [Next]_vars, NEW m \in mlive'
             PROVE  /\ m[2] = got'[m[1]]
                    /\ pc'[m[1]] \in HandPC \cup {"done"}
                    /\ pc'[m[1]] \in BeforePC => m \in {Original(m[1])', Passed(m[1])'}
                    /\ pc'[m[1]] \in BehindPC => m = Original(m[1])'
                    /\ pc'[m[1]] = "done" => res'[m[1]] = "stop" /\ m = Passed(m[1])'
  BY DEF MsgInv
<1> DEFINE s == m[1]
<1>0. /\ pc \in [Threads -> PC] /\ res \in [Threads -> Results]
      /\ got \in [Threads -> Nat] /\ target \in [Threads -> Nat \ {0}]
      /\ mlive \subseteq Threads \X Nat \X Nat /\ mlive' \subseteq Threads \X Nat \X Nat
  BY TypeStep DEF IInv, TypeOK
<1>1. s \in Threads /\ m \in Threads \X Nat \X Nat
  BY <1>0
<1> USE DEF HandPC, BeforePC, BehindPC, Goto, Exit, mainVars, readVars, writeVars
<1>2. CASE Quiet
  BY <1>0, <1>1, <1>2 DEF Quiet, MsgInv, Original, Passed
<1>3. ASSUME NEW t \in Threads, ReadMessage(t)
      PROVE  /\ m[2] = got'[s]
             /\ pc'[s] \in HandPC \cup {"done"}
             /\ pc'[s] \in BeforePC => m \in {Original(s)', Passed(s)'}
             /\ pc'[s] \in BehindPC => m = Original(s)'
             /\ pc'[s] = "done" => res'[s] = "stop" /\ m = Passed(s)'
  <2>1. CASE s = t
    <3>1. m \notin mlive
      BY <1>3, <2>1 DEF MsgInv, ReadMessage
    <3>2. m = <<t, got[t] + 1, 0>> \/ (conf.mode = "mirror" /\ m = <<t, got[t] + 1, 1>>)
      BY <1>3, <3>1 DEF ReadMessage
    <3>3. pc'[t] = "wlock" /\ got'[t] = got[t] + 1 /\ conf' = conf
      BY <1>0, <1>3 DEF ReadMessage
    <3>4. conf.mode = "mirror" => target'[t] = 1
      BY <1>0, <1>3 DEF ReadMessage
    <3> QED
      BY <2>1, <3>2, <3>3, <3>4 DEF Original, Passed
  <2>2. CASE s # t
    <3>1. m \in mlive
      BY <1>3, <2>2 DEF ReadMessage
    <3>2. /\ pc'[s] = pc[s] /\ res'[s] = res[s] /\ got'[s] = got[s]
          /\ target'[s] = target[s] /\ conf' = conf
      BY <1>0, <1>3, <2>2 DEF ReadMessage
    <3> QED
      BY <3>1, <3>2 DEF MsgInv, Original, Passed
  <2> QED
    BY <2>1, <2>2
<1>4. ASSUME NEW t \in Threads, WriteClosed(t) \/ WriteOk(t) \/ WriteFail(t)
      PROVE  /\ m[2] = got'[s]
             /\ pc'[s] \in HandPC \cup {"done"}
             /\ pc'[s] \in BeforePC => m \in {Original(s)', Passed(s)'}
             /\ pc'[s] \in BehindPC => m = Original(s)'
             /\ pc'[s] = "done" => res'[s] = "stop" /\ m = Passed(s)'
  <2>1. m \in mlive /\ got' = got /\ target' = target /\ conf' = conf
    BY <1>4 DEF WriteClosed, WriteOk, WriteFail
  <2>2. CASE s = t
    <3>1. m[2] = got[s] /\ pc[s] \in BeforePC /\ m \in {Original(s), Passed(s)}
      BY <1>4, <2>1, <2>2 DEF MsgInv, WriteClosed, WriteOk, WriteFail
    <3>2. CASE WriteClosed(t)
      <4>1. pc'[s] = "done" /\ res'[s] = "stop"
        BY <1>0, <2>2, <3>2 DEF WriteClosed
      <4>2. m = Passed(s)
        BY <2>2, <3>1, <3>2 DEF WriteClosed, Original, Passed
      <4> QED
        BY <2>1, <3>1, <4>1, <4>2 DEF Passed
    <3>3. CASE WriteOk(t)
      <4>1. pc'[s] = "count_load"
        BY <1>0, <2>2, <3>3 DEF WriteOk
      <4>2. m = Original(s)
        BY <2>2, <3>1, <3>3 DEF WriteOk
      <4> QED
        BY <2>1, <3>1, <4>1, <4>2 DEF Original
    <3>4. CASE WriteFail(t)
      BY <2>2, <3>1, <3>4 DEF WriteFail
    <3> QED
      BY <1>4, <3>2, <3>3, <3>4
  <2>3. CASE s # t
    <3>1. pc'[s] = pc[s] /\ res'[s] = res[s]
      BY <1>0, <1>4, <2>3 DEF WriteClosed, WriteOk, WriteFail
    <3> QED
      BY <2>1, <3>1 DEF MsgInv, Original, Passed
  <2> QED
    BY <2>2, <2>3
<1>5. ASSUME NEW t \in Threads, CountTotal(t)
      PROVE  /\ m[2] = got'[s]
             /\ pc'[s] \in HandPC \cup {"done"}
             /\ pc'[s] \in BeforePC => m \in {Original(s)', Passed(s)'}
             /\ pc'[s] \in BehindPC => m = Original(s)'
             /\ pc'[s] = "done" => res'[s] = "stop" /\ m = Passed(s)'
  <2>1. got' = got /\ conf' = conf /\ res' = res
    BY <1>5 DEF CountTotal
  <2>2. CASE s = t
    <3>1. \A k \in mlive : k[1] = t => k = Original(t)
      BY <1>5 DEF MsgInv, CountTotal
    <3>2. conf.mode = "mirror" /\ target[t] < conf.n
      BY <1>1, <1>5, <2>2, <3>1 DEF CountTotal
    <3>3. /\ pc'[t] = "wlock" /\ target'[t] = target[t] + 1
          /\ m = Original(t) \/ m = <<t, got[t], target[t] + 1>>
      BY <1>0, <1>5, <2>2, <3>1, <3>2 DEF CountTotal
    <3> QED
      BY <2>1, <2>2, <3>2, <3>3 DEF Original, Passed
  <2>3. CASE s # t
    <3>1. m \in mlive
      BY <1>5, <2>3 DEF CountTotal
    <3>2. pc'[s] = pc[s] /\ target'[s] = target[s]
      BY <1>0, <1>5, <2>3 DEF CountTotal
    <3> QED
      BY <2>1, <3>1, <3>2 DEF MsgInv, Original, Passed
  <2> QED
    BY <2>2, <2>3
<1> QED
  BY <1>2, <1>3, <1>4, <1>5, QuietStep

\* What was accepted stays accepted.
LEMMA ArrivedStays ==
    ASSUME conf' = conf, \A o \in Outs : wrote[o] \subseteq wrote'[o],
           NEW t, NEW n, Arrived(t, n)
    PROVE  Arrived(t, n)'
<1>1. CASE conf.mode = "mirror"
  BY <1>1 DEF Arrived, Outs
<1>2. CASE conf.mode # "mirror"
  BY <1>2 DEF Arrived, Outs
<1> QED
  BY <1>1, <1>2

\* A thread reads on only when its message has gone where it should.
LEMMA RouteStep == IInv /\ RouteInv /\ [Next]_vars => RouteInv'
<1> SUFFICES ASSUME IInv, RouteInv, [Next]_vars PROVE RouteInv'
  OBVIOUS
<1> DEFINE Route(s) ==
             /\ \A n \in 1..(got[s] - 1) : Arrived(s, n)
             /\ pc[s] \notin HandPC \cup {"done"} => (got[s] # 0 => Arrived(s, got[s]))
             /\ pc[s] \in BehindPC => <<s, got[s]>> \in wrote[target[s]]
             /\ pc[s] \in HandPC /\ conf.mode = "mirror" =>
                  \A o \in Outs : o < target[s] => <<s, got[s]>> \in wrote[o]
<1>0. /\ pc \in [Threads -> PC] /\ got \in [Threads -> Nat]
      /\ target \in [Threads -> Nat \ {0}] /\ conf.n \in Nat
      /\ wrote \in [Outputs -> SUBSET (Threads \X Nat)]
  BY ConfFacts DEF IInv, TypeOK
<1>1. \A t \in Threads : pc[t] \in HandPC => target[t] \in Outs /\ target[t] \in Outputs
  BY ConfFacts DEF IInv, PhaseInv, HandPC, BeforePC, BehindPC
<1>2. \A s \in Threads : Route(s)
  BY DEF RouteInv
<1>3. ASSUME NEW s \in Threads, conf' = conf, got'[s] = got[s], target'[s] = target[s],
             \A o \in Outs : wrote[o] \subseteq wrote'[o],
             \/ pc'[s] = pc[s]
             \/ pc[s] \in BeforePC /\ pc'[s] \in BeforePC
             \/ pc[s] \in BehindPC /\ pc'[s] \in BehindPC
             \/ pc[s] \notin HandPC \cup {"done"} /\ pc'[s] \notin HandPC
      PROVE  Route(s)'
  <2>1. \A n \in 1..(got[s] - 1) : Arrived(s, n)'
    BY <1>2, <1>3, ArrivedStays
  <2>2. got[s] # 0 /\ pc'[s] \notin HandPC \cup {"done"} => Arrived(s, got[s])'
    BY <1>2, <1>3, ArrivedStays DEF HandPC, BeforePC, BehindPC
  <2>3. pc'[s] \in BehindPC => <<s, got[s]>> \in wrote'[target[s]]
    BY <1>1, <1>2, <1>3 DEF HandPC, BeforePC, BehindPC
  <2>4. pc'[s] \in HandPC => pc[s] \in HandPC
    BY <1>3 DEF HandPC, BeforePC, BehindPC
  <2>5. ASSUME pc'[s] \in HandPC, conf.mode = "mirror", NEW o \in Outs, o < target[s]
        PROVE  <<s, got[s]>> \in wrote'[o]
    BY <1>2, <1>3, <2>4, <2>5
  <2> QED
    BY <1>3, <2>1, <2>2, <2>3, <2>5 DEF Outs, Arrived
<1> HIDE DEF Route
<1>4. CASE Quiet
  <2> SUFFICES ASSUME NEW s \in Threads PROVE Route(s)'
    BY DEF RouteInv, Route
  <2> QED
    BY <1>3, <1>4 DEF Quiet
<1>5. ASSUME NEW t \in Threads, NEW s \in Threads, s # t,
             \/ ReadMessage(t) \/ WriteClosed(t) \/ WriteOk(t)
             \/ WriteFail(t) \/ CountTotal(t)
      PROVE  Route(s)'
  <2>1. conf' = conf /\ got'[s] = got[s] /\ target'[s] = target[s] /\ pc'[s] = pc[s]
    BY <1>0, <1>5 DEF ReadMessage, WriteClosed, WriteOk, WriteFail, CountTotal,
       Goto, Exit, mainVars, readVars, writeVars
  <2>2. \A o \in Outputs : wrote[o] \subseteq wrote'[o]
    BY <1>0, <1>5 DEF ReadMessage, WriteClosed, WriteOk, WriteFail, CountTotal
  <2>3. \A o \in Outs : o \in Outputs
    BY ConfFacts DEF IInv
  <2> QED
    BY <1>3, <2>1, <2>2, <2>3
<1>6. ASSUME NEW t \in Threads, ReadMessage(t) PROVE Route(t)'
  <2>1. /\ pc[t] = "reading" /\ pc'[t] = "wlock" /\ got'[t] = got[t] + 1
        /\ conf' = conf /\ wrote' = wrote
    BY <1>0, <1>6 DEF ReadMessage, Goto, mainVars
  <2>2. conf.mode = "mirror" => target'[t] = 1
    BY <1>0, <1>6 DEF ReadMessage
  <2>3. \A n \in 1..got[t] : Arrived(t, n)'
    <3> SUFFICES ASSUME NEW n \in 1..got[t] PROVE Arrived(t, n)'
      OBVIOUS
    <3>1. n \in 1..(got[t] - 1) \/ (n = got[t] /\ got[t] # 0)
      BY <1>0
    <3>2. Arrived(t, n)
      BY <1>2, <2>1, <3>1 DEF Route, HandPC, BeforePC, BehindPC
    <3> QED
      BY <2>1, <3>2, ArrivedStays
  <2>4. \A o \in Outs : ~(o < 1)
    BY <1>0 DEF Outs
  <2>5. got'[t] - 1 = got[t]
    BY <1>0, <2>1
  <2> QED
    BY <2>1, <2>2, <2>3, <2>4, <2>5 DEF Route, HandPC, BeforePC, BehindPC, Outs
<1>7. ASSUME NEW t \in Threads, WriteClosed(t) \/ WriteFail(t) PROVE Route(t)'
  <2>1. /\ pc'[t] = "done" /\ got' = got /\ conf' = conf /\ wrote' = wrote
    BY <1>0, <1>7 DEF WriteClosed, WriteFail, Goto, Exit, mainVars, readVars
  <2>2. \A n \in 1..(got[t] - 1) : Arrived(t, n)'
    BY <1>2, <2>1, ArrivedStays DEF Route
  <2> QED
    BY <2>1, <2>2 DEF Route, HandPC, BeforePC, BehindPC
<1>8. ASSUME NEW t \in Threads, WriteOk(t) PROVE Route(t)'
  <2>1. /\ pc[t] = "writing" /\ pc'[t] = "count_load" /\ got' = got /\ conf' = conf
        /\ target' = target
        /\ wrote' = [wrote EXCEPT ![target[t]] = @ \cup {<<t, got[t]>>}]
    BY <1>0, <1>8 DEF WriteOk, Goto, mainVars, readVars
  <2>2. target[t] \in Outs /\ target[t] \in Outputs
    BY <1>1, <2>1 DEF HandPC, BeforePC
  <2>3. \A o \in Outs : o \in Outputs /\ wrote[o] \subseteq wrote'[o]
    BY <1>0, <2>1, ConfFacts DEF IInv
  <2>4. <<t, got[t]>> \in wrote'[target[t]]
    BY <1>0, <2>1, <2>2
  <2>5. \A n \in 1..(got[t] - 1) : Arrived(t, n)'
    BY <1>2, <2>1, <2>3, ArrivedStays DEF Route
  <2>6. conf.mode = "mirror" => \A o \in Outs : o < target[t] => <<t, got[t]>> \in wrote'[o]
    BY <1>2, <2>1, <2>3 DEF Route, HandPC, BeforePC
  <2> QED
    BY <2>1, <2>4, <2>5, <2>6 DEF Route, HandPC, BeforePC, BehindPC, Outs
<1>9. ASSUME NEW t \in Threads, CountTotal(t) PROVE Route(t)'
  <2>1. /\ pc[t] = "total" /\ got' = got /\ conf' = conf /\ wrote' = wrote
    BY <1>0, <1>9 DEF CountTotal, mainVars, readVars
  <2>2. /\ target[t] \in Outs /\ target[t] \in Nat /\ target[t] <= conf.n
        /\ <<t, got[t]>> \in wrote[target[t]]
    BY <1>0, <1>1, <1>2, <2>1 DEF Route, HandPC, BehindPC, Outs
  <2>3. conf.mode = "mirror" => \A o \in Outs : o < target[t] => <<t, got[t]>> \in wrote[o]
    BY <1>2, <2>1 DEF Route, HandPC, BehindPC
  <2>4. \A n \in 1..(got[t] - 1) : Arrived(t, n)'
    BY <1>2, <2>1, ArrivedStays DEF Route
  <2>5. CASE conf.mode = "mirror" /\ target[t] < conf.n
    <3>1. pc'[t] = "wlock" /\ target'[t] = target[t] + 1
      BY <1>0, <1>9, <2>5 DEF CountTotal, Goto
    <3>2. \A o \in Outs : o < target[t] + 1 => <<t, got[t]>> \in wrote[o]
      BY <1>0, <2>2, <2>3, <2>5 DEF Outs
    <3> QED
      BY <2>1, <2>4, <3>1, <3>2 DEF Route, HandPC, BeforePC, BehindPC, Outs
  <2>6. CASE ~(conf.mode = "mirror" /\ target[t] < conf.n)
    <3>1. pc'[t] = "check"
      BY <1>0, <1>9, <2>6 DEF CountTotal, Goto
    <3>2. Arrived(t, got[t])
      <4>1. CASE conf.mode = "mirror"
        <5>1. target[t] = conf.n
          BY <1>0, <2>2, <2>6, <4>1
        <5>2. \A o \in Outs : o < target[t] \/ o = target[t]
          BY <1>0, <5>1 DEF Outs
        <5> QED
          BY <2>2, <2>3, <4>1, <5>2 DEF Arrived
      <4>2. CASE conf.mode # "mirror"
        BY <2>2, <4>2 DEF Arrived
      <4> QED
        BY <4>1, <4>2
    <3>3. Arrived(t, got[t])'
      BY <2>1, <3>2, ArrivedStays
    <3> QED
      BY <2>1, <2>4, <3>1, <3>3 DEF Route, HandPC, BeforePC, BehindPC
  <2> QED
    BY <2>5, <2>6
<1>10. ASSUME NEW t \in Threads,
              \/ ReadMessage(t) \/ WriteClosed(t) \/ WriteOk(t)
              \/ WriteFail(t) \/ CountTotal(t)
       PROVE  RouteInv'
  <2> SUFFICES ASSUME NEW s \in Threads PROVE Route(s)'
    BY DEF RouteInv, Route
  <2> QED
    BY <1>5, <1>6, <1>7, <1>8, <1>9, <1>10
<1> QED
  BY <1>4, <1>10, QuietStep

\* A message object is destroyed, or handed to the caller's callback, before
\* the thread goes on, on every path but the one that meets a closed output:
\* for any number of threads and outputs, in both modes.
THEOREM MessagesAreReleased == Spec => []MessagesReleased
<1>1. Init => MsgInv
  BY DEF Init, MsgInv
<1>2. MsgInv => MessagesReleased
  BY DEF MsgInv, MessagesReleased, HandPC, BeforePC, BehindPC
<1> QED
  BY <1>1, <1>2, Invariance, MsgStep, PTL DEF Spec

\* No thread goes on to its next message before the one in its hands has been
\* accepted by its output (stripe) or by every output (mirror).
THEOREM NoMessageSkipped == Spec => []NothingSkipped
<1>1. Init => RouteInv
  BY DEF Init, RouteInv, HandPC, BeforePC, BehindPC
<1>2. RouteInv => NothingSkipped
  BY DEF RouteInv, Arrived, NothingSkipped
<1> QED
  BY <1>1, <1>2, Invariance, RouteStep, PTL DEF Spec
=============================================================================
