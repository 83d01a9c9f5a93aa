---------------------------- MODULE ServiceProofs ---------------------------
(***************************************************************************)
(* The safety properties of the smaller services: the asynchronous         *)
(* processor, the timer, the user-mode endpoints and RMPP.  Their modules  *)
(* share no variable; each section below is about one of them.             *)
(***************************************************************************)
EXTENDS ClAsyncProc, ClTimer, CepIrp, AlRmpp, TLAPS

-----------------------------------------------------------------------------
(***************************************************************************)
(* The asynchronous processor: type correctness, and that it never loses a *)
(* wakeup or frees an event under a thread, for any number of pool threads,*)
(* clients and items.                                                      *)
(***************************************************************************)
(* The steps of Next, one disjunct per action: the case split every proof  *)
(* below makes.                                                            *)
LEMMA NextCases ==
  ASSUME Next
  PROVE  \/ \E w \in Workers : CreateThread(w)
         \/ \E w \in Workers : TestExit(w) \/ Wake(w) \/ TestWoken(w)
         \/ \E w \in Workers : DecRunning(w) \/ SignalDestroy(w)
         \/ CountThread \/ InitDone \/ InitFail
         \/ \E c \in Clients : ClientQueue(c)
         \/ \E t \in Threads : Signal(t)
         \/ \E t \in Workers \cup {Owner} : Take(t)
         \/ \E t \in Workers \cup {Owner} : QueueEmpty(t)
         \/ \E t \in Workers \cup {Owner} : CallbackReturns(t)
         \/ BeginDestroy \/ SetExit \/ DestroyLoop \/ DestroyWait
         \/ Join \/ Close
  BY DEF Next, PoolThread, Drain, Destroy

(* Every variable keeps its type: in particular the queue holds items only *)
(* and each thread is at a program point of its own kind.                  *)
THEOREM TypeCorrect == Spec => []TypeOK
<1>1. Init => TypeOK
  <2> SUFFICES ASSUME Init PROVE TypeOK
    OBVIOUS
  <2>1. /\ pc \in [Threads -> WorkerPC \cup OwnerPC]
        /\ \A w \in Workers : pc[w] \in WorkerPC
        /\ \A c \in Clients : pc[c] \in {"idle", "signal"}
        /\ pc[Owner] \in OwnerPC
    BY ThreadAssumption DEF Init, Threads, WorkerPC, OwnerPC
  <2>2. /\ held \in [Threads -> Items \cup {NoItem}]
        /\ item_queue \in Seq(Items)
        /\ queued \in [Items -> Nat] /\ ran \in [Items -> Nat]
        /\ running_count \in Int
    BY DEF Init
  <2> QED
    BY Zenon, <2>1, <2>2 DEF Init, TypeOK
<1>2. TypeOK /\ [Next]_vars => TypeOK'
  <2> SUFFICES ASSUME TypeOK, Next PROVE TypeOK'
    BY Zenon DEF vars, TypeOK
  <2> USE ThreadAssumption DEF TypeOK, Threads, WorkerPC, OwnerPC, pool
  <2>1. CASE \E w \in Workers : CreateThread(w)
    BY Zenon, <2>1 DEF CreateThread
  <2>2. CASE \E w \in Workers : TestExit(w) \/ Wake(w) \/ TestWoken(w)
    BY ZenonT(40), <2>2 DEF TestExit, Wake, TestWoken
  <2>3. CASE \E w \in Workers : DecRunning(w) \/ SignalDestroy(w)
    <3>1. CASE \E w \in Workers : DecRunning(w)
      <4> PICK w \in Workers : DecRunning(w)
        BY <3>1
      <4>1. running_count' \in Int
        BY DEF DecRunning
      <4> QED
        BY <4>1 DEF DecRunning
    <3>2. CASE \E w \in Workers : SignalDestroy(w)
      BY <3>2 DEF SignalDestroy
    <3> QED
      BY <2>3, <3>1, <3>2
  <2>4. CASE CountThread \/ InitDone \/ InitFail
    <3>1. CASE CountThread
      <4>1. running_count' \in Int
        BY <3>1 DEF CountThread
      <4> QED
        BY <3>1, <4>1 DEF CountThread
    <3>2. CASE InitDone \/ InitFail
      BY Zenon, <3>2 DEF InitDone, InitFail
    <3> QED
      BY <2>4, <3>1, <3>2
  <2>5. CASE \E c \in Clients : ClientQueue(c)
    BY <2>5 DEF ClientQueue, Insert
  <2>6. CASE \E t \in Threads : Signal(t)
    BY <2>6 DEF Signal
  <2>7. CASE \E t \in Workers \cup {Owner} : Take(t)
    BY <2>7 DEF Take
  <2>8. CASE \E t \in Workers \cup {Owner} : QueueEmpty(t)
    BY <2>8 DEF QueueEmpty
  <2>9. CASE \E t \in Workers \cup {Owner} : CallbackReturns(t)
    <3> PICK t \in Workers \cup {Owner} : CallbackReturns(t)
      BY <2>9
    <3>1. CASE \E i \in Items : Insert(t, i)
      <4> PICK i \in Items : Insert(t, i)
        BY <3>1
      <4>1. item_queue' \in Seq(Items) /\ queued' \in [Items -> Nat]
        BY DEF Insert
      <4> QED
        BY <4>1 DEF CallbackReturns, Insert
    <3>2. CASE /\ pc' = [pc EXCEPT ![t] = "drain"]
               /\ UNCHANGED <<item_queue, queued>>
      BY <3>2 DEF CallbackReturns
    <3> QED
      BY <3>1, <3>2 DEF CallbackReturns
  <2>10. CASE BeginDestroy \/ SetExit \/ DestroyLoop \/ DestroyWait
    BY ZenonT(40), <2>10 DEF BeginDestroy, SetExit, DestroyLoop, DestroyWait
  <2>11. CASE Join \/ Close
    BY Zenon, <2>11 DEF Join, Close
  <2> QED
    BY <2>1, <2>2, <2>3, <2>4, <2>5, <2>6, <2>7, <2>8, <2>9, <2>10, <2>11,
       NextCases
<1> QED
  BY <1>1, <1>2, PTL DEF Spec

(* cl_async_proc_queue never loses a wakeup: the signal that follows every *)
(* insertion and the worker's habit of draining the queue before it waits  *)
(* again suffice, however many signals the auto-reset event coalesces.     *)
THEOREM WakeupNeverLost == Spec => []NoLostWakeup
<1>1. Init => NoLostWakeup
  BY DEF Init, NoLostWakeup
<1>2. TypeOK /\ NoLostWakeup /\ [Next]_vars => NoLostWakeup'
  <2> SUFFICES ASSUME TypeOK, NoLostWakeup, Next PROVE NoLostWakeup'
    BY DEF vars, NoLostWakeup, Active
  <2> USE ThreadAssumption DEF TypeOK, NoLostWakeup, Active, Threads, pool
  <2>1. CASE \E w \in Workers : CreateThread(w)
    BY <2>1 DEF CreateThread
  <2>2. CASE \E w \in Workers : TestExit(w) \/ Wake(w) \/ TestWoken(w)
    BY <2>2 DEF TestExit, Wake, TestWoken
  <2>3. CASE \E w \in Workers : DecRunning(w) \/ SignalDestroy(w)
    BY <2>3 DEF DecRunning, SignalDestroy
  <2>4. CASE CountThread \/ InitDone \/ InitFail
    BY <2>4 DEF CountThread, InitDone, InitFail
  <2>5. CASE \E c \in Clients : ClientQueue(c)
    BY <2>5 DEF ClientQueue, Insert
  <2>6. CASE \E t \in Threads : Signal(t)
    BY <2>6 DEF Signal
  <2>7. CASE \E t \in Workers \cup {Owner} : Take(t)
    BY <2>7 DEF Take
  <2>8. CASE \E t \in Workers \cup {Owner} : QueueEmpty(t)
    BY <2>8 DEF QueueEmpty
  <2>9. CASE \E t \in Workers \cup {Owner} : CallbackReturns(t)
    BY <2>9 DEF CallbackReturns, Insert
  <2>10. CASE BeginDestroy \/ SetExit \/ DestroyLoop \/ DestroyWait
    BY <2>10 DEF BeginDestroy, SetExit, DestroyLoop, DestroyWait
  <2>11. CASE Join \/ Close
    BY <2>11 DEF Join, Close
  <2> QED
    BY <2>1, <2>2, <2>3, <2>4, <2>5, <2>6, <2>7, <2>8, <2>9, <2>10, <2>11,
       NextCases
<1> QED
  BY <1>1, <1>2, TypeCorrect, PTL DEF Spec

-----------------------------------------------------------------------------
(***************************************************************************)
(* The timer, for both versions of cl_timer and any number of processors,  *)
(* set of intervals and length of time.                                    *)
(***************************************************************************)
Begun == \E c \in Cpu : cpu[c] = "begin"
Cleared == \E c \in Cpu : cpu[c] = "clear"
Deleted == kind = "user" /\ teardown # "none"

(* The time in cl_timer_t is backed by the operating system's timer, by a  *)
(* DPC or by a callback that has not cleared it yet; the earliest time     *)
(* asked for is covered by it, or by a callback that has cleared it; and a *)
(* timer-queue timer that is deleted owes nothing.                         *)
TimeBacked ==
    timeout_time # 0 => (due # 0 /\ due <= timeout_time) \/ dpc \/ Begun \/ Deleted
WantCovered ==
    wanted # 0 => (timeout_time # 0 /\ timeout_time <= wanted) \/ (kind = "kernel" /\ Cleared)
NothingOwed == Deleted => wanted = 0

(* Unless its callback has started it again, a timer that is being         *)
(* destroyed does not expire, and nothing of it is left at the end.        *)
Quiesced ==
    teardown # "none" /\ ~(kind = "kernel" /\ rearmed)
        => /\ due = 0
           /\ teardown = "done" => ~dpc /\ \A c \in Cpu : cpu[c] = "idle"

(* The inductive invariant.                                                *)
TimerInv ==
    /\ TimerTypeOK /\ DestroyQuiesces
    /\ TimeBacked /\ WantCovered /\ NothingOwed /\ Quiesced

-----------------------------------------------------------------------------
(* The lesser of two times.                                                *)
LEMMA MinOfTwo ==
  ASSUME NEW a \in Nat, NEW b \in Nat
  PROVE  Min({a, b}) = IF a <= b THEN a ELSE b
<1> DEFINE m == IF a <= b THEN a ELSE b
<1>1. m \in {a, b} /\ \A y \in {a, b} : m <= y
  OBVIOUS
<1>2. \A x \in {a, b} : (\A y \in {a, b} : x <= y) => x = m
  OBVIOUS
<1> HIDE DEF m
<1>3. Min({a, b}) = m
  BY <1>1, <1>2, Zenon DEF Min
<1> QED
  BY <1>3 DEF m

(* cl_timer_trim and cl_timer_start, called by a client or by the callback *)
(* as it returns, keep the times in step.                                  *)
LEMMA TrimKeeps ==
  ASSUME TimerInv, NEW t \in TimerTime \ {0}, TrimTo(t), ~Deleted,
         kind' = kind, dpc' = dpc, teardown' = teardown, Begun' = Begun, Cleared' = Cleared
  PROVE  /\ timeout_time' \in TimerTime /\ due' \in TimerTime /\ wanted' \in TimerTime
         /\ TimeBacked' /\ WantCovered' /\ NothingOwed'
<1>1. /\ timeout_time \in Nat /\ due \in Nat /\ wanted \in Nat /\ t \in Nat /\ t # 0
      /\ MaxNow \in Nat /\ t <= MaxNow /\ timeout_time <= MaxNow /\ due <= MaxNow /\ wanted <= MaxNow
  BY TimerAssumption DEF TimerInv, TimerTypeOK, TimerTime
<1>2. ~Deleted'
  BY DEF Deleted
<1>3. wanted' = IF wanted = 0 THEN t ELSE IF wanted <= t THEN wanted ELSE t
  BY <1>1, MinOfTwo DEF TrimTo
<1>4. \/ timeout_time' = t /\ due' = t /\ (timeout_time = 0 \/ timeout_time > t)
      \/ timeout_time' = timeout_time /\ due' = due /\ timeout_time # 0 /\ timeout_time <= t
  BY <1>1 DEF TrimTo, TimerSet
<1>5. /\ timeout_time' \in TimerTime /\ due' \in TimerTime /\ wanted' \in TimerTime
  BY <1>1, <1>3, <1>4, SMTT(30) DEF TimerTime
<1>6. TimeBacked' /\ WantCovered'
  BY <1>1, <1>2, <1>3, <1>4, SMTT(30) DEF TimerInv, TimeBacked, WantCovered
<1> QED
  BY <1>2, <1>5, <1>6 DEF NothingOwed

(* cl_timer_start and cl_timer_trim leave a time that is backed and        *)
(* covers what was asked for.                                              *)
LEMMA StartKeeps ==
  ASSUME TimerInv, NEW t \in TimerTime \ {0}, StartTo(t), ~Deleted,
         kind' = kind, dpc' = dpc, teardown' = teardown, Begun' = Begun, Cleared' = Cleared
  PROVE  /\ timeout_time' \in TimerTime /\ due' \in TimerTime /\ wanted' \in TimerTime
         /\ TimeBacked' /\ WantCovered' /\ NothingOwed'
<1>1. CASE TimerSet(t) /\ wanted' = t
  <2>1. t \in Nat /\ t # 0
    BY TimerAssumption DEF TimerTime
  <2> QED
    BY <1>1, <2>1 DEF TimerSet, TimeBacked, WantCovered, NothingOwed, Deleted
<1>2. CASE TrimTo(t)
  BY <1>2, TrimKeeps
<1> QED
  BY <1>1, <1>2 DEF StartTo

-----------------------------------------------------------------------------
(* The initial state satisfies the invariant.                              *)
LEMMA TimerInitial ==
  ASSUME TimerInit
  PROVE  TimerInv
<1>1. TimerTypeOK
  <2>1. 1 \in TimerTime \ {0} /\ 0 \in TimerTime
    BY TimerAssumption DEF TimerTime
  <2> QED
    BY Zenon, <2>1 DEF TimerInit, TimerTypeOK
<1>2. DestroyQuiesces /\ TimeBacked /\ WantCovered /\ NothingOwed /\ Quiesced
  BY DEF TimerInit, DestroyQuiesces, TimeBacked, WantCovered, NothingOwed, Quiesced
<1> QED
  BY <1>1, <1>2 DEF TimerInv

(* A client's cl_timer_start or cl_timer_trim.                             *)
LEMMA ClientSetKeeps ==
  ASSUME TimerInv, NEW i \in Interval, TmrStart(i) \/ TmrTrim(i)
  PROVE  TimerInv'
<1>1. /\ teardown = "none" /\ now + i <= MaxNow /\ UNCHANGED <<kind, now, cpu, rearmed, late, dpc, teardown>>
      /\ StartTo(now + i) \/ TrimTo(now + i)
  BY DEF TmrStart, TmrTrim, TmrClient
<1>2. now + i \in TimerTime \ {0}
  BY <1>1, TimerAssumption DEF TimerInv, TimerTypeOK, TimerTime
<1>3. ~Deleted /\ Begun' = Begun /\ Cleared' = Cleared
  BY <1>1 DEF Deleted, Begun, Cleared
<1>4. /\ timeout_time' \in TimerTime /\ due' \in TimerTime /\ wanted' \in TimerTime
      /\ TimeBacked' /\ WantCovered' /\ NothingOwed'
  BY <1>1, <1>2, <1>3, StartKeeps, TrimKeeps
<1>5. TimerTypeOK'
  BY <1>1, <1>4 DEF TimerInv, TimerTypeOK
<1>6. DestroyQuiesces' /\ Quiesced'
  BY <1>1 DEF TimerInv, DestroyQuiesces, Quiesced
<1> QED
  BY <1>4, <1>5, <1>6 DEF TimerInv

(* cl_timer_stop and cl_timer_destroy leave no time to keep.               *)
LEMMA StopKeeps ==
  ASSUME TimerInv, TmrStop \/ TmrDestroy
  PROVE  TimerInv'
<1>1. /\ teardown = "none" /\ teardown' \in {"none", "flush"} /\ due' = 0 /\ wanted' = 0
      /\ UNCHANGED <<kind, now, cpu, rearmed, late>>
      /\ \/ timeout_time' = 0
         \/ timeout_time' = timeout_time /\ kind = "user" /\ teardown' = "flush"
      /\ dpc' \in BOOLEAN
  <2>1. dpc \in BOOLEAN
    BY DEF TimerInv, TimerTypeOK
  <2>2. StopIt => /\ timeout_time' = 0 /\ due' = 0 /\ wanted' = 0
                  /\ \E kept \in BOOLEAN : dpc' = (dpc /\ kept)
    BY Zenon DEF StopIt, TimerSet
  <2>3. \A kept \in BOOLEAN : (dpc /\ kept) \in BOOLEAN
    BY <2>1, Zenon
  <2>4. StopIt => dpc' \in BOOLEAN
    BY <2>2, <2>3, Zenon
  <2>5. dpc' \in BOOLEAN
    BY <2>1, <2>4, Zenon DEF TmrStop, TmrDestroy, TmrClient
  <2>6. /\ teardown = "none" /\ UNCHANGED <<kind, now, cpu, rearmed, late>>
        /\ \/ teardown' = teardown /\ StopIt
           \/ teardown' = "flush" /\ StopIt
           \/ teardown' = "flush" /\ kind = "user" /\ due' = 0 /\ wanted' = 0 /\ timeout_time' = timeout_time
    BY DEF TmrStop, TmrDestroy, TmrClient
  <2>7. CASE StopIt
    BY <2>2, <2>5, <2>6, <2>7
  <2> QED
    BY <2>5, <2>6, <2>7
<1>2. TimerTypeOK'
  BY <1>1, TimerAssumption DEF TimerInv, TimerTypeOK, TimerTime
<1>3. TimeBacked' /\ WantCovered' /\ NothingOwed'
  BY <1>1 DEF TimeBacked, WantCovered, NothingOwed, Deleted
<1>4. DestroyQuiesces' /\ Quiesced'
  BY <1>1 DEF TimerInv, DestroyQuiesces, Quiesced
<1> QED
  BY <1>2, <1>3, <1>4 DEF TimerInv

(* The flush ends the destruction; time passes.                            *)
LEMMA FlushTickKeeps ==
  ASSUME TimerInv, TmrFlush \/ TimerTick
  PROVE  TimerInv'
<1>1. CASE TmrFlush
  <2>1. TimerTypeOK'
    BY <1>1 DEF TmrFlush, TimerInv, TimerTypeOK
  <2>2. TimeBacked' /\ WantCovered' /\ NothingOwed'
    BY <1>1 DEF TmrFlush, TimerInv, TimeBacked, WantCovered, NothingOwed, Deleted, Begun, Cleared
  <2>3. DestroyQuiesces' /\ Quiesced'
    BY <1>1 DEF TmrFlush, TimerInv, DestroyQuiesces, Quiesced
  <2> QED
    BY <2>1, <2>2, <2>3 DEF TimerInv
<1>2. CASE TimerTick
  <2>1. now' \in TimerTime \ {0}
    BY <1>2, TimerAssumption DEF TimerTick, TimerInv, TimerTypeOK, TimerTime
  <2>2. TimerTypeOK'
    BY <1>2, <2>1 DEF TimerTick, TimerInv, TimerTypeOK
  <2>3. TimeBacked' /\ WantCovered' /\ NothingOwed'
    BY <1>2 DEF TimerTick, TimerInv, TimeBacked, WantCovered, NothingOwed, Deleted, Begun, Cleared
  <2>4. DestroyQuiesces' /\ Quiesced'
    BY <1>2 DEF TimerTick, TimerInv, DestroyQuiesces, Quiesced
  <2> QED
    BY <2>2, <2>3, <2>4 DEF TimerInv
<1> QED
  BY <1>1, <1>2

(* The KTIMER queues its DPC, the timer queue starts a thread.             *)
LEMMA ExpireKeeps ==
  ASSUME TimerInv, TimerExpire
  PROVE  TimerInv'
<1>1. due # 0 /\ due' = 0 /\ UNCHANGED <<kind, now, timeout_time, teardown, wanted, rearmed, late>>
  BY DEF TimerExpire
<1>2. 0 \in TimerTime
  BY TimerAssumption DEF TimerTime
<1>3. CASE dpc' = TRUE /\ UNCHANGED cpu
  <2>1. TimerTypeOK'
    BY <1>1, <1>2, <1>3 DEF TimerInv, TimerTypeOK
  <2> QED
    BY <1>1, <1>3, <2>1 DEF TimerInv, TimeBacked, WantCovered, NothingOwed, Deleted, Cleared,
       DestroyQuiesces, Quiesced
<1>4. ASSUME NEW c \in Cpu, cpu[c] = "idle", cpu' = [cpu EXCEPT ![c] = "begin"], UNCHANGED dpc
      PROVE  TimerInv'
  <2>1. TimerTypeOK'
    BY <1>1, <1>2, <1>4 DEF TimerInv, TimerTypeOK
  <2>2. Begun' /\ (Cleared => Cleared')
    BY <1>4 DEF TimerInv, TimerTypeOK, Begun, Cleared
  <2> QED
    BY <1>1, <2>1, <2>2 DEF TimerInv, TimeBacked, WantCovered, NothingOwed, Deleted,
       DestroyQuiesces, Quiesced
<1> QED
  BY Zenon, <1>3, <1>4 DEF TimerExpire

(* The DPC runs on processor c.                                            *)
LEMMA DpcRunKeeps ==
  ASSUME TimerInv, NEW c \in Cpu, DpcRun(c)
  PROVE  TimerInv'
<1>1. TimerTypeOK'
  BY Zenon DEF DpcRun, TimerInv, TimerTypeOK
<1>2. Begun' /\ (Cleared => Cleared')
  BY DEF DpcRun, TimerInv, TimerTypeOK, Begun, Cleared
<1> QED
  BY <1>1, <1>2 DEF DpcRun, TimerInv, TimeBacked, WantCovered, NothingOwed, Deleted,
     DestroyQuiesces, Quiesced

(* __timer_callback clears the time, or calls back.                        *)
LEMMA DpcClearKeeps ==
  ASSUME TimerInv, NEW c \in Cpu, DpcClear(c)
  PROVE  TimerInv'
<1>1. TimerTypeOK'
  BY TimerAssumption DEF DpcClear, TimerInv, TimerTypeOK, TimerTime
<1>2. Cleared'
  BY DEF DpcClear, TimerInv, TimerTypeOK, Cleared
<1> QED
  BY <1>1, <1>2 DEF DpcClear, TimerInv, TimeBacked, WantCovered, NothingOwed, Deleted,
     DestroyQuiesces, Quiesced

(* __timer_callback calls the client.                                      *)
LEMMA DpcCallKeeps ==
  ASSUME TimerInv, NEW c \in Cpu, DpcCall(c)
  PROVE  TimerInv'
<1>1. TimerTypeOK'
  BY TimerAssumption DEF DpcCall, TimerInv, TimerTypeOK, TimerTime, CallbackRuns
<1>2. Begun => Begun'
  BY DEF DpcCall, TimerInv, TimerTypeOK, Begun
<1>3. teardown = "done" => kind = "kernel" /\ rearmed
  BY DEF DpcCall, TimerInv, Quiesced
<1>4. DestroyQuiesces' /\ Quiesced'
  BY Zenon, <1>3 DEF DpcCall, TimerInv, DestroyQuiesces, Quiesced
<1> QED
  BY <1>1, <1>2, <1>4 DEF DpcCall, TimerInv, TimeBacked, WantCovered, NothingOwed, Deleted

(* The callback of the user version calls back, or finds the timer stopped.*)
LEMMA UserCallKeeps ==
  ASSUME TimerInv, NEW c \in Cpu, UserCall(c)
  PROVE  TimerInv'
<1>2. teardown # "done"
  BY DEF UserCall, TimerInv, Quiesced
<1>1. TimerTypeOK'
  <2>1. /\ timeout_time' = 0 /\ UNCHANGED <<kind, now, due, dpc, teardown, rearmed>>
        /\ wanted' = 0 \/ wanted' = wanted
    BY DEF UserCall
  <2>2. late' \in BOOLEAN
    BY Zenon DEF UserCall, TimerInv, TimerTypeOK
  <2>3. /\ cpu' \in [Cpu -> {"idle", "begin", "clear", "callback"}]
        /\ \A d, e \in Cpu : cpu'[d] = "callback" /\ cpu'[e] = "callback" => d = e
    <3>1. /\ cpu \in [Cpu -> {"idle", "begin", "clear", "callback"}]
          /\ \A d \in Cpu : cpu[d] # "callback"
          /\ cpu' = [cpu EXCEPT ![c] = "callback"] \/ cpu' = [cpu EXCEPT ![c] = "idle"]
      BY Zenon DEF UserCall, TimerInv, TimerTypeOK, CallbackRuns
    <3> QED
      BY <3>1
  <2>4. 0 \in TimerTime
    BY TimerAssumption DEF TimerTime
  <2> QED
    BY <2>1, <2>2, <2>3, <2>4 DEF TimerInv, TimerTypeOK
<1>3. DestroyQuiesces' /\ Quiesced'
  <2>1. late' = late /\ UNCHANGED <<kind, due, dpc, teardown, rearmed>>
    BY <1>2, Zenon DEF UserCall, TimerInv, TimerTypeOK
  <2> QED
    BY <1>2, <2>1 DEF TimerInv, DestroyQuiesces, Quiesced
<1>4. TimeBacked' /\ WantCovered' /\ NothingOwed'
  BY DEF UserCall, TimerInv, TimeBacked, WantCovered, NothingOwed, Deleted
<1> QED
  BY <1>1, <1>3, <1>4 DEF TimerInv

(* The callback returns, having started the timer or not.                  *)
LEMMA CallbackEndsKeeps ==
  ASSUME TimerInv, NEW c \in Cpu, CallbackEnds(c)
  PROVE  TimerInv'
<1>1. /\ cpu' \in [Cpu -> {"idle", "begin", "clear", "callback"}]
      /\ \A d, e \in Cpu : cpu'[d] = "callback" /\ cpu'[e] = "callback" => d = e
      /\ Begun' = Begun /\ Cleared' = Cleared
      /\ (\A d \in Cpu : cpu[d] = "idle") => FALSE
      /\ UNCHANGED <<kind, now, dpc, teardown, late>>
  BY DEF CallbackEnds, TimerInv, TimerTypeOK, Begun, Cleared
<1>2. CASE UNCHANGED <<timeout_time, due, wanted, rearmed>>
  <2>1. TimerTypeOK'
    BY <1>1, <1>2 DEF TimerInv, TimerTypeOK
  <2> QED
    BY <1>1, <1>2, <2>1 DEF TimerInv, TimeBacked, WantCovered, NothingOwed, Deleted,
       DestroyQuiesces, Quiesced
<1>3. ASSUME NEW i \in Interval, kind = "kernel" \/ teardown = "none", now + i <= MaxNow,
             StartTo(now + i), rearmed' = (rearmed \/ teardown # "none")
      PROVE  TimerInv'
  <2>1. now + i \in TimerTime \ {0}
    BY <1>3, TimerAssumption DEF TimerInv, TimerTypeOK, TimerTime
  <2>2. ~Deleted
    BY <1>3 DEF Deleted
  <2>3. /\ timeout_time' \in TimerTime /\ due' \in TimerTime /\ wanted' \in TimerTime
        /\ TimeBacked' /\ WantCovered' /\ NothingOwed'
    BY <1>1, <1>3, <2>1, <2>2, StartKeeps
  <2>4. TimerTypeOK'
    BY <1>1, <1>3, <2>3 DEF TimerInv, TimerTypeOK
  <2>5. DestroyQuiesces' /\ Quiesced'
    BY Zenon, <1>1, <1>3 DEF TimerInv, DestroyQuiesces, Quiesced
  <2> QED
    BY <2>3, <2>4, <2>5 DEF TimerInv
<1> QED
  BY <1>2, <1>3 DEF CallbackEnds

-----------------------------------------------------------------------------
(* Every step keeps the invariant.                                         *)
LEMMA TimerStep ==
  ASSUME TimerInv, [TimerNext]_timervars
  PROVE  TimerInv'
<1>1. CASE UNCHANGED timervars
  BY <1>1 DEF timervars, TimerInv, TimerTypeOK, TimeBacked, WantCovered, NothingOwed, Deleted,
     Begun, Cleared, DestroyQuiesces, Quiesced
<1> QED
  BY <1>1, ClientSetKeeps, StopKeeps, FlushTickKeeps, ExpireKeeps, DpcRunKeeps, DpcClearKeeps,
     DpcCallKeeps, UserCallKeeps, CallbackEndsKeeps DEF TimerNext, CpuStep

(* The timer's invariant holds in every reachable state.                   *)
LEMMA TimerInvariant == TimerSpec => []TimerInv
BY TimerInitial, TimerStep, PTL DEF TimerSpec

(* Between two callbacks no time that cl_timer_start or cl_timer_trim was  *)
(* asked for is lost, wherever __timer_callback stands on however many     *)
(* processors.                                                             *)
THEOREM NoExpiryLost == TimerSpec => []NoLostExpiry
<1>1. TimerInv => NoLostExpiry
  <2>1. TimerInv => timeout_time \in Nat /\ due \in Nat /\ wanted \in Nat
    BY TimerAssumption DEF TimerInv, TimerTypeOK, TimerTime
  <2> QED
    BY <2>1 DEF TimerInv, TimeBacked, WantCovered, NothingOwed, NoLostExpiry, Begun, Cleared, Deleted,
       TimerTypeOK
<1> QED
  BY <1>1, TimerInvariant, PTL

(* After cl_timer_destroy no callback begins, unless the callback of a     *)
(* kernel timer has started it between the stop and the flush.             *)
THEOREM NoCallbackAfterDestroy == TimerSpec => []DestroyQuiesces
<1>1. TimerInv => DestroyQuiesces
  BY DEF TimerInv
<1> QED
  BY <1>1, TimerInvariant, PTL

-----------------------------------------------------------------------------
(***************************************************************************)
(* User-mode endpoints, for any number of them on one identifier, of       *)
(* events, failed polls and cancellations.                                 *)
(***************************************************************************)
(* The records of ucep.                                                    *)
UcepRec == [state : {"new", "made", "open", "gone", "freed"}, ref_cnt : 0..2,
            io : {"none", "pended", "success", "cancelled"},
            cb : {"none", "poll", "issue"}, struck : BOOLEAN]

(* Some callback is polling.                                               *)
Polling == \E u \in Ucep : ucep[u].cb = "poll"

(* A ucep has its request or its callback, not both; it has no reference   *)
(* before it is created and after it is freed; the one that is made or     *)
(* open owns the kernel's endpoint; and one that is open finds its request *)
(* cancelled only if somebody else took it.                                *)
UcepSound(u) ==
    /\ ucep[u].io # "none" => ucep[u].cb = "none"
    /\ ucep[u].state \in {"new", "freed"} => ucep[u].ref_cnt = 0
    /\ ucep[u].state \in {"made", "open"} => kcep.owner = u
    /\ ucep[u].state = "open" /\ ucep[u].io = "cancelled" => ucep[u].struck

(* signalled is set while there are MADs, and once they have been taken    *)
(* until the one who polls has seen that there are none.                   *)
SignalKept ==
    /\ kcep.mads > 0 => kcep.signalled
    /\ ~Live => kcep.mads = 0 /\ ~kcep.signalled
    /\ kcep.signalled /\ kcep.mads = 0 => poll_fails > 0 \/ Polling

(* The inductive invariant.                                                *)
IrpInv ==
    /\ IrpTypeOK /\ RequestsExact /\ DeafOnlyIfStruck
    /\ \A u \in Ucep : UcepSound(u)
    /\ SignalKept /\ NoLostEvent

-----------------------------------------------------------------------------
(* One field of a ucep is written: the records stay records, and no other  *)
(* field changes.                                                          *)
LEMMA SetIo ==
  ASSUME NEW us \in [Ucep -> UcepRec], NEW u \in Ucep,
         NEW st \in {"none", "pended", "success", "cancelled"}
  PROVE  /\ [us EXCEPT ![u].io = st] \in [Ucep -> UcepRec]
         /\ [us EXCEPT ![u].io = st][u] = [us[u] EXCEPT !.io = st]
         /\ \A v \in Ucep \ {u} : [us EXCEPT ![u].io = st][v] = us[v]
<1>1. [us[u] EXCEPT !.io = st] \in UcepRec
  BY ZenonT(30) DEF UcepRec
<1> QED
  BY <1>1, SMTT(30)

(* Marking a ucep whose request was cancelled.                             *)
LEMMA SetStruck ==
  ASSUME NEW us \in [Ucep -> UcepRec], NEW u \in Ucep
  PROVE  /\ [us EXCEPT ![u].struck = TRUE] \in [Ucep -> UcepRec]
         /\ [us EXCEPT ![u].struck = TRUE][u] = [us[u] EXCEPT !.struck = TRUE]
         /\ \A v \in Ucep \ {u} : [us EXCEPT ![u].struck = TRUE][v] = us[v]
<1>1. [us[u] EXCEPT !.struck = TRUE] \in UcepRec
  BY ZenonT(30) DEF UcepRec
<1> QED
  BY <1>1, SMTT(30)

(* A ucep's callback goes on.                                              *)
LEMMA SetCb ==
  ASSUME NEW us \in [Ucep -> UcepRec], NEW u \in Ucep, NEW st \in {"none", "poll", "issue"}
  PROVE  /\ [us EXCEPT ![u].cb = st] \in [Ucep -> UcepRec]
         /\ [us EXCEPT ![u].cb = st][u] = [us[u] EXCEPT !.cb = st]
         /\ \A v \in Ucep \ {u} : [us EXCEPT ![u].cb = st][v] = us[v]
<1>1. [us[u] EXCEPT !.cb = st] \in UcepRec
  BY ZenonT(30) DEF UcepRec
<1> QED
  BY <1>1, SMTT(30)

(* al_cep_queue_irp strikes the request that is there, if it is another's, *)
(* and touches nothing else but the new request.                           *)
LEMMA QueueIrpEffect ==
  ASSUME NEW us \in [Ucep -> UcepRec], NEW u \in Ucep, p_irp \in Ucep \cup {NoUcep}, p_irp # u,
         QueueIrp(us, u)
  PROVE  /\ ucep' \in [Ucep -> UcepRec]
         /\ p_irp' = IF kcep.mads = 0 THEN u ELSE NoUcep
         /\ ucep'[u].io = IF kcep.mads = 0 THEN "pended" ELSE "success"
         /\ \A v \in Ucep : /\ ucep'[v].state = us[v].state /\ ucep'[v].ref_cnt = us[v].ref_cnt
                            /\ ucep'[v].cb = us[v].cb
                            /\ v # u /\ v # p_irp => ucep'[v] = us[v]
         /\ p_irp # NoUcep => ucep'[p_irp].io = "cancelled" /\ ucep'[p_irp].struck
<1> DEFINE st == IF kcep.mads = 0 THEN "pended" ELSE "success"
<1>1. /\ p_irp' = IF kcep.mads = 0 THEN u ELSE NoUcep
      /\ st \in {"none", "pended", "success", "cancelled"}
      /\ p_irp = NoUcep => ucep' = [us EXCEPT ![u].io = st]
      /\ p_irp # NoUcep => ucep' = [[[us EXCEPT ![p_irp].io = "cancelled"]
                                   EXCEPT ![p_irp].struck = TRUE] EXCEPT ![u].io = st]
  BY Zenon DEF QueueIrp, CompleteIrp
<1>2. (IF kcep.mads = 0 THEN "pended" ELSE "success") = st
  OBVIOUS
<1> HIDE DEF st
<1>3. CASE p_irp = NoUcep
  <2>1. /\ ucep' \in [Ucep -> UcepRec] /\ ucep'[u] = [us[u] EXCEPT !.io = st]
        /\ \A v \in Ucep \ {u} : ucep'[v] = us[v]
    <3> DEFINE w == [us EXCEPT ![u].io = st]
    <3>1. /\ w \in [Ucep -> UcepRec] /\ w[u] = [us[u] EXCEPT !.io = st]
          /\ \A v \in Ucep \ {u} : w[v] = us[v]
      BY ZenonT(40), <1>1, SetIo
    <3>2. ucep' = w
      BY <1>1, <1>3
    <3> QED
      BY <3>1, <3>2, Zenon
  <2>2. /\ ucep'[u].io = st /\ ucep'[u].state = us[u].state
        /\ ucep'[u].ref_cnt = us[u].ref_cnt /\ ucep'[u].cb = us[u].cb
    <3>1. us[u] \in UcepRec
      OBVIOUS
    <3> QED
      BY <2>1, <3>1, SMTT(30) DEF UcepRec
  <2> QED
    BY Zenon, <1>1, <1>2, <1>3, <2>1, <2>2
<1>4. CASE p_irp \in Ucep /\ p_irp # NoUcep
  <2> DEFINE u1 == [us EXCEPT ![p_irp].io = "cancelled"]
             u2 == [u1 EXCEPT ![p_irp].struck = TRUE]
  <2>1. /\ u1 \in [Ucep -> UcepRec]
        /\ \A v \in Ucep : /\ u1[v].state = us[v].state /\ u1[v].ref_cnt = us[v].ref_cnt
                           /\ u1[v].cb = us[v].cb /\ (v # p_irp => u1[v] = us[v])
        /\ u1[p_irp].io = "cancelled"
    <3>1. /\ u1 \in [Ucep -> UcepRec] /\ u1[p_irp] = [us[p_irp] EXCEPT !.io = "cancelled"]
          /\ \A v \in Ucep \ {p_irp} : u1[v] = us[v]
      BY Zenon, <1>4, SetIo
    <3>2. /\ u1[p_irp].io = "cancelled" /\ u1[p_irp].state = us[p_irp].state
          /\ u1[p_irp].ref_cnt = us[p_irp].ref_cnt /\ u1[p_irp].cb = us[p_irp].cb
      BY <1>4, <3>1, ZenonT(30) DEF UcepRec
    <3> QED
      BY <3>1, <3>2
  <2> HIDE DEF u1
  <2>2. /\ u2 \in [Ucep -> UcepRec]
        /\ \A v \in Ucep : /\ u2[v].state = us[v].state /\ u2[v].ref_cnt = us[v].ref_cnt
                           /\ u2[v].cb = us[v].cb /\ (v # p_irp => u2[v] = us[v])
        /\ u2[p_irp].io = "cancelled" /\ u2[p_irp].struck
    <3>1. /\ u2 \in [Ucep -> UcepRec] /\ u2[p_irp] = [u1[p_irp] EXCEPT !.struck = TRUE]
          /\ \A v \in Ucep \ {p_irp} : u2[v] = u1[v]
      BY <1>4, <2>1, SetStruck
    <3>2. /\ u2[p_irp].io = u1[p_irp].io /\ u2[p_irp].state = u1[p_irp].state
          /\ u2[p_irp].ref_cnt = u1[p_irp].ref_cnt /\ u2[p_irp].cb = u1[p_irp].cb
          /\ u2[p_irp].struck
      BY <1>4, <2>1, <3>1, ZenonT(30) DEF UcepRec
    <3> QED
      BY <2>1, <3>1, <3>2
  <2>3. ucep' = [u2 EXCEPT ![u].io = st]
    BY <1>1, <1>4 DEF u1
  <2> HIDE DEF u2
  <2>4. /\ ucep' \in [Ucep -> UcepRec] /\ ucep'[u] = [u2[u] EXCEPT !.io = st]
        /\ \A v \in Ucep \ {u} : ucep'[v] = u2[v]
    <3> DEFINE w == [u2 EXCEPT ![u].io = st]
    <3>1. /\ w \in [Ucep -> UcepRec] /\ w[u] = [u2[u] EXCEPT !.io = st]
          /\ \A v \in Ucep \ {u} : w[v] = u2[v]
      <4>1. /\ u2 \in [Ucep -> UcepRec]
            /\ st \in {"none", "pended", "success", "cancelled"}
        BY <1>1, <2>2
      <4> QED
        BY ZenonT(40), <4>1, SetIo
    <3> QED
      BY <2>3, <3>1, Zenon
  <2>5. /\ ucep'[u].io = st /\ ucep'[u].state = u2[u].state
        /\ ucep'[u].ref_cnt = u2[u].ref_cnt /\ ucep'[u].cb = u2[u].cb
    <3>1. u2[u] \in UcepRec
      BY <2>2
    <3> QED
      BY <2>4, <3>1, SMTT(30) DEF UcepRec
  <2>6. \A v \in Ucep : /\ ucep'[v].state = us[v].state /\ ucep'[v].ref_cnt = us[v].ref_cnt
                        /\ ucep'[v].cb = us[v].cb
                        /\ v # u /\ v # p_irp => ucep'[v] = us[v]
    <3>1. ASSUME NEW v \in Ucep
          PROVE  /\ ucep'[v].state = us[v].state /\ ucep'[v].ref_cnt = us[v].ref_cnt
                 /\ ucep'[v].cb = us[v].cb
                 /\ v # u /\ v # p_irp => ucep'[v] = us[v]
      <4>1. CASE v = u
        BY <2>2, <2>5, <4>1, Zenon
      <4>2. CASE v # u
        <5>1. ucep'[v] = u2[v]
          BY <2>4, <4>2, Zenon
        <5> QED
          BY <2>2, <5>1, Zenon
      <4> QED
        BY <4>1, <4>2
    <3> QED
      BY <3>1
  <2>7. ucep'[p_irp].io = "cancelled" /\ ucep'[p_irp].struck
    BY <1>4, <2>2, <2>4
  <2> QED
    BY <1>1, <1>2, <2>4, <2>5, <2>6, <2>7
<1> QED
  BY <1>3, <1>4

(* The initial state satisfies the invariant.                              *)
LEMMA IrpInitial ==
  ASSUME IrpInit
  PROVE  IrpInv
<1> USE CepIrpAssumption DEF IrpInit, NoKcep
<1>1. IrpTypeOK
  BY DEF IrpTypeOK
<1>2. RequestsExact /\ DeafOnlyIfStruck
  BY DEF RequestsExact, DeafOnlyIfStruck
<1>3. \A u \in Ucep : UcepSound(u)
  BY Zenon DEF UcepSound
<1>4. SignalKept /\ NoLostEvent
  BY DEF SignalKept, NoLostEvent, Live
<1> QED
  BY <1>1, <1>2, <1>3, <1>4 DEF IrpInv

(* A MAD that is queued is signalled, and __process_cep is on its way or   *)
(* somebody is polling.                                                    *)
LEMMA QueueMadKeeps ==
  ASSUME IrpInv, QueueMad
  PROVE  IrpInv'
<1> USE CepIrpAssumption DEF IrpInv, QueueMad
<1>1. /\ kcep'.owner = kcep.owner /\ kcep'.mads = kcep.mads + 1 /\ kcep'.signalled = TRUE
      /\ kcep'.calls = kcep.calls + IF kcep.signalled THEN 0 ELSE 1
      /\ kcep.mads \in Nat /\ kcep.calls \in Nat
  BY DEF IrpTypeOK
<1>2. IrpTypeOK'
  <2>1. /\ kcep.mads + 1 \in 0..MaxEvents
        /\ kcep.calls + (IF kcep.signalled THEN 0 ELSE 1) \in 0..MaxCalls
    BY DEF IrpTypeOK
  <2> QED
    BY Zenon, <2>1 DEF IrpTypeOK
<1>3. RequestsExact' /\ DeafOnlyIfStruck' /\ \A u \in Ucep : UcepSound(u)'
  BY <1>1 DEF RequestsExact, DeafOnlyIfStruck, UcepSound
<1>4. SignalKept'
  BY <1>1 DEF SignalKept, Live, Polling
<1>5. NoLostEvent'
  BY <1>1, <1>4 DEF NoLostEvent, SignalKept, Polling
<1> QED
  BY <1>2, <1>3, <1>4, <1>5

(* The request that is there is completed.                                 *)
LEMMA ProcessCepKeeps ==
  ASSUME IrpInv, ProcessCep
  PROVE  IrpInv'
<1> USE CepIrpAssumption DEF IrpInv, ProcessCep, CompleteIrp
<1>1. /\ kcep'.owner = kcep.owner /\ kcep'.mads = kcep.mads
      /\ kcep'.signalled = kcep.signalled
  BY DEF IrpTypeOK
<1>2. IrpTypeOK'
  BY DEF IrpTypeOK
<1>3. RequestsExact'
  BY DEF RequestsExact, IrpTypeOK
<1>4. DeafOnlyIfStruck' /\ \A u \in Ucep : UcepSound(u)'
  BY <1>1 DEF RequestsExact, DeafOnlyIfStruck, UcepSound, IrpTypeOK
<1>5. SignalKept' /\ NoLostEvent'
  BY <1>1 DEF SignalKept, NoLostEvent, Live, Polling, IrpTypeOK
<1> QED
  BY <1>2, <1>3, <1>4, <1>5

(* The cancel routine takes whatever request is there, and strikes it.     *)
LEMMA CepCancelIrpKeeps ==
  ASSUME IrpInv, CepCancelIrp
  PROVE  IrpInv'
<1> USE CepIrpAssumption DEF IrpInv, CepCancelIrp, Live
<1>1. IrpTypeOK'
  BY DEF IrpTypeOK
<1>2. RequestsExact' /\ DeafOnlyIfStruck'
  BY DEF RequestsExact, DeafOnlyIfStruck, IrpTypeOK
<1>3. \A u \in Ucep : UcepSound(u)'
  BY DEF RequestsExact, UcepSound, IrpTypeOK
<1>4. SignalKept' /\ NoLostEvent'
  BY DEF SignalKept, NoLostEvent, Polling, IrpTypeOK
<1> QED
  BY <1>1, <1>2, <1>3, <1>4

(* cm_cb of a request that succeeded polls; after one that failed its      *)
(* reference goes.                                                         *)
LEMMA CmCbKeeps ==
  ASSUME IrpInv, NEW u \in Ucep, CmCb(u)
  PROVE  IrpInv'
<1> USE CepIrpAssumption DEF IrpInv, CmCb, Deref
<1>1. IrpTypeOK'
  <2>1. CASE ucep[u].io = "success"
    <3> DEFINE us == [ucep EXCEPT ![u].io = "none"]
    <3>1. us \in [Ucep -> UcepRec]
      BY Zenon, SetIo DEF IrpTypeOK, UcepRec
    <3>2. ucep' = [us EXCEPT ![u].cb = "poll"]
      BY <2>1
    <3> HIDE DEF us
    <3>3. ucep' \in [Ucep -> UcepRec]
      <4>1. [us EXCEPT ![u].cb = "poll"] \in [Ucep -> UcepRec]
        BY Zenon, <3>1, SetCb
      <4> QED
        BY <3>2, <4>1, Zenon
    <3> QED
      BY <3>3 DEF IrpTypeOK, UcepRec
  <2>2. CASE ucep[u].io = "cancelled"
    <3>1. ucep[u].ref_cnt - 1 \in 0..2
      BY <2>2 DEF IrpTypeOK, RequestsExact
    <3> QED
      BY <2>2, <3>1 DEF IrpTypeOK
  <2> QED
    BY <2>1, <2>2
<1>2. RequestsExact'
  BY DEF RequestsExact, UcepSound, IrpTypeOK
<1>3. DeafOnlyIfStruck' /\ \A v \in Ucep : UcepSound(v)'
  BY DEF RequestsExact, DeafOnlyIfStruck, UcepSound, IrpTypeOK
<1>4. SignalKept' /\ NoLostEvent'
  BY DEF SignalKept, NoLostEvent, Live, Polling, UcepSound, IrpTypeOK
<1> QED
  BY <1>1, <1>2, <1>3, <1>4

(* A poll takes a MAD, or finds none and clears signalled.                 *)
LEMMA CepPollKeeps ==
  ASSUME IrpInv, NEW u \in Ucep, CepPoll(u)
  PROVE  IrpInv'
<1> USE CepIrpAssumption DEF IrpInv, CepPoll, Live
<1>1. IrpTypeOK'
  <2>1. CASE kcep.mads > 0 /\ kcep' = [kcep EXCEPT !.mads = @ - 1] /\ UNCHANGED ucep
    <3>1. kcep.mads - 1 \in 0..MaxEvents
      BY <2>1 DEF IrpTypeOK
    <3> QED
      BY <2>1, <3>1 DEF IrpTypeOK
  <2>2. CASE /\ kcep' = [kcep EXCEPT !.signalled = FALSE]
             /\ ucep' = [ucep EXCEPT ![u].cb = "issue"]
    BY ZenonT(40), <2>2 DEF IrpTypeOK
  <2>3. CASE ucep' = [ucep EXCEPT ![u].cb = "issue"] /\ UNCHANGED kcep
    BY <2>3 DEF IrpTypeOK
  <2> QED
    BY <2>1, <2>2, <2>3
<1>2. RequestsExact' /\ DeafOnlyIfStruck' /\ \A v \in Ucep : UcepSound(v)'
  BY DEF RequestsExact, DeafOnlyIfStruck, UcepSound, IrpTypeOK
<1>3. SignalKept' /\ NoLostEvent'
  BY DEF SignalKept, NoLostEvent, Polling, IrpTypeOK
<1> QED
  BY <1>1, <1>2, <1>3

(* A poll that fails is counted.                                           *)
LEMMA CepPollFailsKeeps ==
  ASSUME IrpInv, NEW u \in Ucep, CepPollFails(u)
  PROVE  IrpInv'
<1> USE CepIrpAssumption DEF IrpInv, CepPollFails
<1>1. IrpTypeOK'
  BY DEF IrpTypeOK
<1>2. RequestsExact' /\ DeafOnlyIfStruck' /\ \A v \in Ucep : UcepSound(v)'
  BY DEF RequestsExact, DeafOnlyIfStruck, UcepSound, IrpTypeOK
<1>3. SignalKept' /\ NoLostEvent'
  BY DEF SignalKept, NoLostEvent, Live, Polling, IrpTypeOK
<1> QED
  BY <1>1, <1>2, <1>3

(* The next request takes the place of whatever is pended, which is        *)
(* another's; or the endpoint is gone, and so is the ucep.                 *)
LEMMA GetEventKeeps ==
  ASSUME IrpInv, NEW u \in Ucep, GetEvent(u)
  PROVE  IrpInv'
<1> USE CepIrpAssumption DEF IrpInv, GetEvent, Live
<1>1. ucep[u].cb = "issue" /\ ucep[u].io = "none" /\ p_irp # u
  BY DEF RequestsExact, UcepSound, IrpTypeOK
<1>2. CASE kcep.owner # NoUcep /\ QueueIrp([ucep EXCEPT ![u].cb = "none"], u)
  <2> DEFINE us == [ucep EXCEPT ![u].cb = "none"]
  <2>1. /\ us \in [Ucep -> UcepRec] /\ us[u].cb = "none"
        /\ \A v \in Ucep : /\ us[v].state = ucep[v].state /\ us[v].ref_cnt = ucep[v].ref_cnt
                           /\ v # u => us[v] = ucep[v]
    BY SMTT(30) DEF IrpTypeOK, UcepRec
  <2>2. p_irp \in Ucep \cup {NoUcep} /\ kcep' = kcep
    BY DEF IrpTypeOK
  <2> HIDE DEF us
  <2>3. QueueIrp(us, u)
    BY <1>2 DEF us
  <2>4. /\ ucep' \in [Ucep -> UcepRec]
        /\ p_irp' = IF kcep.mads = 0 THEN u ELSE NoUcep
        /\ ucep'[u].io = IF kcep.mads = 0 THEN "pended" ELSE "success"
        /\ \A v \in Ucep : /\ ucep'[v].state = us[v].state /\ ucep'[v].ref_cnt = us[v].ref_cnt
                           /\ ucep'[v].cb = us[v].cb
                           /\ v # u /\ v # p_irp => ucep'[v] = us[v]
        /\ p_irp # NoUcep => ucep'[p_irp].io = "cancelled" /\ ucep'[p_irp].struck
    BY <1>1, <2>1, <2>2, <2>3, QueueIrpEffect
  <2>a. RequestsExact /\ DeafOnlyIfStruck /\ \A v \in Ucep : UcepSound(v)
    OBVIOUS
  <2> HIDE DEF GetEvent
  <2>5. IrpTypeOK'
    BY <2>2, <2>4 DEF GetEvent, IrpTypeOK, UcepRec
  <2>8. SignalKept' /\ NoLostEvent'
    BY <1>1, <2>1, <2>2, <2>4, SMTT(30) DEF GetEvent, SignalKept, NoLostEvent, Polling
  <2> HIDE DEF IrpInv
  <2>6. RequestsExact'
    BY <1>1, <2>a, <2>1, <2>2, <2>4, SMTT(30) DEF RequestsExact
  <2>7. DeafOnlyIfStruck' /\ \A v \in Ucep : UcepSound(v)'
    <3>1. ASSUME NEW v \in Ucep
          PROVE  UcepSound(v)'
      BY <1>1, <2>a, <2>1, <2>2, <2>4, SMTT(30) DEF RequestsExact, UcepSound
    <3>2. DeafOnlyIfStruck'
      BY <1>1, <2>a, <2>1, <2>2, <2>4, SMTT(30) DEF DeafOnlyIfStruck
    <3> QED
      BY <3>1, <3>2
  <2> QED
    BY <2>5, <2>6, <2>7, <2>8 DEF IrpInv
<1>3. CASE ~Live /\ ucep' = Deref([ucep EXCEPT ![u].cb = "none"], u) /\ UNCHANGED p_irp
  <2> USE <1>3 DEF Deref
  <2>1. ucep[u].state \notin {"made", "open"} /\ ucep[u].ref_cnt = 1
    BY <1>1 DEF RequestsExact, UcepSound, IrpTypeOK
  <2>2. IrpTypeOK'
    BY <2>1 DEF IrpTypeOK
  <2>3. RequestsExact' /\ DeafOnlyIfStruck' /\ \A v \in Ucep : UcepSound(v)'
    BY <1>1, <2>1 DEF RequestsExact, DeafOnlyIfStruck, UcepSound, IrpTypeOK
  <2>4. SignalKept' /\ NoLostEvent'
    BY Zenon, <1>1 DEF SignalKept, NoLostEvent, Polling, IrpTypeOK
  <2> QED
    BY Zenon, <2>2, <2>3, <2>4
<1> QED
  BY Zenon, <1>2, <1>3

(* A new ucep finds the identifier free.                                   *)
LEMMA CreateCepKeeps ==
  ASSUME IrpInv, NEW u \in Ucep, CreateCep(u)
  PROVE  IrpInv'
<1> USE CepIrpAssumption DEF IrpInv
<1>1. /\ ucep[u].state = "new" /\ kcep.owner = NoUcep
      /\ kcep' = [owner |-> u, mads |-> 0, signalled |-> FALSE, calls |-> 0]
  BY ZenonT(30) DEF CreateCep, NoKcep
<1>2. \A v \in Ucep : ucep[v].state \notin {"made", "open"}
  BY Zenon, <1>1 DEF UcepSound
<1>3. /\ ucep' \in [Ucep -> UcepRec] /\ ucep'[u].state = "made" /\ ucep'[u].ref_cnt = 2
      /\ ucep'[u].cb = ucep[u].cb /\ ucep'[u].io = ucep[u].io
      /\ \A v \in Ucep : v # u => ucep'[v] = ucep[v]
  <2>1. /\ ucep \in [Ucep -> UcepRec]
        /\ [[ucep[u] EXCEPT !.state = "made"] EXCEPT !.ref_cnt = 2] \in UcepRec
    <3>1. ucep \in [Ucep -> UcepRec] /\ 2 \in 0..2
      BY DEF IrpTypeOK, UcepRec
    <3>2. [ucep[u] EXCEPT !.state = "made"] \in UcepRec
      BY <3>1, ZenonT(30) DEF UcepRec
    <3> QED
      BY <3>1, <3>2, ZenonT(30) DEF UcepRec
  <2>2. /\ ucep' \in [Ucep -> UcepRec] /\ \A v \in Ucep : v # u => ucep'[v] = ucep[v]
        /\ ucep'[u] = [[ucep[u] EXCEPT !.state = "made"] EXCEPT !.ref_cnt = 2]
    BY <2>1, Zenon DEF CreateCep
  <2>3. /\ ucep'[u].state = "made" /\ ucep'[u].ref_cnt = 2
        /\ ucep'[u].cb = ucep[u].cb /\ ucep'[u].io = ucep[u].io
    BY <2>1, <2>2, ZenonT(30) DEF UcepRec
  <2> QED
    BY Zenon, <2>2, <2>3
<1>a. IrpTypeOK /\ RequestsExact /\ DeafOnlyIfStruck /\ \A v \in Ucep : UcepSound(v)
  BY Zenon
<1>b. UNCHANGED <<p_irp, canceling, poll_fails, cancels>>
  BY Zenon DEF CreateCep
<1> HIDE DEF IrpInv
<1>4. IrpTypeOK'
  <2>1. kcep' \in [owner : Ucep \cup {NoUcep}, mads : 0..MaxEvents, signalled : BOOLEAN,
                   calls : 0..MaxCalls]
    BY <1>1
  <2> QED
    BY Zenon, <1>a, <1>b, <1>3, <2>1 DEF IrpTypeOK, UcepRec
<1>5. ucep[u].io = "none" /\ ucep[u].cb = "none"
  BY <1>a, <1>1 DEF RequestsExact, UcepSound, IrpTypeOK
<1>6. RequestsExact'
  BY <1>a, <1>b, <1>3, <1>5 DEF RequestsExact
<1>7. DeafOnlyIfStruck' /\ \A v \in Ucep : UcepSound(v)'
  BY <1>a, <1>1, <1>2, <1>3, <1>5, Zenon DEF DeafOnlyIfStruck, UcepSound
<1>8. SignalKept' /\ NoLostEvent'
  <2>1. kcep'.owner = u /\ kcep'.mads = 0 /\ kcep'.signalled = FALSE
    BY <1>1, Zenon
  <2> QED
    BY <2>1 DEF SignalKept, NoLostEvent, Live, Polling
<1> QED
  BY Zenon, <1>4, <1>6, <1>7, <1>8 DEF IrpInv

(* The first request takes the place of whatever request of a predecessor  *)
(* is on the endpoint.                                                     *)
LEMMA CreateUcepKeeps ==
  ASSUME IrpInv, NEW u \in Ucep, CreateUcep(u)
  PROVE  IrpInv'
<1> USE CepIrpAssumption DEF IrpInv
<1> DEFINE us == [ucep EXCEPT ![u].state = "open"]
<1>1. /\ ucep[u].cb = "none" /\ ucep[u].io = "none" /\ ucep[u].ref_cnt = 2 /\ p_irp # u
      /\ p_irp \in Ucep \cup {NoUcep} /\ kcep.owner = u
  BY SMTT(30) DEF CreateUcep, RequestsExact, UcepSound, IrpTypeOK
<1>b. UNCHANGED <<kcep, canceling, poll_fails, cancels>>
  BY Zenon DEF CreateUcep
<1>2. \A v \in Ucep : v # u => ucep[v].state \notin {"made", "open"}
  BY Zenon, <1>1 DEF UcepSound
<1>a. /\ IrpTypeOK /\ RequestsExact /\ DeafOnlyIfStruck /\ \A v \in Ucep : UcepSound(v)
      /\ SignalKept
  BY Zenon
<1> HIDE DEF IrpInv
<1>3. /\ us \in [Ucep -> UcepRec] /\ us[u].state = "open" /\ us[u].ref_cnt = 2
      /\ us[u].cb = "none" /\ \A v \in Ucep : v # u => us[v] = ucep[v]
  BY <1>a, <1>1, SMTT(30) DEF IrpTypeOK, UcepRec
<1> HIDE DEF us
<1>4. QueueIrp(us, u)
  BY Zenon DEF CreateUcep, us
<1>5. /\ ucep' \in [Ucep -> UcepRec]
      /\ p_irp' = IF kcep.mads = 0 THEN u ELSE NoUcep
      /\ ucep'[u].io = IF kcep.mads = 0 THEN "pended" ELSE "success"
      /\ \A v \in Ucep : /\ ucep'[v].state = us[v].state /\ ucep'[v].ref_cnt = us[v].ref_cnt
                         /\ ucep'[v].cb = us[v].cb
                         /\ v # u /\ v # p_irp => ucep'[v] = us[v]
      /\ p_irp # NoUcep => ucep'[p_irp].io = "cancelled" /\ ucep'[p_irp].struck
  BY Zenon, <1>1, <1>3, <1>4, QueueIrpEffect
<1>6. IrpTypeOK'
  <2>1. ucep' \in [Ucep -> UcepRec] /\ p_irp' \in Ucep \cup {NoUcep}
    BY Zenon, <1>5
  <2> QED
    BY Zenon, <1>a, <1>b, <2>1 DEF IrpTypeOK, UcepRec
<1>c. ASSUME NEW v \in Ucep, v # u
      PROVE  /\ ucep'[v].state = ucep[v].state /\ ucep'[v].ref_cnt = ucep[v].ref_cnt
             /\ ucep'[v].cb = ucep[v].cb
             /\ v = p_irp => ucep[v].io = "pended" /\ ucep'[v].io = "cancelled"
             /\ v # p_irp => ucep[v].io # "pended" /\ ucep'[v].io = ucep[v].io
             /\ p_irp' # v
  <2>1. us[v] = ucep[v] /\ (ucep[v].io = "pended" <=> p_irp = v)
    BY Zenon, <1>a, <1>3, <1>c DEF RequestsExact
  <2>2. /\ ucep'[v].state = ucep[v].state /\ ucep'[v].ref_cnt = ucep[v].ref_cnt
        /\ ucep'[v].cb = ucep[v].cb
    BY Zenon, <1>5, <2>1
  <2>3. v # p_irp => ucep'[v].io = ucep[v].io
    BY Zenon, <1>5, <1>c, <2>1
  <2>4. v = p_irp => ucep'[v].io = "cancelled"
    BY Zenon, <1>5, CepIrpAssumption
  <2>5. p_irp' # v
    BY Zenon, <1>5, <1>c, CepIrpAssumption
  <2> QED
    BY Zenon, <2>1, <2>2, <2>3, <2>4, <2>5
<1>d. /\ ucep'[u].state = "open" /\ ucep'[u].ref_cnt = 2 /\ ucep'[u].cb = "none"
      /\ ucep'[u].io \in {"pended", "success"} /\ (ucep'[u].io = "pended" <=> p_irp' = u)
  BY Zenon, <1>3, <1>5, CepIrpAssumption
<1>7. RequestsExact'
  <2>1. ASSUME NEW v \in Ucep, v # u
        PROVE  /\ ucep[v].io # "none" <=> ucep'[v].io # "none"
               /\ ucep'[v].io = "pended" <=> p_irp' = v
    BY <1>c, <2>1, Zenon
  <2> QED
    BY <1>a, <1>c, <1>d, <2>1 DEF RequestsExact
<1>8. DeafOnlyIfStruck' /\ \A v \in Ucep : UcepSound(v)'
  <2>1. ASSUME NEW v \in Ucep
        PROVE  UcepSound(v)'
    <3>1. CASE v = u
      BY Zenon, <1>b, <1>1, <1>2, <1>c, <1>d, <3>1 DEF UcepSound
    <3>2. CASE v # u
      BY Zenon, <1>a, <1>b, <1>2, <1>c, <3>2 DEF UcepSound
    <3> QED
      BY Zenon, <3>1, <3>2
  <2>2. DeafOnlyIfStruck'
    BY <1>a, <1>1, <1>2, <1>3, <1>5, SMTT(30) DEF DeafOnlyIfStruck
  <2> QED
    BY Zenon, <2>1, <2>2
<1>9. SignalKept' /\ NoLostEvent'
  <2>1. \A v \in Ucep : ucep'[v].cb = ucep[v].cb
    BY <1>1, <1>3, <1>5
  <2> QED
    BY Zenon, <1>a, <1>b, <1>5, <2>1 DEF SignalKept, NoLostEvent, Live, Polling
<1> QED
  BY <1>6, <1>7, <1>8, <1>9 DEF IrpInv

(* Without its first request the ucep goes, and the endpoint with it.      *)
LEMMA CreateUcepFailsKeeps ==
  ASSUME IrpInv, NEW u \in Ucep, CreateUcepFails(u)
  PROVE  IrpInv'
<1> USE CepIrpAssumption DEF IrpInv
<1>1. /\ ucep[u].cb = "none" /\ ucep[u].io = "none" /\ p_irp # u
      /\ p_irp \in Ucep \cup {NoUcep} /\ kcep.owner = u
      /\ kcep'.owner = NoUcep /\ kcep'.mads = 0 /\ kcep'.signalled = FALSE
      /\ p_irp' = NoUcep
  BY SMTT(30) DEF CreateUcepFails, NoKcep, RequestsExact, UcepSound, IrpTypeOK
<1>2. \A v \in Ucep : v # u => ucep[v].state \notin {"made", "open"}
  BY Zenon, <1>1 DEF UcepSound
<1>3. IrpTypeOK'
  <2> DEFINE us == CompleteIrp(ucep, "cancelled")
  <2>1. kcep' \in [owner : Ucep \cup {NoUcep}, mads : 0..MaxEvents, signalled : BOOLEAN,
                   calls : 0..MaxCalls]
    <3>1. kcep.calls \in 0..MaxCalls /\ 0 \in 0..MaxEvents
      BY DEF IrpTypeOK
    <3>2. kcep' = [owner |-> NoUcep, mads |-> 0, signalled |-> FALSE, calls |-> kcep.calls]
      BY Zenon DEF CreateUcepFails, NoKcep
    <3> QED
      BY <3>1, <3>2, Zenon
  <2>2. us \in [Ucep -> UcepRec]
    <3>1. ucep \in [Ucep -> UcepRec]
      BY Zenon DEF IrpTypeOK, UcepRec
    <3>2. CASE p_irp = NoUcep
      BY Zenon, <3>1, <3>2 DEF CompleteIrp
    <3>3. CASE p_irp # NoUcep
      <4>1. p_irp \in Ucep /\ us = [ucep EXCEPT ![p_irp].io = "cancelled"]
        BY Zenon, <3>3, <1>1 DEF CompleteIrp
      <4>2. [ucep EXCEPT ![p_irp].io = "cancelled"] \in [Ucep -> UcepRec]
        BY <3>1, <4>1, SetIo, ZenonT(30)
      <4> QED
        BY <4>1, <4>2, Zenon
    <3> QED
      BY <3>2, <3>3, Zenon
  <2>3. ucep' = [us EXCEPT ![u].state = "freed", ![u].ref_cnt = 0]
    BY Zenon DEF CreateUcepFails
  <2> HIDE DEF us
  <2>4. ucep' \in [Ucep -> UcepRec]
    <3>1. [[us[u] EXCEPT !.state = "freed"] EXCEPT !.ref_cnt = 0] \in UcepRec
      <4>1. [us[u] EXCEPT !.state = "freed"] \in UcepRec /\ 0 \in 0..2
        BY <2>2, SMTT(30) DEF UcepRec
      <4> QED
        BY <4>1, ZenonT(30) DEF UcepRec
    <3> QED
      BY <2>2, <2>3, <3>1, Zenon
  <2> QED
    BY Zenon, <1>1, <2>1, <2>4 DEF CreateUcepFails, IrpTypeOK, UcepRec
<1>4. /\ ucep'[u].state = "freed" /\ ucep'[u].ref_cnt = 0
      /\ \A v \in Ucep : /\ ucep'[v].cb = ucep[v].cb
                         /\ ucep'[v].io = IF v = p_irp THEN "cancelled" ELSE ucep[v].io
                         /\ v # u => /\ ucep'[v].state = ucep[v].state
                                    /\ ucep'[v].ref_cnt = ucep[v].ref_cnt
  <2> DEFINE us == CompleteIrp(ucep, "cancelled")
  <2>1. /\ DOMAIN us = Ucep /\ DOMAIN us[u] = DOMAIN ucep[u]
        /\ \A v \in Ucep : /\ us[v].cb = ucep[v].cb /\ us[v].state = ucep[v].state
                           /\ us[v].ref_cnt = ucep[v].ref_cnt
                           /\ us[v].io = IF v = p_irp THEN "cancelled" ELSE ucep[v].io
    BY <1>1 DEF CompleteIrp, IrpTypeOK
  <2>2. /\ ucep' = [us EXCEPT ![u].state = "freed", ![u].ref_cnt = 0]
        /\ {"state", "ref_cnt", "cb", "io"} \subseteq DOMAIN us[u]
    BY <2>1 DEF CreateUcepFails, IrpTypeOK
  <2> HIDE DEF us
  <2>3. /\ ucep'[u].state = "freed" /\ ucep'[u].ref_cnt = 0
        /\ ucep'[u].cb = us[u].cb /\ ucep'[u].io = us[u].io
        /\ \A v \in Ucep : v # u => ucep'[v] = us[v]
    BY <2>1, <2>2
  <2>4. ucep'[u].cb = ucep[u].cb /\ ucep'[u].io = IF u = p_irp THEN "cancelled" ELSE ucep[u].io
    BY Zenon, <2>1, <2>3
  <2>5. ASSUME NEW v \in Ucep, v # u
        PROVE  /\ ucep'[v].cb = ucep[v].cb /\ ucep'[v].state = ucep[v].state
               /\ ucep'[v].ref_cnt = ucep[v].ref_cnt
               /\ ucep'[v].io = IF v = p_irp THEN "cancelled" ELSE ucep[v].io
    <3>1. ucep'[v] = us[v]
      BY Zenon, <2>3, <2>5
    <3> QED
      BY Zenon, <2>1, <3>1
  <2> QED
    BY Zenon, <2>3, <2>4, <2>5
<1>a. IrpTypeOK /\ RequestsExact /\ DeafOnlyIfStruck /\ \A v \in Ucep : UcepSound(v)
  BY Zenon
<1> HIDE DEF IrpInv
<1>5. RequestsExact'
  BY <1>a, <1>1, <1>2, <1>4 DEF RequestsExact, IrpTypeOK
<1>6. DeafOnlyIfStruck' /\ \A v \in Ucep : UcepSound(v)'
  BY <1>a, <1>1, <1>2, <1>4, SMTT(30) DEF DeafOnlyIfStruck, UcepSound, RequestsExact
<1>7. SignalKept' /\ NoLostEvent'
  BY <1>1 DEF SignalKept, NoLostEvent, Live, Polling
<1> QED
  BY <1>3, <1>5, <1>6, <1>7 DEF IrpInv

(* The endpoint goes with its events and its request, and the reference of *)
(* the owner is dropped.                                                   *)
LEMMA DestroyUcepKeeps ==
  ASSUME IrpInv, NEW u \in Ucep, DestroyUcep(u)
  PROVE  IrpInv'
<1> USE CepIrpAssumption DEF IrpInv, DestroyUcep, CompleteIrp, Deref, NoKcep
<1>1. /\ kcep.owner = u /\ ucep[u].ref_cnt \in 1..2
      /\ kcep'.owner = NoUcep /\ kcep'.mads = 0 /\ kcep'.signalled = FALSE
  BY DEF RequestsExact, UcepSound, IrpTypeOK
<1>2. \A v \in Ucep : v # u => ucep[v].state \notin {"made", "open"}
  BY Zenon, <1>1 DEF UcepSound
<1>3. IrpTypeOK'
  BY <1>1 DEF IrpTypeOK
<1>7. /\ ucep'[u].state \in {"gone", "freed"} /\ ucep'[u].ref_cnt = ucep[u].ref_cnt - 1
      /\ ucep'[u].state = "freed" <=> ucep[u].ref_cnt = 1
      /\ p_irp' = NoUcep
      /\ \A v \in Ucep : /\ ucep'[v].cb = ucep[v].cb
                         /\ ucep'[v].io = IF v = p_irp THEN "cancelled" ELSE ucep[v].io
                         /\ v # u => /\ ucep'[v].state = ucep[v].state
                                    /\ ucep'[v].ref_cnt = ucep[v].ref_cnt
  BY <1>1 DEF IrpTypeOK
<1>4. RequestsExact'
  BY <1>1 DEF RequestsExact, IrpTypeOK
<1>5. DeafOnlyIfStruck' /\ \A v \in Ucep : UcepSound(v)'
  <2>1. \A v \in Ucep : ucep'[v].state \notin {"made", "open"}
    BY Zenon, <1>2, <1>7
  <2>2. \A v \in Ucep : /\ ucep[v].io # "none" => ucep[v].cb = "none"
                        /\ v = p_irp => ucep[v].io = "pended"
                        /\ ucep[v].state \in {"new", "freed"} => ucep[v].ref_cnt = 0
    BY Zenon DEF RequestsExact, UcepSound
  <2> HIDE DEF IrpInv, DestroyUcep
  <2>a. ucep'[u].state # "new" /\ (ucep'[u].state = "freed" => ucep'[u].ref_cnt = 0)
    <3>1. ucep'[u].state \in {"gone", "freed"} /\ ucep'[u].ref_cnt = ucep[u].ref_cnt - 1
      BY <1>7, Zenon
    <3>2. ucep'[u].state = "freed" => ucep[u].ref_cnt = 1
      BY <1>7, Zenon
    <3> QED
      BY <3>1, <3>2
  <2>3. ASSUME NEW v \in Ucep
        PROVE  ucep'[v].state \in {"new", "freed"} => ucep'[v].ref_cnt = 0
    <3>1. CASE v = u
      BY <2>a, <3>1, Zenon
    <3>2. CASE v # u
      BY <1>7, <2>2, <3>2, Zenon
    <3> QED
      BY Zenon, <3>1, <3>2
  <2>4. \A v \in Ucep : ucep'[v].io # "none" => ucep'[v].cb = "none"
    <3>1. ASSUME NEW v \in Ucep, ucep'[v].io # "none"
          PROVE  ucep'[v].cb = "none"
      <4>1. ucep'[v].cb = ucep[v].cb /\ (v = p_irp \/ ucep'[v].io = ucep[v].io)
        BY <1>7, Zenon
      <4> QED
        BY Zenon, <2>2, <3>1, <4>1
    <3> QED
      BY Zenon, <3>1
  <2> QED
    BY Zenon, <2>1, <2>3, <2>4 DEF DeafOnlyIfStruck, UcepSound
<1>6. SignalKept' /\ NoLostEvent'
  BY <1>1 DEF SignalKept, NoLostEvent, Live, Polling
<1> QED
  BY Zenon, <1>3, <1>4, <1>5, <1>6

-----------------------------------------------------------------------------
(* The I/O manager only enters the cancel routine; the rest is above.      *)
LEMMA IrpStep ==
  ASSUME IrpInv, [IrpNext]_irpvars
  PROVE  IrpInv'
<1>1. CASE UNCHANGED irpvars
  <2>1. UNCHANGED <<kcep, p_irp, canceling, ucep, poll_fails, cancels>>
    BY Zenon, <1>1 DEF irpvars
  <2>2. IrpTypeOK' /\ RequestsExact'
    BY <2>1, Zenon DEF IrpInv, IrpTypeOK, RequestsExact
  <2>3. DeafOnlyIfStruck' /\ \A u \in Ucep : UcepSound(u)'
    BY <2>1, Zenon DEF IrpInv, DeafOnlyIfStruck, UcepSound
  <2>4. SignalKept' /\ NoLostEvent'
    BY <2>1, Zenon DEF IrpInv, SignalKept, NoLostEvent, Live, Polling
  <2> QED
    BY <2>2, <2>3, <2>4, Zenon DEF IrpInv
<1>2. ASSUME NEW u \in Ucep, CancelIrp(u)
      PROVE  IrpInv'
  BY <1>2, CepIrpAssumption
     DEF CancelIrp, IrpInv, IrpTypeOK, RequestsExact, DeafOnlyIfStruck, UcepSound,
         SignalKept, NoLostEvent, Live, Polling
<1> QED
  BY Zenon, <1>1, <1>2, QueueMadKeeps, ProcessCepKeeps, CepCancelIrpKeeps, CmCbKeeps, CepPollKeeps,
     CepPollFailsKeeps, GetEventKeeps, CreateCepKeeps, CreateUcepKeeps,
     CreateUcepFailsKeeps, DestroyUcepKeeps
     DEF IrpNext, CmCbStep

(* The invariant holds always.                                             *)
LEMMA IrpInvariant == IrpSpec => []IrpInv
BY IrpInitial, IrpStep, PTL DEF IrpSpec

(* A ucep has one reference while it is not destroyed and one for its      *)
(* request or its callback, and a pended request is in p_irp, for any      *)
(* number of uceps on the identifier (al_cep_queue_irp, cm_cb).            *)
THEOREM UcepReferencesExact == IrpSpec => []RequestsExact
<1>1. IrpInv => RequestsExact
  BY Zenon DEF IrpInv
<1> QED
  BY <1>1, IrpInvariant, PTL

(* A request pended on an endpoint with MADs is about to be completed, or  *)
(* somebody is polling, or a poll has failed for want of memory            *)
(* (__cep_queue_mad, __process_cep, al_cep_poll).                          *)
THEOREM NoEventUnseen == IrpSpec => []NoLostEvent
<1>1. IrpInv => NoLostEvent
  BY Zenon DEF IrpInv
<1> QED
  BY <1>1, IrpInvariant, PTL

(* An open ucep without a request was struck by the cancel routine or by   *)
(* the request of its predecessor (__cep_cancel_irp, al_cep_queue_irp).    *)
THEOREM DeafIsStruck == IrpSpec => []DeafOnlyIfStruck
<1>1. IrpInv => DeafOnlyIfStruck
  BY Zenon DEF IrpInv
<1> QED
  BY <1>1, IrpInvariant, PTL

-----------------------------------------------------------------------------
(***************************************************************************)
(* RMPP: a send that ends in success was delivered whole, and a sender     *)
(* never runs ahead of its window, for any number of segments and losses.  *)
(***************************************************************************)
(* The records of out and the packets.                                     *)
OutRec == [state : {"new", "listed", "success", "error", "timeout", "canceled"},
           active : BOOLEAN, canceled : BOOLEAN, due : BOOLEAN,
           retry_cnt : 0..RmppRetries, total_seg : 1..MaxSeg,
           ack_seg : 0..MaxSeg, seg_limit : 0..MaxSeg, cur_seg : 1..(MaxSeg + 1)]
Packet == [type : {"DATA", "ACK"}, seg : 1..MaxSeg, arg : Nat]

(* The window of a send is the one it began with, or one that some         *)
(* acknowledgement opened; it ends with the MAD, and what is sent next is  *)
(* not acknowledged yet.                                                   *)
SendSound(s) ==
    /\ s \in OutRec
    /\ s.ack_seg < s.cur_seg /\ s.ack_seg <= s.total_seg /\ s.seg_limit <= s.total_seg
    /\ \/ s.ack_seg = 0 /\ s.seg_limit = 1
       \/ \E a \in packets : a.type = "ACK" /\ a.seg = s.ack_seg /\ s.seg_limit <= a.arg

(* Of a MAD of n segments only the last is sent as the last, and it is     *)
(* acknowledged only when the MAD is delivered; a reassembly is one of     *)
(* fewer segments, and within its window if the buffer could be enlarged.  *)
PacketSound(p, n) ==
    /\ p.seg <= n
    /\ p.type = "DATA" => p.arg = IF p.seg = n THEN 1 ELSE 0
    /\ p.type = "ACK" /\ p.seg = n => delivered
AsmSound(n) ==
    asm.on => asm.expected_seg <= n /\ (resize_fail = 0 => asm.expected_seg <= asm.seg_limit)

(* The inductive invariant.                                                *)
RmppInv ==
    /\ RmppTypeOK /\ SendSound(out) /\ AsmSound(out.total_seg)
    /\ \A p \in packets : PacketSound(p, out.total_seg)
    /\ out.state = "new" => packets = {} /\ ~asm.on /\ out.cur_seg = 1
    /\ WindowKept /\ SuccessMeansDelivered

(* The transfer starts in the invariant.                                   *)
LEMMA RmppInitial == RmppInit => RmppInv
<1> SUFFICES ASSUME RmppInit PROVE RmppInv
  BY Zenon
<1>1. /\ RmppRetries \in 0..RmppRetries /\ 1 \in 1..MaxSeg /\ 0 \in 0..MaxSeg /\ 1 \in 0..MaxSeg
      /\ 1 \in 1..(MaxSeg + 1) /\ 0 \in 0..MaxResizeFail /\ 1 \in Nat
  BY RmppAssumption
<1>2. RmppTypeOK /\ out \in OutRec
  BY <1>1, Zenon DEF RmppInit, RmppTypeOK, NoAsm, OutRec
<1>3. SendSound(out) /\ AsmSound(out.total_seg)
  BY <1>2 DEF RmppInit, SendSound, AsmSound, NoAsm
<1> QED
  BY Zenon, <1>2, <1>3 DEF RmppInit, RmppInv, WindowKept, SuccessMeansDelivered, NoAsm

(* A step of the sender that posts nothing: it has another window, or ends.*)
LEMMA WaitKeeps ==
  ASSUME RmppInv, NEW s, SendSound(s), s.total_seg = out.total_seg, s.state # "new",
         s.state = "success" => delivered, out' = s, packets' = packets, Sender
  PROVE  RmppInv'
<1>1. RmppTypeOK'
  BY DEF RmppInv, RmppTypeOK, Sender, SendSound, OutRec
<1>2. SendSound(out)' /\ AsmSound(out.total_seg)'
  BY Zenon DEF RmppInv, SendSound, AsmSound, Sender
<1>3. \A p \in packets' : PacketSound(p, out.total_seg)'
  BY Zenon DEF RmppInv, PacketSound, Sender
<1> QED
  BY Zenon, <1>1, <1>2, <1>3 DEF RmppInv, WindowKept, SuccessMeansDelivered, Sender

(* One that posts the current segment, which is in the window.             *)
LEMMA QueueKeeps ==
  ASSUME RmppInv, NEW s, SendSound(s), s.state = "listed", s.cur_seg <= s.seg_limit,
         s.total_seg = out.total_seg \/ (packets = {} /\ ~asm.on), QueueSeg(s), Sender
  PROVE  RmppInv'
<1>1. PICK d : d = Data(s.cur_seg, s.cur_seg = s.total_seg)
  BY Zenon
<1>2. /\ d \in Packet /\ d.type = "DATA" /\ d.seg = s.cur_seg
      /\ d.arg = IF d.seg = s.total_seg THEN 1 ELSE 0
  <2>1. s.cur_seg \in 1..MaxSeg /\ 0 \in Nat /\ 1 \in Nat
    BY RmppAssumption DEF SendSound, OutRec
  <2>2. d = [type |-> "DATA", seg |-> s.cur_seg, arg |-> IF s.cur_seg = s.total_seg THEN 1 ELSE 0]
    BY <1>1, Zenon DEF Data
  <2>3. d \in Packet
    BY <2>1, <2>2, Zenon DEF Packet
  <2> QED
    BY Zenon, <2>2, <2>3
<1>3. packets' = packets \cup {d}
  BY Zenon, <1>1 DEF QueueSeg
<1>4. /\ out' \in OutRec /\ out'.state = "listed" /\ out'.total_seg = s.total_seg
      /\ out'.ack_seg = s.ack_seg /\ out'.seg_limit = s.seg_limit /\ out'.cur_seg = s.cur_seg + 1
  <2>1. s.cur_seg + 1 \in 1..(MaxSeg + 1)
    BY RmppAssumption DEF SendSound, OutRec
  <2>2. out' = [s EXCEPT !.active = TRUE, !.due = FALSE, !.cur_seg = s.cur_seg + 1] /\ s \in OutRec
    BY Zenon DEF QueueSeg, SendSound, OutRec
  <2>3. out' \in OutRec
    BY <2>1, <2>2, Zenon DEF OutRec
  <2> QED
    BY Zenon, <2>2, <2>3 DEF OutRec
<1>5. RmppTypeOK'
  <2>1. packets \subseteq Packet
    BY Zenon DEF RmppInv, RmppTypeOK, Packet
  <2>2. packets' \subseteq Packet
    BY Zenon, <1>2, <1>3, <2>1
  <2> QED
    BY <1>4, <2>2, Zenon DEF RmppInv, RmppTypeOK, Sender, OutRec, Packet
<1>6. SendSound(out)'
  BY <1>3, <1>4 DEF SendSound, OutRec
<1>7. AsmSound(out.total_seg)'
  BY <1>4, Zenon DEF RmppInv, AsmSound, Sender
<1>8. \A p \in packets' : PacketSound(p, out.total_seg)'
  <2>1. PacketSound(d, out.total_seg)'
    BY <1>2, <1>4 DEF PacketSound, SendSound, OutRec
  <2>2. ASSUME NEW p \in packets PROVE PacketSound(p, out.total_seg)'
    BY <1>4, <2>2, Zenon DEF RmppInv, PacketSound, Sender
  <2> QED
    BY Zenon, <1>3, <2>1, <2>2
<1>9. WindowKept'
  <2>1. d.seg = 1 \/ \E a \in packets : a.type = "ACK" /\ d.seg <= a.arg /\ a.seg < d.seg
    <3>1. CASE s.ack_seg = 0 /\ s.seg_limit = 1
      BY <1>2, <3>1 DEF SendSound, OutRec
    <3>2. CASE \E a \in packets : a.type = "ACK" /\ a.seg = s.ack_seg /\ s.seg_limit <= a.arg
      <4>1. PICK a \in packets : a.type = "ACK" /\ a.seg = s.ack_seg /\ s.seg_limit <= a.arg
        BY Zenon, <3>2
      <4>2. a.arg \in Nat
        BY Zenon DEF RmppInv, RmppTypeOK
      <4>3. d.seg <= a.arg /\ a.seg < d.seg
        BY <1>2, <4>1, <4>2 DEF SendSound, OutRec
      <4> QED
        BY Zenon, <4>1, <4>3
    <3> QED
      BY Zenon, <3>1, <3>2 DEF SendSound
  <2> QED
    BY Zenon, <1>3, <2>1 DEF RmppInv, WindowKept, Sender
<1> QED
  BY Zenon, <1>4, <1>5, <1>6, <1>7, <1>8, <1>9 DEF RmppInv, SuccessMeansDelivered

(* What the sender writes besides its window.                              *)
LEMMA SameWindow ==
  ASSUME NEW s, SendSound(s), NEW t \in OutRec, t.ack_seg = s.ack_seg, t.cur_seg = s.cur_seg,
         t.total_seg = s.total_seg, t.seg_limit = s.seg_limit
  PROVE  SendSound(t)
BY Zenon DEF SendSound

(* A MAD that is acknowledged to the end is delivered.                     *)
LEMMA AckedDelivered ==
  ASSUME RmppInv, NEW s, SendSound(s), s.total_seg = out.total_seg, s.ack_seg >= s.total_seg
  PROVE  delivered
<1>1. s.ack_seg = s.total_seg /\ s.total_seg \in Nat \ {0}
  BY DEF SendSound, OutRec
<1>2. PICK a \in packets : a.type = "ACK" /\ a.seg = s.ack_seg
  BY Zenon, <1>1 DEF SendSound
<1> QED
  BY Zenon, <1>1, <1>2 DEF RmppInv, PacketSound

(* The send ends.                                                          *)
LEMMA EndKeeps ==
  ASSUME RmppInv, NEW s, SendSound(s), s.total_seg = out.total_seg,
         NEW st \in {"success", "error", "timeout", "canceled"}, End(s, st),
         st = "success" => delivered, Sender
  PROVE  RmppInv'
<1>1. s \in OutRec
  BY Zenon DEF SendSound
<1>2. PICK t : t = [s EXCEPT !.state = st, !.active = FALSE, !.due = FALSE]
  BY Zenon
<1>3. out' = t /\ packets' = packets
  BY Zenon, <1>2 DEF End
<1>4. t \in OutRec
  BY <1>1, <1>2, Zenon DEF OutRec
<1>5. /\ t.ack_seg = s.ack_seg /\ t.cur_seg = s.cur_seg /\ t.total_seg = s.total_seg
      /\ t.seg_limit = s.seg_limit /\ t.state = st
  BY Zenon, <1>1, <1>2, <1>4 DEF OutRec
<1>6. SendSound(t)
  BY Zenon, <1>4, <1>5, SameWindow
<1> QED
  BY Zenon, <1>3, <1>5, <1>6, WaitKeeps

(* It goes on, with a note.                                                *)
LEMMA FlagsWait ==
  ASSUME RmppInv, out.state = "listed", packets' = packets, Sender,
         \/ out' = [out EXCEPT !.active = FALSE]
         \/ out' = [out EXCEPT !.canceled = TRUE]
         \/ out' = [out EXCEPT !.due = TRUE]
         \/ out.retry_cnt > 0 /\ out' = [out EXCEPT !.retry_cnt = @ - 1, !.due = FALSE]
  PROVE  RmppInv'
<1>1. SendSound(out) /\ out \in OutRec
  BY Zenon DEF RmppInv, SendSound
<1>2. /\ out.active \in BOOLEAN /\ out.canceled \in BOOLEAN /\ out.due \in BOOLEAN
      /\ out.retry_cnt \in 0..RmppRetries
      /\ out.retry_cnt > 0 => out.retry_cnt - 1 \in 0..RmppRetries
  BY <1>1, RmppAssumption DEF OutRec
<1>3. out' \in OutRec
  BY <1>1, <1>2, Zenon DEF OutRec
<1>4. /\ out'.ack_seg = out.ack_seg /\ out'.cur_seg = out.cur_seg /\ out'.state = "listed"
      /\ out'.total_seg = out.total_seg /\ out'.seg_limit = out.seg_limit
  BY <1>1, <1>3, Zenon DEF OutRec
<1>5. SendSound(out')
  BY Zenon, <1>1, <1>3, <1>4, SameWindow
<1> QED
  BY Zenon, <1>4, <1>5, WaitKeeps

(* The client sends the message.                                           *)
LEMMA RmppSendKeeps ==
  ASSUME RmppInv, NEW n \in 1..MaxSeg, RmppSend(n)
  PROVE  RmppInv'
<1>1. PICK s : s = [out EXCEPT !.state = "listed", !.total_seg = n]
  BY Zenon
<1>2. out \in OutRec /\ packets = {} /\ ~asm.on
  BY Zenon DEF RmppInv, SendSound, RmppSend
<1>3. s \in OutRec
  BY <1>1, <1>2, Zenon DEF OutRec
<1>4. /\ s.state = "listed" /\ s.total_seg = n /\ s.ack_seg = out.ack_seg
      /\ s.cur_seg = out.cur_seg /\ s.seg_limit = out.seg_limit
  BY Zenon, <1>1, <1>2, <1>3 DEF OutRec
<1>5. out.ack_seg = 0 /\ out.seg_limit = 1 /\ out.cur_seg = 1
  BY Zenon DEF RmppInv, RmppSend, SendSound
<1>6. SendSound(s) /\ s.cur_seg <= s.seg_limit
  BY <1>2, <1>3, <1>4, <1>5 DEF RmppInv, SendSound, OutRec
<1> QED
  BY <1>1, <1>2, <1>4, <1>6, QueueKeeps, Zenon DEF RmppSend

(* A completion of the sender's work request.                              *)
LEMMA RmppSendDoneKeeps ==
  ASSUME RmppInv, NEW ok \in BOOLEAN, RmppSendDone(ok)
  PROVE  RmppInv'
<1>1. SendSound(out) /\ out \in OutRec /\ out.state = "listed" /\ Sender
  BY Zenon DEF RmppInv, SendSound, RmppSendDone
<1>2. CASE ~ok \/ out.canceled \/ out.ack_seg >= out.total_seg
  <2>1. PICK st \in {"success", "error", "canceled"} :
          st = IF out.canceled THEN "canceled" ELSE IF ok THEN "success" ELSE "error"
    BY Zenon
  <2>2. End(out, st)
    <3>1. ~(ok /\ ~out.canceled /\ out.ack_seg < out.total_seg /\ out.cur_seg <= out.seg_limit)
      BY <1>1, <1>2 DEF OutRec
    <3> QED
      BY <1>2, <2>1, <3>1, Zenon DEF RmppSendDone
  <2>3. st = "success" => delivered
    BY Zenon, <1>1, <1>2, <2>1, AckedDelivered
  <2> QED
    BY Zenon, <1>1, <2>1, <2>2, <2>3, EndKeeps
<1>3. CASE ok /\ ~out.canceled /\ out.ack_seg < out.total_seg /\ out.cur_seg <= out.seg_limit
  <2>1. QueueSeg(out)
    <3>1. ~(~ok \/ out.canceled \/ out.ack_seg >= out.total_seg)
      BY <1>1, <1>3 DEF OutRec
    <3> QED
      BY <1>3, <3>1, Zenon DEF RmppSendDone
  <2>2. PICK s : s = out
    BY Zenon
  <2>3. SendSound(s) /\ s.state = "listed" /\ s.cur_seg <= s.seg_limit /\ QueueSeg(s)
        /\ s.total_seg = out.total_seg
    BY Zenon, <1>1, <1>3, <2>1, <2>2
  <2> QED
    BY <1>1, <2>3, QueueKeeps, Zenon
<1>4. CASE ok /\ ~out.canceled /\ out.ack_seg < out.total_seg /\ ~(out.cur_seg <= out.seg_limit)
  <2>1. out' = [out EXCEPT !.active = FALSE] /\ packets' = packets
    <3>1. ~(~ok \/ out.canceled \/ out.ack_seg >= out.total_seg)
      BY <1>1, <1>4 DEF OutRec
    <3> QED
      BY <1>4, <3>1, Zenon DEF RmppSendDone
  <2> QED
    BY Zenon, <1>1, <2>1, FlagsWait
<1>5. out.ack_seg \in Int /\ out.total_seg \in Int
  BY <1>1 DEF OutRec
<1> QED
  BY <1>2, <1>3, <1>4, <1>5

(* A STOP or ABORT of the receiver.                                        *)
LEMMA ProcessNackKeeps ==
  ASSUME RmppInv, ProcessNack
  PROVE  RmppInv'
<1>1. SendSound(out) /\ out.state = "listed" /\ Sender
  BY Zenon DEF RmppInv, ProcessNack
<1>2. CASE out.active
  BY Zenon, <1>1, <1>2, FlagsWait DEF ProcessNack
<1>3. CASE ~out.active
  BY Zenon, <1>1, <1>3, EndKeeps DEF ProcessNack
<1> QED
  BY Zenon, <1>2, <1>3

(* The client cancels, or the sender's time elapses: only flags change.    *)
LEMMA RmppCancelKeeps ==
  ASSUME RmppInv, RmppCancel \/ RmppElapse
  PROVE  RmppInv'
BY Zenon, FlagsWait DEF RmppCancel, RmppElapse

(* The sender's timer retries from the last acknowledged segment or gives  *)
(* up.                                                                     *)
LEMMA RmppSendTimerKeeps ==
  ASSUME RmppInv, RmppSendTimer
  PROVE  RmppInv'
<1>1. SendSound(out) /\ out \in OutRec /\ out.state = "listed" /\ Sender
  BY Zenon DEF RmppInv, SendSound, RmppSendTimer
<1>2. /\ out.retry_cnt \in 0..RmppRetries /\ out.ack_seg \in 0..MaxSeg /\ out.seg_limit \in 0..MaxSeg
      /\ RmppRetries \in Nat /\ MaxSeg \in Nat
  BY Zenon, <1>1, RmppAssumption DEF OutRec
<1>3. CASE out.canceled
  BY <1>1, <1>3, EndKeeps, Zenon DEF RmppSendTimer
<1>4. CASE ~out.canceled /\ out.retry_cnt = 0
  <2>1. ~(out.retry_cnt > 0)
    BY <1>4
  <2> QED
    BY <1>1, <1>4, <2>1, EndKeeps, Zenon DEF RmppSendTimer
<1>5. CASE ~out.canceled /\ out.retry_cnt > 0 /\ out.ack_seg < out.seg_limit
  <2>1. out.retry_cnt # 0 /\ out.retry_cnt - 1 \in 0..RmppRetries /\ out.ack_seg + 1 \in 1..(MaxSeg + 1)
    BY <1>2, <1>5
  <2>2. PICK s : s = [out EXCEPT !.retry_cnt = out.retry_cnt - 1, !.due = FALSE, !.cur_seg = out.ack_seg + 1]
    BY Zenon
  <2>3. s \in OutRec
    BY <1>1, <2>1, <2>2, Zenon DEF OutRec
  <2>4. QueueSeg(s)
    BY <1>1, <1>5, <2>1, <2>2, Zenon DEF RmppSendTimer, OutRec
  <2>5. /\ s.ack_seg = out.ack_seg /\ s.cur_seg = out.ack_seg + 1 /\ s.total_seg = out.total_seg
        /\ s.seg_limit = out.seg_limit /\ s.state = "listed"
    BY Zenon, <1>1, <2>2, <2>3 DEF OutRec
  <2>6. SendSound(s) /\ s.cur_seg <= s.seg_limit
    BY <1>1, <1>2, <1>5, <2>3, <2>5 DEF SendSound
  <2> QED
    BY <1>1, <2>4, <2>5, <2>6, QueueKeeps, Zenon
<1>6. CASE ~out.canceled /\ out.retry_cnt > 0 /\ ~(out.ack_seg < out.seg_limit)
  <2>1. out.retry_cnt # 0
    BY <1>2, <1>6
  <2>2. out' = [out EXCEPT !.retry_cnt = @ - 1, !.due = FALSE] /\ packets' = packets
    BY <1>6, <2>1, Zenon DEF RmppSendTimer
  <2> QED
    BY Zenon, <1>1, <1>6, <2>2, FlagsWait
<1> QED
  BY <1>2, <1>3, <1>4, <1>5, <1>6

(* An acknowledgement, new, old or repeated.                               *)
LEMMA ProcessAckKeeps ==
  ASSUME RmppInv, NEW a \in packets, ProcessAck(a)
  PROVE  RmppInv'
<1>1. SendSound(out) /\ out \in OutRec /\ out.state = "listed" /\ Sender /\ a.type = "ACK"
  BY Zenon DEF RmppInv, SendSound, ProcessAck
<1>2. a \in Packet /\ a.seg <= out.total_seg
  BY Zenon DEF RmppInv, RmppTypeOK, Packet, PacketSound
<1>3. a.seg \in 1..MaxSeg /\ a.arg \in Nat /\ out.total_seg \in 1..MaxSeg /\ MaxSeg \in Nat
  BY Zenon, <1>1, <1>2, RmppAssumption DEF Packet, OutRec
<1>4. PICK m : m = Min({a.arg, out.total_seg})
  BY Zenon
<1>5. m \in 0..MaxSeg /\ m <= a.arg /\ m <= out.total_seg
  BY <1>3, <1>4, MinOfTwo
<1>6. PICK s : s = [out EXCEPT !.ack_seg = a.seg, !.cur_seg = a.seg + 1, !.seg_limit = m]
  BY Zenon
<1>7. s \in OutRec
  <2>1. a.seg \in 0..MaxSeg /\ a.seg + 1 \in 1..(MaxSeg + 1)
    BY <1>3
  <2> QED
    BY <1>1, <1>5, <1>6, <2>1, Zenon DEF OutRec
<1>8. /\ s.ack_seg = a.seg /\ s.cur_seg = a.seg + 1 /\ s.total_seg = out.total_seg
      /\ s.seg_limit = m /\ s.state = "listed"
  BY Zenon, <1>1, <1>6, <1>7 DEF OutRec
<1>9. SendSound(s)
  BY <1>1, <1>2, <1>3, <1>5, <1>7, <1>8 DEF SendSound
<1>10. \/ out' = s /\ packets' = packets
       \/ s.ack_seg = s.total_seg /\ End(s, "success")
       \/ s.ack_seg < s.seg_limit /\ QueueSeg(s)
  BY <1>4, <1>6, Zenon DEF ProcessAck
<1>11. CASE out' = s /\ packets' = packets
  BY <1>1, <1>8, <1>9, <1>11, WaitKeeps, Zenon
<1>12. CASE s.ack_seg = s.total_seg /\ End(s, "success")
  <2>1. delivered
    BY <1>3, <1>8, <1>9, <1>12, AckedDelivered
  <2> QED
    BY <1>1, <1>8, <1>9, <1>12, <2>1, EndKeeps, Zenon
<1>13. CASE s.ack_seg < s.seg_limit /\ QueueSeg(s)
  <2>1. s.cur_seg <= s.seg_limit
    BY <1>3, <1>5, <1>8, <1>13
  <2> QED
    BY <1>1, <1>8, <1>9, <1>13, <2>1, QueueKeeps, Zenon
<1> QED
  BY Zenon, <1>10, <1>11, <1>12, <1>13

(* A step of the receiver, which acknowledges what the invariant allows.   *)
AsmRec == [on : BOOLEAN, inactive : BOOLEAN, expected_seg : 1..(MaxSeg + 1),
           seg_limit : Nat, single : BOOLEAN]
LEMMA ReceiveKeeps ==
  ASSUME RmppInv, NEW a, out' = out, asm' \in AsmRec,
         \/ packets' = packets
         \/ packets' = packets \cup {a} /\ a \in Packet /\ a.type = "ACK" /\ PacketSound(a, out.total_seg)',
         delivered' \in BOOLEAN, delivered => delivered', overrun' \in BOOLEAN,
         resize_fail' \in 0..MaxResizeFail, overrun' => resize_fail' > 0,
         AsmSound(out.total_seg)', out.state # "new"
  PROVE  RmppInv'
<1>1. RmppTypeOK'
  <2>1. packets \subseteq Packet
    BY Zenon DEF RmppInv, RmppTypeOK, Packet
  <2>2. packets' \subseteq Packet
    BY Zenon, <2>1
  <2> QED
    BY <2>2, Zenon DEF RmppInv, RmppTypeOK, AsmRec, Packet
<1>2. SendSound(out)'
  BY Zenon DEF RmppInv, SendSound
<1>3. \A p \in packets' : PacketSound(p, out.total_seg)'
  BY Zenon DEF RmppInv, PacketSound
<1>4. WindowKept'
  BY Zenon DEF RmppInv, WindowKept
<1> QED
  BY Zenon, <1>1, <1>2, <1>3, <1>4 DEF RmppInv, SuccessMeansDelivered

(* The acknowledgement of a transfer names the last segment in order.      *)
LEMMA AckTyped ==
  ASSUME NEW r \in AsmRec, r.expected_seg - 1 \in 1..MaxSeg, NEW a, a = GetAck(r)
  PROVE  a \in Packet /\ a.type = "ACK" /\ a.seg = r.expected_seg - 1
<1>1. PICK w \in Nat : a = [type |-> "ACK", seg |-> r.expected_seg - 1, arg |-> w]
  BY DEF GetAck, Ack, AsmRec
<1>2. a \in Packet
  BY <1>1 DEF Packet
<1> QED
  BY <1>1, <1>2

(* A segment, in order, repeated or out of order.                          *)
LEMMA ProcessDataKeeps ==
  ASSUME RmppInv, NEW d \in packets, ProcessData(d)
  PROVE  RmppInv'
<1>1. PICK r : r = IF asm.on THEN asm ELSE [NoAsm EXCEPT !.on = TRUE, !.single = (d.arg = 1)]
  BY Zenon
<1>2. PICK n : n = out.total_seg
  BY Zenon
<1>3. /\ d.type = "DATA" /\ out' = out /\ (asm.on \/ d.seg = 1)
      /\ \/ d.seg = r.expected_seg /\ ProcessSegment(r, d)
         \/ /\ d.seg < r.expected_seg /\ packets' = packets \cup {GetAck(r)}
            /\ UNCHANGED <<asm, delivered, resize_fail, overrun>>
  BY <1>1, Zenon DEF ProcessData
<1>4. /\ d \in Packet /\ n \in 1..MaxSeg /\ MaxSeg \in Nat /\ d.seg \in 1..MaxSeg /\ d.arg \in Nat
      /\ d.seg <= n /\ d.arg = IF d.seg = n THEN 1 ELSE 0
  BY Zenon, <1>2, <1>3, RmppAssumption DEF RmppInv, RmppTypeOK, Packet, PacketSound
<1>5. asm \in AsmRec /\ out.state # "new" /\ delivered \in BOOLEAN /\ overrun \in BOOLEAN
      /\ resize_fail \in 0..MaxResizeFail /\ (overrun => resize_fail > 0)
  BY Zenon DEF RmppInv, RmppTypeOK, AsmRec, WindowKept
<1>6. /\ r \in AsmRec /\ r.on /\ r.expected_seg <= n /\ r.expected_seg \in Nat /\ r.seg_limit \in Nat
      /\ resize_fail = 0 => r.expected_seg <= r.seg_limit
  <2>1. CASE asm.on
    BY <1>1, <1>2, <1>5, <2>1 DEF RmppInv, AsmSound, AsmRec
  <2>2. CASE ~asm.on
    <3>1. r = [on |-> TRUE, inactive |-> FALSE, expected_seg |-> 1, seg_limit |-> 1, single |-> (d.arg = 1)]
      BY <1>1, <2>2, Zenon DEF NoAsm
    <3>2. 1 \in 1..(MaxSeg + 1) /\ 1 \in Nat
      BY <1>4
    <3>3. r \in AsmRec
      BY <3>1, <3>2, Zenon DEF AsmRec
    <3> QED
      BY <1>4, <3>1, <3>3
  <2> QED
    BY Zenon, <2>1, <2>2
<1>7. CASE d.seg < r.expected_seg /\ packets' = packets \cup {GetAck(r)}
           /\ UNCHANGED <<asm, delivered, resize_fail, overrun>>
  <2>1. PICK a : a = GetAck(r)
    BY Zenon
  <2>2. a \in Packet /\ a.type = "ACK" /\ a.seg = r.expected_seg - 1
    BY <1>4, <1>6, <1>7, <2>1, AckTyped
  <2>3. PacketSound(a, out.total_seg)'
    BY <1>2, <1>3, <1>4, <1>6, <2>2 DEF PacketSound
  <2>4. AsmSound(out.total_seg)'
    BY Zenon, <1>3, <1>7 DEF RmppInv, AsmSound
  <2> QED
    BY <1>3, <1>5, <1>7, <2>1, <2>2, <2>3, <2>4, ReceiveKeeps, Zenon
<1>8. CASE d.seg = r.expected_seg /\ ProcessSegment(r, d)
  <2>1. PICK next : next = [r EXCEPT !.expected_seg = r.expected_seg + 1, !.inactive = FALSE]
    BY Zenon
  <2>2. /\ next \in AsmRec /\ next.expected_seg = d.seg + 1 /\ next.seg_limit = r.seg_limit /\ next.on
    <3>1. r.expected_seg + 1 \in 1..(MaxSeg + 1)
      BY <1>4, <1>6
    <3>2. next \in AsmRec
      BY <1>6, <2>1, <3>1, Zenon DEF AsmRec
    <3> QED
      BY Zenon, <1>6, <1>8, <2>1, <3>2 DEF AsmRec
  <2>3. PICK wider : wider = [next EXCEPT !.seg_limit = next.seg_limit + Window]
    BY Zenon
  <2>4. /\ wider \in AsmRec /\ wider.expected_seg = d.seg + 1 /\ wider.seg_limit = r.seg_limit + Window
        /\ wider.on
    <3>1. next.seg_limit + Window \in Nat
      BY <1>6, <2>2, RmppAssumption
    <3>2. wider \in AsmRec
      BY <2>2, <2>3, <3>1, Zenon DEF AsmRec
    <3> QED
      BY Zenon, <2>2, <2>3, <3>2 DEF AsmRec
  <2>5. /\ overrun' = (overrun \/ d.seg > r.seg_limit)
        /\ \/ /\ d.arg = 1 /\ asm' = NoAsm /\ delivered' = TRUE
              /\ packets' = packets \cup {GetAck(next)} /\ resize_fail' = resize_fail
           \/ /\ d.arg = 0 /\ d.seg # r.seg_limit /\ asm' = next
              /\ UNCHANGED <<packets, delivered, resize_fail>>
           \/ /\ d.arg = 0 /\ d.seg = r.seg_limit /\ asm' = wider
              /\ packets' = packets \cup {GetAck(wider)} /\ UNCHANGED <<delivered, resize_fail>>
           \/ /\ d.arg = 0 /\ d.seg = r.seg_limit /\ resize_fail < MaxResizeFail /\ asm' = next
              /\ resize_fail' = resize_fail + 1 /\ UNCHANGED <<packets, delivered>>
    BY <1>6, <1>8, <2>1, <2>3, Zenon DEF ProcessSegment, AsmRec
  <2>6. overrun' \in BOOLEAN /\ (overrun' => resize_fail > 0)
    BY <1>4, <1>5, <1>6, <1>8, <2>5, RmppAssumption
  <2>7. CASE /\ d.arg = 1 /\ asm' = NoAsm /\ delivered' = TRUE
             /\ packets' = packets \cup {GetAck(next)} /\ resize_fail' = resize_fail
    <3>1. PICK a : a = GetAck(next)
      OBVIOUS
    <3>2. a \in Packet /\ a.type = "ACK" /\ a.seg = d.seg
      BY <1>4, <2>2, <3>1, AckTyped
    <3>3. PacketSound(a, out.total_seg)'
      BY Zenon, <1>2, <1>3, <1>4, <2>7, <3>2 DEF PacketSound
    <3>4. asm' \in AsmRec /\ AsmSound(out.total_seg)'
      BY <1>4, <2>7 DEF NoAsm, AsmRec, AsmSound
    <3> QED
      BY <1>3, <1>5, <2>6, <2>7, <3>1, <3>2, <3>3, <3>4, ReceiveKeeps, Zenon
  <2>8. CASE /\ d.arg = 0 /\ d.seg # r.seg_limit /\ asm' = next
             /\ UNCHANGED <<packets, delivered, resize_fail>>
    <3>1. AsmSound(out.total_seg)'
      BY <1>2, <1>3, <1>4, <1>5, <1>6, <1>8, <2>2, <2>8 DEF AsmSound
    <3> QED
      BY <1>3, <1>5, <2>2, <2>6, <2>8, <3>1, ReceiveKeeps, Zenon
  <2>9. CASE /\ d.arg = 0 /\ d.seg = r.seg_limit /\ asm' = wider
             /\ packets' = packets \cup {GetAck(wider)} /\ UNCHANGED <<delivered, resize_fail>>
    <3>1. PICK a : a = GetAck(wider)
      OBVIOUS
    <3>2. a \in Packet /\ a.type = "ACK" /\ a.seg = d.seg
      BY <1>4, <2>4, <3>1, AckTyped
    <3>3. PacketSound(a, out.total_seg)'
      BY <1>2, <1>3, <1>4, <2>9, <3>2 DEF PacketSound
    <3>4. AsmSound(out.total_seg)'
      BY <1>2, <1>3, <1>4, <1>6, <1>8, <2>4, <2>9, RmppAssumption DEF AsmSound
    <3> QED
      BY <1>3, <1>5, <2>4, <2>6, <2>9, <3>1, <3>2, <3>3, <3>4, ReceiveKeeps, Zenon
  <2>10. CASE /\ d.arg = 0 /\ d.seg = r.seg_limit /\ resize_fail < MaxResizeFail /\ asm' = next
              /\ resize_fail' = resize_fail + 1 /\ UNCHANGED <<packets, delivered>>
    <3>1. resize_fail' \in 0..MaxResizeFail /\ resize_fail' > 0
      BY <1>5, <2>10, RmppAssumption
    <3>2. AsmSound(out.total_seg)'
      BY <1>2, <1>3, <1>4, <2>2, <2>10, <3>1 DEF AsmSound
    <3> QED
      BY <1>3, <1>5, <2>2, <2>6, <2>10, <3>1, <3>2, ReceiveKeeps, Zenon
  <2> QED
    BY <2>5, <2>7, <2>8, <2>9, <2>10, Zenon
<1> QED
  BY Zenon, <1>3, <1>7, <1>8

(* The receiver's timer gives an unfinished transfer up.                   *)
LEMMA RecvTimerKeeps ==
  ASSUME RmppInv, RecvTimer
  PROVE  RmppInv'
<1>1. asm \in AsmRec /\ asm.on /\ out.state # "new"
  BY Zenon DEF RmppInv, RmppTypeOK, AsmRec, RecvTimer
<1>2. asm' \in AsmRec
  <2>1. 1 \in 1..(MaxSeg + 1) /\ 1 \in Nat
    BY RmppAssumption
  <2> QED
    BY <1>1, <2>1, Zenon DEF RecvTimer, AsmRec, NoAsm
<1>3. asm'.on => asm'.expected_seg = asm.expected_seg /\ asm'.seg_limit = asm.seg_limit
  BY Zenon, <1>1, <1>2 DEF RecvTimer, AsmRec, NoAsm
<1>4. AsmSound(out.total_seg)'
  BY Zenon, <1>1, <1>3 DEF RmppInv, AsmSound, RecvTimer
<1>5. /\ delivered' \in BOOLEAN /\ overrun' \in BOOLEAN /\ resize_fail' \in 0..MaxResizeFail
      /\ overrun' => resize_fail' > 0
  BY Zenon DEF RmppInv, RmppTypeOK, WindowKept, RecvTimer
<1>6. packets' = packets /\ out' = out /\ delivered' = delivered
  BY Zenon DEF RecvTimer
<1> QED
  BY <1>1, <1>2, <1>4, <1>5, <1>6, ReceiveKeeps, Zenon

(* The invariant of the transfer holds in every reachable state.           *)
LEMMA RmppInvariant == RmppSpec => []RmppInv
<1>1. RmppInv /\ [RmppNext]_rmppvars => RmppInv'
  <2> SUFFICES ASSUME RmppInv, [RmppNext]_rmppvars PROVE RmppInv'
    BY Zenon
  <2>1. CASE UNCHANGED rmppvars
    BY <2>1 DEF rmppvars, RmppInv, RmppTypeOK, SendSound, AsmSound, PacketSound, WindowKept,
                SuccessMeansDelivered
  <2>2. CASE RmppNext
    BY <2>2, RmppSendKeeps, RmppSendDoneKeeps, ProcessAckKeeps, ProcessDataKeeps, ProcessNackKeeps,
       RmppCancelKeeps, RmppSendTimerKeeps, RecvTimerKeeps, Zenon DEF RmppNext
  <2> QED
    BY Zenon, <2>1, <2>2
<1> QED
  BY <1>1, RmppInitial, PTL DEF RmppSpec

(* Whatever the network does, a multi-packet send is reported as a success *)
(* (__mad_svc_send_done, __process_rmpp_ack) only once the receiver has    *)
(* reassembled the MAD and given it to its client: for any number of       *)
(* segments, window and number of retries.                                 *)
THEOREM SuccessDelivered == RmppSpec => []SuccessMeansDelivered
<1>1. RmppInv => SuccessMeansDelivered
  BY Zenon DEF RmppInv
<1> QED
  BY <1>1, RmppInvariant, PTL

(* No segment is posted outside the window that an acknowledgement opened  *)
(* (the assertion of __queue_rmpp_seg), and the receiver overruns its      *)
(* buffer only after al_resize_mad has failed.                             *)
THEOREM WindowRespected == RmppSpec => []WindowKept
<1>1. RmppInv => WindowKept
  BY Zenon DEF RmppInv
<1> QED
  BY <1>1, RmppInvariant, PTL
=============================================================================
