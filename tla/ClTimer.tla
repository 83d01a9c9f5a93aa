------------------------------ MODULE ClTimer -------------------------------
(***************************************************************************)
(* cl_timer of the component library, in its kernel version (a KTIMER with *)
(* a DPC, complib/kernel/cl_timer.c) and its user version (a timer-queue   *)
(* timer, complib/user/cl_timer.c).  The threads of a client start, trim,  *)
(* stop and at last destroy a timer, and its callback may start it again   *)
(* just before it returns, as __recv_timer_cb of al_mad.c does.            *)
(*                                                                         *)
(* The timers, DPCs and timer threads of the operating system are external *)
(* and modelled from how they are used: a DPC is off the queue when it     *)
(* runs, so that it can be queued and run again on another processor.      *)
(***************************************************************************)
EXTENDS Integers, FiniteSetsExt

CONSTANTS
    Cpu,          \* processors, or threads of the timer queue
    Interval,     \* the intervals the client asks for
    MaxNow        \* bound: the clock

ASSUME TimerAssumption ==
    Interval \subseteq Nat \ {0} /\ MaxNow \in Nat \ {0}

VARIABLES
    kind,         \* which version of cl_timer this is
    now,          \* cl_get_time_stamp
    timeout_time, \* of cl_timer_t, 0 when it is stopped
    due,          \* when the KTIMER or the queue's timer expires, 0 for never
    dpc,          \* the DPC is queued
    cpu,          \* where each callback of the timer stands
    teardown,     \* where cl_timer_destroy stands
    wanted,       \* the earliest time asked for since the last callback, or 0
    rearmed,      \* the callback has started the timer under cl_timer_destroy
    late          \* a callback began after cl_timer_destroy had returned

timervars == <<kind, now, timeout_time, due, dpc, cpu, teardown, wanted, rearmed, late>>

TimerTime == 0..MaxNow

(* cb_lock lets one callback run at a time.                                *)
TimerTypeOK ==
    /\ kind \in {"kernel", "user"}
    /\ now \in TimerTime \ {0} /\ timeout_time \in TimerTime /\ due \in TimerTime /\ wanted \in TimerTime
    /\ cpu \in [Cpu -> {"idle", "begin", "clear", "callback"}]
    /\ \A c, d \in Cpu : cpu[c] = "callback" /\ cpu[d] = "callback" => c = d
    /\ teardown \in {"none", "flush", "done"}
    /\ dpc \in BOOLEAN /\ rearmed \in BOOLEAN /\ late \in BOOLEAN

TimerInit ==
    /\ kind \in {"kernel", "user"}
    /\ now = 1 /\ timeout_time = 0 /\ due = 0 /\ wanted = 0 /\ dpc = FALSE
    /\ cpu = [c \in Cpu |-> "idle"]
    /\ teardown = "none" /\ rearmed = FALSE /\ late = FALSE

CallbackRuns == \E c \in Cpu : cpu[c] = "callback"

-----------------------------------------------------------------------------
(* The functions of cl_timer, for the client and for its callback *)

TimerSet(t) == timeout_time' = t /\ due' = t

(* cl_timer_trim: a time is only pulled in.                                *)
TrimTo(t) ==
    /\ IF timeout_time = 0 \/ timeout_time > t THEN TimerSet(t) ELSE UNCHANGED <<timeout_time, due>>
    /\ wanted' = IF wanted = 0 THEN t ELSE Min({wanted, t})

(* cl_timer_start: the user's is cl_timer_trim.                            *)
StartTo(t) ==
    \/ kind = "kernel" /\ TimerSet(t) /\ wanted' = t
    \/ kind = "user" /\ TrimTo(t)

TmrClient == teardown = "none" /\ UNCHANGED <<kind, now, cpu, rearmed, late>>

TmrStart(i) == TmrClient /\ now + i <= MaxNow /\ StartTo(now + i) /\ UNCHANGED <<dpc, teardown>>
TmrTrim(i) == TmrClient /\ now + i <= MaxNow /\ TrimTo(now + i) /\ UNCHANGED <<dpc, teardown>>

(* cl_timer_stop: KeCancelTimer, which may or may not find a DPC that is   *)
(* queued already; the user's waits for a callback that runs.              *)
StopIt ==
    /\ kind = "user" => ~CallbackRuns
    /\ TimerSet(0) /\ wanted' = 0
    /\ \E kept \in BOOLEAN : dpc' = (dpc /\ kept)

TmrStop == TmrClient /\ StopIt /\ UNCHANGED teardown

(* cl_timer_destroy: the kernel's stops the timer and flushes the DPCs,    *)
(* DeleteTimerQueueTimer deletes the timer and waits for its callbacks.    *)
TmrDestroy ==
    /\ TmrClient /\ teardown' = "flush"
    /\ \/ kind = "kernel" /\ StopIt
       \/ kind = "user" /\ due' = 0 /\ wanted' = 0 /\ UNCHANGED <<timeout_time, dpc>>

(* Mutant: callbacks that have begun are not waited for.                   *)
TmrFlush_Queued ==
    /\ teardown = "flush" /\ teardown' = "done" /\ ~dpc
    /\ UNCHANGED <<kind, now, timeout_time, due, dpc, cpu, wanted, rearmed, late>>

TmrFlush ==
    /\ teardown = "flush" /\ teardown' = "done"
    /\ ~dpc /\ \A c \in Cpu : cpu[c] = "idle"
    /\ UNCHANGED <<kind, now, timeout_time, due, dpc, cpu, wanted, rearmed, late>>

-----------------------------------------------------------------------------
(* The timer expires *)

(* Time passes; how much matters only while the timer is set.              *)
TimerTick ==
    /\ timeout_time # 0 \/ due # 0
    /\ now < MaxNow /\ now' = now + 1
    /\ UNCHANGED <<kind, timeout_time, due, dpc, cpu, teardown, wanted, rearmed, late>>

(* The KTIMER queues its DPC; the timer queue starts a thread.             *)
TimerExpire ==
    /\ due # 0 /\ due <= now /\ due' = 0
    /\ \/ kind = "kernel" /\ dpc' = TRUE /\ UNCHANGED cpu
       \/ kind = "user" /\ UNCHANGED dpc
          /\ \E c \in Cpu : cpu[c] = "idle" /\ cpu' = [cpu EXCEPT ![c] = "begin"]
    /\ UNCHANGED <<kind, now, timeout_time, teardown, wanted, rearmed, late>>

DpcRun(c) ==
    /\ dpc /\ cpu[c] = "idle"
    /\ dpc' = FALSE /\ cpu' = [cpu EXCEPT ![c] = "begin"]
    /\ UNCHANGED <<kind, now, timeout_time, due, teardown, wanted, rearmed, late>>

(* Mutant: the time that has passed is left standing.                      *)
DpcClear_Kept(c) ==
    /\ kind = "kernel" /\ cpu[c] = "begin" /\ cpu' = [cpu EXCEPT ![c] = "clear"]
    /\ UNCHANGED <<kind, now, due, dpc, teardown, wanted, rearmed, late, timeout_time>>

(* __timer_callback of the kernel: under spinlock, then under cb_lock.     *)
DpcClear(c) ==
    /\ kind = "kernel" /\ cpu[c] = "begin" /\ cpu' = [cpu EXCEPT ![c] = "clear"]
    /\ timeout_time' = 0
    /\ UNCHANGED <<kind, now, due, dpc, teardown, wanted, rearmed, late>>

DpcCall(c) ==
    /\ cpu[c] = "clear" /\ ~CallbackRuns /\ cpu' = [cpu EXCEPT ![c] = "callback"]
    /\ wanted' = 0 /\ late' = (late \/ teardown = "done")
    /\ UNCHANGED <<kind, now, timeout_time, due, dpc, teardown, rearmed>>

(* __timer_callback of the user version, which looks at timeout_time: "If  *)
(* timeout_time is 0, the timer has been stopped."                         *)
UserCall(c) ==
    /\ kind = "user" /\ cpu[c] = "begin" /\ ~CallbackRuns
    /\ timeout_time' = 0
    /\ \/ /\ timeout_time # 0 /\ cpu' = [cpu EXCEPT ![c] = "callback"]
          /\ wanted' = 0 /\ late' = (late \/ teardown = "done")
       \/ /\ timeout_time = 0 /\ cpu' = [cpu EXCEPT ![c] = "idle"]
          /\ UNCHANGED <<wanted, late>>
    /\ UNCHANGED <<kind, now, due, dpc, teardown, rearmed>>

(* The callback returns, or starts the timer again and returns.  A timer   *)
(* that is being deleted is not changed by ChangeTimerQueueTimer.          *)
CallbackEnds(c) ==
    /\ cpu[c] = "callback" /\ cpu' = [cpu EXCEPT ![c] = "idle"]
    /\ \/ UNCHANGED <<timeout_time, due, wanted, rearmed>>
       \/ /\ kind = "kernel" \/ teardown = "none"
          /\ \E i \in Interval : now + i <= MaxNow /\ StartTo(now + i)
          /\ rearmed' = (rearmed \/ teardown # "none")
    /\ UNCHANGED <<kind, now, dpc, teardown, late>>

CpuStep(c) == DpcRun(c) \/ DpcClear(c) \/ DpcCall(c) \/ UserCall(c) \/ CallbackEnds(c)

-----------------------------------------------------------------------------
TimerNext ==
    \/ \E i \in Interval : TmrStart(i) \/ TmrTrim(i)
    \/ TmrStop \/ TmrDestroy \/ TmrFlush \/ TimerTick \/ TimerExpire
    \/ \E c \in Cpu : CpuStep(c)

(* Time passes, DPCs and timer threads run.                                *)
TimerFairness ==
    /\ WF_timervars(TimerTick) /\ WF_timervars(TimerExpire) /\ WF_timervars(TmrFlush)
    /\ \A c \in Cpu : WF_timervars(CpuStep(c))

TimerSpec == TimerInit /\ [][TimerNext]_timervars /\ TimerFairness

-----------------------------------------------------------------------------
(* Properties *)

(* No time that was asked for is lost.  A callback that is running or      *)
(* waiting for cb_lock, and the clearing of timeout_time in it, may fall   *)
(* anywhere among calls of cl_timer_start and cl_timer_trim: until the     *)
(* next callback begins, either the timer expires by the earliest time     *)
(* asked for or a callback is on its way, which in the user version is not *)
(* one that will find the timer stopped.                                   *)
NoLostExpiry ==
    wanted # 0 =>
        /\ \/ due # 0 /\ due <= wanted
           \/ dpc
           \/ \E c \in Cpu : cpu[c] \in {"begin", "clear"}
        /\ kind = "user" => timeout_time # 0

(* cl_timer_destroy "ensures that no callbacks occur after the timer is    *)
(* destroyed", as long as the callback does not start the timer between    *)
(* the stop and the flush.  If it does, the kernel timer is left running:  *)
(* KeFlushQueuedDpcs waits for the callback and not for what it set.       *)
DestroyQuiesces == late => kind = "kernel" /\ rearmed

=============================================================================
