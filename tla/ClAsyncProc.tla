----------------------------- MODULE ClAsyncProc -----------------------------
(***************************************************************************)
(* The asynchronous processor of the component library                     *)
(* (core/complib/cl_async_proc.c) and the thread pool that drives it       *)
(* (core/complib/cl_threadpool.c).  AL destroys its objects, delivers PnP  *)
(* events and runs completions through three of these.                     *)
(*                                                                         *)
(* A step is what a thread does between two points where another thread    *)
(* can interfere: the queue is touched only under the spinlock, so each    *)
(* critical section is one step; an event is signalled after the lock is   *)
(* released, so that is a step of its own.                                 *)
(***************************************************************************)
EXTENDS Integers, Sequences, FiniteSets

CONSTANTS Workers,      \* the threads cl_thread_pool_init creates
          Clients,      \* threads that call cl_async_proc_queue
          Owner,        \* the thread that calls _init and then _destroy
          Items,        \* cl_async_proc_item_t structures
          NoItem,
          MaxRuns       \* bound: how often one item is queued

ASSUME ThreadAssumption ==
    /\ Owner \notin Workers \cup Clients
    /\ Workers \cap Clients = {}
    /\ NoItem \notin Items
    /\ MaxRuns \in Nat

VARIABLES apState,        \* cl_async_proc_t.state
          item_queue,     \* cl_async_proc_t.item_queue
          tpState,        \* cl_thread_pool_t.state
          exit,           \* cl_thread_pool_t.exit
          running_count,  \* cl_thread_pool_t.running_count
          wakeup_event,   \* auto-reset: TRUE when signalled
          destroy_event,  \* auto-reset: TRUE when signalled
          pc,             \* where each thread is
          held,           \* the item whose callback a thread is running
          queued, ran     \* how often each item was queued and was run

vars == <<apState, item_queue, tpState, exit, running_count, wakeup_event,
          destroy_event, pc, held, queued, ran>>

pool == <<apState, tpState, exit, running_count, destroy_event>>

Threads == Workers \cup Clients \cup {Owner}

InQueue(i) == \E k \in DOMAIN item_queue : item_queue[k] = i

(* The caller of cl_async_proc_queue owns the item: it is neither linked   *)
(* into the queue nor waiting for its callback to start.                   *)
Free(i) == /\ ~InQueue(i)
           /\ queued[i] = ran[i]
           /\ queued[i] < MaxRuns

Init == /\ apState = "CL_UNINITIALIZED"
        /\ item_queue = << >>
        /\ tpState = "CL_UNINITIALIZED"
        /\ exit = FALSE
        /\ running_count = 0
        /\ wakeup_event = FALSE
        /\ destroy_event = FALSE
        /\ pc = [t \in Threads |->
                    IF t \in Workers THEN "off"
                    ELSE IF t = Owner THEN "init" ELSE "idle"]
        /\ held = [t \in Threads |-> NoItem]
        /\ queued = [i \in Items |-> 0]
        /\ ran = [i \in Items |-> 0]

-----------------------------------------------------------------------------
(* cl_thread_pool_init, the loop at 136-174: a thread runs from the moment *)
(* it is created, before the running count says so.                        *)
CreateThread(w) ==
    /\ pc[Owner] = "init"
    /\ pc[w] = "off"
    /\ pc' = [pc EXCEPT ![Owner] = "count", ![w] = "top"]
    /\ UNCHANGED <<apState, item_queue, tpState, exit, running_count,
                   wakeup_event, destroy_event, held, queued, ran>>

CountThread ==
    /\ pc[Owner] = "count"
    /\ running_count' = running_count + 1
    /\ pc' = [pc EXCEPT ![Owner] = "init"]
    /\ UNCHANGED <<apState, item_queue, tpState, exit, wakeup_event,
                   destroy_event, held, queued, ran>>

InitDone ==
    /\ pc[Owner] = "init"
    /\ \A w \in Workers : pc[w] # "off"
    /\ tpState' = "CL_INITIALIZED"
    /\ apState' = "CL_INITIALIZED"
    /\ pc' = [pc EXCEPT ![Owner] = "idle"]
    /\ UNCHANGED <<item_queue, exit, running_count, wakeup_event,
                   destroy_event, held, queued, ran>>

(* An allocation or a thread creation fails: the pool is destroyed with    *)
(* the threads it has, and cl_async_proc_init destroys the rest.           *)
InitFail ==
    /\ pc[Owner] = "init"
    /\ \E w \in Workers : pc[w] = "off"
    /\ pc' = [pc EXCEPT ![Owner] = "exit"]
    /\ UNCHANGED <<pool, item_queue, wakeup_event, held, queued, ran>>

-----------------------------------------------------------------------------
(* cl_async_proc_queue, up to the release of the spinlock, by a client or  *)
(* by a callback that queues another item.                                 *)
Insert(t, i) ==
    /\ Free(i)
    /\ item_queue' = Append(item_queue, i)
    /\ queued' = [queued EXCEPT ![i] = @ + 1]
    /\ pc' = [pc EXCEPT ![t] = "signal"]

ClientQueue(c) ==
    /\ pc[c] = "idle"
    /\ apState = "CL_INITIALIZED"
    /\ pc[Owner] = "idle"
    /\ \E i \in Items : Insert(c, i)
    /\ UNCHANGED <<pool, wakeup_event, held, ran>>

(* Mutant: the item is inserted and the pool is not signalled.             *)
Signal_Dropped(t) ==
    /\ pc[t] = "signal"
    /\ pc' = [pc EXCEPT ![t] = IF t \in Clients THEN "idle" ELSE "drain"]
    /\ UNCHANGED <<pool, item_queue, wakeup_event, held, queued, ran>>

(* cl_thread_pool_signal: the tail of cl_async_proc_queue.                 *)
Signal(t) ==
    /\ pc[t] = "signal"
    /\ wakeup_event' = TRUE
    /\ pc' = [pc EXCEPT ![t] = IF t \in Clients THEN "idle" ELSE "drain"]
    /\ UNCHANGED <<pool, item_queue, held, queued, ran>>

-----------------------------------------------------------------------------
(* __cl_thread_pool_routine.                                               *)
TestExit(w) ==
    /\ pc[w] = "top"
    /\ pc' = [pc EXCEPT ![w] = IF exit THEN "dec" ELSE "wait"]
    /\ UNCHANGED <<pool, item_queue, wakeup_event, held, queued, ran>>

(* The wait ends by consuming the auto-reset event.                        *)
Wake(w) ==
    /\ pc[w] = "wait"
    /\ wakeup_event
    /\ wakeup_event' = FALSE
    /\ pc' = [pc EXCEPT ![w] = "woken"]
    /\ UNCHANGED <<pool, item_queue, held, queued, ran>>

TestWoken(w) ==
    /\ pc[w] = "woken"
    /\ pc' = [pc EXCEPT ![w] = IF exit THEN "dec" ELSE "drain"]
    /\ UNCHANGED <<pool, item_queue, wakeup_event, held, queued, ran>>

DecRunning(w) ==
    /\ pc[w] = "dec"
    /\ running_count' = running_count - 1
    /\ pc' = [pc EXCEPT ![w] = "sigd"]
    /\ UNCHANGED <<apState, item_queue, tpState, exit, wakeup_event,
                   destroy_event, held, queued, ran>>

SignalDestroy(w) ==
    /\ pc[w] = "sigd"
    /\ destroy_event' = TRUE
    /\ pc' = [pc EXCEPT ![w] = "gone"]
    /\ UNCHANGED <<apState, item_queue, tpState, exit, running_count,
                   wakeup_event, held, queued, ran>>

-----------------------------------------------------------------------------
(* Mutant: the test against cl_qlist_end is missing, so the list head is   *)
(* taken for an item when the queue is empty.                              *)
Take_NoEndTest(t) ==
    /\ pc[t] = "drain"
    /\ IF item_queue = << >>
         THEN /\ held' = [held EXCEPT ![t] = "cl_qlist_end"]
              /\ UNCHANGED <<item_queue, ran>>
         ELSE /\ held' = [held EXCEPT ![t] = Head(item_queue)]
              /\ item_queue' = Tail(item_queue)
              /\ ran' = [ran EXCEPT ![Head(item_queue)] = @ + 1]
    /\ pc' = [pc EXCEPT ![t] = "callback"]
    /\ UNCHANGED <<pool, wakeup_event, queued>>

(* __cl_async_proc_worker, run by a pool thread or, after the pool is      *)
(* gone, by the destroying thread.                                         *)
Take(t) ==
    /\ pc[t] = "drain"
    /\ item_queue # << >>
    /\ held' = [held EXCEPT ![t] = Head(item_queue)]
    /\ item_queue' = Tail(item_queue)
    /\ ran' = [ran EXCEPT ![Head(item_queue)] = @ + 1]
    /\ pc' = [pc EXCEPT ![t] = "callback"]
    /\ UNCHANGED <<pool, wakeup_event, queued>>

QueueEmpty(t) ==
    /\ pc[t] = "drain"
    /\ item_queue = << >>
    /\ pc' = [pc EXCEPT ![t] = IF t = Owner THEN "close" ELSE "top"]
    /\ UNCHANGED <<pool, item_queue, wakeup_event, held, queued, ran>>

(* The callback returns, having queued at most one more item.              *)
CallbackReturns(t) ==
    /\ pc[t] = "callback"
    /\ held' = [held EXCEPT ![t] = NoItem]
    /\ \/ /\ pc' = [pc EXCEPT ![t] = "drain"]
          /\ UNCHANGED <<item_queue, queued>>
       \/ \E i \in Items : Insert(t, i)
    /\ UNCHANGED <<pool, wakeup_event, ran>>

-----------------------------------------------------------------------------
(* cl_async_proc_destroy and cl_thread_pool_destroy.  The caller has       *)
(* stopped its own calls of cl_async_proc_queue; callbacks go on.          *)
BeginDestroy ==
    /\ pc[Owner] = "idle"
    /\ \A c \in Clients : pc[c] = "idle"
    /\ pc' = [pc EXCEPT ![Owner] = "exit"]
    /\ UNCHANGED <<pool, item_queue, wakeup_event, held, queued, ran>>

SetExit ==
    /\ pc[Owner] = "exit"
    /\ exit' = TRUE
    /\ pc' = [pc EXCEPT ![Owner] = "loop"]
    /\ UNCHANGED <<apState, item_queue, tpState, running_count, wakeup_event,
                   destroy_event, held, queued, ran>>

(* Mutant: the loop waits for destroy_event without waking a thread.       *)
DestroyLoop_NoSignal ==
    /\ pc[Owner] = "loop"
    /\ pc' = [pc EXCEPT ![Owner] = IF running_count # 0 THEN "waitd" ELSE "join"]
    /\ UNCHANGED <<pool, item_queue, wakeup_event, held, queued, ran>>

DestroyLoop ==
    /\ pc[Owner] = "loop"
    /\ IF running_count # 0
         THEN wakeup_event' = TRUE /\ pc' = [pc EXCEPT ![Owner] = "waitd"]
         ELSE UNCHANGED wakeup_event /\ pc' = [pc EXCEPT ![Owner] = "join"]
    /\ UNCHANGED <<pool, item_queue, held, queued, ran>>

(* The wait for destroy_event: it was signalled, or two seconds passed.    *)
DestroyWait ==
    /\ pc[Owner] = "waitd"
    /\ destroy_event' = FALSE
    /\ pc' = [pc EXCEPT ![Owner] = "loop"]
    /\ UNCHANGED <<apState, item_queue, tpState, exit, running_count,
                   wakeup_event, held, queued, ran>>

(* cl_thread_destroy waits for each thread; then the events are destroyed. *)
(* What is still queued is flushed only if the processor was initialized.  *)
Join ==
    /\ pc[Owner] = "join"
    /\ \A w \in Workers : pc[w] \in {"off", "gone"}
    /\ tpState' = "CL_UNINITIALIZED"
    /\ pc' = [pc EXCEPT ![Owner] =
                IF apState = "CL_INITIALIZED" THEN "drain" ELSE "close"]
    /\ UNCHANGED <<apState, item_queue, exit, running_count, wakeup_event,
                   destroy_event, held, queued, ran>>

Close ==
    /\ pc[Owner] = "close"
    /\ apState' = "CL_DESTROYED"
    /\ pc' = [pc EXCEPT ![Owner] = "done"]
    /\ UNCHANGED <<item_queue, tpState, exit, running_count, wakeup_event,
                   destroy_event, held, queued, ran>>

-----------------------------------------------------------------------------
PoolThread(w) == \/ TestExit(w) \/ Wake(w) \/ TestWoken(w)
                 \/ DecRunning(w) \/ SignalDestroy(w)

Drain(t) == Take(t) \/ QueueEmpty(t) \/ CallbackReturns(t)

Destroy == SetExit \/ DestroyLoop \/ DestroyWait \/ Join \/ Close

Next == \/ \E w \in Workers : CreateThread(w) \/ PoolThread(w)
        \/ CountThread \/ InitDone \/ InitFail
        \/ \E c \in Clients : ClientQueue(c)
        \/ \E t \in Threads : Signal(t)
        \/ \E t \in Workers \cup {Owner} : Drain(t)
        \/ BeginDestroy \/ Destroy

Spec == Init /\ [][Next]_vars

(* The scheduler runs every runnable thread, a waiter of a signalled event *)
(* is released, and callbacks return.                                      *)
Fairness == /\ \A w \in Workers : WF_vars(PoolThread(w))
            /\ \A t \in Workers \cup {Owner} : WF_vars(Drain(t))
            /\ \A t \in Threads : WF_vars(Signal(t))
            /\ WF_vars(CountThread)
            /\ WF_vars(Destroy)

FairSpec == Spec /\ Fairness

-----------------------------------------------------------------------------
WorkerPC == {"off", "top", "wait", "woken", "drain", "callback", "signal",
             "dec", "sigd", "gone"}

OwnerPC == {"init", "count", "idle", "exit", "loop", "waitd", "join", "drain",
            "callback", "signal", "close", "done"}

(* Every variable has its type; the queue and the callbacks in progress    *)
(* name items.                                                             *)
TypeOK ==
    /\ apState \in {"CL_UNINITIALIZED", "CL_INITIALIZED", "CL_DESTROYED"}
    /\ item_queue \in Seq(Items)
    /\ tpState \in {"CL_UNINITIALIZED", "CL_INITIALIZED"}
    /\ exit \in BOOLEAN
    /\ running_count \in Int
    /\ wakeup_event \in BOOLEAN
    /\ destroy_event \in BOOLEAN
    /\ pc \in [Threads -> WorkerPC \cup OwnerPC]
    /\ \A w \in Workers : pc[w] \in WorkerPC
    /\ \A c \in Clients : pc[c] \in {"idle", "signal"}
    /\ pc[Owner] \in OwnerPC
    /\ held \in [Threads -> Items \cup {NoItem}]
    /\ queued \in [Items -> Nat]
    /\ ran \in [Items -> Nat]

(* A worker that will look at the queue again before it blocks.            *)
Active(w) == pc[w] \in {"woken", "drain", "callback", "signal"}

(* No wakeup is lost although the auto-reset event coalesces signals and   *)
(* the queue is tested only after the event is consumed: while no destroy  *)
(* is under way, a queued item always has a pending signal, a thread about *)
(* to signal, or a worker that will test the queue before it waits again.  *)
NoLostWakeup ==
    (item_queue # << >> /\ ~exit) =>
        \/ wakeup_event
        \/ \E t \in Threads : pc[t] = "signal"
        \/ \E w \in Workers : Active(w)

(* Every queued item is eventually run, by a pool thread or by the thread  *)
(* that destroys the processor, and cl_async_proc_destroy returns.         *)
ItemsRunDestroyReturns ==
    /\ \A i \in Items : (queued[i] > ran[i]) ~> (queued[i] = ran[i])
    /\ (pc[Owner] = "exit") ~> (pc[Owner] = "done")

(* The assertion in cl_thread_pool_signal: the pool is initialized         *)
(* whenever an item is queued and the pool is signalled.                   *)
SignalWhileInitialized ==
    \A t \in Threads : pc[t] = "signal" => tpState = "CL_INITIALIZED"
=============================================================================
