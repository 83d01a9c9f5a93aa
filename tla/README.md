# Formal models of the WinOFED access layer

WinOFED is an InfiniBand stack for Windows. This directory holds TLA+ models of
its core, the TLC configurations that check them on small instances, and proofs
checked by TLAPS. Paths below are relative to the repository's root, `src/`.
Everything is translated from the C code; where a comment, an assertion or a doc
says something else, that is a finding (see *Disagreements*).

`PROJECT.json` is the machine-readable index: the components, the runs with
their properties, one mutant for each property (a changed definition under which
the property must fail), the source lines behind each definition, the hazards,
the findings and the theorems.

## The system

| Layer | Where | State it keeps | What makes it hard |
|---|---|---|---|
| Component library (complib) | `core/complib` | threads, events, timers, queues, pools, containers | lost wakeups, destruction while in use |
| Access layer objects | `core/al/al_common.c`, `core/al/kernel/al_mgr.c` | a tree of reference-counted objects per process, a handle vector | creation, use and destruction by several threads; waits that expire |
| Communication manager (CEP) | `core/al/kernel/al_cm_cep.c` | connection endpoints, maps by remote ID and remote QPN, a timewait list | an unreliable network, retries, two users, destruction in every state |
| CM clients | `core/al/kernel/al_proxy_cep.c`, `al_cm.c`, `al_ndi_cm.c`, `core/winverbs`, `core/ndfltr` | pended IRPs, their own endpoint states | cancellation racing completion |
| MAD services, SMI | `core/al/al_mad.c`, `al_smi.c` | transaction tables, retry timers, send windows | time-outs racing late responses |
| SA queries, multicast | `al_sa_req.c`, `al_query.c`, `al_mcast.c`, `al_mcast_mgr.c` | requests, group memberships | cancel and completion, join and leave in flight |
| Plug and Play, bus, IOU | `al_pnp.c`, `al_ci_ca.c`, `core/bus`, `core/iou`, `cl_pnp_po.c` | registrations, device objects, PnP states | removal at any time |
| WinMAD, WinVerbs, IBAT, FIP | `core/winmad`, `core/winverbs`, `core/ibat`, `core/fip` | per-file providers, request queues | cancellation, removal |
| Upper layers, hardware | `ulp`, `hw` | - | outside this project (see *Not modelled*) |

How the modelled parts meet: an AL object whose last reference goes is queued to
an asynchronous processor, whose thread runs `async_destroy_cb`; that drops the
reference on the parent, which may queue the parent in turn. The CEP manager is
one of the AL's services; its endpoints belong to an AL instance, send through
MAD services and are destroyed with a callback that AL objects wait for. A MAD
service is an AL object whose sends are retried from a `cl_timer`; its promise
(`MadContract`) is what `CmCep` assumes of a send, and what `SaReq` is built on: the
requests to the subnet administrator that queries and multicast memberships make. The events that `CmCep` queues on
an endpoint reach a process through the pended request of `CepIrp`. Endpoints,
registrations and FMRs are kept in ordered maps (`ClQmap`).

### What should be true of each part

* Asynchronous processor: every item queued is run, as often as it is queued,
  before or during destruction; destruction returns and nobody uses the pool
  after it.
* AL objects: a count equals the references; nothing referenced is freed; what is
  destroyed is cleaned up once, with its descendants, and freed; no call hangs; a
  handle names a living object.
* CEP: the two ends of a connection agree; no event is lost; whoever waits has
  something out that ends the wait; the maps hold what they should; a destroyed
  endpoint is freed, after its timewait and after its last reference.
* CM requests of user mode: a request is completed once, by cancellation, by the
  event or by its successor; an event that finds no request is kept, and found by
  the next; a process that was told of an event polls until there is none.
* MAD services: a send is reported once, with its response if there is one;
  cancellation does not lose the completion; destruction reports everything.
* RMPP: what is reported as sent was received whole; a transfer ends, and so does a
  reassembly whose sender has gone.
* Timers: a time that was asked for brings a callback, and none comes after the
  timer was destroyed.
* FMR pool: what a client holds stays mapped to its pages until it is released or the
  pool is freed; a flush that returns has waited for what it found dirty, and every flush
  is answered. That a flush returns is true only with exceptions (see *Disagreements*).
* Ordered map: it finds its keys and stays balanced.
* SA requests: a request that was sent is called back once and holds the service of its
  port until then; a service, a closing instance's queries and a membership that are
  being destroyed go in the end, whatever the SA answers.

## Modules

| Module | Models |
|---|---|
| `ClAsyncProc` | `cl_async_proc.c` and `cl_threadpool.c` |
| `CepState` | one endpoint (`kcep_t`) and the helpers that change it |
| `CmCep` | the endpoint managers of several nodes, their users and the network |
| `AlObj` | the life of AL objects and their handles |
| `AlMadSvc` | a MAD service and its registration with the dispatcher (`al_mad.c`) |
| `MadContract` | what a MAD service promises of each send; `AlMadSvc` implements it |
| `AlRmpp` | segmentation and reassembly between two MAD services (`al_mad.c`) |
| `ClTimer` | `cl_timer`, the kernel's and the user's |
| `CepIrp` | the delivery of CM events to a process (`al_cm_cep.c`, `al_proxy_cep.c`, `ual_cm_cep.c`) |
| `AlFmrPool` | the pool of fast memory regions (`al_fmr_pool.c`) |
| `ClQmap` | the red-black tree of `cl_map.c` |
| `SaReq` | the request service of a port and its requests (`al_sa_req.c`), over `MadContract` |
| `SaClients` | queries (`al_query.c`, `al.c`) and a multicast membership (`al_mcast.c`) over `SaReq` |
| `MCClAsyncProc`, `MCCep`, `MCAlObj`, `MCServices` | instances for TLC |
| `ServiceProofs` | theorems on `ClAsyncProc`, `ClTimer`, `CepIrp` and `AlRmpp` |
| `AlMadProofs` | theorems on `AlMadSvc`, and that it implements `MadContract` |
| `AlFmrPoolProofs` | theorems on `AlFmrPool` |
| `CmCepLemmas`, `CmCepProofs` | theorems on `CmCep`: facts about one endpoint, the invariant, one lemma per action, and the consequences |
| `AlObjLemmas`, `AlObjStates`, `AlObjProofs` | theorems on `AlObj`: the invariant and how a call changes it, the steps that change an object's state, the other steps and the consequences |

### ClAsyncProc

A step is what a thread does between two points where another can interfere. The
queue is touched only under its spinlock, so that a critical section is a step
(`Insert`, `Take`, `QueueEmpty`); the event is signalled after the unlock, so that
`Signal` is a step of its own. The wakeup and the destroy event are auto-reset:
Booleans that coalesce signals and are consumed by the thread they release. The
owner's steps follow `cl_thread_pool_init` (a thread runs before it is counted),
`cl_thread_pool_destroy` (signal and wait until the count is zero, then join) and
`cl_async_proc_destroy` (flush what is left on the owner's own thread). A callback
may queue further items, as AL's do. `cl_event_wait_on` ends with `CL_NOT_DONE`
only for a user APC; none is ever sent to a pool thread, so that end is left out.
The wait for `destroy_event` may end by its time-out at any moment (`DestroyWait`).

### CepState and CmCep

`kcep_t` is the record `Cep`; the functions of `al_cm_cep.c` that change one
endpoint are operators from record to record, and run under `gp_cep_mgr->lock`,
so that each critical section is one action of `CmCep`:

* `Receive`: one action for each MAD handler (`__req_handler` ... `__apr_handler`),
  for any MAD that was ever sent. Loss is a MAD that is not received, duplication
  and reordering come from never taking one off the wire.
* `Api`: one action for each call a user makes (`al_create_cep` ... `al_cep_poll`).
  A call may name any endpoint the user has learned of. An `Outcome` says where
  the MAD service or the port agent fails, if it does.
* `Internal`: the completion of a send (`SendCb`), the dropping of a reference that
  the code does after it has left the lock (`Deref`: the event callback or the
  completion may run arbitrarily later), the timewait timer (`TimewaitExpired`).

Data are abstracted to what the handlers compare: communication IDs with their
8-bit modifier, CA GUIDs, queue pair numbers; a queued MAD is told apart only by
the endpoint that came with it. Paths, private data and time values are left out.
There is one service ID, hence at most one listener matches (`__lookup_listen`).
A call that the code refuses, and a MAD that it drops, changes nothing and has no
action. A call in a prepared state whose MAD is missing would follow a NULL
pointer; the guards exclude it (see *Disagreements*).

### AlObj

The threads are IOCTLs of one process and the thread of `gp_async_obj_mgr` (one,
`al_init.c:85`). `destroy_obj` destroys the children by calling itself, so that a
thread has a stack of calls; a call stands at a `pc` between two accesses of
shared memory. Three shapes of IOCTL act on an object: one that only uses it, one
that creates a child (`proxy_alloc_pd`, `alloc_pd`, `attach_al_obj`, with each of
its failures), one that destroys it (`proxy_dealloc_pd`; with and without
`ib_sync_destroy`, as the IOCTLs differ in it). An object is either of the kind
whose last reference queues it, or of the kind that a thread waits for (`SyncObj`,
the objects `init_al_obj` is told to destroy synchronously). How long a wait lasts
is left out: a wait ends when the event is signalled or, at most `MaxExpired`
times, too early, after which the object is freed under its references, as the
code intends ("Forcing object destruction."). Touching a freed object, taking an
item off a list that it is not on, and raising a count from zero (an assertion)
stop the machine (`bugcheck`).

### AlMadSvc and MadContract

`obj.lock` of the service is held for a critical section, which is one action:
`SendMad`, `CancelMad` and `DelayMad` of the client, `SendDone` when a work request
completes, `ProcessRecvResp` when a response was received, `CheckSendQueue` from the
timer or from destruction. The client is called without the lock, by the thread that
took the send off the list (`MadNotify`); the last statements of `mad_disp_send_done`,
which drop the service first and the registration after it, are steps of their own.
Destruction goes through the stages of `__destroying_mad_svc` (`MadDispDereg`,
`CancelAll`, `CheckCanceled`, `TimerStop`, `TimerFlush`) and waits for the references.
The network may answer a send at any time after it was posted, more than once and late.
Times are left out: a waiting send becomes due at some moment (`Elapse`).

`MadContract` is the abstract specification: each send is unused, out or ended with an
outcome, and it ends once, never as answered without a response; the service is open,
closing or closed, and closes only when nothing is out. `AlMadSvc` implements it under a
refinement mapping that reads the outcome from `status` and `calls` and the service's state
from `owner` and `freed` (`MadContractOf`, the property `MadContractHolds`), with its
liveness: every send ends, and so does destruction. It is the assumption under which `CmCep` models sends.

### AlRmpp

A sender (`ack_seg`, `cur_seg`, `seg_limit` of an `al_mad_send_t`) and a receiver
(`expected_seg`, `seg_limit` of an `al_mad_rmpp_t`) with the network between them, which
loses, repeats and reorders: a segment or an ACK that was ever sent may be received at
any time. `RmppSendDone` queues the next segment of the window, `RmppSendTimer` starts it
again from the last ACK. `ProcessSegment` copies a segment and enlarges the buffer at the
end of the window, which may fail; `RecvTimer` frees a reassembly it finds inactive twice.

### ClTimer

The kernel version is a KTIMER with a DPC: `__timer_callback` clears `timeout_time` under
one lock and calls back under another, so that on two processors a callback waits while
the timer is set again (`DpcRun`, `DpcClear`, `DpcCall`). The user version looks at
`timeout_time` in the callback. The clock counts to `MaxNow`. The callback may start the
timer again before it returns, as `__recv_timer_cb` (`al_mad.c:3211`) and the sweeps of
`al_ioc_pnp.c` do.

### CepIrp

The kernel's endpoint has events, `signalled`, callbacks that are under way
(`__process_cep`) and the pended request `p_irp`; the process has a `ucep_t` with its two
references, the completion of the request in its port, and `cm_cb`, which polls
(`CepPoll`) and then asks again (`GetEvent`). `__create_ucep` has the kernel's endpoint and the
`ucep_t` before it makes the first request (`CreateCep`, `CreateUcep`): an event may come in
between, and if the request cannot be made both are destroyed (`CreateUcepFails`). Uceps use one connection identifier, one
after the other. The cancel routine waits for the lock after the I/O manager has
called it (`CancelIrp`, `CepCancelIrp`), and finds whatever request is there by then.

### AlFmrPool

The lists are a field of the FMR, the cache is `in_cash` with the key. Mapping and
unmapping of the adapter happen without the lock, hence in steps of their own (`MapPhys`,
`BatchUnmap`). The model begins with the pool object, its events and its thread, and no FMR:
`mlnx_create_fmr_pool` allocates them one by one while the thread already runs (`CreateFmr`), and a
failure destroys the pool with what it has (`CreatePoolFails`). `CleanupFmrPool` is the whole of
`__cleanup_fmr_pool`: `rest_list` is added to `free_list` and freed with it, so that an FMR that a client still
has is unmapped and freed under it; it is unmapped if `remap_count` says that it was mapped
since the last release. The events are auto-reset; a client that waits for `flush_done_event` is
queued, and its wait is interruptible (`FlushAlerted`, at most `MaxAlerts` times). `owed` records what a
flush found dirty, unless the thread was past the dirty list or `flush_done_event` held an answer by
then; `lost` counts the signals that fell on a signalled event: both exist for the
properties only.

### ClQmap

Insertion, removal, merge and delta are operators on trees with parent pointers, the
sentinels `Top` and `Nil` among them; the actions apply them to a map in any order, and
the set `keys` is the reference. The left and right halves of the code, which mirror each
other, are one operator with the side as a parameter.

### SaReq and SaClients

`SaReq` instantiates `MadContract` for the MAD service under it: `sa_outcome`, `sa_answered`
and `sa_mad` are the contract's variables, and a request may see whatever the contract
allows, which `AlMadSvc` was shown to implement. `sa_svc` is the service of one port, with
each step of `init_sa_req_svc` an action that may fail (the queue pair and the reference it
holds are two, `InitQp` and `InitRef`: the queue pair's event may come in between); Plug and Play events and the
event of its queue pair may destroy it at any time. `sa_req[r]` is an `al_sa_req_t` with
the place of its caller or callback (`pc`). A reference to the service keeps the structure
and neither the MAD service nor the queue pair; where the code uses a pointer to
something that may be gone, `sa_bug` names the pointer and the behaviour stops.

`SaClients` adds the two clients. `query_list` is the list of the AL instance; `ib_query`,
its callback, `ib_cancel_query` and `destroying_al` each take the instance's lock once. `mcast` is
the `ib_mcast_t`: `join_async_cb` and `__destroying_mcast` are split where they read or write
`state` without the lock. The user leaves a group it was told of, and may destroy the
queue pair at any time, which destroys the membership.

### MCServices

Components that do not share state are checked in one run: `part` names the one that
moves, so that the state space is the sum of theirs. Each keeps its fairness.

## Runs

Every run is `tlc -config <cfg> <module>`; the configurations give constants and
replace no definition.

| Run | Configuration | Checks |
|---|---|---|
| `services` | `MCServices.cfg` | of the asynchronous processor, the timer, the MAD service, RMPP, the requests of user mode, the FMR pool, the ordered map, and queries and a multicast membership over the SA request service, each on its own, the invariants and the liveness listed below |
| `async_proc_flush` | `MCClAsyncProcFlush.cfg` | violated: a flushed callback signals a destroyed pool |
| `cep_connect` | `MCCepConnect.cfg` | connecting, timing out, connecting again with another queue pair, dropping and destroying: no event lost, the destroy callback once, one owner for each endpoint, maps that mirror the IDs, two ends that agree |
| `cep_disconnect` | `MCCepDisconnect.cfg` | disconnects, alternate path exchanges and destruction at both ends of a connection: the timewait list, nothing left of a freed endpoint, a send out for each wait; no send replaces another but a DREQ a LAP, or a REP in place of whose RTU a LAP came; no prepared MAD outlives its state but that of a destroyed PRE_APR |
| `cep_faults` | `MCCepFaults.cfg` | one failure of the agent or the MAD service anywhere: exact references; a prepared MAD is missing only after the failure |
| `cep_live` | `MCCepLive.cfg` | remote IDs are unique in the map although the modifier wraps at once; a destroyed endpoint is freed |
| `cep_stale_qpn` | `MCCepStaleQpn.cfg` | violated: two endpoints in `conn_qp_map` for one remote queue pair |
| `cep_dangling` | `MCCepDangling.cfg` | violated: an endpoint stays in the maps without an ID |
| `al_obj` | `MCAlObj.cfg` | exact counts; nothing referenced is freed; one cleanup; no child left; every call returns; every destroyed object is freed |
| `al_obj_loop` | `MCAlObjLoop.cfg` | violated: the loop over the children references one that has no reference left |
| `al_obj_handle` | `MCAlObjHandle.cfg` | violated: a freed object is in the handle vector |
| `rmpp_segment` | `MCServicesSegment.cfg` | violated: a segment is copied past the end of the reassembly buffer |

What `services` checks, beside the types (`ServicesTypeOK`):

| Component | Invariants | Temporal properties |
|---|---|---|
| Asynchronous processor | `NoLostWakeup` | `ItemsRunDestroyReturns` |
| Timer | `NoLostExpiry`: a time asked for is not lost to a callback that is under way; `DestroyQuiesces`: no callback after destruction, unless the callback itself started the kernel timer meanwhile | |
| MAD service | `MadCountsExact`: both counts, so that a freed service can be found through its registration only between the two statements at the end of `mad_disp_send_done`; `ListedIsServed`: a send on the list is posted once or has the timer | `MadContractHolds` |
| RMPP | `SuccessMeansDelivered`; `WindowKept`: no segment is sent past the window, and a copy past the buffer needs an allocation that failed | `TransferEnds` |
| Requests of user mode | `NoLostEvent`; `RequestsExact`: the references of a ucep, and where its request is; `DeafOnlyIfStruck` | `DestroyedUcepFreed` |
| FMR pool | `HeldIsMapped`, with the lists and the cache it needs, and that the pool frees every FMR and none that is mapped; `FlushComplete`; `FlushesAnswered`: every flush is answered once and none slept over, so that, unless the thread is stopped, at most as many wait for ever as answers were lost | `FlushReturns` |
| Ordered map | `MapIsSound`, against the set of keys | |
| SA requests | | `SaClientsServed`: always, the references of the service and of the membership are exact and a stale pointer is used only in the cases listed under *Disagreements*; in the end every request has been called back, every synchronous caller released, and what is being destroyed is gone |

### Bounds, and why they are enough

* `ClAsyncProc`: two pool threads (one is woken while the other drains), one client
  and callbacks that queue, two items, each queued at most twice (`MaxRuns`): the
  smallest instance in which a signal is coalesced, an item is queued again while
  its callback runs, and threads end in either order.
* `CmCep`: two nodes, `CidCount` = 2 (three for the stale queue pair), numbered from 1 as the
  free list of `al_cm_cep.c` begins: a listener and
  the endpoint a REQ creates on one side, one or two connecting endpoints on the
  other. `MaxIssued` bounds the communication IDs handed out: two or three on the
  connecting side are a first attempt and a second with the same endpoint.
  `SendIds` bounds the sends of an endpoint that are out; two occur when a DREQ
  overtakes a LAP, or a REP whose RTU was lost. `MaxEvents` bounds how far a user gets ahead of the other with
  alternate path exchanges. `MaxFaults` = 1 places one failure anywhere.
  `ModifierRange` is 256 as in the code, and 1 in `cep_live`, to reach the wrap.
  One run with all calls is out of reach; each run names the calls its users make
  (`Ops`) and a start: `Init`, an endpoint created on one side and listening on the
  other (`InitReady`), or an established connection whose MADs may all arrive again
  (`InitConnected`; `InitAlone` once the listener is destroyed, where no REQ is on the wire any more and the passive
  side may still wait for the RTU). All but `Init` are
  states that the code reaches, written out.
  Together the runs take every action. Deadlock is not checked for CEP: users may
  stop calling.
* `AlObj`: a chain of three objects - a channel adapter, a protection domain and an
  object destroyed synchronously - so that a destroyed object has a grandchild; two
  IOCTLs at a time; one wait that expires.
* `AlMadSvc`: one send with one retry, and two received MADs, so that a response comes
  twice, at any stage of the send and of destruction. Two sends with one response, one
  waiting while the other is retried, were checked by hand for the invariants
  (1.5 million states).
* `AlRmpp`: three segments (checked with four by hand, some 97,000 states), a window
  of two, one retry and one resize that fails: a window ends inside the transfer, and an
  ACK of each segment may come late.
* `ClTimer`: two processors and two intervals; the clock goes far enough for a callback
  to be overtaken by a start, a trim and a second expiry.
* `CepIrp`: two uceps on one identifier, two events, one failed poll, one cancellation.
* `AlFmrPool`: one FMR mapped at most twice, two keys, two clients, watermark one, one interrupted wait
  (`MaxAlerts`). A client flushes only while it has no FMR (`FlushesEmptyHanded`): the flush
  looks at nothing that its client has, and another client has FMRs meanwhile. By hand also two FMRs without
  this bound (1 million states), for the inductive invariant of the proofs.
* `ClQmap`: six keys, every tree that insertions and removals reach, and a selection of sets
  as the other map of merge and delta; by hand seven keys and all subsets of six.
* `SaReq`, `SaClients`: one query with the whole life of the service, by hand two (420,000
  states with the membership, the same result); one membership, with its two requests, on a service that is
  there (`ReadySvc`) and may go with its port. One life of the service: a port that comes
  back has a new one.

### Fairness

* `ClAsyncProc`: weak fairness for each thread's steps: the scheduler runs a runnable
  thread, a waiter of a signalled event is released, callbacks return. Clients and
  the decision to destroy are not fair.
* `CmCep`: sends complete (`al_mad.c` retries a bounded number of times and then
  completes with a time-out), what follows an unlock runs, the timewait timer is
  rearmed while the list is not empty (3302-3331). Users and the network owe nothing:
  `DestroyedFreed` holds if every MAD is lost and nobody polls.
* `AlObj`: each thread runs. Nobody has to call, and a wait need not expire: that
  calls return is shown without the help of a time-out. The liveness run has two
  IOCTLs; `DestroyEnds` excepts the state of finding `al_obj_handle`, in which
  new calls can hold a destroyed object for ever.

* `AlMadSvc`: work requests complete, routed MADs are processed, callbacks and timers
  run, time passes. The network owes no response. `AlRmpp`: completions and timers; no
  segment or ACK need arrive. `ClTimer`: time, DPCs and timer threads. `CepIrp`:
  callbacks of the kernel and of the completion port; no event need come, and
  `DestroyedUcepFreed` assumes that they stop coming. `AlFmrPool`: the cleanup thread and
  calls that have begun. `SaClients`: threads that have begun and callbacks go on
  (`QueryProgress`, `McastProgress`: one weak fairness for all of them is enough, as each makes
  finitely many steps); the SA need not answer and nobody has to call, cancel, leave
  or remove anything.

## Proofs

Proved by TLAPS for every value of the constants that meets the named assumptions
of the modules (`ThreadAssumption`; `CidAssumption`, `QpnAssumption`,
`SendIdsAssumption`, `NodeAssumption`, `RangeAssumption`, `UserAssumption`,
`BoundAssumption`; `ObjAssumption`; `MadAssumption`, `TimerAssumption`, `CepIrpAssumption`,
`RmppAssumption`, `FmrAssumption`), that is for any number of threads
and items, of nodes, endpoints, queue pairs, users, calls and failures, of objects in any tree and
IOCTLs, of MADs and retries, segments and windows, of processors and intervals, of
processes' endpoints, and of FMRs, clients and page lists:

| Theorem | States |
|---|---|
| `ServiceProofs!TypeCorrect` | `TypeOK` |
| `ServiceProofs!WakeupNeverLost` | `NoLostWakeup` |
| `CmCepProofs!Inductive` | the inductive invariant `IInv` |
| `CmCepProofs!TypeCorrect` | `TypeOK` |
| `CmCepProofs!ReferencesExact` | `References` |
| `CmCepProofs!NoWaitWithoutSend` | `WaitingHasSend` |
| `CmCepProofs!TimewaitListExact` | `TimewaitList` |
| `CmCepProofs!NoEventLost` | `QueuedIsSignalled` |
| `CmCepProofs!DestroyCallbackOnce` | `CallbackOnce` |
| `AlMadProofs!MadReferencesExact` | `MadCountsExact` |
| `AlMadProofs!NoSendForgotten` | `ListedIsServed` |
| `AlMadProofs!MadImplementsContract` | `MadContractOf!ContractSafety`, the safety half of `MadContractHolds` |
| `ServiceProofs!NoExpiryLost` | `NoLostExpiry` |
| `ServiceProofs!NoCallbackAfterDestroy` | `DestroyQuiesces` |
| `ServiceProofs!UcepReferencesExact` | `RequestsExact` |
| `ServiceProofs!NoEventUnseen` | `NoLostEvent` |
| `ServiceProofs!DeafIsStruck` | `DeafOnlyIfStruck` |
| `ServiceProofs!SuccessDelivered` | `SuccessMeansDelivered` |
| `ServiceProofs!WindowRespected` | `WindowKept` |
| `AlFmrPoolProofs!FmrHeldMapped` | `HeldIsMapped` |
| `AlFmrPoolProofs!FmrFlushed` | `FlushComplete` |
| `AlFmrPoolProofs!FlushesAccounted` | `FlushesAnswered` |
| `AlObjProofs!TypeCorrect` | `TypeOK` |
| `AlObjProofs!ReferencesCounted` | `RefCountExact` |
| `AlObjProofs!CleanupOnce` | `CleanedUpOnce` |
| `AlObjProofs!ChildrenGone` | `NoChildLeft` |

**Asynchronous processor.** `NoLostWakeup` is inductive given `TypeOK`: a worker empties
the queue before it waits, and an inserter stands at `signal` until the event is set.

**CEP.** None of the six properties is inductive alone. That an endpoint has no
negative count needs the exact count; the exact count is preserved by destruction
only if a destroyed endpoint is not destroyed again, hence if users and queued REQs
name only endpoints that are not being destroyed; and that needs the free list to
hold free CIDs, once each, or a creation would overwrite an endpoint. `IInv` is
therefore `TypeOK` with

* `Sound`, of each endpoint alone (`Local`): the exact count (`Counted`), no event
  without a signal, the timewait list, a send behind each wait, the state of the
  destroy callback, and that an endpoint with an owner is not `Gone`;
* `Held`: a handle of a user is of an endpoint that is bound;
* `Queued`: the endpoint in a queued REQ is bound, in a state of a fresh endpoint,
  known to no user and in no other place of any list;
* `FreeList`: the free list holds CIDs that are free, each once.

`CmCepLemmas` shows what the helpers of `CepState` do to `Sound` and to an endpoint's
list, has the frame (a step that changes one endpoint and neither its
owner nor its list keeps `Held`, `Queued` and `FreeList`) and one lemma for each MAD handler.
`CmCepProofs` has the steps that move an endpoint from one owner to another (creation, a poll,
destruction with the REQs still queued, the timewait timer), the other API calls, the send
completion, `Init`, and the theorems.

**AL objects.** A call in progress is named by its thread and its depth, so that it keeps
its name while the calls it makes come and go; a step changes one call, or one call and the one it
makes or returns to (`Move`, `Push`, `Pop`). The count is exact because each such step changes the count by
what the two calls come to hold (`Conserved`), which needs to know what every other step
relies on at its `pc` (`FrameOK`): that a destroyer finds its object in `DESTROYING`, that a
creator finds it attached where it put it, that a thread waits for the event only of an
object whose last reference signals it. `IInv` adds that one call makes an object and one destroys it
(`OneEach`), that what is in the asynchronous queue has no destroyer left, has no
reference and is there once (`QueueOK`), that the list of children is empty once the loop
is over (`ListOK`), and who cleans up an object that a wait gave up on (`GivenUp`). After a wait
has expired the counts of that object mean nothing; the invariant then says so, object by
object, and the other three theorems still hold.

The children loop of `al_obj_loop` and the handle of `al_obj_handle` are inside this proof: the
steps that stop the machine (`bugcheck`) are steps of the specification, and nothing is assumed about the
order of IOCTLs.

**MAD service.** The counts are kept by each step only if the sets they count change by
one: a send that is taken off the list is in nobody's hands yet, and one that is posted
again is not posted. `MadInv` therefore adds to the types and the two properties that a
send off the list is in one thread's hands and is reported once (`Handed`), that the
destroyer leaves no send that waits (`Closing`: without it a send could begin to wait
after the timer is gone), that the counted sets are finite, and, for the refinement, that a response kept for
a send came for it, is held until the send is reported, and fits its status
(`RespSound`, `RxSound`). `MadAssumption` makes the sends and MADs finite sets, or there
would be nothing to count. The refinement then maps `SendMad` to `Issue`, `RecvDone` to
`Answer`, `MadNotify` to `Complete`, `MadDestroy` to `Dereg` and `FreeMadSvc` to `Close`;
all other steps leave what the clients see alone (`ViewKept`). `Close` needs the exact
count: it is because no reference is left that no send is.

**Timer.** A time asked for may at one moment be only in `wanted` and `timeout_time`,
only in the operating system's timer, in a DPC, or with a callback that has cleared it.
`TimeBacked` and `WantCovered` say who answers for it at each; `NothingOwed` and `Quiesced`
say the same of a timer that is being destroyed.

**CM events.** `NoLostEvent` needs to know when the endpoint is signalled (`SignalKept`),
and the count needs that a `ucep` has a request or a callback but not both, and that only
the one that is open owns the kernel's endpoint (`UcepSound`).

**RMPP.** What a sender knows of its window it knows from an acknowledgement that was sent
(`SendSound`), the last segment is acknowledged only when the whole MAD is delivered
(`PacketSound`), and a reassembly stays inside the MAD and, unless an allocation
failed, inside its window (`AsmSound`). Packets are never taken off the wire, so that this covers every
loss, repetition and reordering.

**FMR pool.** `HeldIsMapped` is kept by a cache hit only if what is in the cache is mapped to its
key and is on the list that `p_cur_list` names; hence `ElemSound`, `ClientSound` and the exact count of
who has an FMR (`PoolSound`). `FlushComplete` needs that nothing is owed while an answer is in `flush_done_event` or the
thread is past the dirty list (`OwedSound`), and `FlushesAnswered` that the thread does not stop over
a request unless it is signalled again (`ThreadSound`). Once the pool is freed a second
invariant takes over (`FreedInv`); that no FMR is freed while it is mapped needs `remap_count` to be zero
only of what is not, and that nothing is on no list when the last call has returned.

**Only model-checked.** Liveness and everything with fairness, the liveness half of
`MadContractHolds` included; `FreedIsClean`
and `MapsMirrorIds`, which fail with failures of the port agent (`cep_dangling`) and so
do not hold for all constants; `PeersAgree`, which holds only while the modifier has not come round;
`Owned`, `RemoteIdsUnique` and the two action properties of `CmCep`, whose invariants are not
written yet; `SaReq` and `SaClients`. Induction over data
and recursive definitions are beyond the prover: `ClQmap` is only model-checked.

## Disagreements

Six runs end in a violation, each of something the repository itself says; the
findings in `PROJECT.json` quote it.

1. `async_proc_flush`, `cl_async_proc.c:100`: the flush runs after the pool is
   destroyed; a flushed callback that queues an item (AL's `async_destroy_cb` does, for
   the parent) signals a destroyed event and fails the assertion in
   `cl_thread_pool_signal`. The item itself is still run.
2. `cep_stale_qpn`, `al_cm_cep.c:2958`: the map by remote QPN compares through the wrong
   member (`rem_id_item`), and takes the same queue pair twice.
3. `cep_dangling`, `al_cm_cep.c:5369`: `al_cep_send_rep` without a port agent leaves an
   IDLE endpoint in the maps; the next request zeroes the IDs it would be removed by.
4. `al_obj_loop`, `al_common.c:728`: the loop over the children takes no lock and can
   reference a child whose last reference is gone.
5. `al_obj_handle`, `al_common.c:334`: a child destroyed with its parent before it has
   its handle gets one afterwards, which outlives it.
6. `rmpp_segment`, `al_mad.c:2716`: when the buffer cannot be enlarged the code means to
   "just drop the MAD", but the segment is counted already; the ACK of a repeated segment
   then asks for one more than the buffer has room for, and the assertion of
   `__process_segment` (2647) fails as it is copied.

Seen while modelling, without a run of their own:

* `al_cm_cep.c:2244` asserts that no send is out; `al_cep_dreq` from LAP_SENT sends with
  the LAP still out, which can then no longer be cancelled. So it does on the passive side with the REP out:
  a LAP that comes in place of a lost RTU ends REP_SENT (1938) without cancelling the REP
  (`SendReplaced` excepts these two cases).
* `al_cm_cep.c:1376` asserts a send for every MRA it accepts; after the time-out of a LAP
  in LAP_MRA_RCVD there is none.
  `WaitingHasSend` excludes this one state.
* `al_cm_cep.c:3289`: "Move the CEP to the IDLE state so that it can be used again" is
  unreachable, since an endpoint with an owner has a reference.
* `al_cm_cep.c:4904`: a second `kal_cep_pre_req` that fails stays in PRE_REQ without a MAD,
  which the next call asserts.
* `al_cm_cep.c:3257` asserts no prepared MAD in timewait; one prepared in PRE_APR is still
  there after a destruction, and leaks.
* `al_cm_cep.c:912` says that TIMEWAIT repeats the DREP; after receiving a DREP the side
  that asked repeats what it kept last, the RTU on the active side. In DESTROY, "Repeat
  the DREP." (1735) repeats nothing.
* `al_cm_cep.c:4327` drops a REQ "so they can be retried", but the retry is rejected as
  stale while the dropped endpoint is in the map.
* `al_cm_cep.c`, `__lookup_listen`: the comparison takes the address of the pointer
  `p_cmp_buf`, not the buffer; `__calc_mad_timeout( max_2pkt_life - 1 )` is called with 0
  as well. Neither value is modelled.
* `al_common.c:576`: the wait of `sync_destroy_obj` is cut into fifths, but the loop goes on
  only for `CL_NOT_DONE` and a time-out is `CL_TIMEOUT`: it waits one fifth of what the
  comment says.
* `al_common.c:337`: if the vector cannot grow after the parent's destroyer has detached the
  child, the child is taken off the list twice.
* `al_mgr.c:559`: `al_hdl_ref` with `AL_OBJ_TYPE_UNKNOWN` always fails, as the second
  comparison is not skipped.
* `kernel/cl_timer.c:107`: `cl_timer_destroy` flushes the DPCs after it has stopped the timer; a
  callback that was running starts it again, and the timer outlives its memory
  (`DestroyQuiesces` names the case; `al_mad.c:3211` and `al_ioc_pnp.c:1228` start their timers
  in their callbacks).
* `user/cl_timer.c:110`: `cl_timer_start` is `cl_timer_trim`, so that a later time does not replace
  an earlier one, as `cl_timer.h` says it does ("implicitly stops the timer").
* `al_mad.c:869`: `mad_disp_send_done` drops the service's reference before the registration's count;
  in between the service may be freed, and a MAD received then is routed to it (`mad_bug`).
* `ual_cm_cep.c:1446`: `cm_cb` asks for events by an identifier that may have a new owner; the
  kernel then completes the new owner's request as cancelled, and `cm_cb` never asks again after an
  error: the new endpoint is deaf (`DeafOnlyIfStruck`). That "once removed, all callbacks for an item
  will stop" (424) is not so of a completion that is in the port already.
* `ual_cm_cep.c:1362`: a poll that fails before it reaches the kernel leaves the endpoint signalled;
  the next event completes no request (`NoLostEvent` excepts it).
* `al_fmr_pool.c:590`: two flushes that are answered before either waits share one signal of the
  auto-reset `flush_done_event`. The second waits for ever, and with it the destruction of
  the pool; so does a flush whose request the thread has not seen when it is stopped (197). `FlushReturns` excepts
  both, and by `FlushesAnswered` nothing else leaves a flush waiting. A flush
  whose wait is interrupted leaves its answer in the event; the next flush takes that and returns
  with what it found still dirty (`FlushComplete` excepts it), although the cleanup thread
  means to answer each request after its release (183-188).
* `al_fmr_pool.c:228`: destroying the pool unmaps and frees the FMRs that clients still have; the
  client's `mlnx_unmap_fmr_pool` then finds nothing.
* `al_fmr_pool.c:431`: the results of `cl_event_init` and `cl_thread_init` are not stored, and the
  tests that follow them (432, 440, 448) look at that of the spinlock. The model begins after their success.
* `al_fmr_pool.c:632`: `dirty_len` is not lowered when a dirty FMR is used again; it may
  be more than the length of the list, and the thread then releases early.
* `al_sa_req.c:700`: a request that has found the service sends on its MAD service although
  the port may have gone since; the reference it holds does not keep the MAD service
  (`sa_bug` = `h_mad_svc`). An event of the queue pair destroys the service behind the
  context that Plug and Play uses (271, 286), and behind its creation (514).
* `al_sa_req.c:741`: a send that fails after its response has come is called back a second
  time; `query_req_cb` has freed the query by then. "If the send was successful, we will be
  getting a receive callback" (738), but the converse does not hold.
* `al.c:113`: `destroying_al` cancels every listed query; one whose `ib_query` has not found
  a service yet has a null pointer, one whose send has failed a pointer without a
  reference. `ib_cancel_query` is safe: who has the handle has sent the request.
* `al_mcast.c:291`: `p_sa_req_svc` is cleared by `join_async_cb`, after the request has released
  the service; a queue pair destroyed in between cancels through it. 541: the
  state is read without the lock, so that a join may proceed, attach and report success
  after the destroyer has set `SA_REG_CANCELING` and sent the request to leave, against the
  comment at 561.
* `al_common.c:694`: a second caller with `ib_sync_destroy` returns at once, before the
  object is destroyed.

## Not modelled

* In the modelled parts: `al_cep_migrate`, listens compared by service ID and private
  data, port agents coming and going (a missing agent is an
  outcome of each call); of AL objects the pools (`reset_al_obj`), the length of waits,
  what `pfn_destroying` of a type does (queue pairs of a completion queue, windows of a
  domain), device close, the tracking list of `gp_al_mgr`; of MAD services the routing by
  class and method, raw services and what is received without having been asked for; of
  RMPP several reassemblies at once and answers that are segmented themselves; `cl_fmap` and `cl_rbmap`; of
  SA requests the attributes of queries, a port that comes back, joins that are synchronous or
  return a handle (`al_join_mcast_no_qp`), and those that `al_mcast_mgr.c` shares.
* Whole components, with the reason for each: `PROJECT.json`, "components". Containers,
  events and timers appear in the models as sets, sequences, Booleans and actions;
  OpenSM, DAPL, librdmacm and the hardware drivers come from elsewhere or need the
  hardware; network and storage drivers are tied to NDIS and SCSI miniports.

## Plan

Done: the asynchronous processor, the endpoint manager, the AL objects, MAD services with
RMPP, timers, the requests of CM events, FMR pools, ordered maps, SA requests with queries and
a multicast membership. Next:

1. `Connection`: an abstract specification of a connection as seen by the two users
   (requested, offered, accepted, open, closed), which `CmCep` implements under a mapping
   from the endpoints' states.
2. Further clients of the MAD service and of SA requests: shared multicast joins, service
   records and subscriptions, Plug and Play registrations.
3. `WmReg`, `WvEp`: WinMAD registrations and WinVerbs endpoints over the CM.
4. `ClObj` and the PnP support of complib.

Worth proving next, of `CmCep`: `SendReplaced` and `PreparedMadKept` (the invariant: in which
states an endpoint has a prepared MAD and in which a send out), `Owned` (a bound endpoint has a handle or
is in a queued REQ), and `RemoteIdsUnique` and `MapsMirrorIds` as long as no call has failed.
