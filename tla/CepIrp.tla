------------------------------- MODULE CepIrp -------------------------------
(***************************************************************************)
(* How a CM event reaches a user-mode client.  In the kernel an endpoint   *)
(* holds one pended request, p_irp, which __process_cep completes when the *)
(* endpoint is signalled (core/al/kernel/al_cm_cep.c, al_proxy_cep.c).  In *)
(* the process a ucep_t issues the request UAL_CEP_GET_EVENT, and its      *)
(* completion runs cm_cb: the client's callback, which polls the endpoint  *)
(* until it is empty, and then the next request (core/al/user/             *)
(* ual_cm_cep.c).  Uceps are created and destroyed, one after the other,   *)
(* on one connection identifier, which the kernel gives out again at once. *)
(*                                                                         *)
(* The states of the connection are in CmCep; here an endpoint only has    *)
(* events.  Requests are completed through the process's completion port,  *)
(* which may be slow.                                                      *)
(***************************************************************************)
EXTENDS Integers

CONSTANTS
    Ucep,          \* user-mode endpoints that use the identifier in turn
    NoUcep,        \* NULL
    MaxEvents,     \* bound: MADs queued on the endpoint
    MaxCalls,      \* bound: __process_cep not yet run
    MaxPollFail,   \* bound: polls for which there is no memory
    MaxCancel      \* bound: requests the I/O manager cancels

ASSUME CepIrpAssumption ==
    NoUcep \notin Ucep /\ {MaxEvents, MaxCalls, MaxPollFail, MaxCancel} \subseteq Nat

VARIABLES
    kcep,          \* the kernel's endpoint: its owner, events and callbacks
    p_irp,         \* the ucep whose request is pended on it
    ucep,          \* of each ucep its references, request and callback
    canceling,     \* the request whose cancel routine waits for the lock
    poll_fails, cancels

irpvars == <<kcep, p_irp, ucep, canceling, poll_fails, cancels>>

(* io is the request: pended, or completed and in the port; cb is where    *)
(* cm_cb stands; struck, the request was taken from the ucep by the cancel *)
(* routine or by the request of another.                                   *)
IrpTypeOK ==
    /\ kcep \in [owner : Ucep \cup {NoUcep}, mads : 0..MaxEvents, signalled : BOOLEAN,
                 calls : 0..MaxCalls]
    /\ p_irp \in Ucep \cup {NoUcep} /\ canceling \in Ucep \cup {NoUcep}
    /\ ucep \in [Ucep -> [state : {"new", "made", "open", "gone", "freed"}, ref_cnt : 0..2,
                          io : {"none", "pended", "success", "cancelled"},
                          cb : {"none", "poll", "issue"}, struck : BOOLEAN]]
    /\ poll_fails \in 0..MaxPollFail /\ cancels \in 0..MaxCancel

NoKcep == [owner |-> NoUcep, mads |-> 0, signalled |-> FALSE, calls |-> 0]

IrpInit ==
    /\ kcep = NoKcep /\ p_irp = NoUcep /\ canceling = NoUcep
    /\ ucep = [u \in Ucep |-> [state |-> "new", ref_cnt |-> 0, io |-> "none", cb |-> "none",
                               struck |-> FALSE]]
    /\ poll_fails = 0 /\ cancels = 0

Live == kcep.owner # NoUcep

(* __cep_complete_irp: the request in p_irp is completed, if there is one. *)
CompleteIrp(us, status) ==
    IF p_irp = NoUcep THEN us ELSE [us EXCEPT ![p_irp].io = status]

(* A reference of ucep u is dropped; __destroy_ucep with the last.         *)
Deref(us, u) ==
    [us EXCEPT ![u].ref_cnt = @ - 1, ![u].state = IF us[u].ref_cnt = 1 THEN "freed" ELSE @]

(* Mutant: al_cep_queue_irp waits although there are events.               *)
QueueIrp_Waits(us, u) ==
    /\ p_irp' = u
    /\ ucep' = [CompleteIrp(us, "cancelled") EXCEPT ![u].io = "pended"]

(* al_cep_queue_irp on the endpoint that has the identifier: "Always       *)
(* dequeue and complete whatever IRP is there", and complete the new one   *)
(* too if there are MADs.                                                  *)
QueueIrp(us, u) ==
    LET struck == IF p_irp = NoUcep THEN us
                  ELSE [CompleteIrp(us, "cancelled") EXCEPT ![p_irp].struck = TRUE] IN
    /\ p_irp' = IF kcep.mads = 0 THEN u ELSE NoUcep
    /\ ucep' = [struck EXCEPT ![u].io = IF kcep.mads = 0 THEN "pended" ELSE "success"]

-----------------------------------------------------------------------------
(* The kernel *)

(* __cep_queue_mad: the callback is invoked unless it has been signalled   *)
(* since al_cep_poll last found nothing.                                   *)
QueueMad ==
    /\ Live /\ kcep.mads < MaxEvents /\ (kcep.signalled \/ kcep.calls < MaxCalls)
    /\ kcep' = [kcep EXCEPT !.mads = @ + 1, !.signalled = TRUE,
                            !.calls = @ + IF kcep.signalled THEN 0 ELSE 1]
    /\ UNCHANGED <<p_irp, ucep, canceling, poll_fails, cancels>>

(* __process_cep, without the lock.                                        *)
ProcessCep ==
    /\ kcep.calls > 0 /\ kcep' = [kcep EXCEPT !.calls = @ - 1]
    /\ ucep' = CompleteIrp(ucep, "success") /\ p_irp' = NoUcep
    /\ UNCHANGED <<canceling, poll_fails, cancels>>

(* The I/O manager cancels a pended request: its cancel routine is         *)
(* entered, and waits for the endpoint manager's lock.                     *)
CancelIrp(u) ==
    /\ ucep[u].io = "pended" /\ canceling = NoUcep /\ cancels < MaxCancel
    /\ canceling' = u /\ cancels' = cancels + 1
    /\ UNCHANGED <<kcep, p_irp, ucep, poll_fails>>

(* __cep_cancel_irp: whatever request the endpoint with the identifier has *)
(* now is completed.                                                       *)
CepCancelIrp ==
    /\ canceling # NoUcep /\ canceling' = NoUcep
    /\ IF Live /\ p_irp # NoUcep
       THEN ucep' = [ucep EXCEPT ![p_irp].io = "cancelled", ![p_irp].struck = TRUE]
       ELSE UNCHANGED ucep
    /\ p_irp' = IF Live THEN NoUcep ELSE p_irp
    /\ UNCHANGED <<kcep, poll_fails, cancels>>

-----------------------------------------------------------------------------
(* The process *)

(* __create_ucep: the kernel's endpoint, by UAL_CREATE_CEP or with a REQ   *)
(* that was polled, on the identifier that is free; the ucep has a         *)
(* reference for itself and one for its request ...                        *)
CreateCep(u) ==
    /\ ucep[u].state = "new" /\ kcep = NoKcep
    /\ kcep' = [NoKcep EXCEPT !.owner = u]
    /\ ucep' = [ucep EXCEPT ![u].state = "made", ![u].ref_cnt = 2]
    /\ UNCHANGED <<p_irp, canceling, poll_fails, cancels>>

(* ... then the first request ...                                          *)
CreateUcep(u) ==
    /\ ucep[u].state = "made"
    /\ QueueIrp([ucep EXCEPT ![u].state = "open"], u)
    /\ UNCHANGED <<kcep, canceling, poll_fails, cancels>>

(* ... and when it cannot be issued, both are destroyed.                   *)
CreateUcepFails(u) ==
    /\ ucep[u].state = "made"
    /\ kcep' = [NoKcep EXCEPT !.calls = kcep.calls] /\ p_irp' = NoUcep
    /\ ucep' = [CompleteIrp(ucep, "cancelled") EXCEPT ![u].state = "freed", ![u].ref_cnt = 0]
    /\ UNCHANGED <<canceling, poll_fails, cancels>>

(* cm_cb begins; after an error no further request is made.                *)
CmCb(u) ==
    /\ ucep[u].io \in {"success", "cancelled"}
    /\ ucep' = IF ucep[u].io = "success"
               THEN [ucep EXCEPT ![u].io = "none", ![u].cb = "poll"]
               ELSE Deref([ucep EXCEPT ![u].io = "none"], u)
    /\ UNCHANGED <<kcep, p_irp, canceling, poll_fails, cancels>>

(* al_cep_poll, which the client's callback repeats until it fails.  The   *)
(* user's looks up the identifier first, the kernel's takes a MAD or       *)
(* clears signalled.                                                       *)
CepPoll(u) ==
    /\ ucep[u].cb = "poll"
    /\ \/ /\ Live /\ kcep.mads > 0
          /\ kcep' = [kcep EXCEPT !.mads = @ - 1] /\ UNCHANGED ucep
       \/ /\ Live /\ kcep.mads = 0
          /\ kcep' = [kcep EXCEPT !.signalled = FALSE]
          /\ ucep' = [ucep EXCEPT ![u].cb = "issue"]
       \/ /\ ~Live /\ ucep' = [ucep EXCEPT ![u].cb = "issue"] /\ UNCHANGED kcep
    /\ UNCHANGED <<p_irp, canceling, poll_fails, cancels>>

(* ib_get_mad fails in the user's al_cep_poll.                             *)
CepPollFails(u) ==
    /\ ucep[u].cb = "poll" /\ poll_fails < MaxPollFail
    /\ ucep' = [ucep EXCEPT ![u].cb = "issue"] /\ poll_fails' = poll_fails + 1
    /\ UNCHANGED <<kcep, p_irp, canceling, cancels>>

(* Mutant: the reference of the last request is released although the next *)
(* one is pended.                                                          *)
GetEvent_Released(u) ==
    LET us == [ucep EXCEPT ![u].cb = "none"] IN
    /\ ucep[u].cb = "issue"
    /\ \/ Live /\ QueueIrp(Deref(us, u), u)
       \/ ~Live /\ ucep' = Deref(us, u) /\ UNCHANGED p_irp
    /\ UNCHANGED <<kcep, canceling, poll_fails, cancels>>

(* Mutant: a request that finds MADs is taken for one that failed.         *)
GetEvent_Pending(u) ==
    LET us == [ucep EXCEPT ![u].cb = "none"] IN
    /\ ucep[u].cb = "issue"
    /\ \/ Live /\ kcep.mads = 0 /\ QueueIrp(us, u)
       \/ (Live => kcep.mads > 0) /\ ucep' = Deref(us, u) /\ UNCHANGED p_irp
    /\ UNCHANGED <<kcep, canceling, poll_fails, cancels>>

(* The end of cm_cb: the next request, or none if the endpoint is gone.    *)
GetEvent(u) ==
    LET us == [ucep EXCEPT ![u].cb = "none"] IN
    /\ ucep[u].cb = "issue"
    /\ \/ Live /\ QueueIrp(us, u)
       \/ ~Live /\ ucep' = Deref(us, u) /\ UNCHANGED p_irp
    /\ UNCHANGED <<kcep, canceling, poll_fails, cancels>>

(* Mutant: the request is left with the endpoint.                          *)
DestroyUcep_Pended(u) ==
    /\ ucep[u].state = "open"
    /\ kcep' = [NoKcep EXCEPT !.calls = kcep.calls] /\ UNCHANGED p_irp
    /\ ucep' = [Deref(ucep, u) EXCEPT ![u].state = "gone"]
    /\ UNCHANGED <<canceling, poll_fails, cancels>>

(* al_destroy_cep of both: the kernel's endpoint goes with its events, and *)
(* its request is canceled; the ucep is freed with the last reference.     *)
DestroyUcep(u) ==
    LET us == CompleteIrp(ucep, "cancelled") IN
    /\ ucep[u].state = "open"
    /\ kcep' = [NoKcep EXCEPT !.calls = kcep.calls] /\ p_irp' = NoUcep
    /\ ucep' = Deref([us EXCEPT ![u].state = "gone"], u)
    /\ UNCHANGED <<canceling, poll_fails, cancels>>

-----------------------------------------------------------------------------
CmCbStep(u) == CmCb(u) \/ CepPoll(u) \/ GetEvent(u)

IrpNext ==
    \/ QueueMad \/ ProcessCep \/ CepCancelIrp
    \/ \E u \in Ucep : CmCbStep(u) \/ CancelIrp(u) \/ CepPollFails(u)
                       \/ CreateCep(u) \/ CreateUcep(u) \/ CreateUcepFails(u)
                       \/ DestroyUcep(u)

(* Callbacks and completion threads run.                                   *)
IrpFairness ==
    /\ WF_irpvars(ProcessCep) /\ WF_irpvars(CepCancelIrp)
    /\ \A u \in Ucep : WF_irpvars(CmCbStep(u))

IrpSpec == IrpInit /\ [][IrpNext]_irpvars /\ IrpFairness

-----------------------------------------------------------------------------
(* Properties *)

(* Nobody waits for an event that is there: with a request pended on an    *)
(* endpoint that has MADs, __process_cep is on its way to complete it, or  *)
(* a callback is polling.  The exception is a poll that failed for want of *)
(* memory after the last MAD was taken: signalled is then left set, and    *)
(* the next MAD wakes nobody.                                              *)
NoLostEvent ==
    p_irp # NoUcep /\ kcep.mads > 0
        => kcep.calls > 0 \/ poll_fails > 0 \/ \E u \in Ucep : ucep[u].cb = "poll"

(* A ucep has one reference while it is not destroyed and one for its      *)
(* request, from before it is issued, or its callback, whoever completes   *)
(* the request; and a pended request is in p_irp, where something can      *)
(* complete it, so that p_irp is never a request of a freed ucep.          *)
RequestsExact ==
    \A u \in Ucep :
        /\ ucep[u].ref_cnt = (IF ucep[u].state = "open" THEN 1 ELSE 0)
             + (IF ucep[u].state = "made" THEN 2 ELSE 0)
             + (IF ucep[u].io # "none" THEN 1 ELSE 0) + (IF ucep[u].cb # "none" THEN 1 ELSE 0)
        /\ ucep[u].io = "pended" <=> p_irp = u

(* A ucep that is not destroyed always has a request or a callback that    *)
(* will make one, unless the cancel routine or a request of its            *)
(* predecessor on the identifier took it: then it hears of nothing more.   *)
DeafOnlyIfStruck ==
    \A u \in Ucep : ucep[u].state = "open" /\ ucep[u].io = "none" /\ ucep[u].cb = "none"
                      => ucep[u].struck

(* A destroyed ucep is freed once no more MADs arrive, or its request is   *)
(* pended on the endpoint of its successor: cm_cb, still in the client's   *)
(* callback when the endpoint was destroyed, asks for events by an         *)
(* identifier that is in use again.                                        *)
DestroyedUcepFreed ==
    <>[][~QueueMad]_irpvars
        => \A u \in Ucep : ucep[u].state = "gone" ~> ucep[u].state = "freed" \/ p_irp = u
=============================================================================
