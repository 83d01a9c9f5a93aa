----------------------------- MODULE MCServices -----------------------------
(***************************************************************************)
(* The services the connection manager stands on, for TLC: each behaviour  *)
(* is one of a single service, named by part; the variables of the others  *)
(* keep their initial values.  The state space is the sum of the services' *)
(* own, not their product.                                                 *)
(***************************************************************************)
EXTENDS ClAsyncProc, ClTimer, AlMadSvc, AlRmpp, CepIrp, AlFmrPool, ClQmap,
        SaClients, TLC

CONSTANT Parts     \* the services a run checks

VARIABLE part

allvars == <<part, vars, timervars, madvars, rmppvars, irpvars, fmrvars, mapvars,
             clientvars>>

MCInit ==
    /\ part \in Parts
    /\ Init /\ TimerInit /\ MadInit /\ RmppInit /\ IrpInit /\ FmrInit /\ MapInit
    /\ ClientsInit
    /\ part = "timer" \/ kind = "user"
    /\ (part = "mcast") = (sa_svc = ReadySvc)

Only(p) ==
    /\ part = p /\ UNCHANGED part
    /\ IF p = "async" THEN TRUE ELSE UNCHANGED vars
    /\ IF p = "timer" THEN TRUE ELSE UNCHANGED timervars
    /\ IF p = "mad"   THEN TRUE ELSE UNCHANGED madvars
    /\ IF p = "rmpp"  THEN TRUE ELSE UNCHANGED rmppvars
    /\ IF p = "irp"   THEN TRUE ELSE UNCHANGED irpvars
    /\ IF p = "fmr"   THEN TRUE ELSE UNCHANGED fmrvars
    /\ IF p = "map"   THEN TRUE ELSE UNCHANGED mapvars
    /\ IF p \in {"query", "mcast"} THEN TRUE ELSE UNCHANGED clientvars

(* Bound: a client asks for a flush only while it has no FMR itself.       *)
FlushesEmptyHanded ==
    \A c \in FmrClient : client'[c].pc \in {"signal", "wait"} => client'[c].el = NoFmr

MCNext ==
    \/ Only("async") /\ Next
    \/ Only("timer") /\ TimerNext
    \/ Only("mad") /\ MadNext
    \/ Only("rmpp") /\ RmppNext
    \/ Only("irp") /\ IrpNext
    \/ Only("fmr") /\ FmrNext /\ FlushesEmptyHanded
    \/ Only("map") /\ MapNext
    \/ Only("query") /\ QueryNext
    \/ Only("mcast") /\ McastNext

(* Where a service may stop: the processor once it is destroyed; a timer   *)
(* that is not being destroyed, as nothing need be started; a MAD service  *)
(* that is not being destroyed; a transfer that has ended; an endpoint,    *)
(* a pool, a map or an SA service that no client asks anything of.         *)
Quiet ==
    /\ CASE part = "async" -> pc[Owner] = "done"
         [] part = "timer" -> teardown \in {"none", "done"}
         [] part = "mad"   -> mad_bug \/ owner \in {"none", "wait", "done"}
         [] part = "rmpp"  -> out.state # "listed"
         [] part = "fmr"   -> fmr_pool # "closing" \/ waiting # <<>> \/ cleaner = "wait"
         [] part \in {"query", "mcast"} -> sa_bug # "none" \/ SaSettled
         [] part \in {"irp", "map"} -> TRUE
    /\ UNCHANGED allvars


(* Of the service that runs, the fairness its module states: the others    *)
(* are asked for nothing.                                                  *)
MCFairness ==
    /\ \A w \in Workers : WF_vars(part = "async" /\ PoolThread(w))
    /\ \A t \in Workers \cup {Owner} : WF_vars(part = "async" /\ Drain(t))
    /\ \A t \in Threads : WF_vars(part = "async" /\ Signal(t))
    /\ WF_vars(part = "async" /\ CountThread)
    /\ WF_vars(part = "async" /\ Destroy)
    /\ WF_timervars(part = "timer" /\ TimerTick)
    /\ WF_timervars(part = "timer" /\ TimerExpire)
    /\ WF_timervars(part = "timer" /\ TmrFlush)
    /\ \A c \in Cpu : WF_timervars(part = "timer" /\ CpuStep(c))
    /\ \A s \in Send : /\ WF_madvars(part = "mad" /\ MadComplete(s))
                       /\ WF_madvars(part = "mad" /\ Elapse(s))
    /\ \A m \in Mad : WF_madvars(part = "mad" /\ MadProcess(m))
    /\ WF_madvars(part = "mad" /\ \E r \in report : MadNotify(r))
    /\ WF_madvars(part = "mad" /\ SendDeref) /\ WF_madvars(part = "mad" /\ RegDec)
    /\ WF_madvars(part = "mad" /\ SendTimer) /\ WF_madvars(part = "mad" /\ OwnerStep)
    /\ WF_rmppvars(part = "rmpp" /\ \E ok \in BOOLEAN : RmppSendDone(ok))
    /\ WF_rmppvars(part = "rmpp" /\ RmppElapse)
    /\ WF_rmppvars(part = "rmpp" /\ RmppSendTimer)
    /\ WF_rmppvars(part = "rmpp" /\ RecvTimer)
    /\ WF_irpvars(part = "irp" /\ ProcessCep) /\ WF_irpvars(part = "irp" /\ CepCancelIrp)
    /\ \A u \in Ucep : WF_irpvars(part = "irp" /\ CmCbStep(u))
    /\ WF_fmrvars(part = "fmr" /\ Cleaner) /\ WF_fmrvars(part = "fmr" /\ CleanupFmrPool)
    /\ \A c \in FmrClient : WF_fmrvars(part = "fmr" /\ FmrCall(c))
    /\ WF_clientvars(part = "query" /\ QueryProgress)
    /\ WF_clientvars(part = "mcast" /\ McastProgress)

(* The variables of every service keep their types.                        *)
ServicesTypeOK == TypeOK /\ TimerTypeOK /\ MadTypeOK /\ RmppTypeOK /\ IrpTypeOK /\ FmrTypeOK
                  /\ ClientsTypeOK

MCSpec == MCInit /\ [][MCNext \/ Quiet]_allvars /\ MCFairness
=============================================================================
