------------------------------- MODULE SaReq -------------------------------
(***************************************************************************)
(* Requests to the subnet administrator (core/al/kernel/al_sa_req.c): the  *)
(* service of one port, created and destroyed with the port, and requests  *)
(* of its clients, which find the service, send a MAD on it and are called *)
(* back.  The MAD service under it is what MadContract promises; what the  *)
(* clients do is in SaClients.                                             *)
(*                                                                         *)
(* A service reference keeps the sa_req_svc_t.  It keeps neither the MAD   *)
(* service nor the queue pair, which the destruction of the service        *)
(* destroys: sa_bug names the pointer when one is used that may be stale,  *)
(* and the model stops there.                                              *)
(***************************************************************************)
EXTENDS Integers, FiniteSets

CONSTANT SaReqs      \* the al_sa_req_t of the clients

VARIABLES
    sa_svc,          \* sa_req_svc_t, and how far create_sa_req_svc has come
    sa_req,          \* al_sa_req_t of each request
    sa_outcome,      \* of the MAD of each request: outcome in MadContract
    sa_answered,     \* the requests the SA has answered
    sa_mad,          \* h_mad_svc: open, closing or closed
    sa_bug           \* the stale pointer that was used, or none

savars == <<sa_svc, sa_req, sa_outcome, sa_answered, sa_mad, sa_bug>>

SaMad == INSTANCE MadContract WITH
    Sends <- SaReqs, outcome <- sa_outcome, answered <- sa_answered, service <- sa_mad

(* Where create_sa_req_svc stands, in the order of the source.             *)
Creating == {"attached", "port", "qp", "ref", "mad"}

(* Where a request is: not sent; with a service; sent; about to be called  *)
(* back and called back, its send still to be reported after a response;   *)
(* not sent after all; done.                                               *)
SaReqPc == {"idle", "issued", "acquired", "out", "calling", "called", "send", "failed", "done"}

(* ref_cnt counts the object, its creator, the queue pair and requests;    *)
(* p_sa_req_svc and p_mad_request tell whether the pointers are set.       *)
SaTypeOK ==
    /\ sa_svc \in [at : {"none", "ready", "failed", "removed"} \cup Creating,
                   state : {"none", "live", "destroying", "down"},
                   sm_lid : BOOLEAN, qp : {"none", "open", "closing", "closed"},
                   h_mad_svc : BOOLEAN, event : BOOLEAN, ref_cnt : 0..(3 + Cardinality(SaReqs))]
    /\ sa_req \in [SaReqs -> [pc : SaReqPc, cb : {"none", "recv", "send"},
                              p_sa_req_svc : BOOLEAN, p_mad_request : BOOLEAN,
                              canceled : BOOLEAN, sync : BOOLEAN,
                              status : {"none", "success", "failed"}]]
    /\ sa_outcome \in [SaReqs -> SaMad!Outcomes]
    /\ sa_answered \subseteq SaReqs
    /\ sa_mad \in {"open", "closing", "closed"}
    /\ sa_bug \in {"none", "h_mad_svc", "h_qp", "init", "p_sa_req_svc", "p_sa_req", "context"}

NoSvc == [at |-> "none", state |-> "none", sm_lid |-> FALSE, qp |-> "none",
          h_mad_svc |-> FALSE, event |-> FALSE, ref_cnt |-> 0]

ReadySvc == [at |-> "ready", state |-> "live", sm_lid |-> TRUE, qp |-> "open",
             h_mad_svc |-> TRUE, event |-> FALSE, ref_cnt |-> 2]

(* Before the port is added, or with the service created.                  *)
SaInit ==
    /\ sa_svc \in {NoSvc, ReadySvc}
    /\ sa_req = [r \in SaReqs |-> [pc |-> "idle", cb |-> "none", p_sa_req_svc |-> FALSE,
                                   p_mad_request |-> FALSE, canceled |-> FALSE,
                                   sync |-> FALSE, status |-> "none"]]
    /\ SaMad!ContractInit
    /\ sa_bug = "none"

contract == <<sa_outcome, sa_answered, sa_mad>>

(* A request that is over: all that may still be read is the pointer to    *)
(* the service.                                                            *)
Over(r) == [pc |-> "done", cb |-> "none", p_sa_req_svc |-> r.p_sa_req_svc,
            p_mad_request |-> FALSE, canceled |-> FALSE, sync |-> FALSE, status |-> "none"]

Freed == sa_svc.state = "down" /\ sa_svc.ref_cnt = 0

Stale(p) == sa_bug' = p /\ UNCHANGED <<sa_svc, sa_req, contract>>

-----------------------------------------------------------------------------
(* The service of the port *)

(* destroy_obj, with the reference the caller gives up: the first call     *)
(* marks the object, and goes on in DestroyingSvc.                         *)
DestroySvc(s) == [s EXCEPT !.state = IF @ = "live" THEN "destroying" ELSE @]

(* create_sa_req_svc, from the allocation to attach_al_obj.                *)
CreateSvc ==
    /\ sa_svc.at = "none"
    /\ \/ sa_svc' = [sa_svc EXCEPT !.at = "failed"]
       \/ sa_svc' = [sa_svc EXCEPT !.at = "attached", !.state = "live", !.ref_cnt = 2]
    /\ UNCHANGED <<sa_req, contract, sa_bug>>

(* A step of init_sa_req_svc fails: the service is destroyed with the      *)
(* reference of init_al_obj.                                               *)
InitFails ==
    /\ sa_svc.at \in Creating \ {"qp"}
    /\ sa_svc' = [DestroySvc(sa_svc) EXCEPT !.at = "failed", !.ref_cnt = @ - 1]
    /\ UNCHANGED <<sa_req, contract, sa_bug>>

(* The port is recorded, with the LID of the subnet manager if it has one: *)
(* from here on acquire_sa_req_svc finds the service.                      *)
InitPort ==
    /\ sa_svc.at = "attached"
    /\ \E lid \in BOOLEAN : sa_svc' = [sa_svc EXCEPT !.at = "port", !.sm_lid = lid]
    /\ UNCHANGED <<sa_req, contract, sa_bug>>

(* ib_get_spl_qp: events of the queue pair find the service from here on,  *)
(* and its destruction drops a reference that is taken only now.           *)
InitQp ==
    /\ sa_svc.at = "port"
    /\ sa_svc' = [sa_svc EXCEPT !.at = "qp", !.qp = "open"]
    /\ UNCHANGED <<sa_req, contract, sa_bug>>

InitRef ==
    /\ sa_svc.at = "qp"
    /\ IF Freed THEN Stale("init")
       ELSE /\ sa_svc' = [sa_svc EXCEPT !.at = "ref", !.ref_cnt = @ + 1]
            /\ UNCHANGED <<sa_req, contract, sa_bug>>

(* ib_reg_mad_svc, which a queue pair that is being destroyed refuses.     *)
InitMad ==
    /\ sa_svc.at = "ref"
    /\ \/ /\ sa_svc.qp = "open"
          /\ sa_svc' = [sa_svc EXCEPT !.at = "mad", !.h_mad_svc = TRUE]
          /\ UNCHANGED <<sa_req, contract, sa_bug>>
       \/ sa_svc.qp = "closed" /\ Stale("h_qp")

(* ib_create_av, and the end of create_sa_req_svc.                         *)
InitAv ==
    /\ sa_svc.at = "mad"
    /\ sa_svc' = [sa_svc EXCEPT !.at = "ready", !.ref_cnt = @ - 1]
    /\ UNCHANGED <<sa_req, contract, sa_bug>>

(* sa_req_mgr_pnp_cb finds the service through the context of the port,    *)
(* which is not reset when the service is destroyed by an event; its       *)
(* address vector is gone by then, the service when the last reference is. *)
PortActive ==
    /\ sa_svc.at = "ready"
    /\ IF sa_svc.state = "down" THEN Stale("context")
       ELSE /\ ~sa_svc.sm_lid /\ sa_svc' = [sa_svc EXCEPT !.sm_lid = TRUE]
            /\ UNCHANGED <<sa_req, contract, sa_bug>>

PortDown ==
    /\ sa_svc.at = "ready"
    /\ IF Freed THEN Stale("context")
       ELSE /\ sa_svc.sm_lid /\ sa_svc' = [sa_svc EXCEPT !.sm_lid = FALSE]
            /\ UNCHANGED <<sa_req, contract, sa_bug>>

PortRemove ==
    /\ sa_svc.at = "ready"
    /\ IF Freed THEN Stale("context")
       ELSE /\ sa_svc' = [DestroySvc(sa_svc) EXCEPT !.at = "removed"]
            /\ UNCHANGED <<sa_req, contract, sa_bug>>

(* sa_req_svc_event_cb: the alias has failed with its queue pair.          *)
QpEvent ==
    /\ sa_svc.qp = "open" /\ sa_svc.state = "live"
    /\ sa_svc' = [DestroySvc(sa_svc) EXCEPT !.event = TRUE]
    /\ UNCHANGED <<sa_req, contract, sa_bug>>

(* destroying_sa_req_svc destroys the queue pair, and with it the MAD      *)
(* service, which cancels what it has; then the object's own reference.    *)
DestroyingSvc ==
    /\ sa_svc.state = "destroying"
    /\ sa_svc' = [sa_svc EXCEPT !.state = "down", !.ref_cnt = @ - 1,
                                !.qp = IF @ = "open" THEN "closing" ELSE @]
    /\ IF sa_svc.qp = "open" THEN SaMad!Dereg ELSE UNCHANGED contract
    /\ UNCHANGED <<sa_req, sa_bug>>

(* The MAD service has reported every send and made its callbacks; it is   *)
(* freed, the queue pair after it, whose destroy callback drops the last   *)
(* reference it had on the service.                                        *)
QpClosed ==
    /\ sa_svc.qp = "closing"
    /\ \A r \in SaReqs : sa_req[r].pc \notin {"calling", "called", "send"}
    /\ SaMad!Close
    /\ sa_svc' = [sa_svc EXCEPT !.qp = "closed", !.ref_cnt = @ - 1]
    /\ UNCHANGED <<sa_req, sa_bug>>

-----------------------------------------------------------------------------
(* A request *)

(* acquire_sa_req_svc, called by al_send_sa_req: a service that is not     *)
(* being destroyed and knows its subnet manager.  The lock of the manager  *)
(* keeps it in the list, not from being destroyed.                         *)
Acquire(r) ==
    /\ sa_req[r].pc = "issued"
    /\ IF sa_svc.state = "live" /\ sa_svc.sm_lid
       THEN /\ sa_svc' = [sa_svc EXCEPT !.ref_cnt = @ + 1]
            /\ sa_req' = [sa_req EXCEPT ![r].pc = "acquired", ![r].p_sa_req_svc = TRUE]
       ELSE /\ sa_req' = [sa_req EXCEPT ![r].pc = "failed", ![r].p_sa_req_svc = FALSE]
            /\ UNCHANGED sa_svc
    /\ UNCHANGED <<contract, sa_bug>>

(* The service is not released when the MAD cannot be sent.                *)
SendFails_Kept(r) ==
    /\ sa_req[r].pc = "acquired"
    /\ sa_req' = [sa_req EXCEPT ![r].pc = "failed"]
    /\ UNCHANGED <<sa_svc, contract, sa_bug>>

(* The rest of al_send_sa_req when ib_get_mad or ib_send_mad fails, as     *)
(* they do while the service has no pool key or no MAD service.  The       *)
(* pointer to the service stays.                                           *)
SendFails(r) ==
    /\ sa_req[r].pc = "acquired"
    /\ sa_svc' = [sa_svc EXCEPT !.ref_cnt = @ - 1]
    /\ sa_req' = [sa_req EXCEPT ![r].pc = "failed"]
    /\ UNCHANGED <<contract, sa_bug>>

(* ... and when they succeed: the MAD asks for a response.  Nothing keeps  *)
(* the MAD service from being deregistered since the request found it.     *)
SendSaReq(r) ==
    /\ sa_req[r].pc = "acquired" /\ sa_svc.h_mad_svc
    /\ \/ /\ sa_mad = "open"
          /\ SaMad!Issue(r) /\ sa_outcome'[r].asks
          /\ sa_req' = [sa_req EXCEPT ![r].pc = "out", ![r].p_mad_request = TRUE]
          /\ UNCHANGED <<sa_svc, sa_bug>>
       \/ sa_mad # "open" /\ Stale("h_mad_svc")

(* al_cancel_sa_req: ib_cancel_mad on the service's MAD service, which     *)
(* reports the send as canceled if it still has it.                        *)
StaleCancel(R) ==
    \E r \in R : \/ ~sa_req[r].p_sa_req_svc
                 \/ Freed
                 \/ sa_svc.h_mad_svc /\ sa_mad = "closed"
Cancel(R) ==
    [r \in SaReqs |-> [sa_req[r] EXCEPT !.canceled = @ \/ (r \in R /\ sa_req[r].pc = "out")]]

(* The SA answers a request that was sent; what comes after the report is  *)
(* dropped by the MAD service.                                             *)
SaAnswers(r) ==
    /\ SaMad!Out(r) /\ r \notin sa_answered /\ SaMad!Answer(r)
    /\ UNCHANGED <<sa_svc, sa_req, sa_bug>>

(* The MAD service reports the send: as canceled only if it was cancelled, *)
(* by the client or with the service.  The callback for a response comes   *)
(* first, sa_req_recv_comp_cb, otherwise it is sa_req_send_comp_cb with a  *)
(* failed send; either has set the status and is about to call             *)
(* pfn_sa_req_cb.  An error without a response is treated as a time-out    *)
(* is, which stands for both.                                              *)
Report(r) ==
    /\ SaMad!Complete(r)
    /\ sa_outcome'[r].status = "canceled" => sa_req[r].canceled \/ sa_mad = "closing"
    /\ sa_outcome'[r].status = "error" => sa_outcome'[r].resp
    /\ \E st \in {"success", "failed"} :
         /\ st = "success" => sa_outcome'[r].resp
         /\ sa_req' = [sa_req EXCEPT ![r].pc = "calling", ![r].status = st,
                                     ![r].cb = IF sa_outcome'[r].resp THEN "recv" ELSE "send"]
    /\ UNCHANGED <<sa_svc, sa_bug>>

(* The rest of both: the event of a synchronous call is set and the        *)
(* service released, through pointers read before the callback.            *)
CompCbEnd(r) ==
    /\ sa_req[r].pc = "called"
    /\ sa_req' = [sa_req EXCEPT ![r] = IF @.cb = "recv" THEN [@ EXCEPT !.pc = "send", !.sync = FALSE]
                                       ELSE Over(@)]
    /\ sa_svc' = [sa_svc EXCEPT !.ref_cnt = @ - 1]
    /\ UNCHANGED <<contract, sa_bug>>

(* sa_req_send_comp_cb after a response: it does nothing if the send was   *)
(* successful, and calls pfn_sa_req_cb, of a request that may be gone, if  *)
(* it has failed.                                                          *)
SendCompCb(r) ==
    /\ sa_req[r].pc = "send"
    /\ \/ /\ sa_outcome[r].status = "success"
          /\ sa_req' = [sa_req EXCEPT ![r] = Over(@)]
          /\ UNCHANGED <<sa_svc, contract, sa_bug>>
       \/ sa_outcome[r].status # "success" /\ Stale("p_sa_req")

(* What a thread goes on to do, and what may or may not happen.            *)
SvcStep ==
    \/ InitFails \/ InitPort \/ InitQp \/ InitRef \/ InitMad \/ InitAv \/ DestroyingSvc \/ QpClosed

SvcEvent == CreateSvc \/ PortActive \/ PortDown \/ QpEvent

ReqStep(r) ==
    \/ Acquire(r) \/ SendFails(r) \/ SendSaReq(r)
    \/ Report(r) \/ SendCompCb(r) \/ CompCbEnd(r)

-----------------------------------------------------------------------------
(* What a request holds: the service, from acquire_sa_req_svc to the end   *)
(* of the callback.                                                        *)
HasService(r) == sa_req[r].pc \in {"acquired", "out", "calling", "called"}
=============================================================================
