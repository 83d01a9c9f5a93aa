------------------------------ MODULE CepState ------------------------------
(***************************************************************************)
(* One connection endpoint (kcep_t) of the kernel communication manager,  *)
(* core/al/kernel/al_cm_cep.c, and the helpers the manager's handlers and  *)
(* API calls build their steps from.  Every helper takes the endpoint as a *)
(* record and returns it changed; all of them run under the manager's lock *)
(* in the code, so each is a piece of one atomic step.                     *)
(***************************************************************************)
EXTENDS Integers, FiniteSets, Sequences

CONSTANTS
    Node,       \* the channel adapters, which stand for their CA GUIDs
    CidCount,   \* bound: the last index the CID vector can grow to
    Qpn,        \* queue pair numbers, nonzero
    SendIds,    \* bound: MADs of one endpoint the MAD service may hold
    NoNode      \* a CA GUID of zero

ASSUME CidAssumption == CidCount \in Nat \ {0}
ASSUME QpnAssumption == Qpn \subseteq Nat \ {0}
ASSUME SendIdsAssumption == SendIds \subseteq Nat \ {0} /\ IsFiniteSet(SendIds)
ASSUME NodeAssumption == NoNode \notin Node

Cid == 1 .. CidCount  \* the indices of the CID vector; the free list begins at 1

(***************************************************************************)
(* cep_state_t.  FREE stands for a CID that holds no endpoint.             *)
(***************************************************************************)
ReqSent  == {"REQ_SENT", "REQ_MRA_RCVD"}
RepSent  == {"REP_SENT", "REP_MRA_RCVD"}
LapSent  == {"LAP_SENT", "LAP_MRA_RCVD"}
ReqRcvd  == {"REQ_RCVD", "REQ_MRA_SENT"}
RepRcvd  == {"REP_RCVD", "REP_MRA_SENT"}
LapRcvd  == {"LAP_RCVD", "LAP_MRA_SENT"}
PreRep   == {"PRE_REP", "PRE_REP_MRA_SENT"}
PreApr   == {"PRE_APR", "PRE_APR_MRA_SENT"}
Prep     == {"PRE_REQ"} \cup PreRep \cup PreApr
Dying    == {"DESTROY", "DREQ_DESTROY"}
State    == {"FREE", "IDLE", "LISTEN", "ESTABLISHED", "TIMEWAIT", "DREQ_SENT",
             "DREQ_RCVD"} \cup ReqSent \cup RepSent \cup LapSent \cup ReqRcvd
            \cup RepRcvd \cup LapRcvd \cup Prep \cup Dying

(***************************************************************************)
(* The states that are ESTABLISHED with an alternate path exchange in      *)
(* flight, as the switch statements group them.                            *)
(***************************************************************************)
Connected == {"ESTABLISHED"} \cup LapSent \cup LapRcvd

(***************************************************************************)
(* A communication ID is the CID and its 8-bit modifier; 0 is no ID.       *)
(***************************************************************************)
NoId   == <<0, 0>>
CommId == ({0} \cup Cid) \X Nat

(***************************************************************************)
(* A MAD on an endpoint's list is told apart only by the endpoint that was *)
(* created for it, if it is a REQ (send_context1).                         *)
(***************************************************************************)
Event == SUBSET Cid
Plain == {}

MadKinds == {"REQ", "MRA", "REJ", "REP", "RTU", "DREQ", "DREP", "LAP", "APR"}

(***************************************************************************)
(* A MAD: its addresses, the sender's ID for the connection, the ID it     *)
(* has for the receiver's endpoint, a QPN (REQ, REP: the sender's; DREQ:   *)
(* the receiver's) and what an MRA or REJ is about.                        *)
(***************************************************************************)
Msg == [kind : MadKinds, to : Node, from : Node,
        lid : CommId, rid : CommId, qpn : Qpn \cup {0},
        what : {"", "REQ", "REP", "LAP", "TIMEOUT", "OTHER"}]

(***************************************************************************)
(* kcep_t.  p_send_mad is 0 for NULL; sends are the MADs sent with         *)
(* __cep_send_retry whose completion has not run, derefs the references    *)
(* whose holder has left the lock and is about to drop them; rem_id_item,  *)
(* rem_qp_item and timewait_item say whether the endpoint is linked in     *)
(* conn_id_map, conn_qp_map and timewait_list; mads holds the MAD kept     *)
(* for __repeat_mad, if any; bound says that h_al is a user's AL instance; *)
(* destroyed counts calls of pfn_destroy_cb.                               *)
(***************************************************************************)
Cep == [state : State, local_comm_id : CommId, remote_comm_id : CommId,
        remote_ca_guid : Node \cup {NoNode}, dst : Node \cup {NoNode},
        local_qpn : Qpn \cup {0}, remote_qpn : Qpn \cup {0},
        was_active : BOOLEAN, p_mad : BOOLEAN, p_send_mad : SendIds \cup {0},
        sends : SUBSET SendIds, derefs : Nat, ref_cnt : Nat,
        mads : SUBSET Msg,
        mad_list : Seq(Event), signalled : BOOLEAN,
        rem_id_item : BOOLEAN, rem_qp_item : BOOLEAN, timewait_item : BOOLEAN,
        bound : BOOLEAN, pfn_destroy_cb : BOOLEAN, destroyed : Nat]

(***************************************************************************)
(* cl_memclr and the fields __create_cep sets.                             *)
(***************************************************************************)
NewCep(id) ==
    [state |-> "IDLE", local_comm_id |-> id, remote_comm_id |-> NoId,
     remote_ca_guid |-> NoNode, dst |-> NoNode, local_qpn |-> 0,
     remote_qpn |-> 0, was_active |-> FALSE, p_mad |-> FALSE, p_send_mad |-> 0,
     sends |-> {}, derefs |-> 0, ref_cnt |-> 1, mads |-> {},
     mad_list |-> <<>>, signalled |-> FALSE, rem_id_item |-> FALSE,
     rem_qp_item |-> FALSE, timewait_item |-> FALSE, bound |-> FALSE,
     pfn_destroy_cb |-> FALSE, destroyed |-> 0]

(***************************************************************************)
(* A CID entry with no endpoint.  Its modifier survives.                   *)
(***************************************************************************)
FreeCid(id) == [NewCep(id) EXCEPT !.state = "FREE", !.ref_cnt = 0]

-----------------------------------------------------------------------------
(***************************************************************************)
(* The MADs an endpoint of node n sends: __format_req, __format_rep and    *)
(* the rest fill in the IDs the same way.                                  *)
(***************************************************************************)
Mad(kind, n, k, qpn, what) ==
    [kind |-> kind, to |-> k.dst, from |-> n, lid |-> k.local_comm_id,
     rid |-> k.remote_comm_id, qpn |-> qpn, what |-> what]

Drep(n, k) == Mad("DREP", n, k, 0, "")

(***************************************************************************)
(* __cep_queue_mad.  The first MAD of an unsignalled endpoint takes a      *)
(* reference for the callback __process_cep makes after the unlock.        *)
(***************************************************************************)
QueueMad_Unsignalled(k, e) ==  \* Mutant: signalled is not set.
    IF k.state = "DESTROY" THEN k
    ELSE IF k.mad_list # <<>> \/ k.signalled
    THEN [k EXCEPT !.mad_list = Append(@, e)]
    ELSE [k EXCEPT !.mad_list = <<e>>, !.ref_cnt = @ + 1, !.derefs = @ + 1]

QueueMad(k, e) ==
    IF k.state = "DESTROY" THEN k
    ELSE IF k.mad_list # <<>> \/ k.signalled
    THEN [k EXCEPT !.mad_list = Append(@, e)]
    ELSE [k EXCEPT !.mad_list = <<e>>, !.signalled = TRUE,
                   !.ref_cnt = @ + 1, !.derefs = @ + 1]

(***************************************************************************)
(* What asking the port's agent for a MAD, and then the MAD service to     *)
(* send it, can come to: no agent or no MAD, or ib_send_mad refusing.      *)
(***************************************************************************)
Outcome == {"ok", "nomad", "refused"}

(***************************************************************************)
(* __cep_send_retry when ib_send_mad accepts the MAD.  When it refuses,    *)
(* the endpoint ends as it was but for p_send_mad.                         *)
(***************************************************************************)
FreshSend(k) == CHOOSE i \in SendIds : i \notin k.sends
CanSend(k)   == SendIds \ k.sends # {}

SendRetry(k) ==
    [k EXCEPT !.p_send_mad = FreshSend(k), !.sends = @ \cup {FreshSend(k)},
              !.ref_cnt = @ + 1]
SendRefused(k) == [k EXCEPT !.p_send_mad = 0]

(***************************************************************************)
(* ib_cancel_mad with the pointer cleared.  The MAD service still completes*)
(* the send; until then it holds its reference.                            *)
(***************************************************************************)
CancelSend(k) == [k EXCEPT !.p_send_mad = 0]

PutMad(k)  == [k EXCEPT !.p_mad = FALSE]
To(k, s)   == [k EXCEPT !.state = s]
Keep(k, m) == [k EXCEPT !.mads = {m}]  \* for __repeat_mad to send again

(***************************************************************************)
(* __remove_cep.                                                           *)
(***************************************************************************)
RemoveCep_KeepId(k) ==  \* Mutant: the ID map entry is left behind.
    [k EXCEPT !.remote_comm_id = NoId,
              !.rem_qp_item = @ /\ k.remote_qpn = 0,
              !.remote_qpn = 0]

RemoveCep(k) ==
    [k EXCEPT !.rem_id_item = @ /\ k.remote_comm_id = NoId,
              !.remote_comm_id = NoId,
              !.rem_qp_item = @ /\ k.remote_qpn = 0,
              !.remote_qpn = 0]

(***************************************************************************)
(* __insert_timewait, with the state the callers give the endpoint.        *)
(***************************************************************************)
EnterTimewait_NotLinked(k, s) == To(k, s)  \* Mutant.

EnterTimewait(k, s) == [k EXCEPT !.state = s, !.timewait_item = TRUE]

(***************************************************************************)
(* __process_rej.  REQ_RCVD is the one state that ends without an event;   *)
(* states it does not name ignore the REJ.                                 *)
(***************************************************************************)
ProcessRej_Prepared(k) ==  \* Mutant: the prepared MAD is kept.
    CASE k.state \in ReqSent \cup RepSent ->
           QueueMad(To(RemoveCep(CancelSend(k)), "IDLE"), Plain)
      [] k.state \in RepRcvd \cup PreRep \cup {"REQ_MRA_SENT"} ->
           QueueMad(To(RemoveCep(k), "IDLE"), Plain)
      [] OTHER -> k

ProcessRej(k) ==
    CASE k.state \in ReqSent \cup RepSent ->
           QueueMad(To(RemoveCep(CancelSend(k)), "IDLE"), Plain)
      [] k.state \in RepRcvd \cup PreRep \cup {"REQ_MRA_SENT"} ->
           QueueMad(To(RemoveCep(PutMad(k)), "IDLE"), Plain)
      [] k.state = "REQ_RCVD" -> To(RemoveCep(k), "IDLE")
      [] k.state \in Connected \cup PreApr ->
           QueueMad(EnterTimewait(PutMad(k), "TIMEWAIT"), Plain)
      [] OTHER -> k

(***************************************************************************)
(* __cleanup_cep, without the messages it sends: out is the outcome of     *)
(* __dreq_cep.  The endpoint enters the timewait list, except when it is   *)
(* in it already or first has to wait for the DREQ to complete.  A MAD     *)
(* prepared for an APR stays allocated.                                    *)
(***************************************************************************)
CleanupState(n, k, out) ==
    CASE k.state \in Connected \cup PreApr ->
           IF out = "ok" THEN To(SendRetry(k), "DREQ_DESTROY")
           ELSE EnterTimewait(IF out = "refused" THEN SendRefused(k) ELSE k,
                              "DESTROY")
      [] k.state = "DREQ_SENT" -> To(k, "DREQ_DESTROY")
      [] k.state = "DREQ_RCVD" -> EnterTimewait(Keep(k, Drep(n, k)), "DESTROY")
      [] k.state = "TIMEWAIT" -> To(k, "DESTROY")
      [] k.state \in PreRep \cup {"PRE_REQ"} ->
           EnterTimewait(PutMad(k), "DESTROY")
      [] OTHER -> EnterTimewait(k, "DESTROY")

CleanupCep_KeepRef(n, k, out) ==  \* Mutant: the create reference is kept.
    CleanupState(n, [k EXCEPT !.mad_list = <<>>], out)

CleanupCep(n, k, out) ==
    [CleanupState(n, [k EXCEPT !.mad_list = <<>>], out) EXCEPT !.ref_cnt = @ - 1]

(***************************************************************************)
(* The MADs __cleanup_cep sends.                                           *)
(***************************************************************************)
CleanupMads(n, k, out) ==
    CASE k.state \in PreRep \cup ReqRcvd \cup RepRcvd ->
           {Mad("REJ", n, k, 0, "OTHER")}
      [] k.state \in ReqSent \cup RepSent -> {Mad("REJ", n, k, 0, "TIMEOUT")}
      [] k.state \in Connected \cup PreApr /\ out = "ok" ->
           {Mad("DREQ", n, k, k.remote_qpn, "")}
      [] k.state = "DREQ_RCVD" -> {Drep(n, k)}
      [] OTHER -> {}

(***************************************************************************)
(* __unbind_cep: the endpoint leaves its user's AL instance.               *)
(***************************************************************************)
Unbind(k) == [k EXCEPT !.bound = FALSE]

(***************************************************************************)
(* __destroy_cep.  References or map entries the endpoint still had would  *)
(* now point at freed memory.                                              *)
(***************************************************************************)
DestroyCep(k) ==
    [FreeCid(k.local_comm_id) EXCEPT
        !.sends = k.sends, !.derefs = k.derefs,
        !.rem_id_item = k.rem_id_item, !.rem_qp_item = k.rem_qp_item]

(***************************************************************************)
(* The destroy callback runs when a reference is dropped to zero.          *)
(***************************************************************************)
NotifyDestroy_Early(k) ==  \* Mutant: references are not waited for.
    IF k.pfn_destroy_cb THEN [k EXCEPT !.destroyed = @ + 1] ELSE k

NotifyDestroy(k) ==
    IF k.ref_cnt = 0 /\ k.pfn_destroy_cb
    THEN [k EXCEPT !.destroyed = @ + 1] ELSE k
=============================================================================
