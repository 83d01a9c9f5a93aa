------------------------------- MODULE CmCep --------------------------------
(***************************************************************************)
(* The kernel communication manager of core/al/kernel/al_cm_cep.c on each  *)
(* of several channel adapters, joined by a network that may lose,         *)
(* duplicate and reorder MADs.  A step is one critical section of          *)
(* gp_cep_mgr->lock: a received MAD, an API call of a user, a send         *)
(* completion, the timewait timer, or the dropping of a reference that the *)
(* code does after the unlock.  A call or MAD the code refuses or drops    *)
(* without effect is a stuttering step and has no action.                  *)
(***************************************************************************)
EXTENDS CepState

CONSTANTS
    Ops,            \* [Node -> set of API calls its users make]
    ModifierRange,  \* 2^8 in cep_cid_t
    UserQpn,        \* [Node -> set of QPs its users connect]
    MaxIssued,      \* bound: [Node -> communication IDs it hands out]
    MaxFaults,      \* bound: failures of the agent or MAD service
    MaxEvents       \* bound: events of an endpoint left waiting when its user
                    \*   starts or ends another alternate path exchange

ASSUME RangeAssumption == ModifierRange \in Nat \ {0}
ASSUME UserAssumption == UserQpn \in [Node -> SUBSET Qpn]
ASSUME BoundAssumption == MaxIssued \in [Node -> Nat] /\ MaxFaults \in Nat
                          /\ MaxEvents \in Nat

VARIABLES
    cep,        \* [Node -> [Cid -> Cep]]: the CID vector and its endpoints
    free_cid,   \* [Node -> Seq(Cid)]: the free list of the CID vector
    handles,    \* [Node -> SUBSET Cid]: the CIDs users know and may pass in
    net,        \* every MAD ever put on the wire
    issued,     \* [Node -> Nat]: communication IDs handed out
    faults      \* failures so far

vars == <<cep, free_cid, handles, net, issued, faults>>

(***************************************************************************)
(* Answers a MAD without an endpoint of our own: __reject_req and          *)
(* __send_unaffiliated_drep.                                               *)
(***************************************************************************)
Reply(m, kind, what) ==
    [kind |-> kind, to |-> m.from, from |-> m.to,
     lid |-> IF kind = "DREP" THEN m.rid ELSE NoId, rid |-> m.lid,
     qpn |-> 0, what |-> what]

-----------------------------------------------------------------------------
(***************************************************************************)
(* Every variable has its type; in particular no reference count and no    *)
(* number of references still to be dropped is negative, whatever order    *)
(* the completions and callbacks of an endpoint come in.                   *)
(***************************************************************************)
TypeOK ==
    /\ cep \in [Node -> [Cid -> Cep]]
    /\ free_cid \in [Node -> Seq(Cid)]
    /\ handles \in [Node -> SUBSET Cid]
    /\ net \subseteq Msg
    /\ issued \in [Node -> Nat]
    /\ faults \in Nat

Init ==
    /\ cep = [n \in Node |-> [c \in Cid |-> FreeCid(<<c, 0>>)]]
    /\ free_cid = [n \in Node |-> [i \in 1 .. CidCount |-> i]]
    /\ handles = [n \in Node |-> {}]
    /\ net = {}
    /\ issued = [n \in Node |-> 0]
    /\ faults = 0

-----------------------------------------------------------------------------
(***************************************************************************)
(* Lookups.  A MAD names an endpoint by its whole communication ID, a user *)
(* by CID alone.                                                           *)
(***************************************************************************)
Live(n, c) == cep[n][c].state # "FREE"
Match(n, c, id) == Live(n, c) /\ cep[n][c].local_comm_id = id

(***************************************************************************)
(* __lookup_by_id: the endpoints in conn_id_map under a remote ID.         *)
(***************************************************************************)
ById(n, id, guid) ==
    {c \in Cid : /\ cep[n][c].rem_id_item
                 /\ cep[n][c].remote_comm_id = id
                 /\ cep[n][c].remote_ca_guid = guid}

Listener(n) == {c \in Cid : cep[n][c].state = "LISTEN"}

(***************************************************************************)
(* The modifier's next value: never 0 for CID 0, whose ID would be 0 (that *)
(* CID is never handed out).                                               *)
(***************************************************************************)
NextModifier(c, id) ==
    LET m == (id[2] + 1) % ModifierRange IN IF c = 0 /\ m = 0 THEN 1 ELSE m

NextId(n, c) == <<c, NextModifier(c, cep[n][c].local_comm_id)>>

Issue(n) == issued[n] < MaxIssued[n] /\ issued' = [issued EXCEPT ![n] = @ + 1]

Try(out) ==
    /\ out = "ok" \/ faults < MaxFaults
    /\ faults' = IF out = "ok" THEN faults ELSE faults + 1

Set(n, c, k) == cep' = [cep EXCEPT ![n][c] = k]
Send(ms) == net' = net \cup ms

(***************************************************************************)
(* Bound: few events and completions wait.  Without it alternate path      *)
(* exchanges could follow each other for ever with no event polled.        *)
(***************************************************************************)
Settled(k) == Len(k.mad_list) + k.derefs < MaxEvents

(***************************************************************************)
(* The user of node n makes call op on an endpoint it holds.               *)
(***************************************************************************)
Call(op, n, c) == op \in Ops[n] /\ c \in handles[n] /\ cep[n][c].bound

-----------------------------------------------------------------------------
(***************************************************************************)
(* Received MADs.                                                          *)
(***************************************************************************)

(***************************************************************************)
(* __repeat_mad, as the handlers call it for a MAD received again.         *)
(***************************************************************************)
RepeatMad(n, c) ==
    /\ cep[n][c].state \in {"REQ_MRA_SENT", "REP_MRA_SENT", "LAP_MRA_SENT",
                            "ESTABLISHED", "TIMEWAIT"}
    /\ Send(cep[n][c].mads)
    /\ UNCHANGED <<cep, free_cid, handles, issued, faults>>

(***************************************************************************)
(* __req_handler, a REQ whose remote ID is known: our MRA again, or stale. *)
(***************************************************************************)
ReqRepeated(n, m) ==
    \E c \in ById(n, m.lid, m.from) :
        \/ cep[n][c].state = "REQ_MRA_SENT" /\ RepeatMad(n, c)
        \/ /\ cep[n][c].state \in {"TIMEWAIT", "DESTROY"}
           /\ Send({Reply(m, "REJ", "OTHER")})
           /\ UNCHANGED <<cep, free_cid, handles, issued, faults>>

(***************************************************************************)
(* The endpoint made for a REQ (__save_wire_req, __bind_cep, __insert_cep) *)
(* and the REQ's MAD, which names it.                                      *)
(***************************************************************************)
ReqCep(id, m) ==
    [NewCep(id) EXCEPT
        !.state = "REQ_RCVD", !.remote_comm_id = m.lid,
        !.remote_ca_guid = m.from, !.dst = m.from, !.remote_qpn = m.qpn,
        !.rem_id_item = TRUE, !.rem_qp_item = TRUE, !.bound = TRUE]

ReqEvent_Unnamed(c) == Plain  \* Mutant: send_context1 is not set.

ReqEvent(c) == {c}

(***************************************************************************)
(* __req_handler, a new REQ: a new endpoint for the listener's user, in    *)
(* both maps, and the REQ on the listener's list.  __insert_cep cannot     *)
(* find the remote ID a second time, and __insert_by_qpn reads the items   *)
(* of conn_qp_map as those of conn_id_map, so that the fields it compares  *)
(* are those of the path and never equal: no REQ is found stale here.      *)
(***************************************************************************)
ReqAccepted(n, m) ==
    /\ ById(n, m.lid, m.from) = {} /\ Listener(n) # {} /\ free_cid[n] # <<>>
    /\ Issue(n)
    /\ LET l == CHOOSE c \in Listener(n) : TRUE
           c == Head(free_cid[n])
       IN cep' = [cep EXCEPT ![n][c] = ReqCep(NextId(n, c), m),
                             ![n][l] = QueueMad(@, ReqEvent(c))]
    /\ free_cid' = [free_cid EXCEPT ![n] = Tail(@)]
    /\ UNCHANGED <<handles, net, faults>>

(***************************************************************************)
(* __req_handler, no listener or no endpoint to be had.                    *)
(***************************************************************************)
ReqRejected(n, m) ==
    /\ ById(n, m.lid, m.from) = {}
    /\ Listener(n) = {} \/ free_cid[n] = <<>>
    /\ Send({Reply(m, "REJ", "OTHER")})
    /\ UNCHANGED <<cep, free_cid, handles, issued, faults>>

ReqHandler(n, m) ==
    /\ m.kind = "REQ"
    /\ ReqRepeated(n, m) \/ ReqAccepted(n, m) \/ ReqRejected(n, m)

(***************************************************************************)
(* __mra_handler, the first MRA for the message we are retrying.  A later  *)
(* one only delays the retries.                                            *)
(***************************************************************************)
MraHandler(n, m) ==
    \E c \in Cid :
        LET k == cep[n][c] IN
        /\ m.kind = "MRA" /\ Match(n, c, m.rid)
        /\ k.remote_comm_id \in {NoId, m.lid}
        /\ \/ m.what = "REQ" /\ k.state = "REQ_SENT"
           \/ m.what = "REP" /\ k.state = "REP_SENT"
           \/ m.what = "LAP" /\ k.state = "LAP_SENT"
        /\ Set(n, c, QueueMad(To(k, CASE m.what = "REQ" -> "REQ_MRA_RCVD"
                                      [] m.what = "REP" -> "REP_MRA_RCVD"
                                      [] m.what = "LAP" -> "LAP_MRA_RCVD"),
                              Plain))
        /\ UNCHANGED <<free_cid, handles, net, issued, faults>>

(***************************************************************************)
(* __rej_handler.  A REJ that does not carry our ID is looked up by the    *)
(* sender's, but only if it tells of a timeout.                            *)
(***************************************************************************)
RejHandler(n, m) ==
    \E c \in Cid :
        LET k == cep[n][c] IN
        /\ m.kind = "REJ"
        /\ \/ m.rid # NoId /\ Match(n, c, m.rid)
           \/ m.rid = NoId /\ m.what = "TIMEOUT" /\ c \in ById(n, m.lid, m.from)
        /\ k.remote_comm_id \in {NoId, m.lid}
        /\ Set(n, c, ProcessRej(k))
        /\ UNCHANGED <<free_cid, handles, net, issued, faults>>

(***************************************************************************)
(* __rep_handler, the REP we wait for.  Its remote ID may be one that      *)
(* another endpoint is connected to: then the connection is failed by      *)
(* __process_stale, which needs a MAD to do so.                            *)
(***************************************************************************)
RepCep(k, m) ==  \* __save_wire_rep and __insert_cep
    [k EXCEPT !.state = "REP_RCVD", !.remote_comm_id = m.lid,
              !.remote_ca_guid = m.from, !.remote_qpn = m.qpn,
              !.rem_id_item = TRUE, !.rem_qp_item = TRUE]

RepAccepted_AnyId(n, m) ==  \* Mutant: conn_id_map is not searched.
    \E c \in Cid :
        /\ m.kind = "REP" /\ Match(n, c, m.rid) /\ cep[n][c].state \in ReqSent
        /\ Set(n, c, QueueMad(CancelSend(RepCep(cep[n][c], m)), Plain))
        /\ UNCHANGED <<free_cid, handles, net, issued, faults>>

RepAccepted(n, m) ==
    \E c \in Cid :
        /\ m.kind = "REP" /\ Match(n, c, m.rid) /\ cep[n][c].state \in ReqSent
        /\ ById(n, m.lid, m.from) = {}
        /\ Set(n, c, QueueMad(CancelSend(RepCep(cep[n][c], m)), Plain))
        /\ UNCHANGED <<free_cid, handles, net, issued, faults>>

RepStale(n, m) ==
    \E c \in Cid, out \in {"ok", "nomad"} :
        LET k == [cep[n][c] EXCEPT !.remote_comm_id = NoId, !.remote_qpn = 0,
                                   !.remote_ca_guid = m.from]
        IN /\ m.kind = "REP" /\ Match(n, c, m.rid)
           /\ cep[n][c].state \in ReqSent
           /\ ById(n, m.lid, m.from) # {}
           /\ Try(out)
           /\ Set(n, c, IF out = "ok" THEN ProcessRej(k) ELSE k)
           /\ Send({Mad("REJ", n, k, 0, "OTHER")})
           /\ UNCHANGED <<free_cid, handles, issued>>

RepRepeated(n, m) ==
    \E c \in Cid :
        /\ m.kind = "REP" /\ Match(n, c, m.rid)
        /\ cep[n][c].state \in Connected \cup {"REP_MRA_SENT"}
        /\ RepeatMad(n, c)

RepHandler(n, m) == RepAccepted(n, m) \/ RepStale(n, m) \/ RepRepeated(n, m)

(***************************************************************************)
(* The handlers of the MADs that name both IDs of a connection.            *)
(***************************************************************************)
Peer(n, c, m) == Match(n, c, m.rid) /\ cep[n][c].remote_comm_id = m.lid

RtuHandler(n, m) ==
    \E c \in Cid :
        /\ m.kind = "RTU" /\ Peer(n, c, m) /\ cep[n][c].state \in RepSent
        /\ Set(n, c, QueueMad(To(CancelSend(cep[n][c]), "ESTABLISHED"), Plain))
        /\ UNCHANGED <<free_cid, handles, net, issued, faults>>

(***************************************************************************)
(* __dreq_handler.  A DREQ that names no connection of ours is answered    *)
(* all the same; one that meets our own DREQ cancels it.                   *)
(***************************************************************************)
DreqUnaffiliated(n, m) ==
    /\ m.kind = "DREQ"
    /\ \A c \in Cid : ~(Peer(n, c, m) /\ cep[n][c].local_qpn = m.qpn)
    /\ Send({Reply(m, "DREP", "")})
    /\ UNCHANGED <<cep, free_cid, handles, issued, faults>>

DreqAccepted(n, m) ==
    \E c \in Cid :
        LET k == cep[n][c] IN
        /\ m.kind = "DREQ" /\ Peer(n, c, m) /\ k.local_qpn = m.qpn
        /\ k.state \in RepSent \cup {"DREQ_SENT"} \cup Connected
        /\ Set(n, c, QueueMad(To(IF k.state \in Connected THEN k
                                 ELSE CancelSend(k), "DREQ_RCVD"), Plain))
        /\ UNCHANGED <<free_cid, handles, net, issued, faults>>

DreqRepeated(n, m) ==
    \E c \in Cid :
        LET k == cep[n][c] IN
        /\ m.kind = "DREQ" /\ Peer(n, c, m) /\ k.local_qpn = m.qpn
        /\ \/ k.state = "TIMEWAIT" /\ RepeatMad(n, c)
           \/ /\ k.state = "DREQ_DESTROY"
              /\ Set(n, c, Keep(k, Drep(n, k)))
              /\ Send({Drep(n, k)})
              /\ UNCHANGED <<free_cid, handles, issued, faults>>

DreqHandler(n, m) ==
    DreqUnaffiliated(n, m) \/ DreqAccepted(n, m) \/ DreqRepeated(n, m)

DrepHandler(n, m) ==
    \E c \in Cid :
        LET k == cep[n][c] IN
        /\ m.kind = "DREP" /\ Peer(n, c, m)
        /\ \/ /\ k.state = "DREQ_SENT"
              /\ Set(n, c, QueueMad(EnterTimewait(CancelSend(k), "TIMEWAIT"),
                                    Plain))
           \/ /\ k.state = "DREQ_DESTROY"
              /\ Set(n, c, EnterTimewait(CancelSend(k), "DESTROY"))
        /\ UNCHANGED <<free_cid, handles, net, issued, faults>>

(***************************************************************************)
(* __lap_handler: a LAP is good for a lost RTU.                            *)
(***************************************************************************)
LapHandler(n, m) ==
    \E c \in Cid :
        LET k == cep[n][c] IN
        /\ m.kind = "LAP" /\ Peer(n, c, m)
        /\ \/ /\ k.state \in RepSent \cup {"ESTABLISHED"} /\ ~k.was_active
              /\ Set(n, c, QueueMad(To(k, "LAP_RCVD"), Plain))
              /\ UNCHANGED <<free_cid, handles, net, issued, faults>>
           \/ k.state = "LAP_MRA_SENT" /\ RepeatMad(n, c)

AprHandler_Uncancelled(n, m) ==  \* Mutant: the LAP is not cancelled.
    \E c \in Cid :
        /\ m.kind = "APR" /\ Peer(n, c, m) /\ cep[n][c].state \in LapSent
        /\ Set(n, c, QueueMad(To(cep[n][c], "ESTABLISHED"), Plain))
        /\ UNCHANGED <<free_cid, handles, net, issued, faults>>

AprHandler(n, m) ==
    \E c \in Cid :
        /\ m.kind = "APR" /\ Peer(n, c, m) /\ cep[n][c].state \in LapSent
        /\ Set(n, c, QueueMad(To(CancelSend(cep[n][c]), "ESTABLISHED"), Plain))
        /\ UNCHANGED <<free_cid, handles, net, issued, faults>>

-----------------------------------------------------------------------------
(***************************************************************************)
(* API calls.                                                              *)
(***************************************************************************)

(***************************************************************************)
(* al_create_cep: __create_cep, __bind_cep and kal_cep_config.             *)
(***************************************************************************)
Create(n) ==
    /\ "create" \in Ops[n] /\ free_cid[n] # <<>> /\ Issue(n)
    /\ LET c == Head(free_cid[n]) IN
       /\ Set(n, c, [NewCep(NextId(n, c)) EXCEPT !.bound = TRUE,
                                                 !.pfn_destroy_cb = TRUE])
       /\ handles' = [handles EXCEPT ![n] = @ \cup {c}]
    /\ free_cid' = [free_cid EXCEPT ![n] = Tail(@)]
    /\ UNCHANGED <<net, faults>>

(***************************************************************************)
(* al_cep_listen.  A second listener on the service ID is refused, after   *)
(* a prepared REQ has been dropped.                                        *)
(***************************************************************************)
Listen(n, c) ==
    /\ Call("listen", n, c)
    /\ cep[n][c].state \in {"IDLE", "PRE_REQ"}
    /\ cep[n][c].state = "PRE_REQ" => cep[n][c].p_mad
    /\ Set(n, c, To(PutMad(cep[n][c]),
                    IF Listener(n) = {} THEN "LISTEN" ELSE "IDLE"))
    /\ UNCHANGED <<free_cid, handles, net, issued, faults>>

(***************************************************************************)
(* The endpoints created for REQs that wait on c's list, and those as      *)
(* __cleanup_mad_list leaves them.                                         *)
(***************************************************************************)
Waiting(n, c) ==
    UNION {cep[n][c].mad_list[i] : i \in 1 .. Len(cep[n][c].mad_list)}

CleanupMadList(n, c) ==
    [d \in Cid |-> IF d \in Waiting(n, c)
                   THEN CleanupCep(n, Unbind(cep[n][d]), "ok") ELSE cep[n][d]]

CleanupMadListMads(n, c) ==
    UNION {CleanupMads(n, cep[n][d], "ok") : d \in Waiting(n, c)}

(***************************************************************************)
(* al_destroy_cep and kal_cep_destroy, which drops a REQ silently when its *)
(* caller is out of resources.                                             *)
(***************************************************************************)
Destroy(n, c, drop, out) ==
    LET k == IF drop THEN To(cep[n][c], "IDLE") ELSE cep[n][c] IN
    /\ Call(IF drop THEN "drop" ELSE "destroy", n, c)
    /\ drop => cep[n][c].state \in ReqRcvd
    /\ k.state \in Prep \ PreApr => k.p_mad
    /\ IF k.state \in Connected \cup PreApr
       THEN Try(out) /\ (out = "ok" => CanSend(k))
       ELSE out = "ok" /\ UNCHANGED faults
    /\ cep' = [cep EXCEPT ![n] = [CleanupMadList(n, c) EXCEPT
                 ![c] = NotifyDestroy(CleanupCep(n, Unbind(k), out))]]
    /\ handles' = [handles EXCEPT ![n] = @ \ {c}]
    /\ Send(CleanupMads(n, k, out) \cup CleanupMadListMads(n, c))
    /\ UNCHANGED <<free_cid, issued>>

(***************************************************************************)
(* kal_cep_cancel_listen.                                                  *)
(***************************************************************************)
CancelListen(n, c) ==
    /\ Call("cancel", n, c) /\ cep[n][c].state = "LISTEN"
    /\ cep' = [cep EXCEPT ![n] = [CleanupMadList(n, c) EXCEPT
                 ![c] = [To(@, "IDLE") EXCEPT !.mad_list = <<>>]]]
    /\ Send(CleanupMadListMads(n, c))
    /\ UNCHANGED <<free_cid, handles, issued, faults>>

(***************************************************************************)
(* kal_cep_pre_req.  Without a port for the path (nomad) __save_user_req   *)
(* fails when it has only marked the endpoint active, without a MAD or     *)
(* with bad private data (refused) it is done: the endpoint has a new      *)
(* communication ID.  A REQ prepared before is gone in any case.           *)
(***************************************************************************)
SaveUserReq_SameId(n, c, q, p) ==  \* Mutant: the modifier is not advanced.
    [PutMad(cep[n][c]) EXCEPT
        !.remote_comm_id = NoId, !.remote_ca_guid = NoNode, !.dst = p,
        !.local_qpn = q, !.remote_qpn = 0, !.was_active = TRUE]

SaveUserReq(n, c, q, p) ==
    [PutMad(cep[n][c]) EXCEPT
        !.local_comm_id = NextId(n, c), !.remote_comm_id = NoId,
        !.remote_ca_guid = NoNode, !.dst = p, !.local_qpn = q,
        !.remote_qpn = 0, !.was_active = TRUE]

PreReq(n, c, q, p, out) ==
    /\ Call("pre_req", n, c) /\ p # n
    /\ cep[n][c].state \in {"IDLE", "PRE_REQ"}
    /\ cep[n][c].state = "PRE_REQ" => cep[n][c].p_mad
    /\ Try(out)
    /\ \/ /\ out = "nomad"
          /\ Set(n, c, [PutMad(cep[n][c]) EXCEPT !.was_active = TRUE])
          /\ UNCHANGED issued
       \/ /\ out = "refused" /\ Set(n, c, SaveUserReq(n, c, q, p))
          /\ Issue(n)
       \/ /\ out = "ok" /\ Issue(n)
          /\ Set(n, c, [SaveUserReq(n, c, q, p) EXCEPT !.state = "PRE_REQ",
                                                       !.p_mad = TRUE])
    /\ UNCHANGED <<free_cid, handles, net>>

(***************************************************************************)
(* al_cep_send_req.                                                        *)
(***************************************************************************)
SendReq(n, c, out) ==
    LET k == PutMad(cep[n][c]) IN
    /\ Call("send_req", n, c)
    /\ cep[n][c].state = "PRE_REQ" /\ cep[n][c].p_mad
    /\ Try(out)
    /\ \/ /\ out = "ok" /\ CanSend(k)
          /\ Set(n, c, To(SendRetry(k), "REQ_SENT"))
          /\ Send({Mad("REQ", n, k, k.local_qpn, "")})
       \/ out = "nomad" /\ Set(n, c, To(k, "IDLE")) /\ UNCHANGED net
       \/ out = "refused" /\ Set(n, c, To(SendRefused(k), "IDLE")) /\ UNCHANGED net
    /\ UNCHANGED <<free_cid, handles, issued>>

(***************************************************************************)
(* al_cep_pre_rep and kal_cep_pre_rep.  Out of MADs, or with bad private   *)
(* data after the QPN is saved, the state stays and the MAD is gone.       *)
(***************************************************************************)
PrepState(s) == CASE s \in {"REQ_RCVD", "PRE_REP"} -> "PRE_REP"
                  [] s \in {"REQ_MRA_SENT", "PRE_REP_MRA_SENT"} -> "PRE_REP_MRA_SENT"
                  [] s \in {"LAP_RCVD", "PRE_APR"} -> "PRE_APR"
                  [] s \in {"LAP_MRA_SENT", "PRE_APR_MRA_SENT"} -> "PRE_APR_MRA_SENT"

PreRepCall(n, c, q, out) ==
    LET k == PutMad(cep[n][c]) IN
    /\ Call("pre_rep", n, c)
    /\ cep[n][c].state \in ReqRcvd \cup PreRep
    /\ cep[n][c].state \in PreRep => cep[n][c].p_mad
    /\ Try(out)
    /\ Set(n, c, CASE out = "nomad"   -> k
                   [] out = "refused" -> [k EXCEPT !.local_qpn = q]
                   [] out = "ok"      -> [k EXCEPT !.local_qpn = q, !.p_mad = TRUE,
                                                   !.state = PrepState(@),
                                                   !.pfn_destroy_cb = TRUE])
    /\ UNCHANGED <<free_cid, handles, net, issued>>

(***************************************************************************)
(* al_cep_send_rep.  Without an agent the endpoint goes back to IDLE and   *)
(* stays in the maps.                                                      *)
(***************************************************************************)
SendRep(n, c, out) ==
    LET k == PutMad(cep[n][c]) IN
    /\ Call("send_rep", n, c)
    /\ cep[n][c].state \in PreRep /\ cep[n][c].p_mad
    /\ Try(out)
    /\ \/ /\ out = "ok" /\ CanSend(k)
          /\ Set(n, c, To(SendRetry(k), "REP_SENT"))
          /\ Send({Mad("REP", n, k, k.local_qpn, "")})
       \/ out = "nomad" /\ Set(n, c, To(k, "IDLE")) /\ UNCHANGED net
       \/ /\ out = "refused" /\ UNCHANGED net
          /\ Set(n, c, To(RemoveCep(SendRefused(k)), "IDLE"))
    /\ UNCHANGED <<free_cid, handles, issued>>

(***************************************************************************)
(* al_cep_rtu.                                                             *)
(***************************************************************************)
SendRtu(n, c) ==
    LET k == cep[n][c]
        m == Mad("RTU", n, k, 0, "")
    IN /\ Call("rtu", n, c) /\ k.state \in RepRcvd
       /\ Set(n, c, To(Keep(k, m), "ESTABLISHED"))
       /\ Send({m})
       /\ UNCHANGED <<free_cid, handles, issued, faults>>

(***************************************************************************)
(* al_cep_rej.                                                             *)
(***************************************************************************)
SendRej(n, c) ==
    LET k == cep[n][c] IN
    /\ Call("rej", n, c)
    /\ \/ k.state \in ReqRcvd /\ Set(n, c, To(RemoveCep(k), "IDLE"))
       \/ k.state \in RepRcvd /\ Set(n, c, EnterTimewait(k, "TIMEWAIT"))
    /\ Send({Mad("REJ", n, k, 0, "OTHER")})
    /\ UNCHANGED <<free_cid, handles, issued, faults>>

(***************************************************************************)
(* al_cep_mra.                                                             *)
(***************************************************************************)
SendMra(n, c) ==
    LET k == cep[n][c]
        m == Mad("MRA", n, k, 0, CASE k.state \in {"REQ_RCVD", "PRE_REP"} -> "REQ"
                                   [] k.state = "REP_RCVD" -> "REP"
                                   [] OTHER -> "LAP")
    IN /\ Call("mra", n, c)
       /\ k.state \in {"REQ_RCVD", "PRE_REP", "REP_RCVD", "LAP_RCVD", "PRE_APR"}
       /\ Set(n, c, To(Keep(k, m), CASE k.state = "REQ_RCVD" -> "REQ_MRA_SENT"
                                     [] k.state = "PRE_REP"  -> "PRE_REP_MRA_SENT"
                                     [] k.state = "REP_RCVD" -> "REP_MRA_SENT"
                                     [] k.state = "LAP_RCVD" -> "LAP_MRA_SENT"
                                     [] k.state = "PRE_APR"  -> "PRE_APR_MRA_SENT"))
       /\ Send({m})
       /\ UNCHANGED <<free_cid, handles, issued, faults>>

(***************************************************************************)
(* al_cep_lap.  A failure changes nothing.                                 *)
(***************************************************************************)
SendLap(n, c) ==
    LET k == cep[n][c] IN
    /\ Call("lap", n, c) /\ k.state = "ESTABLISHED" /\ k.was_active
    /\ CanSend(k) /\ Settled(k)
    /\ Set(n, c, To(SendRetry(k), "LAP_SENT"))
    /\ Send({Mad("LAP", n, k, 0, "")})
    /\ UNCHANGED <<free_cid, handles, issued, faults>>

(***************************************************************************)
(* al_cep_pre_apr.                                                         *)
(***************************************************************************)
PreAprCall(n, c, out) ==
    LET k == PutMad(cep[n][c]) IN
    /\ Call("pre_apr", n, c) /\ out # "refused"
    /\ cep[n][c].state \in LapRcvd \cup PreApr
    /\ cep[n][c].state \in PreApr => cep[n][c].p_mad
    /\ Try(out)
    /\ Set(n, c, IF out = "nomad" THEN k
                 ELSE [k EXCEPT !.p_mad = TRUE, !.state = PrepState(@)])
    /\ UNCHANGED <<free_cid, handles, net, issued>>

(***************************************************************************)
(* al_cep_send_apr.  Without an agent the state stays.                     *)
(***************************************************************************)
SendApr_Kept(n, c, out) ==  \* Mutant: p_mad is not cleared.
    LET k == cep[n][c] IN
    /\ Call("send_apr", n, c)
    /\ cep[n][c].state \in PreApr /\ cep[n][c].p_mad
    /\ Settled(k)
    /\ Try(out)
    /\ \/ /\ out = "ok" /\ Set(n, c, To(k, "ESTABLISHED"))
          /\ Send({Mad("APR", n, k, 0, "")})
       \/ out = "nomad" /\ Set(n, c, k) /\ UNCHANGED net
    /\ UNCHANGED <<free_cid, handles, issued>>

SendApr(n, c, out) ==
    LET k == PutMad(cep[n][c]) IN
    /\ Call("send_apr", n, c)
    /\ cep[n][c].state \in PreApr /\ cep[n][c].p_mad
    /\ Settled(k)
    /\ Try(out)
    /\ \/ /\ out = "ok" /\ Set(n, c, To(k, "ESTABLISHED"))
          /\ Send({Mad("APR", n, k, 0, "")})
       \/ out = "nomad" /\ Set(n, c, k) /\ UNCHANGED net
    /\ UNCHANGED <<free_cid, handles, issued>>

(***************************************************************************)
(* al_cep_dreq.                                                            *)
(***************************************************************************)
SendDreq(n, c, out) ==
    LET k == cep[n][c] IN
    /\ Call("dreq", n, c) /\ k.state \in Connected
    /\ Try(out)
    /\ \/ /\ out = "ok" /\ CanSend(k)
          /\ Set(n, c, To(SendRetry(k), "DREQ_SENT"))
          /\ Send({Mad("DREQ", n, k, k.remote_qpn, "")})
       \/ /\ out = "refused" /\ UNCHANGED net
          /\ Set(n, c, EnterTimewait(SendRefused(k), "TIMEWAIT"))
    /\ UNCHANGED <<free_cid, handles, issued>>

(***************************************************************************)
(* al_cep_drep.                                                            *)
(***************************************************************************)
SendDrep(n, c) ==
    LET k == cep[n][c] IN
    /\ Call("drep", n, c) /\ k.state = "DREQ_RCVD"
    /\ Set(n, c, EnterTimewait(Keep(k, Drep(n, k)), "TIMEWAIT"))
    /\ Send({Drep(n, k)})
    /\ UNCHANGED <<free_cid, handles, issued, faults>>

(***************************************************************************)
(* al_cep_established: the QP saw traffic before the RTU came.             *)
(***************************************************************************)
Established(n, c) ==
    /\ Call("established", n, c) /\ cep[n][c].state \in RepSent
    /\ Set(n, c, To(CancelSend(cep[n][c]), "ESTABLISHED"))
    /\ UNCHANGED <<free_cid, handles, net, issued, faults>>

(***************************************************************************)
(* al_cep_poll: the head of the list, and with a REQ its new endpoint, or  *)
(* IB_NOT_DONE, after which the next MAD calls back again.                 *)
(***************************************************************************)
Poll(n, c) ==
    LET k == cep[n][c] IN
    /\ Call("poll", n, c)
    /\ \/ /\ k.mad_list # <<>>
          /\ Set(n, c, [k EXCEPT !.mad_list = Tail(@)])
          /\ handles' = [handles EXCEPT ![n] = @ \cup Head(k.mad_list)]
       \/ /\ k.mad_list = <<>> /\ Set(n, c, [k EXCEPT !.signalled = FALSE])
          /\ UNCHANGED handles
    /\ UNCHANGED <<free_cid, net, issued, faults>>

-----------------------------------------------------------------------------
(***************************************************************************)
(* __cep_mad_send_cb: a retried send has timed out or been cancelled.  If  *)
(* the endpoint still waits for its answer, the exchange has failed.  The  *)
(* reference of the send is dropped after the unlock.                      *)
(***************************************************************************)
SendFailed_LapStays(n, k) ==  \* Mutant: a failed LAP leaves LAP_SENT.
    CASE k.state \in ReqSent \cup RepSent ->
           QueueMad(To(RemoveCep(k), "IDLE"), Plain)
      [] k.state = "DREQ_DESTROY" -> EnterTimewait(k, "DESTROY")
      [] k.state = "DESTROY" -> k
      [] k.state = "DREQ_SENT" ->
           QueueMad(EnterTimewait(Keep(k, Drep(n, k)), "TIMEWAIT"), Plain)
      [] OTHER -> QueueMad(k, Plain)

SendFailed_NotLinked(n, k) ==  \* Mutant: no timewait after a failed DREQ.
    CASE k.state = "DREQ_DESTROY" -> To(k, "DESTROY")
      [] k.state = "DESTROY" -> k
      [] OTHER -> QueueMad(To(RemoveCep(k), "IDLE"), Plain)

SendFailed(n, k) ==
    CASE k.state \in ReqSent \cup RepSent ->
           QueueMad(To(RemoveCep(k), "IDLE"), Plain)
      [] k.state = "DREQ_DESTROY" -> EnterTimewait(k, "DESTROY")
      [] k.state = "DESTROY" -> k
      [] k.state = "DREQ_SENT" ->
           QueueMad(EnterTimewait(Keep(k, Drep(n, k)), "TIMEWAIT"), Plain)
      [] k.state = "LAP_SENT" -> QueueMad(To(k, "ESTABLISHED"), Plain)
      [] OTHER -> QueueMad(k, Plain)

SendCb(n, c, id) ==
    LET k == [cep[n][c] EXCEPT !.sends = @ \ {id}, !.derefs = @ + 1] IN
    /\ id \in cep[n][c].sends
    /\ IF k.p_send_mad # id
       THEN Set(n, c, k) /\ UNCHANGED net
       ELSE /\ Set(n, c, SendFailed(n, CancelSend(k)))
            /\ Send(IF k.state \in ReqSent \cup RepSent
                    THEN {Mad("REJ", n, k, 0, "TIMEOUT")} ELSE {})
    /\ UNCHANGED <<free_cid, handles, issued, faults>>

(***************************************************************************)
(* The end of __process_cep and of __cep_mad_send_cb, outside the lock:    *)
(* a reference is dropped, and the last one calls back.                    *)
(***************************************************************************)
Deref(n, c) ==
    /\ cep[n][c].derefs > 0
    /\ Set(n, c, NotifyDestroy([cep[n][c] EXCEPT !.derefs = @ - 1,
                                                 !.ref_cnt = @ - 1]))
    /\ UNCHANGED <<free_cid, handles, net, issued, faults>>

(***************************************************************************)
(* __process_timewait for an endpoint whose timer has expired.  The timer  *)
(* may expire at any time: how long a timewait lasts is not modelled.      *)
(***************************************************************************)
TimewaitExpired_Referenced(n, c) ==  \* Mutant: ref_cnt is not looked at.
    /\ cep[n][c].timewait_item /\ cep[n][c].state = "DESTROY"
    /\ Set(n, c, DestroyCep(RemoveCep(cep[n][c])))
    /\ free_cid' = [free_cid EXCEPT ![n] = <<c>> \o @]
    /\ UNCHANGED <<handles, net, issued, faults>>

TimewaitExpired(n, c) ==
    LET k == cep[n][c] IN
    /\ k.timewait_item /\ k.ref_cnt = 0
    /\ IF k.state = "DESTROY"
       THEN /\ Set(n, c, DestroyCep(RemoveCep(k)))
            /\ free_cid' = [free_cid EXCEPT ![n] = <<c>> \o @]
       ELSE /\ Set(n, c, [To(RemoveCep(k), "IDLE") EXCEPT !.timewait_item = FALSE])
            /\ UNCHANGED free_cid
    /\ UNCHANGED <<handles, net, issued, faults>>

-----------------------------------------------------------------------------
Receive(n) ==
    \E m \in net :
        /\ m.to = n
        /\ \/ ReqHandler(n, m)  \/ MraHandler(n, m)  \/ RejHandler(n, m)
           \/ RepHandler(n, m)  \/ RtuHandler(n, m)  \/ DreqHandler(n, m)
           \/ DrepHandler(n, m) \/ LapHandler(n, m)  \/ AprHandler(n, m)

Api(n) ==
    \/ Create(n)
    \/ \E c \in Cid :
          \/ Listen(n, c) \/ CancelListen(n, c) \/ SendRtu(n, c)
          \/ SendRej(n, c) \/ SendMra(n, c) \/ SendLap(n, c)
          \/ SendDrep(n, c) \/ Established(n, c) \/ Poll(n, c)
          \/ \E out \in Outcome :
                \/ \E drop \in BOOLEAN : Destroy(n, c, drop, out)
                \/ \E q \in UserQpn[n], p \in Node : PreReq(n, c, q, p, out)
                \/ \E q \in UserQpn[n] : PreRepCall(n, c, q, out)
                \/ SendReq(n, c, out) \/ SendRep(n, c, out)
                \/ PreAprCall(n, c, out) \/ SendApr(n, c, out)
                \/ SendDreq(n, c, out)

Internal(n) ==
    \E c \in Cid :
        \/ \E id \in SendIds : SendCb(n, c, id)
        \/ Deref(n, c)
        \/ TimewaitExpired(n, c)

Next == \E n \in Node : Receive(n) \/ Api(n) \/ Internal(n)

Spec == Init /\ [][Next]_vars

(***************************************************************************)
(* The MAD service completes every send (al_mad.c retries a bounded number *)
(* of times), the code after an unlock runs, and the timewait timer is     *)
(* rearmed as long as the list is not empty.  Users owe nothing.           *)
(***************************************************************************)
Fairness ==
    \A n \in Node, c \in Cid :
        /\ \A id \in SendIds : WF_vars(SendCb(n, c, id))
        /\ WF_vars(Deref(n, c))
        /\ WF_vars(TimewaitExpired(n, c))

FairSpec == Spec /\ Fairness

-----------------------------------------------------------------------------
(***************************************************************************)
(* No event is lost: MADs wait on a list only while the user is, or is     *)
(* about to be, called back to poll them (the assertion of line 3552).     *)
(***************************************************************************)
QueuedIsSignalled ==
    \A n \in Node, c \in Cid : cep[n][c].mad_list # <<>> => cep[n][c].signalled

(***************************************************************************)
(* The timewait list holds exactly the endpoints in TIMEWAIT and DESTROY,  *)
(* which is what __process_timewait asserts of its members, and what makes *)
(* sure an endpoint being destroyed is found by the timer.                 *)
(***************************************************************************)
TimewaitList ==
    \A n \in Node, c \in Cid :
        cep[n][c].timewait_item <=> cep[n][c].state \in {"TIMEWAIT", "DESTROY"}

(***************************************************************************)
(* ref_cnt is one for the user until destruction, one for each send the    *)
(* MAD service holds and one for each callback or completion that is still *)
(* running: an endpoint is never freed under one of them.                  *)
(***************************************************************************)
References ==
    \A n \in Node, c \in Cid :
        LET k == cep[n][c] IN
        k.ref_cnt = (IF k.state \in Dying \cup {"FREE"} THEN 0 ELSE 1)
                    + Cardinality(k.sends) + k.derefs

(***************************************************************************)
(* A freed endpoint has left the MAD service, the callbacks and the maps.  *)
(***************************************************************************)
FreedIsClean ==
    \A n \in Node, c \in Cid :
        LET k == cep[n][c] IN
        k.state = "FREE" => /\ k.sends = {} /\ k.derefs = 0
                            /\ ~k.rem_id_item /\ ~k.rem_qp_item

(***************************************************************************)
(* The destroy callback runs once, when the last reference is dropped.     *)
(***************************************************************************)
CallbackOnce ==
    \A n \in Node, c \in Cid :
        LET k == cep[n][c] IN
        k.state # "FREE" /\ k.pfn_destroy_cb =>
            k.destroyed = IF k.ref_cnt = 0 THEN 1 ELSE 0

(***************************************************************************)
(* An endpoint that waits for the answer to a retried MAD has that MAD out *)
(* (lines 4128, 6203): its completion ends the wait if the answer does not.*)
(***************************************************************************)
WaitingHasSend ==
    \A n \in Node, c \in Cid :
        LET k == cep[n][c] IN
        /\ k.p_send_mad # 0 => k.p_send_mad \in k.sends
        /\ k.state \in ReqSent \cup RepSent \cup {"LAP_SENT", "DREQ_SENT",
                                                  "DREQ_DESTROY"}
             => k.p_send_mad # 0

(***************************************************************************)
(* A nonzero remote ID or QPN says that the endpoint is in the map of that *)
(* name: __remove_cep decides by it what to unlink (lines 1362, 3005).     *)
(***************************************************************************)
MapsMirrorIds ==
    \A n \in Node, c \in Cid :
        LET k == cep[n][c] IN
        k.state # "FREE" => /\ k.rem_id_item <=> k.remote_comm_id # NoId
                            /\ k.rem_qp_item <=> k.remote_qpn # 0

(***************************************************************************)
(* No two endpoints are in conn_id_map under the same remote ID.           *)
(***************************************************************************)
RemoteIdsUnique ==
    \A n \in Node, c, d \in Cid :
        LET j == cep[n][c]
            k == cep[n][d]
        IN /\ j.rem_id_item /\ k.rem_id_item
           /\ j.remote_comm_id = k.remote_comm_id
           /\ j.remote_ca_guid = k.remote_ca_guid
           => c = d

(***************************************************************************)
(* Every endpoint of a user is one the user knows, or waits with its REQ   *)
(* on the list of exactly one listener; a handle is never stale.           *)
(***************************************************************************)
Owned ==
    \A n \in Node, c \in Cid :
        LET held == {d \in Cid : c \in Waiting(n, d)} IN
        /\ cep[n][c].bound <=> (c \in handles[n] \/ held # {})
        /\ Cardinality(held) + (IF c \in handles[n] THEN 1 ELSE 0) <= 1
        /\ cep[n][c].bound => Live(n, c) /\ cep[n][c].state \notin Dying

(***************************************************************************)
(* The two ends of a connection agree: if the endpoint an established one  *)
(* is connected to is still waiting or connected, each names the other's   *)
(* communication ID and queue pair.                                        *)
(***************************************************************************)
PeersAgree ==
    \A n \in Node, c \in Cid : cep[n][c].state \in Connected =>
        LET k == cep[n][c] IN
        \A d \in Cid :
            LET j == cep[k.dst][d] IN
            /\ Match(k.dst, d, k.remote_comm_id)
            /\ j.state \in RepSent \cup RepRcvd \cup Connected \cup PreApr
            => /\ j.remote_comm_id = k.local_comm_id
               /\ j.remote_qpn = k.local_qpn /\ k.remote_qpn = j.local_qpn

(***************************************************************************)
(* A destroyed endpoint is freed in the end, whatever the peer does.       *)
(***************************************************************************)
DestroyedFreed ==
    \A n \in Node, c \in Cid :
        cep[n][c].state \in Dying ~> cep[n][c].state = "FREE"

(***************************************************************************)
(* A send takes the place of another that is still out in two cases only:  *)
(* a DREQ that follows an unanswered LAP, and a DREQ of the passive side   *)
(* while its REP is out, because a LAP came in place of the RTU.           *)
(* Everywhere else CL_ASSERT( !p_cep->p_send_mad ) of __cep_send_retry     *)
(* holds.                                                                  *)
(***************************************************************************)
SendReplaced ==
    [][\A n \in Node, c \in Cid :
          LET k == cep[n][c]
              j == cep'[n][c]
          IN k.p_send_mad # 0 /\ j.p_send_mad \notin {0, k.p_send_mad}
               => /\ k.state \in LapSent \/ (~k.was_active /\ k.state \in Connected \cup PreApr)
                  /\ j.state \in {"DREQ_SENT", "DREQ_DESTROY"}]_vars

(***************************************************************************)
(* A prepared MAD goes when its state does, unless an endpoint in PRE_APR  *)
(* is destroyed, which leaks it (the assertion !p_cep->p_mad of            *)
(* __process_timewait); and a state that promises a prepared MAD lacks it  *)
(* only after a call has failed.                                           *)
(***************************************************************************)
PreparedMadKept ==
    [][\A n \in Node, c \in Cid :
          LET k == cep[n][c]
              j == cep'[n][c]
          IN /\ k.p_mad /\ j.p_mad /\ j.state \notin Prep
                  => k.state \in PreApr \cup Dying /\ j.state \in Dying
             /\ j.state \in Prep /\ ~j.p_mad => faults' # 0]_vars

-----------------------------------------------------------------------------
(***************************************************************************)
(* What comments and assertions of the code say that its steps do not keep.*)
(***************************************************************************)

(***************************************************************************)
(* Line 103: conn_qp_map serves to match stale connections, so it does not *)
(* hold two endpoints with the same remote queue pair.                     *)
(***************************************************************************)
RemoteQpnsUnique ==
    \A n \in Node, c, d \in Cid :
        LET j == cep[n][c]
            k == cep[n][d]
        IN /\ j.rem_qp_item /\ k.rem_qp_item
           /\ j.remote_qpn = k.remote_qpn
           /\ j.remote_ca_guid = k.remote_ca_guid
           => c = d
=============================================================================
