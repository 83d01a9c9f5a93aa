----------------------------- MODULE SaClients -----------------------------
(***************************************************************************)
(* Clients of the SA request service: queries of an AL instance            *)
(* (al_query.c, al.c) and membership of a queue pair in a multicast group  *)
(* (al_mcast.c).  A behaviour is one of queries, of one instance that is   *)
(* closed at some time, or of one join, on a queue pair that is destroyed  *)
(* at some time.                                                           *)
(***************************************************************************)
EXTENDS SaReq

CONSTANTS
    Queries,         \* the requests of queries
    JoinReq, LeaveReq      \* the two requests of a multicast object

ASSUME ClientRequests == Queries \cup {JoinReq, LeaveReq} \subseteq SaReqs /\ JoinReq # LeaveReq


VARIABLES
    query_list,      \* the queries of the AL instance
    al_closing,      \* whether the instance is being destroyed
    mcast,           \* ib_mcast_t
    qp_gone          \* whether the queue pair is being destroyed

queryvars == <<query_list, al_closing>>
mcastvars == <<mcast, qp_gone>>
clientvars == <<queryvars, mcastvars, savars>>

(* Of ib_mcast_t: the object (obj), its references, how far its destroyer  *)
(* (destroying) and join_async_cb (async) have come, state and h_ci_mcast  *)
(* as in the code, what join_async_cb found (status) and whether the user  *)
(* was told of it.                                                         *)
ClientsTypeOK ==
    /\ SaTypeOK
    /\ query_list \subseteq SaReqs /\ al_closing \in BOOLEAN /\ qp_gone \in BOOLEAN
    /\ mcast \in [obj : {"none", "live", "destroying", "freed"}, ref_cnt : 0..5,
                  destroying : {"no", "marked", "leave", "sending", "end", "done"},
                  async : {"no", "queued", "cleared", "proceed", "told", "done"},
                  state : {"STARTING", "ACTIVE", "CANCELING"}, h_ci_mcast : BOOLEAN,
                  status : {"none", "success", "failed"}, told : BOOLEAN]

ClientsInit ==
    /\ SaInit
    /\ query_list = {} /\ al_closing = FALSE /\ qp_gone = FALSE
    /\ mcast = [obj |-> "none", ref_cnt |-> 0, destroying |-> "no", async |-> "no",
                state |-> "STARTING", h_ci_mcast |-> FALSE, status |-> "none", told |-> FALSE]

-----------------------------------------------------------------------------
(* Queries *)

(* ib_query up to al_send_sa_req; query_sa may refuse the request.         *)
IbQuery(q) ==
    /\ ~al_closing /\ sa_req[q].pc = "idle"
    /\ \E pc \in {"issued", "failed"}, sync \in BOOLEAN :
         sa_req' = [sa_req EXCEPT ![q].pc = pc, ![q].sync = sync]
    /\ query_list' = query_list \cup {q}
    /\ UNCHANGED <<sa_svc, contract, sa_bug, al_closing>>

(* ib_query when query_sa has failed: nobody is called back.               *)
QueryFailed(q) ==
    /\ sa_req[q].pc = "failed"
    /\ sa_req' = [sa_req EXCEPT ![q] = Over(@)]
    /\ query_list' = query_list \ {q}
    /\ UNCHANGED <<sa_svc, contract, sa_bug, al_closing>>

(* query_req_cb tells the user, and frees the query.                       *)
QueryReqCb(q) ==
    /\ sa_req[q].pc = "calling"
    /\ sa_req' = [sa_req EXCEPT ![q].pc = "called"]
    /\ query_list' = query_list \ {q}
    /\ UNCHANGED <<sa_svc, contract, sa_bug, al_closing>>

CancelListed(Q) ==
    IF StaleCancel(Q) THEN Stale("p_sa_req_svc")
    ELSE sa_req' = Cancel(Q) /\ UNCHANGED <<sa_svc, contract, sa_bug>>

(* ib_cancel_query, with the handle ib_query has returned.                 *)
IbCancelQuery(q) ==
    /\ q \in query_list /\ sa_req[q].p_mad_request /\ ~sa_req[q].sync
    /\ CancelListed({q})
    /\ UNCHANGED queryvars

(* destroying_al cancels what is in the list, whatever ib_query has done   *)
(* with it yet.                                                            *)
DestroyingAl ==
    /\ ~al_closing /\ al_closing' = TRUE
    /\ CancelListed(query_list)
    /\ UNCHANGED query_list

QueryStep == \E q \in Queries : QueryFailed(q) \/ QueryReqCb(q)

QueryCall == DestroyingAl \/ \E q \in Queries : IbQuery(q) \/ IbCancelQuery(q)

-----------------------------------------------------------------------------
(* Multicast *)

(* destroy_obj with a reference of the caller's, which it gives up: the    *)
(* first to come goes on to __destroying_mcast.                            *)
DestroyObj(m) ==
    IF m.obj = "live" THEN [m EXCEPT !.obj = "destroying", !.destroying = "marked", !.ref_cnt = @ - 1]
    ELSE [m EXCEPT !.ref_cnt = @ - 1]

(* al_join_mcast_common up to send_join: the object, attached to a queue   *)
(* pair that is not being destroyed, has the reference of init_al_obj.     *)
JoinMcast ==
    /\ mcast.obj = "none" /\ ~qp_gone
    /\ mcast' = [mcast EXCEPT !.obj = "live", !.ref_cnt = 2]
    /\ UNCHANGED <<savars, qp_gone>>

(* send_join, up to al_send_sa_req.                                        *)
SendJoin ==
    /\ mcast.obj # "none" /\ sa_req[JoinReq].pc = "idle"
    /\ mcast' = [mcast EXCEPT !.state = "STARTING"]
    /\ sa_req' = [sa_req EXCEPT ![JoinReq].pc = "issued"]
    /\ UNCHANGED <<sa_svc, contract, sa_bug, qp_gone>>

(* The end of al_join_mcast_common when the join was not sent.             *)
JoinFailed ==
    /\ sa_req[JoinReq].pc = "failed"
    /\ sa_req' = [sa_req EXCEPT ![JoinReq] = Over(@)]
    /\ mcast' = DestroyObj(mcast)
    /\ UNCHANGED <<sa_svc, contract, sa_bug, qp_gone>>

JoinReqCb ==
    /\ sa_req[JoinReq].pc = "calling"
    /\ sa_req' = [sa_req EXCEPT ![JoinReq].pc = "called"]
    /\ mcast' = [mcast EXCEPT !.status = sa_req[JoinReq].status, !.async = "queued"]
    /\ UNCHANGED <<sa_svc, contract, sa_bug, qp_gone>>

(* join_async_cb: the pointer to the service is cleared under the lock ... *)
JoinClear ==
    /\ mcast.async = "queued"
    /\ sa_req' = [sa_req EXCEPT ![JoinReq].p_sa_req_svc = FALSE]
    /\ mcast' = [mcast EXCEPT !.async = "cleared"]
    /\ UNCHANGED <<sa_svc, contract, sa_bug, qp_gone>>

(* ... the state is read without it ...                                    *)
JoinCheck ==
    /\ mcast.async = "cleared"
    /\ mcast' = CASE mcast.status # "success" -> [mcast EXCEPT !.async = "told", !.told = TRUE]
                  [] mcast.state = "STARTING" -> [mcast EXCEPT !.async = "proceed"]
                  [] OTHER -> [mcast EXCEPT !.async = "told", !.told = TRUE, !.status = "failed"]
    /\ UNCHANGED <<savars, qp_gone>>

(* ... the queue pair attached, which may fail, and the user told ...      *)
JoinProceed ==
    /\ mcast.async = "proceed"
    /\ \E ok \in BOOLEAN :
         mcast' = [mcast EXCEPT !.async = "told", !.told = TRUE, !.state = "ACTIVE",
                                !.h_ci_mcast = ok, !.status = IF ok THEN @ ELSE "failed"]
    /\ UNCHANGED <<savars, qp_gone>>

(* ... and the reference of init_al_obj given up, with the object if the   *)
(* join has failed.                                                        *)
JoinEnd ==
    /\ mcast.async = "told"
    /\ mcast' = LET m == [mcast EXCEPT !.async = "done"]
                IN  IF m.status = "success" THEN [m EXCEPT !.ref_cnt = @ - 1] ELSE DestroyObj(m)
    /\ UNCHANGED <<savars, qp_gone>>

(* ib_leave_mcast by a user that was told of the group, and the            *)
(* destruction of the queue pair, which destroys its children; each takes  *)
(* a reference for destroy_obj.                                            *)
LeaveMcast ==
    /\ mcast.told /\ mcast.status = "success" /\ mcast.obj = "live" /\ ~qp_gone
    /\ mcast' = DestroyObj([mcast EXCEPT !.ref_cnt = @ + 1])
    /\ UNCHANGED <<savars, qp_gone>>

DestroyQp ==
    /\ ~qp_gone /\ qp_gone' = TRUE
    /\ mcast' = IF mcast.obj = "live" THEN DestroyObj([mcast EXCEPT !.ref_cnt = @ + 1]) ELSE mcast
    /\ UNCHANGED savars

(* __destroying_mcast reads the state without the lock ...                 *)
DestroyingMcast ==
    /\ mcast.destroying = "marked"
    /\ mcast' = [mcast EXCEPT !.destroying =
                   CASE mcast.state = "STARTING" -> "leave" [] mcast.state = "ACTIVE" -> "sending"
                     [] OTHER -> "end"]
    /\ UNCHANGED <<savars, qp_gone>>

(* ... cancels a join that may be out, under the lock ...                  *)
CancelJoin ==
    /\ mcast.destroying = "leave"
    /\ mcast' = [mcast EXCEPT !.destroying = "sending", !.state = "CANCELING"]
    /\ IF sa_req[JoinReq].p_sa_req_svc THEN CancelListed({JoinReq}) ELSE UNCHANGED savars
    /\ UNCHANGED qp_gone

(* ... and sends the request to leave, for which it takes a reference ...  *)
SendLeave ==
    /\ mcast.destroying = "sending"
    /\ mcast' = [mcast EXCEPT !.destroying = "end", !.ref_cnt = @ + 1]
    /\ sa_req' = [sa_req EXCEPT ![LeaveReq].pc = "issued"]
    /\ UNCHANGED <<sa_svc, contract, sa_bug, qp_gone>>

(* ... given up when the request could not be sent, by the same thread,    *)
(* or by leave_req_cb.                                                     *)
LeaveFailed ==
    /\ sa_req[LeaveReq].pc = "failed"
    /\ sa_req' = [sa_req EXCEPT ![LeaveReq] = Over(@)]
    /\ mcast' = [mcast EXCEPT !.ref_cnt = @ - 1]
    /\ UNCHANGED <<sa_svc, contract, sa_bug, qp_gone>>

LeaveReqCb ==
    /\ sa_req[LeaveReq].pc = "calling"
    /\ sa_req' = [sa_req EXCEPT ![LeaveReq].pc = "called"]
    /\ mcast' = [mcast EXCEPT !.ref_cnt = @ - 1]
    /\ UNCHANGED <<sa_svc, contract, sa_bug, qp_gone>>

(* The end of async_destroy_obj, once al_send_sa_req has returned: the     *)
(* reference of the object itself.                                         *)
DestroyEnd ==
    /\ mcast.destroying = "end" /\ sa_req[LeaveReq].pc \notin {"issued", "acquired", "failed"}
    /\ mcast' = [mcast EXCEPT !.destroying = "done", !.ref_cnt = @ - 1]
    /\ UNCHANGED <<savars, qp_gone>>

(* async_destroy_cb: __cleanup_mcast detaches the queue pair.              *)
CleanupMcast ==
    /\ mcast.obj = "destroying" /\ mcast.ref_cnt = 0
    /\ mcast' = [mcast EXCEPT !.obj = "freed", !.h_ci_mcast = FALSE]
    /\ UNCHANGED <<savars, qp_gone>>

McastStep ==
    \/ SendJoin \/ JoinFailed \/ JoinReqCb \/ JoinClear \/ JoinCheck \/ JoinProceed \/ JoinEnd
    \/ DestroyingMcast \/ CancelJoin \/ SendLeave \/ LeaveFailed \/ LeaveReqCb
    \/ DestroyEnd \/ CleanupMcast

McastCall == JoinMcast \/ LeaveMcast \/ DestroyQp

-----------------------------------------------------------------------------
(* The service with the one client or the other *)

SaStep == SvcStep \/ \E r \in SaReqs : ReqStep(r)

(* Both clients meet the removal of the port and the answers of the SA.    *)
SaEvent == PortRemove \/ \E r \in SaReqs : SaAnswers(r)

QueryProgress ==
    /\ sa_bug = "none"
    /\ QueryStep \/ (SaStep /\ UNCHANGED queryvars)
    /\ UNCHANGED mcastvars

QueryNext ==
    \/ QueryProgress
    \/ /\ sa_bug = "none"
       /\ QueryCall \/ ((SvcEvent \/ SaEvent) /\ UNCHANGED queryvars)
       /\ UNCHANGED mcastvars

McastProgress ==
    /\ sa_bug = "none"
    /\ McastStep \/ (SaStep /\ UNCHANGED mcastvars)
    /\ UNCHANGED queryvars

McastNext ==
    \/ McastProgress
    \/ /\ sa_bug = "none"
       /\ McastCall \/ (SaEvent /\ UNCHANGED mcastvars)
       /\ UNCHANGED queryvars

-----------------------------------------------------------------------------
One(b) == IF b THEN 1 ELSE 0

(* The references of the service: the object's own, until it is destroyed, *)
(* of its creator, of the queue pair, once init_sa_req_svc has taken it,   *)
(* and of the requests that have found it and whose callback has not       *)
(* ended.                                                                  *)
SvcRefsExact ==
    sa_svc.ref_cnt = One(sa_svc.state \in {"live", "destroying"})
                   + One(sa_svc.at \in Creating) + One(sa_svc.qp \in {"open", "closing"}) - One(sa_svc.at = "qp")
                   + Cardinality({r \in SaReqs : HasService(r)})

(* Those of the multicast object: its own, that of init_al_obj until the   *)
(* join has failed or join_async_cb ends, and that of the request to leave *)
(* until its callback.                                                     *)
McastRefsExact ==
    mcast.ref_cnt = One(mcast.obj # "none" /\ mcast.destroying # "done")
                  + One(mcast.obj # "none" /\ mcast.async # "done"
                        /\ ~(mcast.async = "no" /\ sa_req[JoinReq].pc = "done"))
                  + One(mcast.obj # "none"
                        /\ ((HasService(LeaveReq) /\ sa_req[LeaveReq].pc # "called")
                            \/ sa_req[LeaveReq].pc \in {"issued", "failed"}))

(* A pointer is used after what it names may be gone only: by a PnP event  *)
(* or by the creation of the service after an event has destroyed it; by a *)
(* request that found the service before it was destroyed; by the second   *)
(* callback of a request that failed after it was answered; by a           *)
(* cancellation of a request that has not found, or no longer has, the     *)
(* service.  A client that cancels what it has sent is safe.               *)
StaleAsKnown ==
    /\ sa_bug \in {"context", "h_qp", "init"} => sa_svc.event
    /\ sa_bug = "h_mad_svc" => sa_svc.state = "down"
    /\ sa_bug = "p_sa_req" => \E r \in SaReqs : sa_outcome[r].status = "error" /\ sa_outcome[r].resp
    /\ sa_bug = "p_sa_req_svc" =>
         \E r \in SaReqs : /\ sa_req[r].pc # "out"
                           /\ (al_closing /\ r \in query_list) \/ (r = JoinReq /\ mcast.destroying = "sending")

(* Nothing is under way.                                                   *)
SaSettled ==
    /\ \A r \in SaReqs : sa_req[r].pc \in {"idle", "done"} /\ ~sa_req[r].sync
    /\ sa_svc.state \in {"destroying", "down"} => Freed
    /\ al_closing => query_list = {}
    /\ mcast.obj # "destroying"

(* References are counted exactly and stale pointers are used only where   *)
(* StaleAsKnown says; and unless one is, every request is called back, a   *)
(* synchronous caller released, and a service, an instance's queries and a *)
(* membership that are being destroyed are gone in the end.                *)
SaClientsServed ==
    /\ [](SvcRefsExact /\ McastRefsExact /\ StaleAsKnown)
    /\ <>[](sa_bug # "none" \/ SaSettled)
=============================================================================
