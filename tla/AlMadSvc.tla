------------------------------ MODULE AlMadSvc ------------------------------
(***************************************************************************)
(* A MAD service and its registration with the MAD dispatcher              *)
(* (core/al/al_mad.c): sends with their retry timer, the responses that    *)
(* end them, cancellation, and the destruction of the service, which may   *)
(* run at the same time.  RMPP is in AlRmpp.                               *)
(*                                                                         *)
(* The service's lock is held for a critical section, which is a step; the *)
(* client is called after the lock is released, which is another, and the  *)
(* references are dropped in steps of their own, in the order of the       *)
(* source.  Time is left out: a send that waits for its response becomes   *)
(* due at some moment, and the timer may fire whenever it is armed.        *)
(***************************************************************************)
EXTENDS Integers, FiniteSets

CONSTANTS
    Send,          \* MADs given to ib_send_mad, with their al_mad_send_t
    Mad,           \* bound: the MADs the network delivers
    NoMad,         \* NULL
    MaxRetry       \* retry_cnt of each send

ASSUME MadAssumption ==
    NoMad \notin Mad \cup Send /\ MaxRetry \in Nat /\ IsFiniteSet(Send) /\ IsFiniteSet(Mad)

VARIABLES
    send,         \* al_mad_send_t of each send
    posted,       \* the sends whose work request is in the queue pair
    rx,           \* of each received MAD, where it is and the send it answers
    report,       \* sends off the list, each in the hands of a thread
    exits,        \* threads in the last two statements of mad_disp_send_done
    svc,          \* al_mad_svc_t: its references and its send timer
    reg_cnt,      \* ref_cnt of the registration in the dispatcher
    owner,        \* where __destroying_mad_svc and sync_destroy_obj stand
    mad_bug       \* the dispatcher has referenced a freed service

madvars == <<send, posted, rx, report, exits, svc, reg_cnt, owner, mad_bug>>

MadStatus == {"none", "success", "error", "timeout", "canceled"}
OwnerPc == {"none", "dereg", "cancel", "check", "report", "flush", "deref", "wait", "done"}

(* active stands for retry_time = MAX_TIME.                                *)
MadTypeOK ==
    /\ send \in [Send -> [state : {"new", "listed", "off", "put"},
                          resp_expected : BOOLEAN,
                          active : BOOLEAN, canceled : BOOLEAN, due : BOOLEAN,
                          delayed : BOOLEAN, retry_cnt : 0..MaxRetry,
                          p_resp_mad : Mad \cup {NoMad}, status : MadStatus, calls : 0..1]]
    /\ posted \subseteq Send
    /\ rx \in [Mad -> [at : {"net", "routed", "held", "user", "pool"},
                       send : Send \cup {NoMad}]]
    /\ report \subseteq [by : {"send", "recv", "timer", "owner"}, send : Send]
    /\ exits \in [send : Nat, dec : Nat]
    /\ svc \in [ref_cnt : Int, armed : BOOLEAN, timer : BOOLEAN, freed : BOOLEAN]
    /\ reg_cnt \in Int
    /\ owner \in OwnerPc
    /\ mad_bug \in BOOLEAN

MadInit ==
    /\ send = [s \in Send |-> [state |-> "new", resp_expected |-> FALSE, active |-> FALSE,
                               canceled |-> FALSE, due |-> FALSE, delayed |-> FALSE, retry_cnt |-> MaxRetry,
                               p_resp_mad |-> NoMad, status |-> "none", calls |-> 0]]
    /\ posted = {}
    /\ rx = [m \in Mad |-> [at |-> "net", send |-> NoMad]]
    /\ report = {}
    /\ exits = [send |-> 0, dec |-> 0]
    /\ svc = [ref_cnt |-> 1, armed |-> FALSE, timer |-> TRUE, freed |-> FALSE]
    /\ reg_cnt = 1
    /\ owner = "none"
    /\ mad_bug = FALSE

(* send_list.                                                              *)
ListedSends == {s \in Send : send[s].state = "listed"}

(* A send that thread t has taken off the list and will report.            *)
ReportBy(t, s) == [by |-> t, send |-> s]

(* __mad_disp_queue_send: the registration and the service are referenced  *)
(* until the work request completes.                                       *)
QueueSend(S) ==
    /\ posted' = posted \cup S
    /\ reg_cnt' = reg_cnt + Cardinality(S)

-----------------------------------------------------------------------------
(* The client *)

(* ib_send_mad, up to __queue_mad_wr.  "Since the MAD service is being     *)
(* destroyed, the user cannot be issuing sends."                           *)
SendMad(s) ==
    /\ owner = "none" /\ send[s].state = "new"
    /\ \E resp \in BOOLEAN :
         send' = [send EXCEPT ![s].state = "listed", ![s].active = TRUE,
                              ![s].resp_expected = resp]
    /\ QueueSend({s})
    /\ svc' = [svc EXCEPT !.ref_cnt = @ + 2]
    /\ UNCHANGED <<rx, report, exits, owner, mad_bug>>

(* ib_cancel_mad.                                                          *)
CancelMad(s) ==
    /\ owner = "none" /\ s \in ListedSends /\ ~send[s].canceled
    /\ send' = [send EXCEPT ![s].canceled = TRUE]
    /\ svc' = [svc EXCEPT !.armed = @ \/ ~send[s].active]
    /\ UNCHANGED <<posted, rx, report, exits, reg_cnt, owner, mad_bug>>

(* ib_delay_mad, once for each send: a time-out that has passed counts     *)
(* again.  For an active send it only lengthens the next one.              *)
DelayMad(s) ==
    /\ owner = "none" /\ s \in ListedSends /\ ~send[s].active /\ ~send[s].delayed
    /\ send' = [send EXCEPT ![s].due = FALSE, ![s].delayed = TRUE]
    /\ UNCHANGED <<posted, rx, report, exits, svc, reg_cnt, owner, mad_bug>>

-----------------------------------------------------------------------------
(* A work request completes *)

(* Mutant: a response that came first is forgotten.                        *)
IsSendMadDone_NoResp(s, wc) ==
    wc # "success" \/ send[s].canceled \/ ~send[s].resp_expected

(* __is_send_mad_done.                                                     *)
IsSendMadDone(s, wc) ==
    wc # "success" \/ send[s].canceled \/ send[s].p_resp_mad # NoMad \/ ~send[s].resp_expected

(* __mad_svc_send_done under the lock: the send ends, or waits for its     *)
(* response until the timer retries it.                                    *)
SendDone(s, wc) ==
    /\ s \in posted /\ posted' = posted \ {s}
    /\ IF IsSendMadDone(s, wc)
       THEN /\ send' = [send EXCEPT ![s].state = "off",
                    ![s].status = IF send[s].canceled /\ send[s].p_resp_mad = NoMad
                                  THEN "canceled" ELSE wc]
            /\ report' = report \cup {ReportBy("send", s)}
            /\ UNCHANGED <<svc, exits>>
       ELSE /\ send' = [send EXCEPT ![s].active = FALSE, ![s].due = FALSE]
            /\ svc' = [svc EXCEPT !.armed = TRUE]
            /\ exits' = [exits EXCEPT !.send = @ + 1]
            /\ UNCHANGED report
    /\ UNCHANGED <<rx, reg_cnt, owner, mad_bug>>

(* The end of mad_disp_send_done: the service first, the registration      *)
(* after it.                                                               *)
SendDeref ==
    /\ exits.send > 0
    /\ exits' = [exits EXCEPT !.send = @ - 1, !.dec = @ + 1]
    /\ svc' = [svc EXCEPT !.ref_cnt = @ - 1]
    /\ UNCHANGED <<send, posted, rx, report, reg_cnt, owner, mad_bug>>

RegDec ==
    /\ exits.dec > 0
    /\ exits' = [exits EXCEPT !.dec = @ - 1]
    /\ reg_cnt' = reg_cnt - 1
    /\ UNCHANGED <<send, posted, rx, report, svc, owner, mad_bug>>

-----------------------------------------------------------------------------
(* Reporting a send to the client *)

(* Mutant: a receive drops one reference only.                             *)
MadNotify_OneRef(r) ==
    /\ r \in report /\ report' = report \ {r}
    /\ send' = [send EXCEPT ![r.send].state = "put", ![r.send].calls = @ + 1]
    /\ rx' = [m \in Mad |-> IF m = send[r.send].p_resp_mad THEN [rx[m] EXCEPT !.at = "user"]
                                                          ELSE rx[m]]
    /\ svc' = [svc EXCEPT !.ref_cnt = @ - 1]
    /\ exits' = [exits EXCEPT !.send = @ + (IF r.by = "send" THEN 1 ELSE 0)]
    /\ UNCHANGED <<posted, reg_cnt, owner, mad_bug>>

(* The callbacks of __notify_send_comp, __process_recv_resp and            *)
(* __check_send_queue - the response, if there is one, then the send -     *)
(* and __cleanup_mad_send; a receive then ends in mad_disp_recv_done,      *)
(* which drops its reference as well.                                      *)
MadNotify(r) ==
    /\ r \in report /\ report' = report \ {r}
    /\ send' = [send EXCEPT ![r.send].state = "put", ![r.send].calls = @ + 1]
    /\ rx' = [m \in Mad |-> IF m = send[r.send].p_resp_mad THEN [rx[m] EXCEPT !.at = "user"]
                                                          ELSE rx[m]]
    /\ svc' = [svc EXCEPT !.ref_cnt = @ - (IF r.by = "recv" THEN 2 ELSE 1)]
    /\ exits' = [exits EXCEPT !.send = @ + (IF r.by = "send" THEN 1 ELSE 0)]
    /\ UNCHANGED <<posted, reg_cnt, owner, mad_bug>>

-----------------------------------------------------------------------------
(* A response is received *)

(* mad_disp_recv_done: a MAD whose registration is no longer valid goes    *)
(* back to the pool, otherwise the service is referenced.  The answer of   *)
(* send s may come at any time once s was posted, more than once, and      *)
(* after the service is gone.                                              *)
RecvDone(m, s) ==
    /\ ~mad_bug /\ rx[m].at = "net" /\ send[s].state # "new"
    /\ rx' = [rx EXCEPT ![m] = [at |-> IF reg_cnt = 0 THEN "pool" ELSE "routed", send |-> s]]
    /\ svc' = IF reg_cnt = 0 THEN svc ELSE [svc EXCEPT !.ref_cnt = @ + 1]
    /\ mad_bug' = (reg_cnt # 0 /\ svc.freed)
    /\ UNCHANGED <<send, posted, report, exits, reg_cnt, owner>>

(* __mad_svc_recv_done: a busy responder has not answered; the send is     *)
(* retried.                                                                *)
RecvBusy(m) ==
    /\ rx[m].at = "routed"
    /\ rx' = [rx EXCEPT ![m].at = "pool"]
    /\ svc' = [svc EXCEPT !.ref_cnt = @ - 1]
    /\ UNCHANGED <<send, posted, report, exits, reg_cnt, owner, mad_bug>>

(* __process_recv_resp: the response of a send that is no longer on the    *)
(* list is dropped, that of an active send is kept until the work request  *)
(* completes, that of a waiting send ends it.                              *)
ProcessRecvResp(m) ==
    LET s == rx[m].send IN
    /\ rx[m].at = "routed"
    /\ \/ /\ s \notin ListedSends
          /\ rx' = [rx EXCEPT ![m].at = "pool"]
          /\ svc' = [svc EXCEPT !.ref_cnt = @ - 1]
          /\ UNCHANGED <<send, report>>
       \/ /\ s \in ListedSends /\ send[s].active
          /\ send' = [send EXCEPT ![s].p_resp_mad = m, ![s].status = "success"]
          /\ rx' = [n \in Mad |-> CASE n = m -> [rx[m] EXCEPT !.at = "held"]
                                    [] n = send[s].p_resp_mad -> [rx[n] EXCEPT !.at = "pool"]
                                    [] OTHER -> rx[n]]
          /\ svc' = [svc EXCEPT !.ref_cnt = @ - 1]
          /\ UNCHANGED report
       \/ /\ s \in ListedSends /\ ~send[s].active
          /\ send' = [send EXCEPT ![s].state = "off", ![s].p_resp_mad = m,
                                  ![s].status = "success"]
          /\ rx' = [rx EXCEPT ![m].at = "held"]
          /\ report' = report \cup {ReportBy("recv", s)}
          /\ UNCHANGED svc
    /\ UNCHANGED <<posted, exits, reg_cnt, owner, mad_bug>>

-----------------------------------------------------------------------------
(* The send timer *)

(* retry_time passes.                                                      *)
Elapse(s) ==
    /\ s \in ListedSends /\ ~send[s].active /\ ~send[s].due
    /\ send' = [send EXCEPT ![s].due = TRUE]
    /\ UNCHANGED <<posted, rx, report, exits, svc, reg_cnt, owner, mad_bug>>

(* The sends that wait, of them those that end and those that go again.    *)
IdleSends == {s \in ListedSends : ~send[s].active}
EndedSends == {s \in IdleSends : send[s].canceled \/ (send[s].due /\ send[s].retry_cnt = 0)}
RetriedSends == {s \in IdleSends : ~send[s].canceled /\ send[s].due /\ send[s].retry_cnt > 0}

(* Mutant: only the send that is due is looked at; the timer is not set    *)
(* for the others.                                                         *)
CheckSendQueue_NoTrim(t, armed) ==
    /\ send' = [s \in Send |->
            CASE s \in EndedSends -> [send[s] EXCEPT !.state = "off", !.status =
                                    IF send[s].canceled THEN "canceled" ELSE "timeout"]
              [] s \in RetriedSends -> [send[s] EXCEPT !.active = TRUE, !.retry_cnt = @ - 1]
              [] OTHER -> send[s]]
    /\ report' = report \cup {ReportBy(t, s) : s \in EndedSends}
    /\ QueueSend(RetriedSends)
    /\ svc' = [svc EXCEPT !.armed = armed, !.ref_cnt = @ + Cardinality(RetriedSends)]
    /\ UNCHANGED <<rx, exits, mad_bug>>

(* __check_send_queue under the lock, called by thread t: what is canceled *)
(* or has no retries left comes off the list, what is due is posted again, *)
(* and the timer is trimmed to what still waits.                           *)
CheckSendQueue(t, armed) ==
    /\ send' = [s \in Send |->
            CASE s \in EndedSends -> [send[s] EXCEPT !.state = "off", !.status =
                                    IF send[s].canceled THEN "canceled" ELSE "timeout"]
              [] s \in RetriedSends -> [send[s] EXCEPT !.active = TRUE, !.retry_cnt = @ - 1]
              [] OTHER -> send[s]]
    /\ report' = report \cup {ReportBy(t, s) : s \in EndedSends}
    /\ QueueSend(RetriedSends)
    /\ svc' = [svc EXCEPT !.armed = armed \/ IdleSends \ (EndedSends \cup RetriedSends) # {},
                          !.ref_cnt = @ + Cardinality(RetriedSends)]
    /\ UNCHANGED <<rx, exits, mad_bug>>

(* __send_timer_cb.  cb_lock keeps a second callback out until the first   *)
(* has reported its sends.                                                 *)
SendTimer ==
    /\ svc.armed /\ \A r \in report : r.by # "timer"
    /\ CheckSendQueue("timer", FALSE)
    /\ UNCHANGED owner

-----------------------------------------------------------------------------
(* Destroying the service *)

OwnerAt(pc) == owner' = pc

MadDestroy ==
    /\ owner = "none" /\ OwnerAt("dereg")
    /\ UNCHANGED <<send, posted, rx, report, exits, svc, reg_cnt, mad_bug>>

(* __mad_disp_dereg.                                                       *)
MadDispDereg ==
    /\ owner = "dereg" /\ OwnerAt("cancel")
    /\ reg_cnt' = reg_cnt - 1
    /\ UNCHANGED <<send, posted, rx, report, exits, svc, mad_bug>>

CancelAll ==
    /\ owner = "cancel" /\ OwnerAt("check")
    /\ send' = [s \in Send |-> [send[s] EXCEPT !.canceled = @ \/ s \in ListedSends]]
    /\ UNCHANGED <<posted, rx, report, exits, svc, reg_cnt, mad_bug>>

CheckCanceled ==
    /\ owner = "check" /\ OwnerAt("report")
    /\ CheckSendQueue("owner", svc.armed)

(* cl_timer_destroy stops the timer and flushes the DPCs.                  *)
TimerStop ==
    /\ owner = "report" /\ \A r \in report : r.by # "owner"
    /\ OwnerAt("flush")
    /\ svc' = [svc EXCEPT !.armed = FALSE]
    /\ UNCHANGED <<send, posted, rx, report, exits, reg_cnt, mad_bug>>

TimerFlush ==
    /\ owner = "flush" /\ \A r \in report : r.by # "timer"
    /\ OwnerAt("deref")
    /\ svc' = [svc EXCEPT !.timer = FALSE]
    /\ UNCHANGED <<send, posted, rx, report, exits, reg_cnt, mad_bug>>

(* sync_destroy_obj drops its own reference and waits for the last.        *)
OwnerDeref ==
    /\ owner = "deref" /\ OwnerAt("wait")
    /\ svc' = [svc EXCEPT !.ref_cnt = @ - 1]
    /\ UNCHANGED <<send, posted, rx, report, exits, reg_cnt, mad_bug>>

(* __cleanup_mad_svc and free_mad_svc.                                     *)
FreeMadSvc ==
    /\ owner = "wait" /\ svc.ref_cnt = 0 /\ OwnerAt("done")
    /\ svc' = [svc EXCEPT !.freed = TRUE]
    /\ UNCHANGED <<send, posted, rx, report, exits, reg_cnt, mad_bug>>

OwnerStep ==
    \/ MadDispDereg \/ CancelAll \/ CheckCanceled \/ TimerStop \/ TimerFlush
    \/ OwnerDeref \/ FreeMadSvc

-----------------------------------------------------------------------------
MadComplete(s) == \E wc \in {"success", "error"} : SendDone(s, wc)
MadProcess(m) == RecvBusy(m) \/ ProcessRecvResp(m)

MadNext ==
    \/ \E s \in Send : SendMad(s) \/ CancelMad(s) \/ DelayMad(s) \/ Elapse(s) \/ MadComplete(s)
    \/ \E m \in Mad : MadProcess(m) \/ \E s \in Send : RecvDone(m, s)
    \/ \E r \in report : MadNotify(r)
    \/ SendDeref \/ RegDec \/ SendTimer
    \/ MadDestroy \/ OwnerStep

(* The channel adapter completes work requests, threads run, time passes   *)
(* and an armed timer fires.  The client and the network owe nothing.      *)
MadFairness ==
    /\ \A s \in Send : WF_madvars(MadComplete(s)) /\ WF_madvars(Elapse(s))
    /\ \A m \in Mad : WF_madvars(MadProcess(m))
    /\ WF_madvars(\E r \in report : MadNotify(r))
    /\ WF_madvars(SendDeref) /\ WF_madvars(RegDec)
    /\ WF_madvars(SendTimer) /\ WF_madvars(OwnerStep)

MadSpec == MadInit /\ [][MadNext]_madvars /\ MadFairness

-----------------------------------------------------------------------------
(* Properties *)

(* The service's reference count is what holds a reference: its creator,   *)
(* each send until __cleanup_mad_send, each work request until the end of  *)
(* mad_disp_send_done, each receive until the end of mad_disp_recv_done.   *)
(* The registration counts the service and the work requests.  A service   *)
(* whose count were too low would be freed under a callback.  For a freed  *)
(* service it leaves exits.dec alone: the registration is still valid only *)
(* between the last two statements of mad_disp_send_done, which drops the  *)
(* service first, and there the dispatcher may route to a freed service.   *)
MadCountsExact ==
    ~mad_bug =>
    /\ svc.ref_cnt = (IF owner \in {"wait", "done"} THEN 0 ELSE 1)
         + Cardinality({s \in Send : send[s].state \in {"listed", "off"}})
         + Cardinality(posted) + exits.send
         + Cardinality({r \in report : r.by = "send"})
         + Cardinality({m \in Mad : rx[m].at = "routed"})
         + Cardinality({r \in report : r.by = "recv"})
    /\ reg_cnt = (IF owner \in {"none", "dereg"} THEN 1 ELSE 0)
         + Cardinality(posted) + Cardinality({r \in report : r.by = "send"})
         + exits.send + exits.dec

(* No send on the list is forgotten or sent twice.  Its work request is in *)
(* the queue pair exactly while it is active: it is not posted again       *)
(* before it completes (the assertion on wr_id in __mad_disp_queue_send)   *)
(* and no other thread takes it off the list under the completion.  While  *)
(* it waits, for a response that may be lost or for its cancellation, the  *)
(* timer is armed or the destroyer has still to check the list.            *)
ListedIsServed ==
    /\ posted = {s \in ListedSends : send[s].active}
    /\ IdleSends # {} => svc.armed \/ owner = "check"

(* The state of MadContract, of which the clients see the outcomes.        *)
Outcome(s) ==
    [status |-> CASE send[s].state = "new" -> "new"
                  [] send[s].state # "new" /\ send[s].calls = 0 -> "out"
                  [] send[s].calls = 1 -> send[s].status
                  [] OTHER -> "twice",
     asks |-> send[s].resp_expected,
     resp |-> send[s].calls > 0 /\ send[s].p_resp_mad # NoMad]

MadContractOf == INSTANCE MadContract WITH
    Sends <- Send,
    outcome <- [s \in Send |-> Outcome(s)],
    answered <- {s \in Send : \E m \in Mad : rx[m].send = s},
    service <- IF svc.freed THEN "closed" ELSE IF owner = "none" THEN "open" ELSE "closing"

(* Every send of a client ends once, in the way it was asked for, and      *)
(* before the service is freed, and destroying the service ends: each step *)
(* of al_mad.c is a step of MadContract or leaves its state alone, and     *)
(* what MadContract promises to happen does.                               *)
MadContractHolds == MadContractOf!ContractSpec
=============================================================================
