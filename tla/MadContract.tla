----------------------------- MODULE MadContract -----------------------------
(***************************************************************************)
(* What a MAD service promises to its clients (ib_al.h: ib_send_mad,       *)
(* ib_mad_comp_cb_t, ib_dereg_mad_svc), on which the connection manager,   *)
(* the SA queries and the I/O controller discovery rely: every MAD given   *)
(* to ib_send_mad comes back once, with a status that fits what came from  *)
(* the network, and all have come back when the service is deregistered.   *)
(***************************************************************************)
EXTENDS FiniteSets

CONSTANT
    Sends         \* the MADs the client sends

VARIABLES
    outcome,      \* of each MAD: new, out, or how it came back
    answered,     \* the MADs whose response the network has delivered
    service       \* open, closing once it is being deregistered, closed

cvars == <<outcome, answered, service>>

(* A MAD: what became of it (ib_wc_status_t once it is back), whether it   *)
(* asks for a response, and whether it came back with one.                 *)
Outcomes == [status : {"new", "out", "success", "error", "timeout", "canceled"},
             asks : BOOLEAN, resp : BOOLEAN]

New(s) == outcome[s].status = "new"
Out(s) == outcome[s].status = "out"

ContractInit ==
    /\ outcome = [s \in Sends |-> [status |-> "new", asks |-> FALSE, resp |-> FALSE]]
    /\ answered = {}
    /\ service = "open"

Issue(s) ==
    /\ service = "open" /\ New(s)
    /\ \E asks \in BOOLEAN :
         outcome' = [outcome EXCEPT ![s].status = "out", ![s].asks = asks]
    /\ UNCHANGED <<answered, service>>

(* The network delivers a response, wanted or not.                         *)
Answer(s) ==
    /\ ~New(s)
    /\ answered' = answered \cup {s}
    /\ UNCHANGED <<outcome, service>>

(* A response that is reported has been received, one that was asked for   *)
(* comes with every success, and a time-out or cancellation has none.      *)
Fits(s, r) ==
    /\ r.resp => s \in answered
    /\ r.status = "success" /\ r.asks => r.resp
    /\ r.status \in {"timeout", "canceled"} => ~r.resp

Complete(s) ==
    /\ Out(s)
    /\ \E r \in Outcomes :
         /\ r.status \notin {"new", "out"} /\ r.asks = outcome[s].asks /\ Fits(s, r)
         /\ outcome' = [outcome EXCEPT ![s] = r]
    /\ UNCHANGED <<answered, service>>

Dereg ==
    /\ service = "open" /\ service' = "closing"
    /\ UNCHANGED <<outcome, answered>>

Close ==
    /\ service = "closing" /\ \A s \in Sends : ~Out(s)
    /\ service' = "closed"
    /\ UNCHANGED <<outcome, answered>>

ContractNext == Dereg \/ Close \/ \E s \in Sends : Issue(s) \/ Answer(s) \/ Complete(s)

ContractSafety == ContractInit /\ [][ContractNext]_cvars

(* The client may issue nothing and keep the service; what it has issued   *)
(* comes back, and deregistering the service ends.                         *)
ContractSpec ==
    /\ ContractSafety
    /\ \A s \in Sends : WF_cvars(Complete(s))
    /\ WF_cvars(Close)
=============================================================================
