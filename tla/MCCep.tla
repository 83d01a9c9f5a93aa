------------------------------- MODULE MCCep --------------------------------
(***************************************************************************)
(* Instances of CmCep with two nodes: a's users connect, b's users listen. *)
(* Each run says which calls the users make.                               *)
(***************************************************************************)
EXTENDS CmCep

CONSTANTS a, b, ActiveOps, PassiveOps, ActiveQpn, PassiveQpn,
          ActiveIssued, PassiveIssued

MCNode == {a, b}
ByNode(x, y) == [n \in MCNode |-> IF n = a THEN x ELSE y]
MCOps == ByNode(ActiveOps, PassiveOps)
MCUserQpn == ByNode(ActiveQpn, PassiveQpn)
MCMaxIssued == ByNode(ActiveIssued, PassiveIssued)

(***************************************************************************)
(* The state after a's user has created an endpoint and b's user has       *)
(* created one and made it listen.                                         *)
(***************************************************************************)
Ready(s) == [NewCep(<<1, NextModifier(1, <<1, 0>>)>>) EXCEPT
                !.state = s, !.bound = TRUE, !.pfn_destroy_cb = TRUE]
InitReady ==
    /\ cep = ByNode([c \in Cid |-> IF c = 1 THEN Ready("IDLE") ELSE FreeCid(<<c, 0>>)],
                    [c \in Cid |-> IF c = 1 THEN Ready("LISTEN") ELSE FreeCid(<<c, 0>>)])
    /\ free_cid = [n \in Node |-> [i \in 1 .. (CidCount - 1) |-> i + 1]]
    /\ handles = [n \in Node |-> {1}]
    /\ net = {}
    /\ issued = [n \in Node |-> 1]
    /\ faults = 0

(***************************************************************************)
(* The state after endpoint 1 of a and endpoint 2 of b have connected,     *)
(* every send has completed and all events have been polled.  The REP and  *)
(* the RTU may still arrive again.  b's listener is still there, and the   *)
(* REQ may arrive again too; or it has been destroyed and its CID is free, *)
(* and b may also still wait for the RTU, with its REP out.                *)
(***************************************************************************)
FirstId(c)  == <<c, NextModifier(c, <<c, 0>>)>>
SecondId(c) == <<c, NextModifier(c, FirstId(c))>>

Active ==
    [Ready("ESTABLISHED") EXCEPT
        !.local_comm_id = SecondId(1), !.remote_comm_id = FirstId(2),
        !.remote_ca_guid = b, !.dst = b, !.was_active = TRUE,
        !.local_qpn = CHOOSE q \in ActiveQpn : TRUE,
        !.remote_qpn = CHOOSE q \in PassiveQpn : TRUE,
        !.rem_id_item = TRUE, !.rem_qp_item = TRUE]
Passive ==
    [Active EXCEPT
        !.local_comm_id = Active.remote_comm_id,
        !.remote_comm_id = Active.local_comm_id,
        !.remote_ca_guid = a, !.dst = a, !.was_active = FALSE,
        !.local_qpn = Active.remote_qpn, !.remote_qpn = Active.local_qpn]
Unacknowledged == To(SendRetry(Passive), "REP_SENT")
Req == Mad("REQ", a, [Active EXCEPT !.remote_comm_id = NoId], Active.local_qpn, "")
Rtu == Mad("RTU", a, Active, 0, "")

ConnectedWith(passive, listener, held, freed, late) ==
    /\ cep = ByNode([c \in Cid |-> IF c = 1 THEN Keep(Active, Rtu) ELSE FreeCid(<<c, 0>>)],
                    [c \in Cid |-> CASE c = 1 -> listener [] c = 2 -> passive
                                      [] OTHER -> FreeCid(<<c, 0>>)])
    /\ free_cid = ByNode([i \in 1 .. (CidCount - 1) |-> i + 1],
                         freed \o [i \in 1 .. (CidCount - 2) |-> i + 2])
    /\ handles = ByNode({1}, {2} \cup held)
    /\ net = {Mad("REP", b, Passive, Passive.local_qpn, ""), Rtu} \cup late
    /\ issued = [n \in Node |-> 2]
    /\ faults = 0

InitConnected == ConnectedWith(Passive, Ready("LISTEN"), {1}, <<>>, {Req})
InitAlone     ==  \* The listener is gone.
    \E passive \in {Passive, Unacknowledged} :
        ConnectedWith(passive, FreeCid(FirstId(1)), {}, <<1>>, {})

AloneSpec == InitAlone /\ [][Next]_vars
ConnectedSpec == InitConnected /\ [][Next]_vars
ConnectedFairSpec == ConnectedSpec /\ Fairness

ReadySpec == InitReady /\ [][Next]_vars
ReadyFairSpec == ReadySpec /\ Fairness
=============================================================================
