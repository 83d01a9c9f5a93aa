------------------------------ MODULE MCAlObj ------------------------------
(* A channel adapter with a protection domain, under which there is an     *)
(* object destroyed synchronously.                                         *)
EXTENDS AlObj, TLC

CONSTANTS ca, pd, mw

MCParent == (pd :> ca) @@ (mw :> pd)

(* With no call in progress and nothing to free the process may stop.      *)
Quiet ==
    /\ bugcheck \/ (queue = <<>> /\ \A t \in DOMAIN stack : stack[t] = <<>>)
    /\ UNCHANGED vars

MCSpec == Init /\ [][Next \/ Quiet]_vars /\ Fairness
=============================================================================
