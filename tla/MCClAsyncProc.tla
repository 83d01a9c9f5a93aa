---------------------------- MODULE MCClAsyncProc ----------------------------
(* The asynchronous processor for TLC.  No symmetry: the same instance     *)
(* also checks liveness.                                                   *)
EXTENDS ClAsyncProc, TLC

(* The processor may stop for good only once it is destroyed, or while it  *)
(* is idle with nothing left to queue.                                     *)
Quiet == pc[Owner] = "done" /\ UNCHANGED vars

MCSpec == Init /\ [][Next \/ Quiet]_vars /\ Fairness
=============================================================================
