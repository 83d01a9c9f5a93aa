------------------------------- MODULE AlRmpp -------------------------------
(***************************************************************************)
(* The reliable multi-packet protocol of a MAD service (core/al/al_mad.c): *)
(* a MAD larger than a packet is sent in segments within a window that the *)
(* receiver opens with its acknowledgements, and reassembled.  One service *)
(* sends one MAD, for which no response is expected, to another over a     *)
(* network that loses, repeats and reorders packets: what was sent may be  *)
(* received at any time, any number of times, or never.                    *)
(*                                                                         *)
(* Each step is a critical section of one service's lock.  The payload of  *)
(* segment k is left out; what is kept is the room for it.                 *)
(***************************************************************************)
EXTENDS Integers, FiniteSetsExt

CONSTANTS
    MaxSeg,       \* bound: the segments of the MAD
    Window,       \* AL_RMPP_WINDOW
    RmppRetries,  \* retry_cnt of the send
    MaxResizeFail \* bound: the buffers that cannot be enlarged

ASSUME RmppAssumption ==
    /\ MaxSeg \in Nat \ {0} /\ Window \in Nat \ {0}
    /\ RmppRetries \in Nat /\ MaxResizeFail \in Nat

VARIABLES
    out,          \* al_mad_send_t of the sender
    packets,      \* the packets that were ever sent
    asm,          \* al_mad_rmpp_t of the receiver, if it reassembles
    delivered,    \* the receiver's client has had the MAD
    resize_fail,  \* al_resize_mad has failed so often
    overrun       \* a segment was copied past the buffer

rmppvars == <<out, packets, asm, delivered, resize_fail, overrun>>

Data(seg, last) == [type |-> "DATA", seg |-> seg, arg |-> IF last THEN 1 ELSE 0]
Ack(seg, win) == [type |-> "ACK", seg |-> seg, arg |-> win]

(* state is "new", then "listed" while the send is on send_list, then its  *)
(* status; active stands for retry_time = MAX_TIME.                        *)
RmppTypeOK ==
    /\ out \in [state : {"new", "listed", "success", "error", "timeout", "canceled"},
                active : BOOLEAN, canceled : BOOLEAN, due : BOOLEAN,
                retry_cnt : 0..RmppRetries, total_seg : 1..MaxSeg,
                ack_seg : 0..MaxSeg, seg_limit : 0..MaxSeg, cur_seg : 1..(MaxSeg + 1)]
    /\ packets \subseteq [type : {"DATA", "ACK"}, seg : 1..MaxSeg, arg : Nat]
    /\ asm \in [on : BOOLEAN, inactive : BOOLEAN, expected_seg : 1..(MaxSeg + 1),
                seg_limit : Nat, single : BOOLEAN]
    /\ delivered \in BOOLEAN /\ overrun \in BOOLEAN
    /\ resize_fail \in 0..MaxResizeFail

NoAsm == [on |-> FALSE, inactive |-> FALSE, expected_seg |-> 1, seg_limit |-> 1,
          single |-> FALSE]

(* __queue_rmpp_seg: the current segment is posted.                        *)
QueueSeg(s) ==
    /\ packets' = packets \cup {Data(s.cur_seg, s.cur_seg = s.total_seg)}
    /\ out' = [s EXCEPT !.active = TRUE, !.due = FALSE, !.cur_seg = @ + 1]

RmppInit ==
    /\ out = [state |-> "new", active |-> FALSE, canceled |-> FALSE, due |-> FALSE,
              retry_cnt |-> RmppRetries, total_seg |-> 1, ack_seg |-> 0,
              seg_limit |-> 1, cur_seg |-> 1]
    /\ packets = {}
    /\ asm = NoAsm
    /\ delivered = FALSE /\ resize_fail = 0 /\ overrun = FALSE

-----------------------------------------------------------------------------
(* The sender *)

Sender == UNCHANGED <<asm, delivered, resize_fail, overrun>>
End(s, status) == out' = [s EXCEPT !.state = status, !.active = FALSE, !.due = FALSE]
                  /\ UNCHANGED packets

(* ib_send_mad of a MAD of n segments: __init_send_mad and the first of    *)
(* them.                                                                   *)
RmppSend(n) ==
    /\ out.state = "new"
    /\ QueueSeg([out EXCEPT !.state = "listed", !.total_seg = n])
    /\ Sender

(* __mad_svc_send_done: the send has failed, is canceled or fully          *)
(* acknowledged, or goes on within its window, or waits.                   *)
RmppSendDone(ok) ==
    /\ out.state = "listed" /\ out.active
    /\ CASE ~ok \/ out.canceled \/ out.ack_seg >= out.total_seg ->
              End(out, IF out.canceled THEN "canceled" ELSE IF ok THEN "success" ELSE "error")
         [] ok /\ ~out.canceled /\ out.ack_seg < out.total_seg
              /\ out.cur_seg <= out.seg_limit -> QueueSeg(out)
         [] OTHER -> out' = [out EXCEPT !.active = FALSE] /\ UNCHANGED packets
    /\ Sender

(* __process_rmpp_ack: old ones are dropped; an active send only notes     *)
(* what is acknowledged and goes on when its packet has gone.              *)
ProcessAck(a) ==
    LET s == [out EXCEPT !.ack_seg = a.seg, !.cur_seg = a.seg + 1,
                         !.seg_limit = Min({a.arg, out.total_seg})] IN
    /\ out.state = "listed" /\ a \in packets /\ a.type = "ACK" /\ a.seg >= out.ack_seg
    /\ CASE s.active -> out' = s /\ UNCHANGED packets
         [] ~s.active /\ s.ack_seg = s.total_seg -> End(s, "success")
         [] ~s.active /\ s.ack_seg # s.total_seg /\ s.ack_seg < s.seg_limit -> QueueSeg(s)
         [] OTHER -> out' = s /\ UNCHANGED packets
    /\ Sender

(* __process_rmpp_nack, for a STOP or ABORT of another implementation.     *)
ProcessNack ==
    /\ out.state = "listed" /\ ~out.canceled
    /\ IF out.active THEN out' = [out EXCEPT !.canceled = TRUE] /\ UNCHANGED packets
                     ELSE End(out, "canceled")
    /\ Sender

(* ib_cancel_mad.                                                          *)
RmppCancel ==
    /\ out.state = "listed" /\ ~out.canceled
    /\ out' = [out EXCEPT !.canceled = TRUE]
    /\ UNCHANGED packets /\ Sender

RmppElapse ==
    /\ out.state = "listed" /\ ~out.active /\ ~out.due
    /\ out' = [out EXCEPT !.due = TRUE]
    /\ UNCHANGED packets /\ Sender

(* Mutant: a send is retried for ever.                                     *)
RmppSendTimer_Forever ==
    /\ out.state = "listed" /\ ~out.active /\ (out.canceled \/ out.due)
    /\ IF out.canceled THEN End(out, "canceled")
       ELSE QueueSeg([out EXCEPT !.cur_seg = out.ack_seg + 1])
    /\ Sender

(* Mutant: a retry goes on where the last segment was, past the window.    *)
RmppSendTimer_GoOn ==
    /\ out.state = "listed" /\ ~out.active /\ (out.canceled \/ out.due)
    /\ CASE out.canceled -> End(out, "canceled")
         [] ~out.canceled /\ (out.retry_cnt = 0 \/ out.cur_seg > out.total_seg) ->
              End(out, "timeout")
         [] OTHER -> QueueSeg([out EXCEPT !.retry_cnt = @ - 1])
    /\ Sender

(* __check_send_queue: what is not acknowledged is sent again, or the send *)
(* waits again if the window is used up.                                   *)
RmppSendTimer ==
    LET s == [out EXCEPT !.retry_cnt = @ - 1, !.due = FALSE] IN
    /\ out.state = "listed" /\ ~out.active /\ (out.canceled \/ out.due)
    /\ CASE out.canceled -> End(out, "canceled")
         [] ~out.canceled /\ out.retry_cnt = 0 -> End(out, "timeout")
         [] ~out.canceled /\ out.retry_cnt > 0 /\ out.ack_seg < out.seg_limit ->
              QueueSeg([s EXCEPT !.cur_seg = out.ack_seg + 1])
         [] OTHER -> out' = s /\ UNCHANGED packets
    /\ Sender

-----------------------------------------------------------------------------
(* The receiver *)

(* Mutant: the segment that is expected is acknowledged.                   *)
GetAck_Expected(r) == Ack(r.expected_seg, r.seg_limit)

(* __get_rmpp_ack.  Without memory there is none, as if it were lost.      *)
GetAck(r) ==
    LET got == r.expected_seg - 1 IN
    Ack(got, IF r.seg_limit = got /\ ~r.single THEN 1 + r.seg_limit ELSE r.seg_limit)

(* __process_segment for segment d of reassembly r, the one expected.  The *)
(* last segment delivers the MAD; at the end of the window the buffer is   *)
(* enlarged and the sender told, or nothing is done if that fails.         *)
ProcessSegment(r, d) ==
    LET next == [r EXCEPT !.expected_seg = @ + 1, !.inactive = FALSE]
        wider == [next EXCEPT !.seg_limit = @ + Window] IN
    /\ overrun' = (overrun \/ d.seg > r.seg_limit)
    /\ \/ /\ d.arg = 1
          /\ asm' = NoAsm /\ delivered' = TRUE
          /\ packets' = packets \cup {GetAck(next)} /\ UNCHANGED resize_fail
       \/ /\ d.arg = 0 /\ d.seg # r.seg_limit
          /\ asm' = next
          /\ UNCHANGED <<packets, delivered, resize_fail>>
       \/ /\ d.arg = 0 /\ d.seg = r.seg_limit
          /\ asm' = wider
          /\ packets' = packets \cup {GetAck(wider)}
          /\ UNCHANGED <<delivered, resize_fail>>
       \/ /\ d.arg = 0 /\ d.seg = r.seg_limit /\ resize_fail < MaxResizeFail
          /\ asm' = next /\ resize_fail' = resize_fail + 1
          /\ UNCHANGED <<packets, delivered>>

(* __process_rmpp_data: the first segment starts a reassembly, an old      *)
(* segment repeats the acknowledgement, one that is too new is dropped.    *)
ProcessData(d) ==
    LET r == IF asm.on THEN asm ELSE [NoAsm EXCEPT !.on = TRUE, !.single = (d.arg = 1)] IN
    /\ d \in packets /\ d.type = "DATA" /\ (asm.on \/ d.seg = 1)
    /\ \/ d.seg = r.expected_seg /\ ProcessSegment(r, d)
       \/ /\ d.seg < r.expected_seg
          /\ packets' = packets \cup {GetAck(r)}
          /\ UNCHANGED <<asm, delivered, resize_fail, overrun>>
    /\ UNCHANGED out

(* __recv_timer_cb: a reassembly without a new segment since the last time *)
(* is dropped.                                                             *)
RecvTimer ==
    /\ asm.on
    /\ asm' = IF asm.inactive THEN NoAsm ELSE [asm EXCEPT !.inactive = TRUE]
    /\ UNCHANGED <<out, packets, delivered, resize_fail, overrun>>

-----------------------------------------------------------------------------
RmppNext ==
    \/ \E n \in 1..MaxSeg : RmppSend(n)
    \/ \E ok \in BOOLEAN : RmppSendDone(ok)
    \/ \E p \in packets : ProcessAck(p) \/ ProcessData(p)
    \/ ProcessNack \/ RmppCancel \/ RmppElapse \/ RmppSendTimer \/ RecvTimer

(* Work requests complete, time passes, timers fire.  The network need     *)
(* deliver nothing.                                                        *)
RmppFairness ==
    /\ WF_rmppvars(\E ok \in BOOLEAN : RmppSendDone(ok))
    /\ WF_rmppvars(RmppElapse) /\ WF_rmppvars(RmppSendTimer) /\ WF_rmppvars(RecvTimer)

RmppSpec == RmppInit /\ [][RmppNext]_rmppvars /\ RmppFairness

-----------------------------------------------------------------------------
(* Properties *)

(* A send that succeeds was reassembled and delivered, whatever the        *)
(* network did to the segments and to the acknowledgements.                *)
SuccessMeansDelivered == out.state = "success" => delivered

(* No segment but the first is ever sent, or sent again, before the        *)
(* receiver has acknowledged an earlier one and opened the window for it,  *)
(* whatever the order in which a completion, a retry and an                *)
(* acknowledgement meet (the assertion of __queue_rmpp_seg); and what the  *)
(* receiver copies overruns its buffer only if it could not be enlarged.   *)
WindowKept ==
    /\ \A p \in packets : p.type = "DATA" =>
         \/ p.seg = 1
         \/ \E a \in packets : a.type = "ACK" /\ p.seg <= a.arg /\ a.seg < p.seg
    /\ overrun => resize_fail > 0

(* The assertion of __process_segment: the segment that is copied lies     *)
(* within the window, for which there is room.                             *)
SegmentFits == ~overrun

(* A send ends although every packet may be lost, once acknowledgements    *)
(* stop coming: one that repeats the last makes __process_rmpp_ack send    *)
(* the window again, at no cost in retries, so no number of retries bounds *)
(* a send whose acknowledgement is repeated for ever.  Nor is a reassembly *)
(* kept for ever: one begun by a late first segment, or whose sender has   *)
(* given up, is dropped although old segments keep arriving.               *)
TransferEnds ==
    /\ <>[][\A p \in packets : ~ProcessAck(p)]_rmppvars
         => (out.state = "listed" ~> out.state # "listed")
    /\ []<>(~asm.on)

=============================================================================
