---------------------------- MODULE AlMadProofs -----------------------------
(***************************************************************************)
(* For any number of sends, received MADs and retries: the counts of the   *)
(* MAD service are exact, no send on its list is forgotten, and AlMadSvc   *)
(* implements what MadContract says of its steps.                          *)
(***************************************************************************)
EXTENDS AlMadSvc, FiniteSetTheorems, TLAPS

SendRec == [state : {"new", "listed", "off", "put"}, resp_expected : BOOLEAN,
            active : BOOLEAN, canceled : BOOLEAN, due : BOOLEAN, delayed : BOOLEAN,
            retry_cnt : 0..MaxRetry, p_resp_mad : Mad \cup {NoMad}, status : MadStatus,
            calls : 0..1]
RxRec == [at : {"net", "routed", "held", "user", "pool"}, send : Send \cup {NoMad}]
ReportRec == [by : {"send", "recv", "timer", "owner"}, send : Send]
SvcRec == [ref_cnt : Int, armed : BOOLEAN, timer : BOOLEAN, freed : BOOLEAN]

(* Who holds a reference.                                                  *)
Unreported == {s \in Send : send[s].state \in {"listed", "off"}}
Reports(t) == {r \in report : r.by = t}
Routed == {m \in Mad : rx[m].at = "routed"}

FiniteReports == IsFiniteSet(Reports("send")) /\ IsFiniteSet(Reports("recv"))

Counts ==
    ~mad_bug =>
    /\ svc.ref_cnt = (IF owner \in {"wait", "done"} THEN 0 ELSE 1)
         + Cardinality(Unreported) + Cardinality(posted) + exits.send
         + Cardinality(Reports("send")) + Cardinality(Routed) + Cardinality(Reports("recv"))
    /\ reg_cnt = (IF owner \in {"none", "dereg"} THEN 1 ELSE 0)
         + Cardinality(posted) + Cardinality(Reports("send")) + exits.send + exits.dec

(* A send is in the hands of one thread once it is off the list, and not   *)
(* before; it is reported once, as it is put back.                         *)
Handed ==
    /\ \A r \in report : send[r.send].state = "off"
    /\ \A r1, r2 \in report : r1.send = r2.send => r1 = r2
    /\ \A s \in Send : send[s].calls = IF send[s].state = "put" THEN 1 ELSE 0

(* The response of a send is the one that came for it, is held until the   *)
(* send is reported, and is kept for an active send only; how the send     *)
(* ended fits it.                                                          *)
RespSound(s) ==
    /\ send[s].p_resp_mad # NoMad => rx[send[s].p_resp_mad].send = s
    /\ send[s].p_resp_mad # NoMad /\ send[s].state \in {"listed", "off"}
         => rx[send[s].p_resp_mad].at = "held"
    /\ send[s].state = "new" => send[s].p_resp_mad = NoMad /\ ~send[s].resp_expected
    /\ send[s].state = "listed" /\ ~send[s].active => send[s].p_resp_mad = NoMad
    /\ send[s].state \in {"off", "put"} =>
         /\ send[s].status # "none"
         /\ send[s].status = "success" /\ send[s].resp_expected => send[s].p_resp_mad # NoMad
         /\ send[s].status \in {"timeout", "canceled"} => send[s].p_resp_mad = NoMad

RxSound(m) == rx[m].at = "net" <=> rx[m].send = NoMad

(* Once the destroyer has canceled the sends all are, and once it has      *)
(* checked the list none waits.                                            *)
Closing ==
    /\ owner \notin {"none", "dereg", "cancel"} => \A s \in ListedSends : send[s].canceled
    /\ owner \notin {"none", "dereg", "cancel", "check"} => IdleSends = {}
    /\ svc.freed <=> owner = "done"
    /\ mad_bug => svc.freed

(* The inductive invariant.                                                *)
MadInv ==
    /\ MadTypeOK /\ Handed /\ ListedIsServed /\ Closing /\ FiniteReports /\ Counts
    /\ \A s \in Send : RespSound(s)
    /\ \A m \in Mad : RxSound(m)

(* A step that the clients do not see.                                     *)
ViewKept ==
    /\ \A t \in Send :
         /\ send'[t].resp_expected = send[t].resp_expected
         /\ \/ send[t].state \in {"listed", "off"} /\ send'[t].state \in {"listed", "off"}
            \/ /\ send'[t].state = send[t].state /\ send'[t].status = send[t].status
               /\ send'[t].p_resp_mad = send[t].p_resp_mad
    /\ \A m \in Mad : rx'[m].send = rx[m].send

-----------------------------------------------------------------------------
(* Updates of send and rx, and of the cardinality of a set.                *)

(* Replacing one send,                                                     *)
LEMMA SetSend ==
  ASSUME NEW f \in [Send -> SendRec], NEW s \in Send, NEW r \in SendRec
  PROVE  /\ [f EXCEPT ![s] = r] \in [Send -> SendRec]
         /\ [f EXCEPT ![s] = r][s] = r
         /\ \A t \in Send \ {s} : [f EXCEPT ![s] = r][t] = f[t]
BY SMTT(30)

(* or one received MAD.                                                    *)
LEMMA SetRx ==
  ASSUME NEW f \in [Mad -> RxRec], NEW m \in Mad, NEW r \in RxRec
  PROVE  /\ [f EXCEPT ![m] = r] \in [Mad -> RxRec]
         /\ [f EXCEPT ![m] = r][m] = r
         /\ \A n \in Mad \ {m} : [f EXCEPT ![m] = r][n] = f[n]
BY SMTT(30)

(* A set with one more element,                                            *)
LEMMA CardPlus ==
  ASSUME NEW S, NEW T, NEW x, IsFiniteSet(S), x \notin S, T = S \cup {x}
  PROVE  IsFiniteSet(T) /\ Cardinality(T) = Cardinality(S) + 1
BY FS_AddElement

(* or one fewer.                                                           *)
LEMMA CardMinus ==
  ASSUME NEW S, NEW T, NEW x, IsFiniteSet(S), x \in S, T = S \ {x}
  PROVE  IsFiniteSet(T) /\ Cardinality(T) = Cardinality(S) - 1
BY FS_RemoveElement

(* The sets that are counted are finite.                                   *)
LEMMA Finite ==
  ASSUME MadInv
  PROVE  /\ IsFiniteSet(Unreported) /\ IsFiniteSet(posted) /\ IsFiniteSet(Routed)
         /\ IsFiniteSet(Reports("send")) /\ IsFiniteSet(Reports("recv"))
         /\ Cardinality(Unreported) \in Nat /\ Cardinality(posted) \in Nat
         /\ Cardinality(Routed) \in Nat /\ Cardinality(Reports("send")) \in Nat
         /\ Cardinality(Reports("recv")) \in Nat
<1>1. IsFiniteSet(Reports("send")) /\ IsFiniteSet(Reports("recv"))
  BY DEF MadInv, FiniteReports
<1>2. Unreported \in SUBSET Send /\ posted \in SUBSET Send /\ Routed \in SUBSET Mad
  BY DEF MadInv, MadTypeOK, Unreported, Routed
<1>3. IsFiniteSet(Unreported) /\ IsFiniteSet(posted) /\ IsFiniteSet(Routed)
  BY <1>2, MadAssumption, FS_Subset
<1> QED
  BY <1>1, <1>3, FS_CardinalityType

(* The types, by the names of their records.                               *)
LEMMA Types ==
  ASSUME MadInv
  PROVE  /\ send \in [Send -> SendRec] /\ posted \subseteq Send /\ rx \in [Mad -> RxRec]
         /\ report \subseteq ReportRec /\ exits \in [send : Nat, dec : Nat] /\ svc \in SvcRec
         /\ reg_cnt \in Int /\ owner \in OwnerPc /\ mad_bug \in BOOLEAN
BY DEF MadInv, MadTypeOK, SendRec, RxRec, ReportRec, SvcRec

(* The record of a send.                                                   *)
LEMMA SendTyped ==
  ASSUME MadInv, NEW s \in Send
  PROVE  send[s] \in SendRec
BY Types

(* Typed variables make a typed state.                                     *)
LEMMA TypesKept ==
  ASSUME send' \in [Send -> SendRec], posted' \subseteq Send, rx' \in [Mad -> RxRec],
         report' \subseteq ReportRec, exits' \in [send : Nat, dec : Nat], svc' \in SvcRec,
         reg_cnt' \in Int, owner' \in OwnerPc, mad_bug' \in BOOLEAN
  PROVE  MadTypeOK'
BY DEF MadTypeOK, SendRec, RxRec, ReportRec, SvcRec

-----------------------------------------------------------------------------
(* ib_send_mad: a reference for the send and one for its work request.     *)
LEMMA SendMadKeeps ==
  ASSUME MadInv, NEW s \in Send, SendMad(s)
  PROVE  /\ MadInv' /\ send'[s].state = "listed"
         /\ \A t \in Send \ {s} : send'[t] = send[t]
<1>1. PICK b \in BOOLEAN :
        send' = [send EXCEPT ![s].state = "listed", ![s].active = TRUE, ![s].resp_expected = b]
  BY Zenon DEF SendMad
<1>2. /\ owner = "none" /\ send[s].state = "new" /\ posted' = posted \cup {s}
      /\ reg_cnt' = reg_cnt + 1 /\ svc' = [svc EXCEPT !.ref_cnt = @ + 2]
      /\ UNCHANGED <<rx, report, exits, owner, mad_bug>>
  BY Zenon, FS_Singleton DEF SendMad, QueueSend
<1>t. /\ send \in [Send -> SendRec] /\ posted \subseteq Send /\ rx \in [Mad -> RxRec]
      /\ report \subseteq ReportRec /\ exits \in [send : Nat, dec : Nat] /\ svc \in SvcRec
      /\ reg_cnt \in Int /\ owner \in OwnerPc /\ mad_bug \in BOOLEAN
  BY Types
<1> DEFINE r == [send[s] EXCEPT !.state = "listed", !.active = TRUE, !.resp_expected = b]
<1>3. r \in SendRec
  BY SendTyped, ZenonT(30) DEF SendRec
<1>4. /\ r.state = "listed" /\ r.active = TRUE /\ r.resp_expected = b
      /\ r.canceled = send[s].canceled /\ r.p_resp_mad = send[s].p_resp_mad
      /\ r.calls = send[s].calls
  BY <1>t, SMTT(30) DEF SendRec
<1>5. send' = [send EXCEPT ![s] = r]
  BY Zenon, <1>1, <1>t
<1> HIDE DEF r
<1>6. send' \in [Send -> SendRec] /\ send'[s] = r /\ \A t \in Send \ {s} : send'[t] = send[t]
  BY <1>t, <1>3, <1>5, SetSend
<1>7. svc' \in SvcRec /\ svc'.ref_cnt = svc.ref_cnt + 2 /\ svc'.armed = svc.armed /\ svc'.freed = svc.freed
  BY <1>t, <1>2 DEF SvcRec
<1>8. MadTypeOK'
  BY <1>t, <1>2, <1>6, <1>7, TypesKept
<1>9. Handed'
  BY <1>t, <1>2, <1>4, <1>6 DEF MadInv, Handed, ReportRec
<1>10. ListedIsServed' /\ Closing'
  BY <1>t, <1>2, <1>4, <1>6, <1>7 DEF MadInv, ListedIsServed, ListedSends, IdleSends, Closing
<1>11. (\A t \in Send : RespSound(t)') /\ (\A m \in Mad : RxSound(m)')
  BY <1>t, <1>2, <1>4, <1>6 DEF MadInv, RespSound, RxSound
<1>12. FiniteReports' /\ Counts'
  <2>1. s \notin Unreported /\ Unreported' = Unreported \cup {s} /\ s \notin posted
    BY <1>2, <1>4, <1>6 DEF Unreported, MadInv, ListedIsServed, ListedSends
  <2>2. Reports("send")' = Reports("send") /\ Reports("recv")' = Reports("recv") /\ Routed' = Routed
    BY <1>2 DEF Reports, Routed
  <2>3. /\ Cardinality(Unreported') = Cardinality(Unreported) + 1
        /\ Cardinality(posted') = Cardinality(posted) + 1
    BY Zenon, <1>2, <2>1, Finite, CardPlus
  <2> QED
    BY <1>t, <1>2, <1>7, <2>2, <2>3, Finite DEF MadInv, FiniteReports, Counts
<1> QED
  BY <1>4, <1>6, <1>8, <1>9, <1>10, <1>11, <1>12 DEF MadInv

(* What a step keeps that changes of the sends only canceled, due and      *)
(* delayed, and neither the received MADs nor the reports.                 *)
LEMMA Frame ==
  ASSUME MadInv, UNCHANGED <<rx, report>>,
         \A t \in Send : /\ send'[t].state = send[t].state /\ send'[t].active = send[t].active
                         /\ send'[t].calls = send[t].calls /\ send'[t].status = send[t].status
                         /\ send'[t].p_resp_mad = send[t].p_resp_mad
                         /\ send'[t].resp_expected = send[t].resp_expected
  PROVE  /\ Handed' /\ FiniteReports'
         /\ (\A t \in Send : RespSound(t)') /\ (\A m \in Mad : RxSound(m)')
         /\ Unreported' = Unreported /\ Routed' = Routed
         /\ Reports("send")' = Reports("send") /\ Reports("recv")' = Reports("recv")
         /\ ListedSends' = ListedSends /\ IdleSends' = IdleSends
         /\ {t \in ListedSends : send[t].active}' = {t \in ListedSends : send[t].active}
<1>1. Handed'
  BY Types DEF MadInv, Handed, ReportRec
<1>2. (\A t \in Send : RespSound(t)') /\ (\A m \in Mad : RxSound(m)')
  BY DEF MadInv, RespSound, RxSound
<1>3. FiniteReports' /\ Reports("send")' = Reports("send") /\ Reports("recv")' = Reports("recv")
  BY DEF MadInv, FiniteReports, Reports
<1>4. Unreported' = Unreported /\ Routed' = Routed
  BY DEF Unreported, Routed
<1>5. /\ ListedSends' = ListedSends /\ IdleSends' = IdleSends
      /\ {t \in ListedSends : send[t].active}' = {t \in ListedSends : send[t].active}
  BY DEF ListedSends, IdleSends
<1> QED
  BY <1>1, <1>2, <1>3, <1>4, <1>5

(* ib_cancel_mad, ib_delay_mad, the passing of retry_time, and             *)
(* __mad_svc_cancel_all leave the sends where they are.                    *)
LEMMA MinorKeeps ==
  ASSUME MadInv, NEW s,
         CancelAll \/ (s \in Send /\ (CancelMad(s) \/ DelayMad(s) \/ Elapse(s)))
  PROVE  MadInv' /\ ViewKept
<1>1. /\ UNCHANGED <<posted, rx, report, exits, reg_cnt, mad_bug>>
      /\ svc' \in SvcRec /\ svc'.ref_cnt = svc.ref_cnt /\ svc'.freed = svc.freed
      /\ svc.armed => svc'.armed
  <2>1. CASE s \in Send /\ CancelMad(s)
    <3>1. svc.armed \in BOOLEAN /\ send[s].active \in BOOLEAN
      BY <2>1, Types DEF SendRec, SvcRec
    <3>2. (svc.armed \/ ~send[s].active) \in BOOLEAN
      BY <3>1, Zenon
    <3> QED
      BY Zenon, <2>1, <3>2, Types DEF CancelMad, SvcRec
  <2>2. CASE UNCHANGED svc
    BY <2>2, Types DEF CancelMad, DelayMad, Elapse, CancelAll
  <2> QED
    BY <2>1, <2>2 DEF DelayMad, Elapse, CancelAll
<1>2. \/ owner' = owner
      \/ owner = "cancel" /\ owner' = "check" /\ \A t \in ListedSends : send'[t].canceled
  <2>1. CASE CancelAll
    BY Zenon, <2>1, Types DEF CancelAll, OwnerAt, ListedSends, SendRec
  <2> QED
    BY <2>1 DEF CancelMad, DelayMad, Elapse
<1>3. /\ send' \in [Send -> SendRec]
      /\ \A t \in Send : /\ send'[t].state = send[t].state /\ send'[t].active = send[t].active
                         /\ send'[t].calls = send[t].calls /\ send'[t].status = send[t].status
                         /\ send'[t].p_resp_mad = send[t].p_resp_mad
                         /\ send'[t].resp_expected = send[t].resp_expected
                         /\ send[t].canceled => send'[t].canceled
  <2>1. CASE s \in Send /\ CancelMad(s)
    <3> DEFINE r == [send[s] EXCEPT !.canceled = TRUE]
    <3>1. r \in SendRec
      BY <2>1, SendTyped, ZenonT(30) DEF SendRec
    <3>2. /\ r.state = send[s].state /\ r.active = send[s].active /\ r.calls = send[s].calls
          /\ r.status = send[s].status /\ r.p_resp_mad = send[s].p_resp_mad
          /\ r.resp_expected = send[s].resp_expected /\ r.canceled = TRUE
      BY <2>1, Types, SMTT(30) DEF SendRec
    <3>3. send' = [send EXCEPT ![s] = r]
      BY <2>1, Types DEF CancelMad
    <3> HIDE DEF r
    <3>4. /\ send' \in [Send -> SendRec] /\ send'[s] = r
          /\ \A t \in Send \ {s} : send'[t] = send[t]
      BY <2>1, <3>1, <3>3, Types, SetSend
    <3> QED
      BY <3>2, <3>4
  <2>2. CASE s \in Send /\ (DelayMad(s) \/ Elapse(s))
    <3>1. PICK d \in BOOLEAN, e \in BOOLEAN : send' = [send EXCEPT ![s].due = d, ![s].delayed = e]
      <4>1. CASE DelayMad(s)
        BY Zenon, <4>1 DEF DelayMad
      <4>2. CASE Elapse(s)
        <5>1. send' = [send EXCEPT ![s].due = TRUE, ![s].delayed = send[s].delayed]
          BY Zenon, <4>2, Types DEF Elapse, SendRec
        <5> QED
          BY Zenon, <2>2, <5>1, Types DEF SendRec
      <4> QED
        BY Zenon, <2>2, <4>1, <4>2
    <3> DEFINE r == [send[s] EXCEPT !.due = d, !.delayed = e]
    <3>2. r \in SendRec
      BY <2>2, SendTyped, ZenonT(30) DEF SendRec
    <3>3. /\ r.state = send[s].state /\ r.active = send[s].active /\ r.calls = send[s].calls
          /\ r.status = send[s].status /\ r.p_resp_mad = send[s].p_resp_mad
          /\ r.resp_expected = send[s].resp_expected /\ r.canceled = send[s].canceled
      BY <2>2, Types, SMTT(30) DEF SendRec
    <3>4. send' = [send EXCEPT ![s] = r]
      BY Zenon, <3>1, Types
    <3> HIDE DEF r
    <3>5. /\ send' \in [Send -> SendRec] /\ send'[s] = r
          /\ \A t \in Send \ {s} : send'[t] = send[t]
      BY <2>2, <3>2, <3>4, Types, SetSend
    <3> QED
      BY <3>3, <3>5
  <2>3. CASE CancelAll
    <3>1. ASSUME NEW t \in Send
          PROVE  /\ send'[t] \in SendRec
                 /\ send'[t].state = send[t].state /\ send'[t].active = send[t].active
                 /\ send'[t].calls = send[t].calls /\ send'[t].status = send[t].status
                 /\ send'[t].p_resp_mad = send[t].p_resp_mad
                 /\ send'[t].resp_expected = send[t].resp_expected
                 /\ send[t].canceled => send'[t].canceled
      <4> DEFINE b == send[t].canceled \/ t \in ListedSends
                 r == [send[t] EXCEPT !.canceled = b]
      <4>1. b \in BOOLEAN
        BY Types, Zenon DEF SendRec
      <4>2. send'[t] = r
        BY <2>3 DEF CancelAll
      <4>3. send[t].canceled => b
        OBVIOUS
      <4> HIDE DEF b
      <4>4. r \in SendRec
        BY <4>1, SendTyped, ZenonT(30) DEF SendRec
      <4>5. /\ r.state = send[t].state /\ r.active = send[t].active /\ r.calls = send[t].calls
            /\ r.status = send[t].status /\ r.p_resp_mad = send[t].p_resp_mad
            /\ r.resp_expected = send[t].resp_expected /\ r.canceled = b
        BY Types, SMTT(30) DEF SendRec
      <4> QED
        BY <4>2, <4>3, <4>4, <4>5
    <3> QED
      BY <2>3, <3>1 DEF CancelAll
  <2> QED
    BY <2>1, <2>2, <2>3
<1>4. owner' \in OwnerPc
  BY <1>2, Types DEF OwnerPc
<1>5. MadTypeOK'
  BY <1>1, <1>3, <1>4, Types, TypesKept
<1>6. /\ Handed' /\ FiniteReports'
      /\ (\A t \in Send : RespSound(t)') /\ (\A m \in Mad : RxSound(m)')
      /\ Unreported' = Unreported /\ Routed' = Routed
      /\ Reports("send")' = Reports("send") /\ Reports("recv")' = Reports("recv")
      /\ ListedSends' = ListedSends /\ IdleSends' = IdleSends
      /\ {t \in ListedSends : send[t].active}' = {t \in ListedSends : send[t].active}
  BY <1>1, <1>3, Frame
<1>7. ListedIsServed'
  BY <1>1, <1>2, <1>6 DEF MadInv, ListedIsServed
<1>8. Closing'
  BY <1>1, <1>2, <1>3, <1>6 DEF MadInv, Closing, ListedSends
<1>9. Counts'
  BY <1>1, <1>2, <1>6 DEF MadInv, Counts
<1>10. ViewKept
  BY <1>1, <1>3 DEF ViewKept
<1> QED
  BY <1>5, <1>6, <1>7, <1>8, <1>9, <1>10 DEF MadInv

(* The steps that only count: the end of mad_disp_send_done, and the       *)
(* destroyer's that leave the sends alone.                                 *)
LEMMA CountingKeeps ==
  ASSUME MadInv,
         SendDeref \/ RegDec \/ MadDestroy \/ MadDispDereg \/ TimerStop \/ TimerFlush
           \/ OwnerDeref \/ FreeMadSvc
  PROVE  MadInv'
<1>1. UNCHANGED <<send, posted, rx, report, mad_bug>>
  BY
  DEF SendDeref, RegDec, MadDestroy, MadDispDereg, TimerStop, TimerFlush, OwnerDeref, FreeMadSvc
<1>2. /\ Handed' /\ FiniteReports'
      /\ (\A t \in Send : RespSound(t)') /\ (\A m \in Mad : RxSound(m)')
      /\ Unreported' = Unreported /\ Routed' = Routed
      /\ Reports("send")' = Reports("send") /\ Reports("recv")' = Reports("recv")
      /\ ListedSends' = ListedSends /\ IdleSends' = IdleSends
      /\ {t \in ListedSends : send[t].active}' = {t \in ListedSends : send[t].active}
  BY <1>1, Frame
<1>3. /\ svc' \in SvcRec /\ exits' \in [send : Nat, dec : Nat] /\ reg_cnt' \in Int
      /\ owner' \in OwnerPc
      /\ \/ /\ exits.send > 0 /\ exits'.send = exits.send - 1 /\ exits'.dec = exits.dec + 1
            /\ svc'.ref_cnt = svc.ref_cnt - 1 /\ svc'.armed = svc.armed /\ svc'.freed = svc.freed
            /\ UNCHANGED <<reg_cnt, owner>>
         \/ /\ exits'.send = exits.send /\ exits'.dec = exits.dec - 1 /\ reg_cnt' = reg_cnt - 1
            /\ UNCHANGED <<svc, owner>>
         \/ owner = "none" /\ owner' = "dereg" /\ UNCHANGED <<svc, exits, reg_cnt>>
         \/ /\ owner = "dereg" /\ owner' = "cancel" /\ reg_cnt' = reg_cnt - 1
            /\ UNCHANGED <<svc, exits>>
         \/ /\ owner = "report" /\ owner' = "flush" /\ UNCHANGED <<exits, reg_cnt>>
            /\ svc'.ref_cnt = svc.ref_cnt /\ svc'.freed = svc.freed
         \/ /\ owner = "flush" /\ owner' = "deref" /\ UNCHANGED <<exits, reg_cnt>>
            /\ svc'.ref_cnt = svc.ref_cnt /\ svc'.freed = svc.freed
         \/ /\ owner = "deref" /\ owner' = "wait" /\ UNCHANGED <<exits, reg_cnt>>
            /\ svc'.ref_cnt = svc.ref_cnt - 1 /\ svc'.freed = svc.freed
         \/ /\ owner = "wait" /\ owner' = "done" /\ UNCHANGED <<exits, reg_cnt>>
            /\ svc'.ref_cnt = svc.ref_cnt /\ svc'.freed = TRUE
  <2> USE Types DEF SvcRec, OwnerPc, OwnerAt
  <2>1. CASE SendDeref
    <3>1. exits.send - 1 \in Nat /\ exits.dec + 1 \in Nat
      BY <2>1 DEF SendDeref
    <3>2. /\ exits' \in [send : Nat, dec : Nat]
          /\ exits'.send = exits.send - 1 /\ exits'.dec = exits.dec + 1
      BY Zenon, <2>1, <3>1 DEF SendDeref
    <3>3. /\ svc' \in SvcRec /\ svc'.ref_cnt = svc.ref_cnt - 1
          /\ svc'.armed = svc.armed /\ svc'.freed = svc.freed
      BY <2>1 DEF SendDeref
    <3> QED
      BY <2>1, <3>2, <3>3 DEF SendDeref
  <2>2. CASE RegDec
    BY <2>2 DEF RegDec
  <2>3. CASE MadDestroy
    BY <2>3 DEF MadDestroy
  <2>4. CASE MadDispDereg
    BY <2>4 DEF MadDispDereg
  <2>5. CASE TimerStop
    BY Zenon, <2>5 DEF TimerStop
  <2>6. CASE TimerFlush
    BY Zenon, <2>6 DEF TimerFlush
  <2>7. CASE OwnerDeref
    BY <2>7 DEF OwnerDeref
  <2>8. CASE FreeMadSvc
    BY Zenon, <2>8 DEF FreeMadSvc
  <2> QED
    BY ZenonT(40), <2>1, <2>2, <2>3, <2>4, <2>5, <2>6, <2>7, <2>8
<1>4. MadTypeOK'
  BY <1>1, <1>3, Types, TypesKept
<1>5. ListedIsServed' /\ Closing'
  BY <1>1, <1>2, <1>3 DEF MadInv, ListedIsServed, Closing
<1>6. Counts'
  BY <1>1, <1>2, <1>3, Types, Finite DEF MadInv, Counts, SvcRec
<1> QED
  BY <1>2, <1>4, <1>5, <1>6 DEF MadInv

(* A work request completes: its send waits, or goes to the thread that    *)
(* completes it.                                                           *)
LEMMA SendDoneKeeps ==
  ASSUME MadInv, NEW s \in Send, NEW wc \in {"success", "error"}, SendDone(s, wc)
  PROVE  MadInv' /\ ViewKept
<1>1. /\ s \in posted /\ posted' = posted \ {s} /\ UNCHANGED <<rx, reg_cnt, owner, mad_bug>>
      /\ send[s].state = "listed" /\ send[s].active /\ s \in ListedSends
  BY DEF SendDone, MadInv, ListedIsServed, ListedSends
<1>2. /\ posted' \subseteq Send /\ Cardinality(posted') = Cardinality(posted) - 1
      /\ Routed' = Routed
  BY Zenon, <1>1, Types, Finite, CardMinus DEF Routed
<1>3. \A r \in report : r.send # s
  BY <1>1 DEF MadInv, Handed
<1>4. CASE IsSendMadDone(s, wc)
  <2> DEFINE st == IF send[s].canceled /\ send[s].p_resp_mad = NoMad THEN "canceled" ELSE wc
             r == [send[s] EXCEPT !.state = "off", !.status = st]
             new == ReportBy("send", s)
  <2>1. /\ send' = [send EXCEPT ![s] = r] /\ report' = report \cup {new} /\ UNCHANGED <<svc, exits>>
    BY Zenon, <1>4, Types DEF SendDone
  <2>2. /\ st \in MadStatus /\ st # "none" /\ st # "timeout"
        /\ st = "success" /\ send[s].resp_expected => send[s].p_resp_mad # NoMad
        /\ st = "canceled" => send[s].p_resp_mad = NoMad
    BY <1>4 DEF IsSendMadDone, MadStatus
  <2> HIDE DEF st
  <2>3. r \in SendRec
    BY <2>2, SendTyped, ZenonT(30) DEF SendRec
  <2>4. /\ r.state = "off" /\ r.status = st /\ r.active = send[s].active
        /\ r.resp_expected = send[s].resp_expected
        /\ r.canceled = send[s].canceled /\ r.p_resp_mad = send[s].p_resp_mad
        /\ r.calls = send[s].calls
    BY Types, SMTT(30) DEF SendRec
  <2> HIDE DEF r
  <2>5. /\ send' \in [Send -> SendRec] /\ send'[s] = r
        /\ \A t \in Send \ {s} : send'[t] = send[t]
    BY <2>1, <2>3, Types, SetSend
  <2>6. new \in ReportRec /\ new.by = "send" /\ new.send = s /\ new \notin report
    BY <1>3 DEF ReportBy, ReportRec
  <2> HIDE DEF new
  <2>7. MadTypeOK'
    BY <1>1, <1>2, <2>1, <2>5, <2>6, Types, TypesKept
  <2>8. Handed'
    BY <1>1, <1>3, <2>1, <2>4, <2>5, <2>6, Types DEF MadInv, Handed, ReportRec
  <2>9. ListedIsServed' /\ Closing'
    BY <1>1, <2>1, <2>4, <2>5 DEF MadInv, ListedIsServed, ListedSends, IdleSends, Closing
  <2>10. (\A t \in Send : RespSound(t)') /\ (\A m \in Mad : RxSound(m)')
    BY <1>1, <2>2, <2>4, <2>5 DEF MadInv, RespSound, RxSound
  <2>11. FiniteReports' /\ Counts'
    <3>1. /\ Unreported' = Unreported /\ Reports("recv")' = Reports("recv")
          /\ new \notin Reports("send") /\ Reports("send")' = Reports("send") \cup {new}
      BY <1>1, <2>1, <2>4, <2>5, <2>6 DEF Unreported, Reports
    <3>2. /\ IsFiniteSet(Reports("send")')
          /\ Cardinality(Reports("send")') = Cardinality(Reports("send")) + 1
      BY <3>1, Finite, CardPlus
    <3> QED
      BY <1>1, <1>2, <2>1, <3>1, <3>2, Types, Finite DEF MadInv, FiniteReports, Counts
  <2>12. ViewKept
    BY <1>1, <2>4, <2>5 DEF ViewKept
  <2> QED
    BY <2>7, <2>8, <2>9, <2>10, <2>11, <2>12 DEF MadInv
<1>5. CASE ~IsSendMadDone(s, wc)
  <2> DEFINE r == [send[s] EXCEPT !.active = FALSE, !.due = FALSE]
  <2>1. /\ send' = [send EXCEPT ![s] = r] /\ report' = report
        /\ svc' = [svc EXCEPT !.armed = TRUE] /\ exits' = [exits EXCEPT !.send = @ + 1]
    BY Zenon, <1>5, Types DEF SendDone
  <2>2. ~send[s].canceled /\ send[s].p_resp_mad = NoMad
    BY <1>5 DEF IsSendMadDone
  <2>3. r \in SendRec
    BY SendTyped, ZenonT(30) DEF SendRec
  <2>4. /\ r.state = send[s].state /\ r.status = send[s].status /\ r.active = FALSE
        /\ r.resp_expected = send[s].resp_expected
        /\ r.canceled = send[s].canceled /\ r.p_resp_mad = send[s].p_resp_mad
        /\ r.calls = send[s].calls
    BY Types, SMTT(30) DEF SendRec
  <2> HIDE DEF r
  <2>5. /\ send' \in [Send -> SendRec] /\ send'[s] = r
        /\ \A t \in Send \ {s} : send'[t] = send[t]
    BY <2>1, <2>3, Types, SetSend
  <2>6. /\ svc' \in SvcRec /\ svc'.armed = TRUE /\ svc'.ref_cnt = svc.ref_cnt
        /\ svc'.freed = svc.freed
    BY ZenonT(40), <2>1, Types DEF SvcRec
  <2>7. exits' \in [send : Nat, dec : Nat] /\ exits'.send = exits.send + 1 /\ exits'.dec = exits.dec
    BY <2>1, Types
  <2>8. MadTypeOK'
    BY <1>1, <1>2, <2>1, <2>5, <2>6, <2>7, Types, TypesKept
  <2>9. Handed'
    BY <1>3, <2>1, <2>4, <2>5, Types DEF MadInv, Handed, ReportRec
  <2>10. ListedIsServed'
    BY <1>1, <2>4, <2>5, <2>6 DEF MadInv, ListedIsServed, ListedSends, IdleSends
  <2>11. Closing'
    <3>1. owner \in {"none", "dereg", "cancel"}
      BY <1>1, <2>2 DEF MadInv, Closing
    <3> QED
      BY <1>1, <3>1, <2>6 DEF MadInv, Closing
  <2>12. (\A t \in Send : RespSound(t)') /\ (\A m \in Mad : RxSound(m)')
    BY SMTT(30), <1>1, <2>2, <2>4, <2>5 DEF MadInv, RespSound, RxSound
  <2>13. FiniteReports' /\ Counts'
    <3>1. /\ Unreported' = Unreported /\ Reports("recv")' = Reports("recv")
          /\ Reports("send")' = Reports("send")
      BY <1>1, <2>1, <2>4, <2>5 DEF Unreported, Reports
    <3> QED
      BY <1>1, <1>2, <2>6, <2>7, <3>1, Types, Finite DEF MadInv, FiniteReports, Counts
  <2>14. ViewKept
    BY <1>1, <2>4, <2>5 DEF ViewKept
  <2> QED
    BY <2>8, <2>9, <2>10, <2>11, <2>12, <2>13, <2>14 DEF MadInv
<1> QED
  BY <1>4, <1>5

(* The send is reported and put back: its reference goes, with the one of  *)
(* the receive that ended it.                                              *)
LEMMA MadNotifyKeeps ==
  ASSUME MadInv, NEW q \in report, MadNotify(q)
  PROVE  /\ MadInv' /\ q.send \in Send /\ send'[q.send].state = "put"
         /\ send'[q.send].resp_expected = send[q.send].resp_expected
         /\ \A t \in Send \ {q.send} : send'[t] = send[t]
         /\ \A m \in Mad : rx'[m].send = rx[m].send
<1> DEFINE s == q.send
           p == send[s].p_resp_mad
           r == [send[s] EXCEPT !.state = "put", !.calls = 1]
<1>1. /\ q \in ReportRec /\ s \in Send /\ q.by \in {"send", "recv", "timer", "owner"}
      /\ send[s].state = "off" /\ send[s].calls = 0
  BY Types DEF MadInv, Handed, ReportRec
<1>2. /\ report' = report \ {q} /\ UNCHANGED <<posted, reg_cnt, owner, mad_bug>>
      /\ svc' = [svc EXCEPT !.ref_cnt = @ - (IF q.by = "recv" THEN 2 ELSE 1)]
      /\ exits' = [exits EXCEPT !.send = @ + (IF q.by = "send" THEN 1 ELSE 0)]
      /\ rx' = [m \in Mad |-> IF m = p THEN [rx[m] EXCEPT !.at = "user"] ELSE rx[m]]
      /\ send' = [send EXCEPT ![s].state = "put", ![s].calls = @ + 1]
  BY DEF MadNotify
<1> HIDE DEF s
<1>3. send' = [send EXCEPT ![s] = r]
  <2> DEFINE g == [send[s] EXCEPT !.state = "put"]
  <2>1. send' = [send EXCEPT ![s] = [g EXCEPT !.calls = g.calls + 1]]
    BY Zenon, <1>1, <1>2, Types
  <2>2. g.calls = 0
    BY <1>1, Types, SMTT(30) DEF SendRec
  <2>3. [g EXCEPT !.calls = 1] = r
    BY <1>1, Types DEF SendRec
  <2> HIDE DEF g, r
  <2>4. g.calls + 1 = 1
    BY <2>2
  <2> QED
    BY Zenon, <2>1, <2>3, <2>4
<1>4. r \in SendRec
  <2>1. 1 \in 0..1
    OBVIOUS
  <2> QED
    BY <1>1, <2>1, SendTyped, ZenonT(30) DEF SendRec
<1>5. /\ r.state = "put" /\ r.calls = 1 /\ r.status = send[s].status /\ r.p_resp_mad = p
      /\ r.resp_expected = send[s].resp_expected
  BY <1>1, Types, SMTT(30) DEF SendRec
<1> HIDE DEF r
<1>6. /\ send' \in [Send -> SendRec] /\ send'[s] = r
      /\ \A t \in Send \ {s} : send'[t] = send[t]
  BY <1>1, <1>3, <1>4, Types, SetSend
<1>7. p \in Mad \cup {NoMad} /\ (p # NoMad => rx[p].at = "held" /\ rx[p].send = s)
  BY SMTT(30), <1>1, Types DEF SendRec, MadInv, RespSound
<1>8. \A t \in Send \ {s} : send[t].p_resp_mad # NoMad => send[t].p_resp_mad # p
  BY <1>1, <1>7 DEF MadInv, RespSound
<1>9. /\ \A t \in Send : send[t].p_resp_mad \in Mad \cup {NoMad}
      /\ NoMad \notin Mad
  BY Types, MadAssumption DEF SendRec
<1> HIDE DEF p
<1>10. /\ rx' \in [Mad -> RxRec] /\ \A m \in Mad : rx'[m].send = rx[m].send
       /\ \A m \in Mad \ {p} : rx'[m] = rx[m]
       /\ p \in Mad => rx'[p].at = "user"
  BY <1>2, Types DEF RxRec
<1>11. /\ svc' \in SvcRec /\ svc'.armed = svc.armed /\ svc'.freed = svc.freed
       /\ svc'.ref_cnt = svc.ref_cnt - (IF q.by = "recv" THEN 2 ELSE 1)
  BY <1>2, Types DEF SvcRec
<1>12. /\ exits' \in [send : Nat, dec : Nat] /\ exits'.dec = exits.dec
       /\ exits'.send = exits.send + (IF q.by = "send" THEN 1 ELSE 0)
  BY <1>2, Types
<1>13. MadTypeOK'
  BY <1>2, <1>6, <1>10, <1>11, <1>12, Types, TypesKept
<1>14. Handed'
  BY <1>1, <1>2, <1>5, <1>6, Types DEF MadInv, Handed, ReportRec, s
<1>15. ListedIsServed' /\ Closing'
  BY <1>1, <1>2, <1>5, <1>6, <1>11 DEF MadInv, ListedIsServed, ListedSends, IdleSends, Closing
<1>16. \A t \in Send : RespSound(t)'
  <2>1. RespSound(s)'
    BY SMTT(30), <1>1, <1>5, <1>6, <1>7, <1>10 DEF MadInv, RespSound, p
  <2>2. ASSUME NEW t \in Send \ {s} PROVE RespSound(t)'
    BY <1>6, <1>8, <1>9, <1>10 DEF MadInv, RespSound
  <2> QED
    BY <2>1, <2>2
<1>17. \A m \in Mad : RxSound(m)'
  BY <1>7, <1>9, <1>10, Zenon DEF MadInv, RxSound
<1>18. FiniteReports' /\ Counts'
  <2>1. s \in Unreported /\ Unreported' = Unreported \ {s} /\ Routed' = Routed
    <3>1. s \in Unreported /\ Unreported' = Unreported \ {s}
      BY <1>1, <1>5, <1>6 DEF Unreported
    <3>2. \A m \in Mad : rx'[m].at = "routed" <=> rx[m].at = "routed"
      BY <1>7, <1>9, <1>10
    <3> QED
      BY <3>1, <3>2 DEF Routed
  <2>2. Cardinality(Unreported') = Cardinality(Unreported) - 1
    BY Zenon, <2>1, Finite, CardMinus
  <2>3. CASE q.by = "send"
    <3>1. /\ q \in Reports("send") /\ Reports("send")' = Reports("send") \ {q}
          /\ Reports("recv")' = Reports("recv")
      BY <1>2, <2>3 DEF Reports
    <3>2. /\ IsFiniteSet(Reports("send")')
          /\ Cardinality(Reports("send")') = Cardinality(Reports("send")) - 1
      BY <3>1, Finite, CardMinus
    <3> QED
      BY <1>2, <1>11, <1>12, <2>1, <2>2, <2>3, <3>1, <3>2, Types, Finite
      DEF MadInv, FiniteReports, Counts
  <2>4. CASE q.by = "recv"
    <3>1. /\ q \in Reports("recv") /\ Reports("recv")' = Reports("recv") \ {q}
          /\ Reports("send")' = Reports("send")
      BY <1>2, <2>4 DEF Reports
    <3>2. /\ IsFiniteSet(Reports("recv")')
          /\ Cardinality(Reports("recv")') = Cardinality(Reports("recv")) - 1
      BY <3>1, Finite, CardMinus
    <3> QED
      BY SMTT(30), <1>2, <1>11, <1>12, <2>1, <2>2, <2>4, <3>1, <3>2, Types, Finite
      DEF MadInv, FiniteReports, Counts
  <2>5. CASE q.by \in {"timer", "owner"}
    <3>1. Reports("recv")' = Reports("recv") /\ Reports("send")' = Reports("send")
      BY <1>2, <2>5 DEF Reports
    <3> QED
      BY <1>2, <1>11, <1>12, <2>1, <2>2, <2>5, <3>1, Types, Finite
      DEF MadInv, FiniteReports, Counts
  <2> QED
    BY <1>1, <2>3, <2>4, <2>5
<1> QED
  BY <1>1, <1>5, <1>6, <1>10, <1>13, <1>14, <1>15, <1>16, <1>17, <1>18 DEF MadInv, s

(* A MAD comes from the network, or a routed one is dropped: the sends     *)
(* stay, and a routed MAD is counted.                                      *)
LEMMA RoutingKeeps ==
  ASSUME MadInv, NEW m \in Mad, NEW a \in {"routed", "pool"}, NEW u \in Send,
         rx' = [rx EXCEPT ![m] = [at |-> a, send |-> u]], rx[m].at \in {"net", "routed"},
         UNCHANGED <<send, posted, report, exits, reg_cnt, owner>>,
         rx[m].at = "routed" => rx[m].send = u /\ a = "pool",
         svc' \in SvcRec, svc'.armed = svc.armed, svc'.freed = svc.freed,
         svc'.ref_cnt = svc.ref_cnt + (IF a = "routed" THEN 1 ELSE 0)
                                    - (IF rx[m].at = "routed" THEN 1 ELSE 0),
         mad_bug' \in BOOLEAN, mad_bug' => svc.freed, mad_bug => mad_bug'
  PROVE  MadInv'
<1> DEFINE r == [at |-> a, send |-> u]
<1>1. r \in RxRec /\ r.at = a /\ r.send = u
  BY DEF RxRec
<1> HIDE DEF r
<1>2. rx' \in [Mad -> RxRec] /\ rx'[m] = r /\ \A n \in Mad \ {m} : rx'[n] = rx[n]
  BY <1>1, Types, SetRx DEF r
<1>4. MadTypeOK'
  BY <1>2, Types, TypesKept
<1>5. Handed' /\ FiniteReports'
  BY DEF MadInv, Handed, FiniteReports, Reports
<1>6. ListedIsServed' /\ Closing'
  BY SMTT(30) DEF MadInv, ListedIsServed, ListedSends, IdleSends, Closing
<1>7. \A t \in Send : RespSound(t)'
  <2> SUFFICES ASSUME NEW t \in Send PROVE RespSound(t)'
    OBVIOUS
  <2>1. send[t].p_resp_mad \in Mad \cup {NoMad}
    BY SMTT(30), Types DEF SendRec
  <2>2. send[t].p_resp_mad = m => rx'[m].send = t
    BY <1>1, <1>2, MadAssumption DEF MadInv, RespSound, RxSound
  <2>3. send[t].p_resp_mad = m => send[t].state \notin {"listed", "off"}
    BY MadAssumption DEF MadInv, RespSound
  <2> QED
    BY SMTT(30), <1>2, <2>1, <2>2, <2>3 DEF MadInv, RespSound
<1>8. \A n \in Mad : RxSound(n)'
  BY SMTT(30), <1>1, <1>2, MadAssumption DEF MadInv, RxSound
<1>9. Counts'
  <2>1. Unreported' = Unreported /\ Reports("send")' = Reports("send") /\ Reports("recv")' = Reports("recv")
    BY SMTT(30) DEF Unreported, Reports
  <2>2. Cardinality(Routed') = Cardinality(Routed) + (IF a = "routed" THEN 1 ELSE 0)
                                                   - (IF rx[m].at = "routed" THEN 1 ELSE 0)
    <3>1. CASE a = "routed"
      <4>1. m \notin Routed /\ Routed' = Routed \cup {m}
        BY <1>1, <1>2, <3>1 DEF Routed
      <4>2. Cardinality(Routed') = Cardinality(Routed) + 1
        BY Zenon, <4>1, Finite, CardPlus
      <4>3. rx[m].at # "routed"
        BY <3>1
      <4> QED
        BY <3>1, <4>2, <4>3, Finite
    <3>2. CASE rx[m].at = "routed"
      <4>1. m \in Routed /\ Routed' = Routed \ {m}
        BY <1>1, <1>2, <3>2 DEF Routed
      <4>2. Cardinality(Routed') = Cardinality(Routed) - 1
        BY ZenonT(40), <4>1, Finite, CardMinus
      <4>3. a # "routed"
        BY <3>2
      <4> QED
        BY <3>2, <4>2, <4>3, Finite
    <3>3. CASE a # "routed" /\ rx[m].at # "routed"
      <4>1. Routed' = Routed
        BY <1>1, <1>2, <3>3 DEF Routed
      <4> QED
        BY <3>3, <4>1, Finite
    <3> QED
      BY <3>1, <3>2, <3>3
  <2> QED
    BY <2>1, <2>2, Types, Finite DEF MadInv, Counts
<1> QED
  BY <1>4, <1>5, <1>6, <1>7, <1>8, <1>9 DEF MadInv

(* A routed MAD becomes the response of send s, which stays on the list    *)
(* while it is active and otherwise goes to the thread that received it.   *)
LEMMA ResponseKeeps ==
  ASSUME MadInv, NEW m \in Mad, ProcessRecvResp(m), rx[m].send \in ListedSends
  PROVE  MadInv' /\ ViewKept
<1> DEFINE s == rx[m].send
           old == send[s].p_resp_mad
           st == IF send[s].active THEN "listed" ELSE "off"
           r == [send[s] EXCEPT !.state = st, !.p_resp_mad = m, !.status = "success"]
           new == ReportBy("recv", s)
<1>1. /\ s \in Send /\ send[s].state = "listed" /\ rx[m].at = "routed"
      /\ UNCHANGED <<posted, exits, reg_cnt, owner, mad_bug>>
  BY ZenonT(40) DEF ProcessRecvResp, ListedSends
<1>2. /\ send[s].active =>
           /\ send' = [send EXCEPT ![s].p_resp_mad = m, ![s].status = "success"]
           /\ rx' = [n \in Mad |-> CASE n = m -> [rx[m] EXCEPT !.at = "held"]
                                     [] n = old -> [rx[n] EXCEPT !.at = "pool"]
                                     [] OTHER -> rx[n]]
           /\ svc' = [svc EXCEPT !.ref_cnt = @ - 1] /\ report' = report
      /\ ~send[s].active =>
           /\ send' = [send EXCEPT ![s].state = "off", ![s].p_resp_mad = m, ![s].status = "success"]
           /\ rx' = [rx EXCEPT ![m].at = "held"]
           /\ report' = report \cup {new} /\ svc' = svc
  BY ZenonT(40) DEF ProcessRecvResp
<1>3. /\ old \in Mad \cup {NoMad} /\ NoMad \notin Mad
      /\ old # NoMad => rx[old].at = "held" /\ rx[old].send = s /\ send[s].active
  BY <1>1, Types, MadAssumption DEF MadInv, RespSound, SendRec
<1>4. \A q \in report : q.send # s
  BY <1>1 DEF MadInv, Handed
<1> HIDE DEF s, old
<1>5. st \in {"listed", "off"} /\ (st = "listed" <=> send[s].active)
  OBVIOUS
<1>6. send' = [send EXCEPT ![s] = r]
  <2>1. CASE send[s].active
    <3>1. r = [send[s] EXCEPT !.p_resp_mad = m, !.status = "success"]
      BY Zenon, <1>1, <2>1, Types DEF SendRec
    <3> HIDE DEF r
    <3> QED
      BY Zenon, <1>1, <1>2, <2>1, <3>1, Types
  <2>2. CASE ~send[s].active
    BY Zenon, <1>1, <1>2, <2>2, Types
  <2> QED
    BY <2>1, <2>2
<1> HIDE DEF st
<1>7. r \in SendRec
  BY <1>1, <1>5, SendTyped, ZenonT(30) DEF SendRec, MadStatus
<1>8. /\ r.state = st /\ r.p_resp_mad = m /\ r.status = "success" /\ r.active = send[s].active
      /\ r.resp_expected = send[s].resp_expected /\ r.calls = send[s].calls
      /\ r.canceled = send[s].canceled
  BY <1>1, Types, SMTT(30) DEF SendRec
<1> HIDE DEF r
<1>9. /\ send' \in [Send -> SendRec] /\ send'[s] = r
      /\ \A t \in Send \ {s} : send'[t] = send[t]
  BY <1>1, <1>6, <1>7, Types, SetSend
<1>10. /\ rx' \in [Mad -> RxRec] /\ \A n \in Mad : rx'[n].send = rx[n].send
       /\ rx'[m].at = "held" /\ \A n \in Mad \ {m, old} : rx'[n] = rx[n]
       /\ old \in Mad => rx'[old].at = "pool"
  <2>1. CASE send[s].active
    BY <1>1, <1>2, <1>3, <2>1, Types, SMTT(30) DEF RxRec
  <2>2. CASE ~send[s].active
    BY <1>1, <1>2, <1>3, <2>2, Types, SMTT(30) DEF RxRec
  <2> QED
    BY <2>1, <2>2
<1>11. new \in ReportRec /\ new.by = "recv" /\ new.send = s /\ new \notin report
  BY <1>1, <1>4 DEF ReportBy, ReportRec
<1> HIDE DEF new
<1>12. /\ svc' \in SvcRec /\ svc'.armed = svc.armed /\ svc'.freed = svc.freed
       /\ svc'.ref_cnt = svc.ref_cnt - (IF send[s].active THEN 1 ELSE 0)
  BY <1>2, Types DEF SvcRec
<1>13. report' = IF send[s].active THEN report ELSE report \cup {new}
  BY <1>2
<1>14. MadTypeOK'
  BY <1>1, <1>9, <1>10, <1>11, <1>12, <1>13, Types, TypesKept
<1>15. Handed'
  <2>1. CASE send[s].active
    BY SMTT(30), <1>1, <1>4, <1>5, <1>8, <1>9, <1>13, <2>1, Types DEF MadInv, Handed, ReportRec
  <2>2. CASE ~send[s].active
    BY <1>1, <1>4, <1>5, <1>8, <1>9, <1>11, <1>13, <2>2, Types DEF MadInv, Handed, ReportRec
  <2> QED
    BY <2>1, <2>2
<1>16. ListedIsServed' /\ Closing'
  <2>1. \A t \in Send : /\ send'[t].state = "listed" /\ send'[t].active
                           <=> send[t].state = "listed" /\ send[t].active
                        /\ send'[t].state = "listed" => send[t].state = "listed"
                        /\ send'[t].active = send[t].active /\ send'[t].canceled = send[t].canceled
    BY <1>1, <1>5, <1>8, <1>9
  <2>2. ListedIsServed'
    BY <1>1, <1>12, <2>1 DEF MadInv, ListedIsServed, ListedSends, IdleSends
  <2>3. Closing'
    BY <1>1, <1>12, <2>1 DEF MadInv, Closing, ListedSends, IdleSends
  <2> QED
    BY <2>2, <2>3
<1>17. \A t \in Send : RespSound(t)'
  <2>1. ASSUME NEW t \in Send, t = s PROVE RespSound(t)'
    <3>1. /\ send'[t].state = st /\ send'[t].p_resp_mad = m /\ send'[t].status = "success"
          /\ send'[t].active = send[s].active
      BY <1>8, <1>9, <2>1
    <3>2. rx'[m].send = t /\ rx'[m].at = "held" /\ m # NoMad
      BY <1>3, <1>10, <2>1 DEF s
    <3> QED
      BY <1>5, <3>1, <3>2 DEF RespSound
  <2>2. ASSUME NEW t \in Send \ {s} PROVE RespSound(t)'
    <3>1. /\ send'[t] = send[t] /\ RespSound(t) /\ send[t].p_resp_mad \in Mad \cup {NoMad}
      BY <1>9, Types DEF MadInv, SendRec
    <3>2. send[t].p_resp_mad # NoMad => send[t].p_resp_mad \in Mad \ {m, old}
      BY <1>3, <3>1 DEF RespSound, s
    <3> QED
      BY <1>10, <3>1, <3>2 DEF RespSound
  <2> QED
    BY <2>1, <2>2
<1>18. \A n \in Mad : RxSound(n)'
  <2>1. s # NoMad
    BY <1>1, MadAssumption
  <2>2. RxSound(m)'
    BY <1>10, <2>1 DEF RxSound, s
  <2>3. ASSUME NEW n \in Mad \ {m} PROVE RxSound(n)'
    BY <1>3, <1>10, <2>1 DEF MadInv, RxSound
  <2> QED
    BY <2>2, <2>3
<1>19. FiniteReports' /\ Counts'
  <2>1. Unreported' = Unreported /\ Reports("send")' = Reports("send")
    BY <1>1, <1>5, <1>8, <1>9, <1>11, <1>13 DEF Unreported, Reports
  <2>2. m \in Routed /\ Routed' = Routed \ {m}
    BY <1>1, <1>3, <1>10 DEF Routed
  <2>3. Cardinality(Routed') = Cardinality(Routed) - 1
    BY ZenonT(40), <2>2, Finite, CardMinus
  <2>4. CASE send[s].active
    <3>1. Reports("recv")' = Reports("recv")
      BY SMTT(30), <1>13, <2>4 DEF Reports
    <3> QED
      BY <1>1, <1>12, <2>1, <2>3, <2>4, <3>1, Types, Finite DEF MadInv, FiniteReports, Counts
  <2>5. CASE ~send[s].active
    <3>1. new \notin Reports("recv") /\ Reports("recv")' = Reports("recv") \cup {new}
      BY <1>11, <1>13, <2>5 DEF Reports
    <3>2. /\ IsFiniteSet(Reports("recv")')
          /\ Cardinality(Reports("recv")') = Cardinality(Reports("recv")) + 1
      BY <3>1, Finite, CardPlus
    <3> QED
      BY <1>1, <1>12, <2>1, <2>3, <2>5, <3>2, Types, Finite DEF MadInv, FiniteReports, Counts
  <2> QED
    BY <2>4, <2>5
<1>20. ViewKept
  BY <1>1, <1>5, <1>8, <1>9, <1>10 DEF ViewKept
<1> QED
  BY <1>14, <1>15, <1>16, <1>17, <1>18, <1>19, <1>20 DEF MadInv

(* The steps of a receive.                                                 *)
LEMMA ReceiveKeeps ==
  ASSUME MadInv, NEW m \in Mad, NEW s \in Send, RecvDone(m, s) \/ MadProcess(m)
  PROVE  MadInv' /\ (MadProcess(m) => ViewKept)
<1>1. CASE RecvDone(m, s)
  <2> DEFINE a == IF reg_cnt = 0 THEN "pool" ELSE "routed"
  <2>1. /\ rx' = [rx EXCEPT ![m] = [at |-> a, send |-> s]] /\ rx[m].at = "net"
        /\ a \in {"routed", "pool"} /\ UNCHANGED <<send, posted, report, exits, reg_cnt, owner>>
    BY <1>1 DEF RecvDone
  <2>2. ~mad_bug /\ mad_bug' = (reg_cnt # 0 /\ svc.freed)
    BY <1>1 DEF RecvDone
  <2>3. svc.freed \in BOOLEAN
    BY Types DEF SvcRec
  <2>4. mad_bug' \in BOOLEAN /\ (mad_bug' => svc.freed)
    BY <2>2, <2>3, Zenon
  <2>5. /\ svc' \in SvcRec /\ svc'.armed = svc.armed /\ svc'.freed = svc.freed
        /\ svc'.ref_cnt = svc.ref_cnt + (IF a = "routed" THEN 1 ELSE 0)
    BY <1>1, Types DEF RecvDone, SvcRec
  <2>6. svc'.ref_cnt = svc.ref_cnt + (IF a = "routed" THEN 1 ELSE 0)
                                   - (IF rx[m].at = "routed" THEN 1 ELSE 0)
    BY <2>1, <2>5, Types DEF SvcRec
  <2> HIDE DEF a
  <2>7. MadInv'
    BY Zenon, <2>1, <2>2, <2>4, <2>5, <2>6, RoutingKeeps
  <2>8. ~MadProcess(m)
    BY <2>1 DEF MadProcess, RecvBusy, ProcessRecvResp
  <2> QED
    BY <2>7, <2>8
<1>2. CASE RecvBusy(m) \/ (ProcessRecvResp(m) /\ rx[m].send \notin ListedSends)
  <2>1. /\ rx[m].at = "routed" /\ rx' = [rx EXCEPT ![m].at = "pool"]
        /\ svc' = [svc EXCEPT !.ref_cnt = @ - 1]
        /\ UNCHANGED <<send, posted, report, exits, reg_cnt, owner, mad_bug>>
    BY Zenon, <1>2 DEF RecvBusy, ProcessRecvResp
  <2>2. rx[m].send \in Send
    BY <2>1, Types DEF MadInv, RxSound, RxRec
  <2>3. rx' = [rx EXCEPT ![m] = [at |-> "pool", send |-> rx[m].send]]
    <3>1. [rx[m] EXCEPT !.at = "pool"] = [at |-> "pool", send |-> rx[m].send]
      BY Types DEF RxRec
    <3>2. rx' = [rx EXCEPT ![m] = [rx[m] EXCEPT !.at = "pool"]]
      BY <2>1
    <3> QED
      BY <3>1, <3>2, Zenon
  <2>4. /\ svc' \in SvcRec /\ svc'.armed = svc.armed /\ svc'.freed = svc.freed
        /\ svc'.ref_cnt = svc.ref_cnt + 0 - 1
    BY <2>1, Types DEF SvcRec
  <2>5. mad_bug' \in BOOLEAN /\ (mad_bug' => svc.freed) /\ (mad_bug => mad_bug')
    BY <2>1, Types DEF MadInv, Closing
  <2>6. svc'.ref_cnt = svc.ref_cnt + (IF "pool" = "routed" THEN 1 ELSE 0)
                                   - (IF rx[m].at = "routed" THEN 1 ELSE 0)
    BY <2>1, <2>4
  <2>7. ViewKept
    BY <2>1, <2>2, <2>3, Types DEF ViewKept, RxRec
  <2>8. MadInv'
    BY ZenonT(40), <2>1, <2>2, <2>3, <2>4, <2>5, <2>6, RoutingKeeps
  <2> QED
    BY <2>7, <2>8
<1> QED
  BY <1>1, <1>2, ResponseKeeps DEF MadProcess

(* __check_send_queue: the sends that end go to the thread that looks at   *)
(* the list, those that are due are posted and counted again.              *)
LEMMA CheckKeeps ==
  ASSUME MadInv, NEW t \in {"timer", "owner"}, NEW a \in BOOLEAN, CheckSendQueue(t, a),
         \/ owner' = owner
         \/ owner = "check" /\ owner' = "report"
  PROVE  MadInv' /\ ViewKept
<1> DEFINE E == EndedSends
           R == RetriedSends
           new == {ReportBy(t, s) : s \in E}
           armed == a \/ IdleSends \ (E \cup R) # {}
           F(s) == CASE s \in E -> [send[s] EXCEPT !.state = "off", !.status =
                                  IF send[s].canceled THEN "canceled" ELSE "timeout"]
                     [] s \in R -> [send[s] EXCEPT !.active = TRUE, !.retry_cnt = @ - 1]
                     [] OTHER -> send[s]
<1>f. send' = [s \in Send |-> F(s)]
  BY Zenon DEF CheckSendQueue
<1>1. /\ report' = report \cup new /\ posted' = posted \cup R
      /\ reg_cnt' = reg_cnt + Cardinality(R)
      /\ svc' = [svc EXCEPT !.armed = armed, !.ref_cnt = @ + Cardinality(R)]
      /\ UNCHANGED <<rx, exits, mad_bug>>
  BY Zenon DEF CheckSendQueue, QueueSend
<1>2. /\ E \subseteq IdleSends /\ R \subseteq IdleSends /\ E \cap R = {}
      /\ \A s \in IdleSends : send[s].canceled => s \in E
      /\ \A s \in R : send[s].retry_cnt > 0
  BY DEF EndedSends, RetriedSends
<1>3. /\ IdleSends \subseteq Send
      /\ \A s \in Send : s \in IdleSends <=> send[s].state = "listed" /\ ~send[s].active
      /\ \A s \in IdleSends : send[s].p_resp_mad = NoMad /\ s \notin posted
  BY DEF IdleSends, ListedSends, MadInv, RespSound, ListedIsServed
<1> HIDE DEF E, R
<1>4. armed \in BOOLEAN /\ (armed <=> a \/ IdleSends \ (E \cup R) # {})
  BY Zenon
<1>5. ASSUME NEW s \in E
      PROVE  /\ send'[s] \in SendRec /\ send'[s].state = "off"
             /\ send'[s].status \in {"canceled", "timeout"} /\ send'[s].p_resp_mad = NoMad
             /\ send'[s].calls = send[s].calls /\ send'[s].canceled = send[s].canceled
             /\ send'[s].resp_expected = send[s].resp_expected
  <2> DEFINE st == IF send[s].canceled THEN "canceled" ELSE "timeout"
             r == [send[s] EXCEPT !.state = "off", !.status = st]
  <2>1. s \in Send /\ send'[s] = r
    BY Zenon, <1>f, <1>2, <1>3
  <2>2. st \in {"canceled", "timeout"} /\ st \in MadStatus
    BY DEF MadStatus
  <2> HIDE DEF st
  <2>3. r \in SendRec
    <3>1. st \in MadStatus
      BY <2>2
    <3>2. send[s] \in SendRec
      BY <2>1, Types
    <3> QED
      BY <3>1, <3>2, ZenonT(30) DEF SendRec
  <2>4. /\ r.state = "off" /\ r.status = st /\ r.p_resp_mad = send[s].p_resp_mad
        /\ r.resp_expected = send[s].resp_expected
        /\ r.calls = send[s].calls /\ r.canceled = send[s].canceled
    BY <2>1, Types, SMTT(30) DEF SendRec
  <2> HIDE DEF r
  <2> QED
    BY <1>2, <1>3, <2>1, <2>2, <2>3, <2>4
<1>6. ASSUME NEW s \in R
      PROVE  /\ send'[s] \in SendRec /\ send'[s].state = "listed" /\ send'[s].active = TRUE
             /\ send'[s].p_resp_mad = NoMad
             /\ send'[s].calls = send[s].calls /\ send'[s].canceled = send[s].canceled
             /\ send'[s].resp_expected = send[s].resp_expected
  <2> DEFINE n == send[s].retry_cnt - 1
             r == [send[s] EXCEPT !.active = TRUE, !.retry_cnt = n]
  <2>1. s \in Send /\ s \notin E /\ send[s].state = "listed"
    BY <1>2, <1>3
  <2>2. send'[s] = [send[s] EXCEPT !.active = TRUE, !.retry_cnt = @ - 1]
    BY ZenonT(40), <1>f, <2>1
  <2>3. n \in 0..MaxRetry
    BY <1>2, <2>1, Types, MadAssumption DEF SendRec
  <2>4. send'[s] = r
    BY <2>1, <2>2, Types DEF SendRec
  <2> HIDE DEF n
  <2>5. r \in SendRec
    BY <2>1, <2>3, SendTyped, ZenonT(30) DEF SendRec
  <2>6. /\ r.state = send[s].state /\ r.active = TRUE /\ r.p_resp_mad = send[s].p_resp_mad
        /\ r.resp_expected = send[s].resp_expected
        /\ r.calls = send[s].calls /\ r.canceled = send[s].canceled
    BY <2>1, Types, SMTT(30) DEF SendRec
  <2> HIDE DEF r
  <2> QED
    BY <1>2, <1>3, <2>1, <2>4, <2>5, <2>6
<1>7. \A s \in Send : s \notin E \cup R => send'[s] = send[s]
  BY Zenon, <1>f
<1>e. \A s \in E : /\ s \in Send /\ send'[s] \in SendRec /\ send'[s].state = "off"
                   /\ send'[s].status \in {"canceled", "timeout"} /\ send'[s].p_resp_mad = NoMad
                   /\ send'[s].calls = send[s].calls /\ send'[s].canceled = send[s].canceled
                   /\ send'[s].resp_expected = send[s].resp_expected
  BY <1>2, <1>3, <1>5
<1>r. \A s \in R : /\ s \in Send /\ send'[s] \in SendRec /\ send'[s].state = "listed"
                   /\ send'[s].active = TRUE /\ send'[s].p_resp_mad = NoMad
                   /\ send'[s].calls = send[s].calls /\ send'[s].canceled = send[s].canceled
                   /\ send'[s].resp_expected = send[s].resp_expected
  BY Zenon, <1>2, <1>3, <1>6
<1>8. send' \in [Send -> SendRec]
  <2>1. \A s \in Send : send'[s] \in SendRec
    BY <1>e, <1>r, <1>7, Types
  <2>2. \A s \in Send : send'[s] = F(s)
    BY <1>f, Zenon
  <2> HIDE DEF F
  <2> QED
    BY <1>f, <2>1, <2>2
<1> HIDE DEF F
<1>9. /\ \A q \in new : q \in ReportRec /\ q.by = t /\ q.send \in E /\ q = ReportBy(t, q.send)
      /\ \A q \in report : q.send \notin E
  <2>1. \A s \in E : /\ ReportBy(t, s) \in ReportRec /\ ReportBy(t, s).by = t
                     /\ ReportBy(t, s).send = s
    BY <1>2, <1>3 DEF ReportBy, ReportRec
  <2>2. \A q \in report : q.send \notin E
    BY <1>2, <1>3 DEF MadInv, Handed
  <2> QED
    BY <2>1, <2>2
<1> HIDE DEF new, armed
<1>10. Cardinality(posted \cup R) = Cardinality(posted) + Cardinality(R) /\ Cardinality(R) \in Nat
  <2>1. IsFiniteSet(R)
    BY <1>2, <1>3, MadAssumption, FS_Subset
  <2>2. posted \cap R = {}
    BY <1>2, <1>3
  <2>3. Cardinality(posted \cup R) = Cardinality(posted) + Cardinality(R) - Cardinality({})
    BY <2>1, <2>2, Finite, FS_Union
  <2> QED
    BY <2>1, <2>3, Finite, FS_EmptySet, FS_CardinalityType
<1>11. /\ svc' \in SvcRec /\ svc'.armed = armed /\ svc'.freed = svc.freed
       /\ svc'.ref_cnt = svc.ref_cnt + Cardinality(R)
  <2>1. armed \in BOOLEAN
    BY <1>4
  <2>2. svc.ref_cnt + Cardinality(R) \in Int
    BY <1>10, Types DEF SvcRec
  <2> DEFINE c == svc.ref_cnt + Cardinality(R)
  <2>3. svc' = [svc EXCEPT !.armed = armed, !.ref_cnt = c]
    BY <1>1, Types DEF SvcRec
  <2> HIDE DEF c
  <2>4. c \in Int
    BY <2>2 DEF c
  <2>5. svc' \in SvcRec
    BY <2>1, <2>3, <2>4, Types, ZenonT(30) DEF SvcRec
  <2>6. svc'.armed = armed /\ svc'.freed = svc.freed /\ svc'.ref_cnt = c
    BY <2>3, Types DEF SvcRec
  <2> QED
    BY <2>5, <2>6 DEF c
<1>12. MadTypeOK'
  <2>1. posted' \subseteq Send /\ report' \subseteq ReportRec
    BY <1>1, <1>2, <1>3, <1>9, Types
  <2>2. reg_cnt' \in Int /\ owner' \in OwnerPc /\ mad_bug' \in BOOLEAN
        /\ rx' \in [Mad -> RxRec] /\ exits' \in [send : Nat, dec : Nat]
    BY <1>1, <1>10, Types DEF OwnerPc
  <2> QED
    BY <1>8, <1>11, <2>1, <2>2, TypesKept
<1>13. Handed'
  <2>1. \A q \in report' : send'[q.send].state = "off"
    BY <1>1, <1>2, <1>3, <1>e, <1>r, <1>7, <1>9, Types DEF MadInv, Handed, ReportRec
  <2>2. \A q1, q2 \in report' : q1.send = q2.send => q1 = q2
    BY <1>1, <1>9 DEF MadInv, Handed
  <2>3. \A s \in Send : send'[s].calls = IF send'[s].state = "put" THEN 1 ELSE 0
    BY SMTT(30), <1>2, <1>3, <1>e, <1>r, <1>7 DEF MadInv, Handed
  <2> QED
    BY <2>1, <2>2, <2>3 DEF Handed
<1>14. /\ IdleSends' = IdleSends \ (E \cup R) /\ ListedSends' = ListedSends \ E
       /\ \A s \in ListedSends' : send'[s].canceled = send[s].canceled
  BY <1>2, <1>3, <1>e, <1>r, <1>7 DEF IdleSends, ListedSends
<1>15. ListedIsServed'
  <2>1. posted' = {s \in ListedSends' : send'[s].active}
    BY <1>1, <1>2, <1>3, <1>e, <1>r, <1>7 DEF MadInv, ListedIsServed, ListedSends
  <2> QED
    BY <1>4, <1>11, <1>14, <2>1 DEF ListedIsServed
<1>16. Closing'
  <2>1. owner \notin {"none", "dereg", "cancel"} => IdleSends' = {}
    BY <1>2, <1>14 DEF MadInv, Closing, IdleSends
  <2> QED
    BY <1>1, <1>11, <1>14, <2>1 DEF MadInv, Closing
<1>17. \A s \in Send : RespSound(s)'
  <2>1. ASSUME NEW s \in E PROVE RespSound(s)'
    BY <1>e DEF RespSound
  <2>2. ASSUME NEW s \in R PROVE RespSound(s)'
    BY <1>r DEF RespSound
  <2>3. ASSUME NEW s \in Send \ (E \cup R) PROVE RespSound(s)'
    BY <1>1, <1>7 DEF MadInv, RespSound
  <2> QED
    BY <2>1, <2>2, <2>3
<1>18. \A m \in Mad : RxSound(m)'
  BY <1>1 DEF MadInv, RxSound
<1>19. FiniteReports' /\ Counts'
  <2>1. /\ Unreported' = Unreported /\ Routed' = Routed
        /\ Reports("send")' = Reports("send") /\ Reports("recv")' = Reports("recv")
    <3>1. Unreported' = Unreported
      BY <1>2, <1>3, <1>e, <1>r, <1>7 DEF Unreported
    <3>2. Routed' = Routed
      BY <1>1 DEF Routed
    <3>3. Reports("send")' = Reports("send") /\ Reports("recv")' = Reports("recv")
      BY <1>1, <1>9 DEF Reports
    <3> QED
      BY <3>1, <3>2, <3>3
  <2> QED
    BY <1>1, <1>10, <1>11, <2>1, Types, Finite DEF MadInv, FiniteReports, Counts
<1>20. ViewKept
  <2>1. \A s \in E \cup R : send[s].state = "listed"
    BY <1>2, <1>3
  <2> QED
    BY <1>1, <1>7, <1>e, <1>r, <2>1 DEF ViewKept
<1> QED
  BY <1>12, <1>13, <1>15, <1>16, <1>17, <1>18, <1>19, <1>20 DEF MadInv

-----------------------------------------------------------------------------
(* The invariant *)

(* The service starts in the invariant.                                    *)
LEMMA MadInitial == MadInit => MadInv
<1> SUFFICES ASSUME MadInit PROVE MadInv
  OBVIOUS
<1> DEFINE r == [state |-> "new", resp_expected |-> FALSE, active |-> FALSE, canceled |-> FALSE,
                 due |-> FALSE, delayed |-> FALSE, retry_cnt |-> MaxRetry,
                 p_resp_mad |-> NoMad, status |-> "none", calls |-> 0]
<1>1. send = [s \in Send |-> r]
  BY DEF MadInit
<1>2. r \in SendRec
  <2>1. MaxRetry \in 0..MaxRetry /\ 0 \in 0..1 /\ "none" \in MadStatus
    BY MadAssumption DEF MadStatus
  <2> QED
    BY <2>1 DEF SendRec
<1>3. /\ r.state = "new" /\ r.p_resp_mad = NoMad /\ r.calls = 0 /\ r.resp_expected = FALSE
  OBVIOUS
<1> HIDE DEF r
<1>4. send \in [Send -> SendRec] /\ \A s \in Send : send[s] = r
  BY <1>1, <1>2
<1>5. /\ rx \in [Mad -> RxRec] /\ \A m \in Mad : rx[m].at = "net" /\ rx[m].send = NoMad
  BY DEF MadInit, RxRec
<1>6. svc \in SvcRec /\ svc.ref_cnt = 1 /\ svc.freed = FALSE
  BY DEF MadInit, SvcRec
<1>7. /\ posted = {} /\ report = {} /\ exits \in [send : Nat, dec : Nat] /\ exits.send = 0
      /\ exits.dec = 0 /\ reg_cnt = 1 /\ owner = "none" /\ mad_bug = FALSE
  BY DEF MadInit
<1>8. MadTypeOK
  BY Zenon, <1>4, <1>5, <1>6, <1>7 DEF MadTypeOK, SendRec, RxRec, SvcRec, OwnerPc
<1>9. Handed /\ ListedIsServed /\ Closing
  BY <1>3, <1>4, <1>6, <1>7 DEF Handed, ListedIsServed, ListedSends, IdleSends, Closing
<1>10. (\A s \in Send : RespSound(s)) /\ (\A m \in Mad : RxSound(m))
  BY <1>3, <1>4, <1>5 DEF RespSound, RxSound
<1>11. FiniteReports /\ Counts
  <2>1. /\ Unreported = {} /\ Routed = {} /\ Reports("send") = {} /\ Reports("recv") = {}
    BY <1>3, <1>4, <1>5, <1>7 DEF Unreported, Routed, Reports
  <2> QED
    BY <1>6, <1>7, <2>1, FS_EmptySet DEF FiniteReports, Counts
<1> QED
  BY <1>8, <1>9, <1>10, <1>11 DEF MadInv

(* A pass over the send queue, from the timer or from cancelled sends.     *)
LEMMA CheckStep ==
  ASSUME MadInv, SendTimer \/ CheckCanceled
  PROVE  MadInv' /\ ViewKept
<1>1. CASE SendTimer
  <2>1. CheckSendQueue("timer", FALSE) /\ owner' = owner
    BY Zenon, <1>1 DEF SendTimer
  <2> QED
    BY Zenon, <2>1, CheckKeeps
<1>2. CASE CheckCanceled
  <2>1. CheckSendQueue("owner", svc.armed) /\ owner = "check" /\ owner' = "report"
    BY <1>2 DEF CheckCanceled, OwnerAt
  <2>2. svc.armed \in BOOLEAN
    BY Types DEF SvcRec
  <2> QED
    BY <2>1, <2>2, CheckKeeps
<1> QED
  BY <1>1, <1>2

(* Every step keeps the invariant.                                         *)
LEMMA MadStep ==
  ASSUME MadInv, [MadNext]_madvars
  PROVE  MadInv'
<1>1. CASE \E s \in Send : SendMad(s) \/ CancelMad(s) \/ DelayMad(s) \/ Elapse(s) \/ MadComplete(s)
  BY <1>1, SendMadKeeps, MinorKeeps, SendDoneKeeps DEF MadComplete
<1>2. CASE \E m \in Mad : MadProcess(m) \/ \E s \in Send : RecvDone(m, s)
  <2>1. PICK m \in Mad : MadProcess(m) \/ \E s \in Send : RecvDone(m, s)
    BY <1>2
  <2>2. CASE MadProcess(m)
    <3>1. rx[m].send \in Send
      BY Zenon, <2>2, Types DEF MadProcess, RecvBusy, ProcessRecvResp, MadInv, RxSound, RxRec
    <3> QED
      BY <2>2, <3>1, ReceiveKeeps
  <2> QED
    BY <2>1, <2>2, ReceiveKeeps
<1>3. CASE \E r \in report : MadNotify(r)
  BY <1>3, MadNotifyKeeps
<1>4. CASE CancelAll
  BY <1>4, MinorKeeps
<1>5. CASE SendTimer \/ CheckCanceled
  BY <1>5, CheckStep
<1>6. CASE \/ SendDeref \/ RegDec \/ MadDestroy \/ MadDispDereg \/ TimerStop \/ TimerFlush
           \/ OwnerDeref \/ FreeMadSvc
  BY <1>6, CountingKeeps
<1>7. CASE UNCHANGED madvars
  <2>1. MadTypeOK' /\ Handed' /\ (\A s \in Send : RespSound(s)') /\ (\A m \in Mad : RxSound(m)')
    BY <1>7 DEF madvars, MadInv, MadTypeOK, Handed, RespSound, RxSound
  <2>2. ListedIsServed' /\ Closing'
    BY SMTT(30), <1>7 DEF madvars, MadInv, ListedIsServed, ListedSends, IdleSends, Closing
  <2>3. FiniteReports' /\ Counts'
    BY <1>7 DEF madvars, MadInv, FiniteReports, Reports, Counts, Unreported, Routed
  <2> QED
    BY SMTT(30), <2>1, <2>2, <2>3 DEF MadInv
<1> QED
  BY <1>1, <1>2, <1>3, <1>4, <1>5, <1>6, <1>7 DEF MadNext, OwnerStep

(* The invariant holds in every reachable state.                           *)
LEMMA MadInvariant == MadSpec => []MadInv
BY MadInitial, MadStep, PTL DEF MadSpec

(* The references of the service and of its registration are exactly the   *)
(* sends, work requests, completions and receives that are out, whatever   *)
(* their number and order.                                                 *)
THEOREM MadReferencesExact == MadSpec => []MadCountsExact
<1>1. MadInv => MadCountsExact
  BY Zenon DEF MadInv, Counts, MadCountsExact, Unreported, Reports, Routed
<1> QED
  BY <1>1, MadInvariant, PTL

(* A send on the list has its work request in the queue pair, or the timer *)
(* or the destroyer will look at it.                                       *)
THEOREM NoSendForgotten == MadSpec => []ListedIsServed
<1>1. MadInv => ListedIsServed
  BY DEF MadInv
<1> QED
  BY <1>1, MadInvariant, PTL

-----------------------------------------------------------------------------
(* AlMadSvc implements MadContract *)

(* Outcome, of the record of a send.                                       *)
OutcomeOf(r) ==
    [status |-> CASE r.state = "new" -> "new"
                  [] r.state # "new" /\ r.calls = 0 -> "out"
                  [] r.calls = 1 -> r.status
                  [] OTHER -> "twice",
     asks |-> r.resp_expected,
     resp |-> r.calls > 0 /\ r.p_resp_mad # NoMad]

(* What the client knows of a send, by the state of the send.              *)
LEMMA OutcomeCases ==
  ASSUME NEW r \in SendRec, r.calls = IF r.state = "put" THEN 1 ELSE 0
  PROVE  /\ r.state = "new" =>
              OutcomeOf(r) = [status |-> "new", asks |-> r.resp_expected, resp |-> FALSE]
         /\ r.state \in {"listed", "off"} =>
              OutcomeOf(r) = [status |-> "out", asks |-> r.resp_expected, resp |-> FALSE]
         /\ r.state = "put" =>
              OutcomeOf(r) = [status |-> r.status, asks |-> r.resp_expected,
                              resp |-> r.p_resp_mad # NoMad]
<1> DEFINE st == CASE r.state = "new" -> "new"
                   [] r.state # "new" /\ r.calls = 0 -> "out"
                   [] r.calls = 1 -> r.status
                   [] OTHER -> "twice"
           rs == r.calls > 0 /\ r.p_resp_mad # NoMad
<1>1. OutcomeOf(r) = [status |-> st, asks |-> r.resp_expected, resp |-> rs]
  BY DEF OutcomeOf
<1>2. /\ r.state = "new" => st = "new"
      /\ r.state \in {"listed", "off"} => st = "out"
      /\ r.state = "put" => st = r.status
  OBVIOUS
<1>3. r.state # "put" => rs = FALSE
  OBVIOUS
<1>4. r.state = "put" => rs = (r.p_resp_mad # NoMad)
  OBVIOUS
<1> HIDE DEF st, rs
<1>5. r.state \in {"new", "listed", "off"} => r.state # "put"
  OBVIOUS
<1>6. r.state = "new" =>
        OutcomeOf(r) = [status |-> "new", asks |-> r.resp_expected, resp |-> FALSE]
  BY <1>1, <1>2, <1>3, <1>5, Zenon
<1>7. r.state \in {"listed", "off"} =>
        OutcomeOf(r) = [status |-> "out", asks |-> r.resp_expected, resp |-> FALSE]
  BY <1>1, <1>2, <1>3, <1>5, Zenon
<1>8. r.state = "put" =>
        OutcomeOf(r) = [status |-> r.status, asks |-> r.resp_expected, resp |-> r.p_resp_mad # NoMad]
  BY <1>1, <1>2, <1>4, Zenon
<1> QED
  BY <1>6, <1>7, <1>8

(* The state of the contract, and the outcome of every send before and     *)
(* after a step.                                                           *)
LEMMA Mapped ==
  ASSUME MadInv, MadInv'
  PROVE  \A s \in Send :
           /\ Outcome(s) = OutcomeOf(send[s]) /\ Outcome(s)' = OutcomeOf(send'[s])
           /\ send[s] \in SendRec /\ send[s].calls = IF send[s].state = "put" THEN 1 ELSE 0
           /\ send'[s] \in SendRec /\ send'[s].calls = IF send'[s].state = "put" THEN 1 ELSE 0
<1>1. \A s \in Send : Outcome(s) = OutcomeOf(send[s]) /\ Outcome(s)' = OutcomeOf(send'[s])
  BY DEF Outcome, OutcomeOf
<1>2. send \in [Send -> SendRec] /\ send' \in [Send -> SendRec]
  BY SMTT(30) DEF MadInv, MadTypeOK, SendRec
<1>3. \A s \in Send : /\ send[s].calls = IF send[s].state = "put" THEN 1 ELSE 0
                      /\ send'[s].calls = IF send'[s].state = "put" THEN 1 ELSE 0
  BY DEF MadInv, Handed
<1> QED
  BY <1>1, <1>2, <1>3

(* What the clients do not see is no step of the contract.                 *)
LEMMA ViewStutters ==
  ASSUME MadInv, MadInv', ViewKept
  PROVE  /\ UNCHANGED [s \in Send |-> Outcome(s)]
         /\ UNCHANGED {s \in Send : \E m \in Mad : rx[m].send = s}
<1>1. ASSUME NEW s \in Send PROVE Outcome(s)' = Outcome(s)
  <2>1. CASE send[s].state \in {"listed", "off"} /\ send'[s].state \in {"listed", "off"}
    <3>1. send'[s].resp_expected = send[s].resp_expected
      BY DEF ViewKept
    <3>2. /\ OutcomeOf(send[s]) = [status |-> "out", asks |-> send[s].resp_expected, resp |-> FALSE]
          /\ OutcomeOf(send'[s]) = [status |-> "out", asks |-> send'[s].resp_expected, resp |-> FALSE]
      BY <2>1, Mapped, OutcomeCases, Zenon
    <3> QED
      BY <3>1, <3>2, Mapped, Zenon
  <2>2. CASE /\ send'[s].state = send[s].state /\ send'[s].status = send[s].status
             /\ send'[s].p_resp_mad = send[s].p_resp_mad
    <3>1. /\ send[s].state \in {"new", "listed", "off", "put"}
          /\ send'[s].resp_expected = send[s].resp_expected
      BY Mapped DEF ViewKept, SendRec
    <3> QED
      BY ZenonT(40), <2>2, <3>1, Mapped, OutcomeCases
  <2> QED
    BY <2>1, <2>2 DEF ViewKept
<1>2. UNCHANGED {s \in Send : \E m \in Mad : rx[m].send = s}
  BY DEF ViewKept
<1> QED
  BY <1>1, <1>2, Zenon

(* A step that changes the outcome of one send.                            *)
LEMMA OneOutcome ==
  ASSUME MadInv, MadInv', NEW s \in Send, \A t \in Send \ {s} : send'[t] = send[t]
  PROVE  [t \in Send |-> Outcome(t)]' = [[t \in Send |-> Outcome(t)] EXCEPT ![s] = OutcomeOf(send'[s])]
<1>1. \A t \in Send : Outcome(t)' = IF t = s THEN OutcomeOf(send'[s]) ELSE Outcome(t)
  BY Mapped
<1>2. [t \in Send |-> Outcome(t)]' = [t \in Send |-> Outcome(t)']
  OBVIOUS
<1> QED
  BY Zenon, <1>1, <1>2

(* A queued send is an Issue of the contract,                              *)
LEMMA SendMadIssues ==
  ASSUME MadInv, MadInv', NEW s \in Send, SendMad(s),
         send'[s].state = "listed", \A t \in Send \ {s} : send'[t] = send[t]
  PROVE  MadContractOf!Issue(s)
<1> DEFINE O == [t \in Send |-> Outcome(t)]
           b == send'[s].resp_expected
           old == [status |-> "new", asks |-> send[s].resp_expected, resp |-> FALSE]
           new == [status |-> "out", asks |-> b, resp |-> FALSE]
<1>1. send[s].state = "new" /\ owner = "none" /\ owner' = "none" /\ rx' = rx /\ svc'.freed = svc.freed
  BY Types DEF SendMad, SvcRec
<1>2. ~svc.freed /\ ~svc'.freed
  BY <1>1 DEF MadInv, Closing
<1>3. O[s] = old
  BY <1>1, Mapped, OutcomeCases, Zenon
<1>4. OutcomeOf(send'[s]) = new
  BY Mapped, OutcomeCases, Zenon
<1>5. b \in BOOLEAN
  BY Mapped DEF SendRec
<1>6. O' = [O EXCEPT ![s] = new]
  BY Zenon, <1>4, OneOutcome
<1>7. /\ old = [status |-> "new", asks |-> send[s].resp_expected, resp |-> FALSE]
      /\ new = [status |-> "out", asks |-> b, resp |-> FALSE]
  OBVIOUS
<1> HIDE DEF old, new, b
<1>10. [[old EXCEPT !.status = "out"] EXCEPT !.asks = b] = new
  <2> DEFINE x == send[s].resp_expected
             z == FALSE
             mid == [status |-> "out", asks |-> x, resp |-> z]
  <2>1. old = [status |-> "new", asks |-> x, resp |-> z] /\ new = [status |-> "out", asks |-> b, resp |-> z]
    BY <1>7
  <2> HIDE DEF x, z
  <2>2. [old EXCEPT !.status = "out"] = mid
    BY <2>1, SMTT(30)
  <2>3. [mid EXCEPT !.asks = b] = new
    BY <2>1, SMTT(30)
  <2> HIDE DEF mid
  <2> QED
    BY <2>2, <2>3, Zenon
<1>8. O' = [O EXCEPT ![s].status = "out", ![s].asks = b]
  BY Zenon, <1>3, <1>6, <1>10
<1>9. O[s].status = "new"
  BY SMTT(30), <1>3 DEF old
<1> QED
  BY Zenon, <1>1, <1>2, <1>5, <1>8, <1>9 DEF MadContractOf!Issue, MadContractOf!New

(* a matched response an Answer,                                           *)
LEMMA RecvDoneAnswers ==
  ASSUME MadInv, MadInv', NEW m \in Mad, NEW s \in Send, RecvDone(m, s)
  PROVE  MadContractOf!Answer(s)
<1> DEFINE A == {t \in Send : \E n \in Mad : rx[n].send = t}
<1>1. /\ rx[m].send = NoMad /\ send[s].state # "new" /\ send' = send /\ owner' = owner
      /\ svc'.freed = svc.freed
  BY Types DEF RecvDone, MadInv, RxSound, SvcRec
<1>2. rx'[m].send = s /\ \A n \in Mad \ {m} : rx'[n] = rx[n]
  BY Types DEF RecvDone
<1>3. A' = A \cup {s}
  BY <1>1, <1>2, MadAssumption
<1>4. UNCHANGED [t \in Send |-> Outcome(t)]
  BY <1>1 DEF Outcome
<1>5. Outcome(s).status # "new"
  <2>1. send[s].state \in {"listed", "off", "put"} /\ (send[s].state = "put" => send[s].status \in MadStatus)
    BY <1>1, Mapped DEF SendRec
  <2>2. CASE send[s].state \in {"listed", "off"}
    BY <2>2, Mapped, OutcomeCases
  <2>3. CASE send[s].state = "put"
    BY <2>1, <2>3, Mapped, OutcomeCases DEF MadStatus
  <2> QED
    BY <2>1, <2>2, <2>3
<1> QED
  BY <1>1, <1>3, <1>4, <1>5 DEF MadContractOf!Answer, MadContractOf!New

(* and the completion callback a Complete.                                 *)
LEMMA MadNotifyCompletes ==
  ASSUME MadInv, MadInv', NEW q \in report, MadNotify(q), NEW s \in Send, s = q.send,
         send'[s].state = "put", send'[s].resp_expected = send[s].resp_expected,
         \A t \in Send \ {s} : send'[t] = send[t], \A m \in Mad : rx'[m].send = rx[m].send
  PROVE  MadContractOf!Complete(s)
<1> DEFINE O == [t \in Send |-> Outcome(t)]
           A == {t \in Send : \E m \in Mad : rx[m].send = t}
           p == send'[s].p_resp_mad
           r == [status |-> send'[s].status, asks |-> send[s].resp_expected, resp |-> p # NoMad]
<1>1. send[s].state = "off" /\ owner' = owner /\ svc'.freed = svc.freed
  BY Types DEF MadInv, Handed, MadNotify, SvcRec
<1>2. O[s] = [status |-> "out", asks |-> send[s].resp_expected, resp |-> FALSE]
  BY <1>1, Mapped, OutcomeCases, Zenon
<1>3. OutcomeOf(send'[s]) = r
  BY Mapped, OutcomeCases, Zenon
<1>4. O' = [O EXCEPT ![s] = r]
  BY ZenonT(40), <1>3, OneOutcome
<1>5. /\ p # NoMad => p \in Mad /\ rx'[p].send = s
      /\ send'[s].status \in MadStatus \ {"none"}
      /\ send'[s].status = "success" /\ send'[s].resp_expected => p # NoMad
      /\ send'[s].status \in {"timeout", "canceled"} => p = NoMad
  BY ZenonT(40), Mapped DEF MadInv, RespSound, SendRec
<1>6. A' = A /\ (p # NoMad => s \in A)
  BY ZenonT(40), <1>5
<1>7. send[s].resp_expected \in BOOLEAN /\ (p # NoMad) \in BOOLEAN
  BY Mapped, Zenon DEF SendRec
<1> HIDE DEF p
<1>8. r.status = send'[s].status /\ r.asks = send[s].resp_expected /\ r.resp = (p # NoMad)
  OBVIOUS
<1>9. r \in MadContractOf!Outcomes
  <2>1. send'[s].status \in {"new", "out", "success", "error", "timeout", "canceled"}
    BY <1>5 DEF MadStatus
  <2> QED
    BY <1>7, <2>1, Zenon DEF MadContractOf!Outcomes
<1> HIDE DEF r
<1>10. MadContractOf!Fits(s, r)
  BY <1>5, <1>6, <1>8, Zenon DEF MadContractOf!Fits
<1>11. r.status \notin {"new", "out"}
  BY <1>5, <1>8 DEF MadStatus
<1>12. O[s].status = "out" /\ O[s].asks = send[s].resp_expected
  BY <1>2
<1> QED
  BY <1>1, <1>4, <1>6, <1>8, <1>9, <1>10, <1>11, <1>12, ZenonT(40)
  DEF MadContractOf!Complete, MadContractOf!Out

(* The service keeps every promise MadContract makes of single steps: a    *)
(* MAD comes back once, after it was sent, with a status and a response    *)
(* that fit what the network delivered, and the service is gone only when  *)
(* all are back.  That they come back is liveness.                         *)
THEOREM MadImplementsContract == MadSpec => MadContractOf!ContractSafety
<1>1. MadInit => MadContractOf!ContractInit
  <2> SUFFICES ASSUME MadInit PROVE MadContractOf!ContractInit
    OBVIOUS
  <2>1. MadInv
    BY MadInitial
  <2>2. ASSUME NEW s \in Send
        PROVE  Outcome(s) = [status |-> "new", asks |-> FALSE, resp |-> FALSE]
    <3>1. /\ send[s].state = "new" /\ send[s].resp_expected = FALSE /\ send[s].calls = 0
      BY DEF MadInit
    <3>2. send[s] \in SendRec /\ Outcome(s) = OutcomeOf(send[s])
      BY <2>1, Types DEF Outcome, OutcomeOf
    <3>3. OutcomeOf(send[s]) = [status |-> "new", asks |-> send[s].resp_expected, resp |-> FALSE]
      BY ZenonT(40), <3>1, <3>2, OutcomeCases
    <3> QED
      BY <3>1, <3>2, <3>3, Zenon
  <2>3. {s \in Send : \E m \in Mad : rx[m].send = s} = {}
    BY MadAssumption DEF MadInit
  <2>4. ~svc.freed /\ owner = "none"
    BY DEF MadInit
  <2>5. [s \in Send |-> Outcome(s)]
          = [s \in Send |-> [status |-> "new", asks |-> FALSE, resp |-> FALSE]]
    BY <2>2, Zenon
  <2> QED
    BY <2>3, <2>4, <2>5 DEF MadContractOf!ContractInit
<1>2. ASSUME MadInv, [MadNext]_madvars
      PROVE  [MadContractOf!ContractNext]_(MadContractOf!cvars)
  <2> USE <1>2
  <2>1. MadInv'
    BY MadStep
  <2>2. ASSUME ViewKept, svc'.freed = svc.freed, owner' = "none" <=> owner = "none"
        PROVE  UNCHANGED MadContractOf!cvars
    BY <2>1, <2>2, ViewStutters DEF MadContractOf!cvars
  <2>3. CASE \E s \in Send : SendMad(s)
    BY SMTT(30), <2>1, <2>3, SendMadKeeps, SendMadIssues DEF MadContractOf!ContractNext
  <2>4. CASE \E s \in Send : CancelMad(s) \/ DelayMad(s) \/ Elapse(s)
    <3>1. svc'.freed = svc.freed /\ owner' = owner
      BY <2>4, Types DEF CancelMad, DelayMad, Elapse, SvcRec
    <3> QED
      BY <2>2, <2>4, <3>1, MinorKeeps
  <2>5. CASE \E s \in Send : MadComplete(s)
    <3>1. svc'.freed = svc.freed /\ owner' = owner
      BY <2>5, Types DEF MadComplete, SendDone, SvcRec
    <3> QED
      BY <2>2, <2>5, <3>1, SendDoneKeeps DEF MadComplete
  <2>6. CASE \E m \in Mad : MadProcess(m)
    <3>1. PICK m \in Mad : MadProcess(m)
      BY <2>6
    <3>2. rx[m].send \in Send
      BY ZenonT(40), <3>1, Types DEF MadProcess, RecvBusy, ProcessRecvResp, MadInv, RxSound, RxRec
    <3>3. svc'.freed = svc.freed /\ owner' = owner
      BY <3>1, Types DEF MadProcess, RecvBusy, ProcessRecvResp, SvcRec
    <3> QED
      BY <2>2, <3>1, <3>2, <3>3, ReceiveKeeps
  <2>7. CASE \E m \in Mad : \E s \in Send : RecvDone(m, s)
    BY SMTT(30), <2>1, <2>7, RecvDoneAnswers DEF MadContractOf!ContractNext
  <2>8. CASE \E r \in report : MadNotify(r)
    BY <2>1, <2>8, MadNotifyKeeps, MadNotifyCompletes DEF MadContractOf!ContractNext
  <2>9. CASE CancelAll
    <3>1. svc'.freed = svc.freed /\ owner' # "none" /\ owner # "none"
      BY <2>9 DEF CancelAll, OwnerAt
    <3> QED
      BY <2>2, <2>9, <3>1, MinorKeeps
  <2>10. CASE SendTimer \/ CheckCanceled
    <3>1. svc'.freed = svc.freed /\ (owner' = "none" <=> owner = "none")
      BY Zenon, <2>10, Types DEF SendTimer, CheckCanceled, CheckSendQueue, OwnerAt, SvcRec
    <3> QED
      BY <2>2, <2>10, <3>1, CheckStep
  <2>11. ASSUME UNCHANGED <<send, rx>> PROVE ViewKept
    BY <2>11 DEF ViewKept
  <2>12. CASE SendDeref \/ RegDec \/ MadDispDereg \/ TimerStop \/ TimerFlush \/ OwnerDeref
    <3>1. UNCHANGED <<send, rx>> /\ svc'.freed = svc.freed /\ (owner' = "none" <=> owner = "none")
      BY <2>12, Types
      DEF SendDeref, RegDec, MadDispDereg, TimerStop, TimerFlush, OwnerDeref, OwnerAt, SvcRec
    <3> QED
      BY <2>2, <2>11, <3>1
  <2>13. CASE MadDestroy
    <3>1. /\ UNCHANGED <<send, rx, svc>> /\ owner = "none" /\ owner' = "dereg" /\ ~svc.freed
      BY <2>13 DEF MadDestroy, OwnerAt, MadInv, Closing
    <3>2. /\ UNCHANGED [s \in Send |-> Outcome(s)]
          /\ UNCHANGED {s \in Send : \E m \in Mad : rx[m].send = s}
      BY <2>1, <2>11, <3>1, ViewStutters
    <3>3. MadContractOf!Dereg
      BY <3>1, <3>2 DEF MadContractOf!Dereg
    <3> QED
      BY <3>3 DEF MadContractOf!ContractNext
  <2>14. CASE FreeMadSvc
    <3>1. /\ UNCHANGED <<send, rx>> /\ owner = "wait" /\ svc.ref_cnt = 0
          /\ svc'.freed = TRUE /\ ~svc.freed /\ ~mad_bug
      BY <2>14, Types DEF FreeMadSvc, OwnerAt, MadInv, Closing, SvcRec
    <3>2. /\ UNCHANGED [s \in Send |-> Outcome(s)]
          /\ UNCHANGED {s \in Send : \E m \in Mad : rx[m].send = s}
      BY <2>1, <2>11, <3>1, ViewStutters
    <3>3. Unreported = {}
      <4>1. Cardinality(Unreported) = 0
        BY <3>1, Finite, Types DEF MadInv, Counts
      <4> QED
        BY SMTT(30), <4>1, Finite, FS_EmptySet
    <3>4. ASSUME NEW s \in Send PROVE Outcome(s).status # "out"
      <4>1. send[s].state \in {"new", "put"} /\ (send[s].state = "put" => send[s].status \in MadStatus)
        BY <2>1, <3>3, Mapped DEF Unreported, SendRec
      <4>2. CASE send[s].state = "new"
        BY <2>1, <4>2, Mapped, OutcomeCases
      <4>3. CASE send[s].state = "put"
        BY <2>1, <4>1, <4>3, Mapped, OutcomeCases DEF MadStatus
      <4> QED
        BY SMTT(30), <4>1, <4>2, <4>3
    <3>5. MadContractOf!Close
      BY <3>1, <3>2, <3>4 DEF MadContractOf!Close, MadContractOf!Out
    <3> QED
      BY <3>5 DEF MadContractOf!ContractNext
  <2>15. CASE UNCHANGED madvars
    BY <2>2, <2>11, <2>15 DEF madvars
  <2> QED
    BY SMTT(30), <2>3, <2>4, <2>5, <2>6, <2>7, <2>8, <2>9, <2>10, <2>12, <2>13, <2>14, <2>15
    DEF MadNext, OwnerStep
<1> QED
  BY <1>1, <1>2, MadInvariant, PTL DEF MadSpec, MadContractOf!ContractSafety
=============================================================================
