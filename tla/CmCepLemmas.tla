----------------------------- MODULE CmCepLemmas -----------------------------
(***************************************************************************)
(* What the steps of the communication manager do to the endpoint they are *)
(* about: the invariant of one endpoint (Sound), that every piece a        *)
(* handler or an API call is made of keeps it, the inductive invariant and *)
(* that the handlers of received MADs keep that one.                       *)
(***************************************************************************)
EXTENDS CmCep, FiniteSetTheorems, TLAPS

Fresh    == {"REQ_RCVD", "IDLE"}
Gone     == Dying \cup {"FREE"}
Awaiting == ReqSent \cup RepSent \cup {"LAP_SENT", "DREQ_SENT", "DREQ_DESTROY"}

Counted(k) ==
    k.ref_cnt = (IF k.state \in Gone THEN 0 ELSE 1)
                + Cardinality(k.sends) + k.derefs

Local(k) ==
    /\ Counted(k)
    /\ k.mad_list # <<>> => k.signalled
    /\ k.timewait_item <=> k.state \in {"TIMEWAIT", "DESTROY"}
    /\ k.p_send_mad # 0 => k.p_send_mad \in k.sends
    /\ k.state \in Awaiting => k.p_send_mad # 0
    /\ k.bound => k.state \notin Gone
    /\ k.state = "FREE" => k.sends = {} /\ k.derefs = 0 /\ k.mad_list = <<>>
    /\ k.state \notin {"FREE", "IDLE", "LISTEN", "DESTROY"} => k.dst \in Node
    /\ k.state # "FREE" =>
         k.destroyed = IF k.ref_cnt = 0 /\ k.pfn_destroy_cb THEN 1 ELSE 0

Sound(k) == k \in Cep /\ Local(k)

(***************************************************************************)
(* Endpoint x waits, with its REQ, at place i of the list of endpoint k.   *)
(***************************************************************************)
At(k, i, x) == i \in 1 .. Len(k.mad_list) /\ x \in k.mad_list[i]

-----------------------------------------------------------------------------
(***************************************************************************)
(* Facts about one endpoint.                                               *)
(***************************************************************************)

(* The sends of an endpoint can be counted.                                *)
LEMMA SendsFinite ==
  ASSUME NEW k \in Cep
  PROVE  IsFiniteSet(k.sends) /\ Cardinality(k.sends) \in Nat
BY SendIdsAssumption, FS_Subset, FS_CardinalityType DEF Cep

(* An endpoint that is not being destroyed holds its user's reference.     *)
LEMMA LiveReferenced ==
  ASSUME NEW k, Sound(k), k.state \notin Gone
  PROVE  k.ref_cnt \in Nat \ {0}
<1>1. k.ref_cnt \in Nat /\ k.derefs \in Nat /\ Cardinality(k.sends) \in Nat
  BY SMTT(30), SendsFinite DEF Cep, Sound
<1> QED
  BY <1>1 DEF Sound, Local, Counted

(* __cep_queue_mad yields an endpoint.                                     *)
LEMMA QueueMadType ==
  ASSUME NEW k \in Cep, NEW e \in Event
  PROVE  QueueMad(k, e) \in Cep
<1>1. k.ref_cnt + 1 \in Nat /\ k.derefs + 1 \in Nat
  BY DEF Cep
<1>2. Append(k.mad_list, e) \in Seq(Event) /\ <<e>> \in Seq(Event)
  BY DEF Cep
<1>3. ASSUME NEW x \in Seq(Event), NEW r \in Nat, NEW d \in Nat
      PROVE  /\ [k EXCEPT !.mad_list = x] \in Cep
             /\ [k EXCEPT !.mad_list = x, !.signalled = TRUE,
                          !.ref_cnt = r, !.derefs = d] \in Cep
  BY Zenon DEF Cep
<1> QED
  BY Zenon, <1>1, <1>2, <1>3 DEF QueueMad

(***************************************************************************)
(* What a step may do to an endpoint without touching its ownership, and   *)
(* what only its user's calls may do.                                      *)
(***************************************************************************)
Steady(j, k) ==
    /\ k.bound = j.bound
    /\ k.state = "FREE" <=> j.state = "FREE"
    /\ \A i \in Nat, x \in Cid : At(k, i, x) => At(j, i, x)

Unaided(j, k) ==
    /\ k.pfn_destroy_cb = j.pfn_destroy_cb
    /\ j.state \in Fresh => k.state \in Fresh

(* __cep_queue_mad keeps the reference count exact and the user signalled. *)
LEMMA QueueMadSound ==
  ASSUME NEW k, NEW e \in Event, Sound(k), k.state \notin Gone
  PROVE  Sound(QueueMad(k, e))
<1>1. k \in Cep /\ Local(k)
  BY DEF Sound
<1>2. k.ref_cnt \in Nat /\ k.derefs \in Nat /\ Cardinality(k.sends) \in Nat
  BY <1>1, SendsFinite DEF Cep
<1>3. k.mad_list \in Seq(Event)
  BY <1>1 DEF Cep
<1>4. Append(k.mad_list, e) # <<>> /\ <<e>> # <<>>
  BY <1>3
<1>5. k.ref_cnt # 0
  BY LiveReferenced
<1>6. Local(QueueMad(k, e))
  BY <1>1, <1>2, <1>4, <1>5 DEF QueueMad, Local, Counted, Cep, Gone, Dying
<1> QED
  BY <1>1, <1>6, QueueMadType DEF Sound

(* A MAD that brings no endpoint leaves the ownership alone.               *)
LEMMA QueueMadSteady ==
  ASSUME NEW k \in Cep
  PROVE  /\ Steady(k, QueueMad(k, Plain)) /\ Unaided(k, QueueMad(k, Plain))
         /\ QueueMad(k, Plain).state = k.state
<1>1. k.mad_list \in Seq(Event)
  BY DEF Cep
<1>2. \A i \in Nat, x \in Cid : At(QueueMad(k, Plain), i, x) => At(k, i, x)
  <2> TAKE i \in Nat, x \in Cid
  <2>1. CASE QueueMad(k, Plain).mad_list = k.mad_list
    BY <2>1 DEF At
  <2>2. CASE QueueMad(k, Plain).mad_list = Append(k.mad_list, Plain)
    BY <1>1, <2>2 DEF At, Plain
  <2>3. CASE QueueMad(k, Plain).mad_list = <<Plain>>
    BY <2>3 DEF At, Plain
  <2> QED
    BY <2>1, <2>2, <2>3 DEF QueueMad, Cep
<1> QED
  BY Zenon, <1>2 DEF Steady, Unaided, QueueMad, Cep

(* One such change after another.                                          *)
LEMMA SteadyTransitive ==
  ASSUME NEW i, NEW j, NEW k, Steady(i, j), Steady(j, k)
  PROVE  Steady(i, k)
BY DEF Steady

(* The helpers that change a field or two yield endpoints.                 *)
LEMMA HelperTypes ==
  ASSUME NEW k \in Cep
  PROVE  /\ CancelSend(k) \in Cep /\ PutMad(k) \in Cep /\ RemoveCep(k) \in Cep
         /\ \A s \in State : To(k, s) \in Cep /\ EnterTimewait(k, s) \in Cep
         /\ \A m \in Msg : Keep(k, m) \in Cep
<1>1. CancelSend(k) \in Cep /\ PutMad(k) \in Cep
  BY Zenon DEF CancelSend, PutMad, Cep
<1>2. RemoveCep(k) \in Cep
  <2>1. NoId \in CommId
    BY DEF NoId, CommId
  <2>2. /\ (k.rem_id_item /\ k.remote_comm_id = NoId) \in BOOLEAN
        /\ (k.rem_qp_item /\ k.remote_qpn = 0) \in BOOLEAN
    OBVIOUS
  <2>3. ASSUME NEW x \in BOOLEAN, NEW y \in BOOLEAN
        PROVE  [k EXCEPT !.rem_id_item = x, !.remote_comm_id = NoId,
                         !.rem_qp_item = y, !.remote_qpn = 0] \in Cep
    BY Zenon, <2>1 DEF Cep
  <2> QED
    BY Zenon, <2>2, <2>3 DEF RemoveCep
<1>3. \A s \in State : To(k, s) \in Cep /\ EnterTimewait(k, s) \in Cep
  BY Zenon DEF To, EnterTimewait, Cep
<1>4. \A m \in Msg : Keep(k, m) \in Cep
  BY SMTT(30) DEF Keep, Cep
<1> QED
  BY <1>1, <1>2, <1>3, <1>4

(***************************************************************************)
(* An endpoint that is alive and stays so may change state, drop its MADs  *)
(* and its pointer to the send, and enter TIMEWAIT.                        *)
(***************************************************************************)
Moved(k, j) ==
    /\ j \in Cep /\ j.state \notin Gone
    /\ j.ref_cnt = k.ref_cnt /\ j.sends = k.sends /\ j.derefs = k.derefs
    /\ j.mad_list = k.mad_list /\ j.signalled = k.signalled
    /\ j.bound = k.bound /\ j.destroyed = k.destroyed
    /\ j.pfn_destroy_cb = k.pfn_destroy_cb
    /\ j.timewait_item <=> j.state = "TIMEWAIT"
    /\ j.p_send_mad \in {0, k.p_send_mad}
    /\ j.state \in Awaiting => j.p_send_mad # 0
    /\ j.state \notin {"IDLE", "LISTEN"} => j.dst \in Node

(* A move keeps an endpoint sound and owned as it was.                     *)
LEMMA MovedSound ==
  ASSUME NEW k, NEW j, Sound(k), k.state \notin Gone, Moved(k, j)
  PROVE  /\ Sound(j) /\ Steady(k, j)
         /\ k.state \notin Fresh \/ j.state \in Fresh => Unaided(k, j)
<1>1. Sound(j)
  BY DEF Sound, Local, Moved, Counted, Gone, Dying
<1>2. Steady(k, j)
  BY DEF Steady, Moved, Gone, At
<1> QED
  BY <1>1, <1>2 DEF Moved, Unaided

(* So does a move with an event.                                           *)
LEMMA MovedQueued ==
  ASSUME NEW k, NEW j, Sound(k), k.state \notin Gone, Moved(k, j)
  PROVE  /\ Sound(QueueMad(j, Plain)) /\ Steady(k, QueueMad(j, Plain))
         /\ k.state \notin Fresh \/ j.state \in Fresh
              => Unaided(k, QueueMad(j, Plain))
<1>1. /\ Sound(j) /\ Steady(k, j) /\ j \in Cep /\ j.state \notin Gone
      /\ k.state \notin Fresh \/ j.state \in Fresh => Unaided(k, j)
  BY MovedSound DEF Moved
<1>2. Plain \in Event
  BY DEF Plain, Event
<1>3. /\ Sound(QueueMad(j, Plain)) /\ Steady(j, QueueMad(j, Plain))
      /\ Unaided(j, QueueMad(j, Plain))
  BY <1>1, <1>2, QueueMadSound, QueueMadSteady
<1> QED
  BY <1>1, <1>3, SteadyTransitive DEF Unaided

(* __cep_send_retry takes one reference for the MAD it hands over.         *)
LEMMA SendRetrySound ==
  ASSUME NEW k, Sound(k), k.state \notin Gone \cup {"TIMEWAIT"}, CanSend(k),
         k.dst \in Node, NEW s \in State \ (Gone \cup {"TIMEWAIT"})
  PROVE  Sound(To(SendRetry(k), s)) /\ Steady(k, To(SendRetry(k), s))
<1> DEFINE f == FreshSend(k)
           j == To(SendRetry(k), s)
<1>1. k \in Cep /\ Local(k) /\ k.ref_cnt \in Nat \ {0}
  BY LiveReferenced DEF Sound
<1>2. f \in SendIds \ k.sends /\ f # 0
  BY SendIdsAssumption DEF FreshSend, CanSend
<1> HIDE DEF f
<1>3. Cardinality(k.sends \cup {f}) = Cardinality(k.sends) + 1
  BY Zenon, <1>1, <1>2, SendsFinite, FS_AddElement
<1>4. Cardinality(k.sends) \in Nat /\ k.derefs \in Nat
  BY <1>1, SendsFinite DEF Cep
<1>5. j = [k EXCEPT !.p_send_mad = f, !.sends = @ \cup {f},
                    !.ref_cnt = @ + 1, !.state = s]
  BY <1>1 DEF To, SendRetry, f, Cep
<1> HIDE DEF j
<1>6. j \in Cep
  <2>1. k.ref_cnt + 1 \in Nat /\ k.sends \cup {f} \in SUBSET SendIds
    BY <1>1, <1>2 DEF Cep
  <2>2. ASSUME NEW r \in Nat, NEW t \in SUBSET SendIds
        PROVE  [k EXCEPT !.p_send_mad = f, !.sends = t, !.ref_cnt = r,
                         !.state = s] \in Cep
    BY Zenon, <1>1, <1>2 DEF Cep
  <2> QED
    BY Zenon, <1>5, <2>1, <2>2
<1>7. Local(j)
  BY <1>1, <1>2, <1>3, <1>4, <1>5 DEF Local, Counted, Cep, Gone, Dying
<1>8. Steady(k, j)
  BY <1>1, <1>5 DEF Steady, At, Cep, Gone
<1> QED
  BY <1>6, <1>7, <1>8 DEF Sound, j

(* __process_rej.  Unless it changes nothing, it fails the connection.     *)
LEMMA ProcessRejSound ==
  ASSUME NEW k, Sound(k)
  PROVE  /\ Sound(ProcessRej(k)) /\ Steady(k, ProcessRej(k))
         /\ Unaided(k, ProcessRej(k))
<1> USE DEF ReqSent, RepSent, RepRcvd, PreRep, PreApr, Connected, LapSent, LapRcvd
<1>1. k \in Cep /\ Local(k) /\ "IDLE" \in State /\ "TIMEWAIT" \in State
  BY DEF Sound, State
<1>2. CASE k.state \in ReqSent \cup RepSent
  <2> DEFINE j == To(RemoveCep(CancelSend(k)), "IDLE")
  <2>1. j \in Cep
    BY Zenon, <1>1, HelperTypes
  <2>2. Moved(k, j) /\ k.state \notin Gone
    BY <1>1, <1>2, <2>1 DEF Moved, To, RemoveCep, CancelSend, Cep, Local, Gone,
                            Dying, Awaiting
  <2>3. ProcessRej(k) = QueueMad(j, Plain)
    BY <1>2 DEF ProcessRej
  <2> QED
    BY <1>2, <2>2, <2>3, MovedQueued DEF Fresh
<1>3. CASE k.state \in RepRcvd \cup PreRep \cup {"REQ_MRA_SENT"}
  <2> DEFINE j == To(RemoveCep(PutMad(k)), "IDLE")
  <2>1. j \in Cep
    BY Zenon, <1>1, HelperTypes
  <2>2. Moved(k, j) /\ k.state \notin Gone
    BY <1>1, <1>3, <2>1 DEF Moved, To, RemoveCep, PutMad, Cep, Local, Gone,
                            Dying, Awaiting
  <2>3. ProcessRej(k) = QueueMad(j, Plain)
    BY <1>3 DEF ProcessRej
  <2> QED
    BY <1>3, <2>2, <2>3, MovedQueued DEF Fresh
<1>4. CASE k.state = "REQ_RCVD"
  <2> DEFINE j == To(RemoveCep(k), "IDLE")
  <2>1. j \in Cep
    BY <1>1, HelperTypes
  <2>2. Moved(k, j) /\ k.state \notin Gone /\ j.state = "IDLE"
    BY <1>1, <1>4, <2>1 DEF Moved, To, RemoveCep, Cep, Local, Gone, Dying, Awaiting
  <2>3. ProcessRej(k) = j
    BY <1>4 DEF ProcessRej
  <2> QED
    BY <2>2, <2>3, MovedSound DEF Fresh
<1>5. CASE k.state \in Connected \cup PreApr
  <2> DEFINE j == EnterTimewait(PutMad(k), "TIMEWAIT")
  <2>1. j \in Cep
    BY Zenon, <1>1, HelperTypes
  <2>2. Moved(k, j) /\ k.state \notin Gone
    BY <1>1, <1>5, <2>1 DEF Moved, EnterTimewait, PutMad, Cep, Local, Gone,
                            Dying, Awaiting
  <2>3. ProcessRej(k) = QueueMad(j, Plain)
    BY <1>5 DEF ProcessRej
  <2> QED
    BY <1>5, <2>2, <2>3, MovedQueued DEF Fresh
<1>6. CASE /\ k.state \notin ReqSent \cup RepSent \cup RepRcvd \cup PreRep
           /\ k.state \notin Connected \cup PreApr \cup {"REQ_MRA_SENT", "REQ_RCVD"}
  <2>1. ProcessRej(k) = k
    BY <1>6 DEF ProcessRej
  <2> QED
    BY <2>1 DEF Steady, Unaided
<1> QED
  BY <1>2, <1>3, <1>4, <1>5, <1>6

(* The MADs of an endpoint that has a path are well formed.                *)
LEMMA MadType ==
  ASSUME NEW n \in Node, NEW k \in Cep, k.dst \in Node, NEW kind \in MadKinds,
         NEW q \in Qpn \cup {0},
         NEW w \in {"", "REQ", "REP", "LAP", "TIMEOUT", "OTHER"}
  PROVE  Mad(kind, n, k, q, w) \in Msg
BY Zenon DEF Mad, Msg, Cep

(***************************************************************************)
(* __cleanup_cep before it drops the user's reference.                     *)
(***************************************************************************)
Leaving(k, r) ==
    /\ r.state \in Dying
    /\ ~r.bound /\ r.mad_list = <<>> /\ r.pfn_destroy_cb = k.pfn_destroy_cb
    /\ r.ref_cnt = 1 + Cardinality(r.sends) + r.derefs
    /\ r.timewait_item <=> r.state = "DESTROY"
    /\ r.p_send_mad # 0 => r.p_send_mad \in r.sends
    /\ r.state = "DREQ_DESTROY" => r.p_send_mad # 0 /\ r.dst \in Node
    /\ r.destroyed = 0

(* In whichever state __cleanup_cep finds the endpoint, it leaves it so.   *)
LEMMA CleanupLeaves ==
  ASSUME NEW n \in Node, NEW k, Sound(k), k.state \notin Gone, NEW out,
         k.state \in Connected \cup PreApr /\ out = "ok" => CanSend(k)
  PROVE  LET r == CleanupState(n, [Unbind(k) EXCEPT !.mad_list = <<>>], out)
         IN  r \in Cep /\ Leaving(k, r)
<1> DEFINE b == [Unbind(k) EXCEPT !.mad_list = <<>>]
<1> USE DEF ReqSent, RepSent, RepRcvd, PreRep, PreApr, Connected, LapSent, LapRcvd
<1>1. k \in Cep /\ Local(k) /\ k.ref_cnt \in Nat \ {0} /\ k.derefs \in Nat
      /\ Cardinality(k.sends) \in Nat
  BY SMTT(30), LiveReferenced, SendsFinite DEF Sound, Cep
<1>2. b \in Cep
  <2>1. ASSUME NEW x \in Seq(Event)
        PROVE  [[k EXCEPT !.bound = FALSE] EXCEPT !.mad_list = x] \in Cep
    BY Zenon, <1>1 DEF Cep
  <2>2. <<>> \in Seq(Event)
    OBVIOUS
  <2> QED
    BY Zenon, <2>1, <2>2 DEF Unbind
<1>3. /\ ~b.bound /\ b.mad_list = <<>> /\ b.pfn_destroy_cb = k.pfn_destroy_cb
      /\ b.ref_cnt = 1 + Cardinality(b.sends) + b.derefs
      /\ b.state = k.state /\ b.dst = k.dst /\ b.sends = k.sends
      /\ b.timewait_item <=> b.state = "TIMEWAIT"
      /\ b.p_send_mad # 0 => b.p_send_mad \in b.sends
      /\ b.state = "DREQ_SENT" => b.p_send_mad # 0
      /\ b.state \notin {"IDLE", "LISTEN"} => b.dst \in Node
      /\ b.destroyed = 0
  BY <1>1 DEF Unbind, Cep, Local, Counted, Gone, Dying, Awaiting
<1> HIDE DEF b
<1>D. "DESTROY" \in State /\ "DREQ_DESTROY" \in State
  BY DEF State, Dying
<1>4. CASE k.state \in Connected \cup PreApr /\ out = "ok"
  <2> DEFINE f == FreshSend(b)
             r == [b EXCEPT !.p_send_mad = f, !.sends = @ \cup {f},
                            !.ref_cnt = @ + 1, !.state = "DREQ_DESTROY"]
  <2>1. f \in SendIds \ b.sends /\ f # 0
    BY <1>3, <1>4, SendIdsAssumption DEF FreshSend, CanSend
  <2> HIDE DEF f
  <2>2. Cardinality(b.sends \cup {f}) = Cardinality(b.sends) + 1
    BY Zenon, <1>2, <2>1, SendsFinite, FS_AddElement
  <2>3. CleanupState(n, b, out) = r
    BY <1>2, <1>3, <1>4 DEF CleanupState, To, SendRetry, f, Cep
  <2>4. r \in Cep
    <3>1. b.ref_cnt + 1 \in Nat /\ b.sends \cup {f} \in SUBSET SendIds
      BY <1>2, <2>1 DEF Cep
    <3>2. ASSUME NEW x \in Nat, NEW t \in SUBSET SendIds
          PROVE  [b EXCEPT !.p_send_mad = f, !.sends = t, !.ref_cnt = x,
                           !.state = "DREQ_DESTROY"] \in Cep
      BY Zenon, <1>2, <2>1, <1>D DEF Cep
    <3> QED
      BY Zenon, <3>1, <3>2
  <2>5. Cardinality(b.sends) \in Nat /\ b.derefs \in Nat /\ b.ref_cnt \in Nat
    BY <1>2, SendsFinite DEF Cep
  <2>6. Leaving(k, r)
    BY <1>2, <1>3, <1>4, <2>1, <2>2, <2>5 DEF Leaving, Cep, Dying
  <2> QED
    BY <2>3, <2>4, <2>6 DEF b
<1>5. CASE k.state \in Connected \cup PreApr /\ out # "ok"
  <2> DEFINE q == IF out = "refused" THEN SendRefused(b) ELSE b
             r == EnterTimewait(q, "DESTROY")
  <2>1. CleanupState(n, b, out) = r
    BY <1>3, <1>5 DEF CleanupState
  <2>2. q \in Cep
    BY <1>2, HelperTypes DEF SendRefused, CancelSend
  <2>3. r \in Cep
    BY Zenon, <1>D, <2>2, HelperTypes
  <2>4. Leaving(k, r)
    BY <1>2, <1>3 DEF Leaving, EnterTimewait, SendRefused, Cep, Dying
  <2> QED
    BY <2>1, <2>3, <2>4 DEF b
<1>6. CASE k.state = "DREQ_SENT"
  <2>1. CleanupState(n, b, out) = To(b, "DREQ_DESTROY")
    BY <1>3, <1>6 DEF CleanupState
  <2>2. To(b, "DREQ_DESTROY") \in Cep
    BY <1>2, <1>D, HelperTypes
  <2>3. Leaving(k, To(b, "DREQ_DESTROY"))
    BY <1>2, <1>3, <1>6 DEF Leaving, To, Cep, Dying
  <2> QED
    BY <2>1, <2>2, <2>3 DEF b
<1>7. CASE k.state = "DREQ_RCVD"
  <2> DEFINE r == EnterTimewait(Keep(b, Drep(n, b)), "DESTROY")
  <2>1. CleanupState(n, b, out) = r
    BY <1>3, <1>7 DEF CleanupState
  <2>2. Drep(n, b) \in Msg
    BY Zenon, <1>2, <1>3, <1>7, MadType DEF Drep, MadKinds
  <2>3. r \in Cep
    BY Zenon, <1>2, <1>D, <2>2, HelperTypes
  <2>4. Leaving(k, r)
    BY <1>2, <1>3 DEF Leaving, EnterTimewait, Keep, Cep, Dying
  <2> QED
    BY <2>1, <2>3, <2>4 DEF b
<1>8. CASE k.state = "TIMEWAIT"
  <2>1. CleanupState(n, b, out) = To(b, "DESTROY")
    BY <1>3, <1>8 DEF CleanupState
  <2>2. To(b, "DESTROY") \in Cep
    BY Zenon, <1>2, <1>D, HelperTypes
  <2>3. Leaving(k, To(b, "DESTROY"))
    BY <1>2, <1>3, <1>8 DEF Leaving, To, Cep, Dying
  <2> QED
    BY <2>1, <2>2, <2>3 DEF b
<1>9. CASE /\ k.state \notin Connected \cup PreApr
           /\ k.state \notin {"DREQ_SENT", "DREQ_RCVD", "TIMEWAIT"}
  <2> DEFINE q == IF k.state \in PreRep \cup {"PRE_REQ"} THEN PutMad(b) ELSE b
             r == EnterTimewait(q, "DESTROY")
  <2>1. CleanupState(n, b, out) = r
    BY <1>3, <1>9 DEF CleanupState
  <2>2. q \in Cep
    BY <1>2, HelperTypes
  <2>3. r \in Cep
    BY Zenon, <1>D, <2>2, HelperTypes
  <2>4. Leaving(k, r)
    BY <1>2, <1>3 DEF Leaving, EnterTimewait, PutMad, Cep, Dying
  <2> QED
    BY <2>1, <2>3, <2>4 DEF b
<1> QED
  BY <1>4, <1>5, <1>6, <1>7, <1>8, <1>9

(* __cleanup_cep drops the user's reference and the endpoint is no one's.  *)
LEMMA CleanupSound ==
  ASSUME NEW n \in Node, NEW k, Sound(k), k.state \notin Gone, NEW out,
         k.state \in Connected \cup PreApr /\ out = "ok" => CanSend(k)
  PROVE  LET j == CleanupCep(n, Unbind(k), out)
         IN /\ Sound(NotifyDestroy(j))
            /\ NotifyDestroy(j).mad_list = <<>> /\ NotifyDestroy(j).state # "FREE"
            /\ ~k.pfn_destroy_cb => NotifyDestroy(j) = j
<1> DEFINE r == CleanupState(n, [Unbind(k) EXCEPT !.mad_list = <<>>], out)
           j == CleanupCep(n, Unbind(k), out)
<1>1. r \in Cep /\ Leaving(k, r)
  BY CleanupLeaves
<1>2. j = [r EXCEPT !.ref_cnt = @ - 1]
  BY DEF CleanupCep
<1> HIDE DEF r, j
<1>3. r \in Cep /\ r.ref_cnt - 1 \in Nat /\ Cardinality(r.sends) \in Nat
      /\ r.derefs \in Nat
  BY <1>1, SendsFinite DEF Leaving, Cep
<1>4. j \in Cep
  <2>1. ASSUME NEW x \in Nat PROVE [r EXCEPT !.ref_cnt = x] \in Cep
    BY SMTT(30), <1>3 DEF Cep
  <2> QED
    BY <1>2, <1>3, <2>1
<1>5. j.ref_cnt = Cardinality(j.sends) + j.derefs
  BY <1>1, <1>2, <1>3 DEF Leaving, Cep
<1>6. /\ j.state \in Dying /\ ~j.bound /\ j.mad_list = <<>>
      /\ j.pfn_destroy_cb = k.pfn_destroy_cb
      /\ j.timewait_item <=> j.state = "DESTROY"
      /\ j.p_send_mad # 0 => j.p_send_mad \in j.sends
      /\ j.state = "DREQ_DESTROY" => j.p_send_mad # 0 /\ j.dst \in Node
      /\ j.destroyed = 0
  BY <1>1, <1>2, <1>3 DEF Leaving, Cep
<1>7. NotifyDestroy(j) \in Cep
  <2>1. ASSUME NEW x \in Nat PROVE [j EXCEPT !.destroyed = x] \in Cep
    BY <1>4 DEF Cep
  <2> QED
    BY <1>4, <1>6, <2>1 DEF NotifyDestroy
<1>8. Cardinality(j.sends) \in Nat /\ j.derefs \in Nat /\ j.ref_cnt \in Nat
  BY <1>4, SendsFinite DEF Cep
<1>9. Local(NotifyDestroy(j))
  BY <1>4, <1>5, <1>6, <1>8 DEF NotifyDestroy, Local, Counted, Gone, Dying, Awaiting,
                           ReqSent, RepSent, Cep
<1> QED
  BY Zenon, <1>4, <1>6, <1>7, <1>9 DEF Sound, NotifyDestroy, Cep, Dying, j

(***************************************************************************)
(* What a completed send leaves: its reference now belongs to the code     *)
(* that runs after the unlock.                                             *)
(***************************************************************************)
Completed(k, id, t) ==
    /\ t.sends = k.sends \ {id} /\ t.derefs = k.derefs + 1 /\ t.ref_cnt = k.ref_cnt
    /\ t.mad_list = k.mad_list /\ t.signalled = k.signalled
    /\ t.bound = k.bound /\ t.destroyed = k.destroyed
    /\ t.pfn_destroy_cb = k.pfn_destroy_cb
    /\ t.state \in Gone <=> k.state \in Gone
    /\ t.state # "FREE"
    /\ t.timewait_item <=> t.state \in {"TIMEWAIT", "DESTROY"}
    /\ t.p_send_mad # 0 => t.p_send_mad \in t.sends
    /\ t.state \in Awaiting => t.p_send_mad # 0
    /\ t.state \notin {"IDLE", "LISTEN", "DESTROY"} => t.dst \in Node
    /\ k.state \in Fresh => t.state \in Fresh

(* Such an endpoint is sound.                                              *)
LEMMA CompletedSound ==
  ASSUME NEW k, Sound(k), NEW id \in k.sends, NEW t \in Cep, Completed(k, id, t)
  PROVE  Sound(t) /\ Steady(k, t) /\ Unaided(k, t)
<1>1. k \in Cep /\ Local(k)
  BY DEF Sound
<1>2. Cardinality(k.sends \ {id}) = Cardinality(k.sends) - 1
  BY Zenon, <1>1, SendsFinite, FS_RemoveElement
<1>3. k.ref_cnt \in Nat /\ k.derefs \in Nat /\ Cardinality(k.sends) \in Nat
  BY <1>1, SendsFinite DEF Cep
<1>4. Local(t)
  BY SMTT(30), <1>1, <1>2, <1>3 DEF Local, Counted, Completed
<1>5. k.state # "FREE"
  BY <1>1 DEF Local
<1> QED
  BY <1>4, <1>5 DEF Sound, Steady, Unaided, At, Completed

(* __cep_mad_send_cb.                                                      *)
LEMMA SendCbSound ==
  ASSUME NEW n \in Node, NEW k, Sound(k), NEW id \in k.sends
  PROVE  LET j == [k EXCEPT !.sends = @ \ {id}, !.derefs = @ + 1]
             r == IF j.p_send_mad # id THEN j ELSE SendFailed(n, CancelSend(j))
         IN  Sound(r) /\ Steady(k, r) /\ Unaided(k, r)
<1> DEFINE j == [k EXCEPT !.sends = @ \ {id}, !.derefs = @ + 1]
           q == CancelSend(j)
<1> USE DEF ReqSent, RepSent
<1>1. k \in Cep /\ Local(k) /\ k.state # "FREE"
  BY SMTT(30) DEF Sound, Local
<1>2. j \in Cep
  <2>1. k.derefs + 1 \in Nat /\ k.sends \ {id} \in SUBSET SendIds
    BY <1>1 DEF Cep
  <2>2. ASSUME NEW t \in SUBSET SendIds, NEW d \in Nat
        PROVE  [k EXCEPT !.sends = t, !.derefs = d] \in Cep
    BY Zenon, <1>1 DEF Cep
  <2> QED
    BY Zenon, <2>1, <2>2
<1>3. /\ j.sends = k.sends \ {id} /\ j.derefs = k.derefs + 1
      /\ j.ref_cnt = k.ref_cnt
      /\ j.mad_list = k.mad_list /\ j.signalled = k.signalled
      /\ j.bound = k.bound /\ j.destroyed = k.destroyed /\ j.dst = k.dst
      /\ j.pfn_destroy_cb = k.pfn_destroy_cb /\ j.state = k.state
      /\ j.timewait_item = k.timewait_item /\ j.p_send_mad = k.p_send_mad
  BY <1>1 DEF Cep
<1> HIDE DEF j
<1>4. CASE j.p_send_mad # id
  <2>1. Completed(k, id, j)
    BY <1>1, <1>3, <1>4 DEF Completed, Local
  <2> QED
    BY <1>2, <1>4, <2>1, CompletedSound DEF j
<1>5. CASE j.p_send_mad = id
  <2>1. q \in Cep
    BY <1>2, HelperTypes
  <2>2. /\ q.sends = k.sends \ {id} /\ q.derefs = k.derefs + 1
        /\ q.ref_cnt = k.ref_cnt
        /\ q.mad_list = k.mad_list /\ q.signalled = k.signalled
        /\ q.bound = k.bound /\ q.destroyed = k.destroyed /\ q.dst = k.dst
        /\ q.pfn_destroy_cb = k.pfn_destroy_cb /\ q.state = k.state
        /\ q.timewait_item = k.timewait_item /\ q.p_send_mad = 0
    BY <1>2, <1>3 DEF CancelSend, Cep
  <2> HIDE DEF q
  <2> SUFFICES LET r == SendFailed(n, q)
               IN  Sound(r) /\ Steady(k, r) /\ Unaided(k, r)
    BY <1>5 DEF q, j
  <2>3. Plain \in Event /\ "IDLE" \in State /\ "TIMEWAIT" \in State
        /\ "DESTROY" \in State /\ "ESTABLISHED" \in State
    BY DEF Plain, Event, State, Dying
  <2>4. ASSUME NEW t \in Cep, Completed(k, id, t), k.state \notin Gone
        PROVE  LET r == QueueMad(t, Plain)
               IN  Sound(r) /\ Steady(k, r) /\ Unaided(k, r)
    <3>1. Sound(t) /\ Steady(k, t) /\ Unaided(k, t) /\ t.state \notin Gone
      BY <2>4, CompletedSound DEF Completed
    <3>2. /\ Sound(QueueMad(t, Plain)) /\ Steady(t, QueueMad(t, Plain))
          /\ Unaided(t, QueueMad(t, Plain))
      BY <2>3, <3>1, QueueMadSound, QueueMadSteady
    <3> QED
      BY <3>1, <3>2, SteadyTransitive DEF Unaided
  <2>5. CASE q.state \in ReqSent \cup RepSent
    <3> DEFINE t == To(RemoveCep(q), "IDLE")
    <3>1. t \in Cep
      BY Zenon, <2>1, <2>3, HelperTypes
    <3>2. Completed(k, id, t) /\ k.state \notin Gone
      BY <1>1, <2>1, <2>2, <2>5 DEF Completed, To, RemoveCep, Cep, Gone, Dying, Fresh,
                                    Awaiting, Local
    <3>3. SendFailed(n, q) = QueueMad(t, Plain)
      BY <2>5 DEF SendFailed
    <3> QED
      BY <2>4, <3>1, <3>2, <3>3
  <2>6. CASE q.state = "DREQ_DESTROY"
    <3> DEFINE t == EnterTimewait(q, "DESTROY")
    <3>1. t \in Cep
      BY Zenon, <2>1, <2>3, HelperTypes
    <3>2. Completed(k, id, t)
      BY <1>1, <2>1, <2>2, <2>6 DEF Completed, EnterTimewait, Cep, Gone, Dying, Fresh,
                                    Awaiting, Local
    <3>3. SendFailed(n, q) = t
      BY <2>6 DEF SendFailed
    <3> QED
      BY <3>1, <3>2, <3>3, CompletedSound
  <2>7. CASE q.state = "DESTROY"
    <3>1. Completed(k, id, q)
      BY <1>1, <2>1, <2>2, <2>7 DEF Completed, Awaiting, Local
    <3>2. SendFailed(n, q) = q
      BY <2>7 DEF SendFailed
    <3> QED
      BY <2>1, <3>1, <3>2, CompletedSound
  <2>8. CASE q.state = "DREQ_SENT"
    <3> DEFINE t == EnterTimewait(Keep(q, Drep(n, q)), "TIMEWAIT")
    <3>1. q.dst \in Node
      BY <1>1, <2>2, <2>8 DEF Local
    <3>2. Drep(n, q) \in Msg
      BY Zenon, <2>1, <3>1, MadType DEF Drep, MadKinds
    <3>3. t \in Cep
      BY <2>1, <2>3, <3>2, HelperTypes
    <3>4. Completed(k, id, t) /\ k.state \notin Gone
      BY <1>1, <2>1, <2>2, <2>8, <3>1 DEF Completed, EnterTimewait, Keep, Cep, Gone,
                                    Dying, Fresh, Awaiting, Local
    <3>5. SendFailed(n, q) = QueueMad(t, Plain)
      BY <2>8 DEF SendFailed
    <3> QED
      BY <2>4, <3>3, <3>4, <3>5
  <2>9. CASE q.state = "LAP_SENT"
    <3> DEFINE t == To(q, "ESTABLISHED")
    <3>1. t \in Cep
      BY Zenon, <2>1, <2>3, HelperTypes
    <3>2. Completed(k, id, t) /\ k.state \notin Gone
      BY <1>1, <2>1, <2>2, <2>9 DEF Completed, To, Cep, Gone, Dying, Fresh,
                                    Awaiting, Local
    <3>3. SendFailed(n, q) = QueueMad(t, Plain)
      BY <2>9 DEF SendFailed
    <3> QED
      BY <2>4, <3>1, <3>2, <3>3
  <2>10. CASE q.state \notin Awaiting \cup {"DESTROY"} \cup ReqSent \cup RepSent
    <3>1. Completed(k, id, q) /\ k.state \notin Gone
      BY <1>1, <2>2, <2>10 DEF Completed, Awaiting, Local, Gone, Dying
    <3>2. SendFailed(n, q) = QueueMad(q, Plain)
      BY <2>10 DEF SendFailed, Awaiting
    <3> QED
      BY <2>1, <2>4, <3>1, <3>2
  <2> QED
    BY <2>5, <2>6, <2>7, <2>8, <2>9, <2>10 DEF Awaiting
<1> QED
  BY <1>4, <1>5 DEF j, q

(* A reference is dropped after the unlock; the last one calls back.       *)
LEMMA DerefSound ==
  ASSUME NEW k, Sound(k), k.derefs > 0
  PROVE  LET r == NotifyDestroy([k EXCEPT !.derefs = @ - 1, !.ref_cnt = @ - 1])
         IN  Sound(r) /\ Steady(k, r) /\ Unaided(k, r)
<1> DEFINE j == [k EXCEPT !.derefs = @ - 1, !.ref_cnt = @ - 1]
           r == NotifyDestroy(j)
<1>1. k \in Cep /\ Local(k) /\ k.derefs \in Nat \ {0} /\ k.ref_cnt \in Nat
      /\ Cardinality(k.sends) \in Nat
  BY SendsFinite DEF Sound, Cep
<1>2. k.ref_cnt # 0 /\ k.state # "FREE"
  BY SMTT(30), <1>1 DEF Local, Counted
<1>3. j \in Cep
  <2>1. k.derefs - 1 \in Nat /\ k.ref_cnt - 1 \in Nat
    BY <1>1, <1>2
  <2>2. ASSUME NEW d \in Nat, NEW x \in Nat
        PROVE  [k EXCEPT !.derefs = d, !.ref_cnt = x] \in Cep
    BY Zenon, <1>1 DEF Cep
  <2> QED
    BY Zenon, <2>1, <2>2
<1>4. /\ j.sends = k.sends /\ j.derefs = k.derefs - 1 /\ j.ref_cnt = k.ref_cnt - 1
      /\ j.mad_list = k.mad_list /\ j.signalled = k.signalled
      /\ j.bound = k.bound /\ j.destroyed = 0 /\ j.dst = k.dst
      /\ j.pfn_destroy_cb = k.pfn_destroy_cb /\ j.state = k.state
      /\ j.timewait_item = k.timewait_item /\ j.p_send_mad = k.p_send_mad
  BY <1>1, <1>2 DEF Cep, Local
<1> HIDE DEF j
<1>5. r \in Cep
  <2>1. ASSUME NEW x \in Nat PROVE [j EXCEPT !.destroyed = x] \in Cep
    BY <1>3 DEF Cep
  <2> QED
    BY <1>3, <1>4, <2>1 DEF NotifyDestroy
<1>6. Local(r)
  BY <1>1, <1>2, <1>3, <1>4 DEF NotifyDestroy, Local, Counted, Cep
<1>7. Steady(k, r) /\ Unaided(k, r)
  BY <1>3, <1>4 DEF NotifyDestroy, Steady, Unaided, At, Cep
<1> QED
  BY <1>5, <1>6, <1>7 DEF Sound, j

(* No communication ID is one of the values the field can have.            *)
LEMMA NoIdType == NoId \in CommId
BY DEF NoId, CommId

(* A new endpoint, and a CID that holds none.                              *)
LEMMA NewSound ==
  ASSUME NEW id \in CommId
  PROVE  /\ NewCep(id) \in Cep /\ FreeCid(id) \in Cep
         /\ Sound(FreeCid(id))
         /\ Sound([NewCep(id) EXCEPT !.bound = TRUE, !.pfn_destroy_cb = TRUE])
<1>1. NoId \in CommId /\ "FREE" \in State /\ "IDLE" \in State /\ <<>> \in Seq(Event)
  BY NoIdType DEF State
<1>2. Cardinality({}) = 0
  BY FS_EmptySet
<1>3. NewCep(id) \in Cep
  BY <1>1 DEF NewCep, Cep
<1>4. FreeCid(id) \in Cep
  BY Zenon, <1>1, <1>3 DEF FreeCid, Cep
<1>5. [NewCep(id) EXCEPT !.bound = TRUE, !.pfn_destroy_cb = TRUE] \in Cep
  BY Zenon, <1>3 DEF Cep
<1>6. Local(FreeCid(id))
  BY <1>2 DEF FreeCid, NewCep, Local, Counted, Gone, Dying, Awaiting, ReqSent, RepSent
<1>7. Local([NewCep(id) EXCEPT !.bound = TRUE, !.pfn_destroy_cb = TRUE])
  BY <1>2 DEF NewCep, Local, Counted, Gone, Dying, Awaiting, ReqSent, RepSent
<1> QED
  BY <1>3, <1>4, <1>5, <1>6, <1>7 DEF Sound

(* __process_timewait frees only endpoints that no one refers to.          *)
LEMMA ExpiredSound ==
  ASSUME NEW k, Sound(k), k.timewait_item, k.ref_cnt = 0
  PROVE  LET r == DestroyCep(RemoveCep(k))
         IN  /\ k.state = "DESTROY" /\ ~k.bound
             /\ Sound(r) /\ r.state = "FREE" /\ r.mad_list = <<>>
<1> DEFINE h == RemoveCep(k)
           r == DestroyCep(h)
<1>1. k \in Cep /\ Local(k) /\ k.derefs \in Nat /\ Cardinality(k.sends) \in Nat
      /\ IsFiniteSet(k.sends)
  BY SendsFinite DEF Sound, Cep
<1>2. k.state = "DESTROY" /\ ~k.bound /\ k.derefs = 0 /\ Cardinality(k.sends) = 0
  BY <1>1 DEF Local, Counted, Gone, Dying
<1>3. k.sends = {}
  BY <1>1, <1>2, FS_EmptySet
<1>4. h \in Cep
  BY <1>1, HelperTypes
<1>5. h.sends = {} /\ h.derefs = 0
  BY SMTT(30), <1>1, <1>2, <1>3 DEF RemoveCep, Cep
<1> HIDE DEF h
<1>6. r \in Cep
  <2> DEFINE f == FreeCid(h.local_comm_id)
  <2>1. h.local_comm_id \in CommId /\ h.rem_id_item \in BOOLEAN
        /\ h.rem_qp_item \in BOOLEAN
    BY SMTT(30), <1>4 DEF Cep
  <2>2. f \in Cep
    BY Zenon, <2>1, NewSound
  <2> HIDE DEF f
  <2>3. ASSUME NEW x \in BOOLEAN, NEW y \in BOOLEAN
        PROVE  [f EXCEPT !.sends = {}, !.derefs = 0, !.rem_id_item = x,
                         !.rem_qp_item = y] \in Cep
    BY Zenon, <2>2 DEF Cep
  <2> QED
    BY Zenon, <1>5, <2>1, <2>3 DEF DestroyCep, f
<1>7. Local(r) /\ r.state = "FREE" /\ r.mad_list = <<>>
  <2>1. Cardinality({}) = 0
    BY FS_EmptySet
  <2> QED
    BY <1>5, <2>1 DEF DestroyCep, FreeCid, NewCep, Local, Counted, Gone, Dying, Awaiting,
                      ReqSent, RepSent
<1> QED
  BY <1>2, <1>6, <1>7 DEF Sound, h

(* The endpoint made for a REQ.                                            *)
LEMMA ReqCepSound ==
  ASSUME NEW id \in CommId, NEW m \in Msg
  PROVE  Sound(ReqCep(id, m))
<1>1. NewCep(id) \in Cep
  BY Zenon, NewSound
<1>2. m.lid \in CommId /\ m.from \in Node /\ m.qpn \in Qpn \cup {0}
      /\ "REQ_RCVD" \in State
  BY Zenon DEF Msg, State, ReqRcvd
<1>3. ReqCep(id, m) \in Cep
  BY Zenon, <1>1, <1>2 DEF ReqCep, Cep
<1>4. Cardinality({}) = 0
  BY FS_EmptySet
<1>5. Local(ReqCep(id, m))
  BY <1>2, <1>4 DEF ReqCep, NewCep, Local, Counted, Gone, Dying, Awaiting, ReqSent, RepSent
<1> QED
  BY <1>3, <1>5 DEF Sound

(* __reject_req and __send_unaffiliated_drep send well formed MADs.        *)
LEMMA ReplyType ==
  ASSUME NEW m \in Msg, NEW kind \in MadKinds,
         NEW w \in {"", "REQ", "REP", "LAP", "TIMEOUT", "OTHER"}
  PROVE  Reply(m, kind, w) \in Msg
BY Zenon, NoIdType DEF Reply, Msg

(* The communication ID an endpoint is given next.                         *)
LEMMA NextIdType ==
  ASSUME TypeOK, NEW n \in Node, NEW c \in Cid
  PROVE  NextId(n, c) \in CommId
<1> DEFINE id == cep[n][c].local_comm_id
<1>1. id \in CommId
  BY DEF TypeOK, Cep
<1>2. id[2] \in Nat
  BY <1>1 DEF CommId
<1>3. NextModifier(c, id) \in Nat
  BY <1>2, RangeAssumption DEF NextModifier
<1> QED
  BY <1>3 DEF NextId, CommId

-----------------------------------------------------------------------------
(***************************************************************************)
(* The inductive invariant of the communication manager.  It is Sound of   *)
(* every endpoint, which is a fact about one record, together with Held,   *)
(* Queued and FreeList, which say whose endpoint it is.  The two need each *)
(* other: __cleanup_cep drops a reference on behalf of the owner, for the  *)
(* endpoints that wait on a list too.                                      *)
(***************************************************************************)
(***************************************************************************)
(* Users hold endpoints that are theirs; an endpoint that waits with its   *)
(* REQ does so in one place, is not yet known to its user, is as the REQ   *)
(* or a REJ left it and has no destroy callback; the free list has no      *)
(* duplicates and is free.                                                 *)
(***************************************************************************)
Held == \A n \in Node : \A c \in handles[n] : cep[n][c].bound
Queued ==
    \A n \in Node : \A d, x \in Cid : \A i \in Nat : At(cep[n][d], i, x) =>
        /\ cep[n][x].bound /\ ~cep[n][x].pfn_destroy_cb /\ x \notin handles[n]
        /\ cep[n][x].state \in Fresh
        /\ \A e \in Cid : \A j \in Nat : At(cep[n][e], j, x) => e = d /\ j = i
FreeList ==
    \A n \in Node : \A i \in 1 .. Len(free_cid[n]) :
        /\ cep[n][free_cid[n][i]].state = "FREE"
        /\ \A j \in 1 .. Len(free_cid[n]) : free_cid[n][i] = free_cid[n][j] => i = j

IInv ==
    /\ TypeOK
    /\ \A n \in Node, c \in Cid : Sound(cep[n][c])
    /\ Held /\ Queued /\ FreeList

-----------------------------------------------------------------------------
(***************************************************************************)
(* Steps that change one endpoint and keep its ownership.                  *)
(***************************************************************************)
LEMMA Frame ==
  ASSUME IInv, NEW n \in Node, NEW c \in Cid, NEW k,
         Sound(k), Steady(cep[n][c], k),
         c \in handles[n] \/ Unaided(cep[n][c], k),
         Set(n, c, k), UNCHANGED <<free_cid, handles>>,
         net' \subseteq Msg, issued' \in [Node -> Nat], faults' \in Nat
  PROVE  IInv'
<1>1. cep \in [Node -> [Cid -> Cep]] /\ k \in Cep
  BY DEF IInv, TypeOK, Sound
<1>2. /\ cep'[n][c] = k
      /\ \A o \in Node, d \in Cid : <<o, d>> # <<n, c>> => cep'[o][d] = cep[o][d]
      /\ cep' \in [Node -> [Cid -> Cep]]
  BY <1>1 DEF Set
<1>3. TypeOK'
  BY <1>2 DEF IInv, TypeOK
<1>4. ASSUME NEW o \in Node, NEW d \in Cid PROVE Sound(cep'[o][d])
  BY <1>2 DEF IInv
<1>5. ASSUME NEW o \in Node, NEW d \in Cid
      PROVE  /\ cep'[o][d].bound = cep[o][d].bound
             /\ cep'[o][d].state = "FREE" <=> cep[o][d].state = "FREE"
             /\ \A i \in Nat, x \in Cid : At(cep'[o][d], i, x) => At(cep[o][d], i, x)
             /\ d \notin handles[o] => Unaided(cep[o][d], cep'[o][d])
  <2>1. CASE o = n /\ d = c
    BY <1>2, <2>1 DEF Steady
  <2>2. CASE ~(o = n /\ d = c)
    <3>1. cep'[o][d] = cep[o][d]
      BY <1>2, <2>2
    <3> QED
      BY <3>1 DEF Unaided
  <2> QED
    BY <2>1, <2>2
<1>6. Held'
  BY ZenonT(40), <1>5 DEF Held, IInv, TypeOK
<1>7. Queued'
  <2> SUFFICES ASSUME NEW o \in Node, NEW d \in Cid, NEW x \in Cid, NEW i \in Nat,
                      At(cep'[o][d], i, x)
               PROVE  /\ cep'[o][x].bound /\ ~cep'[o][x].pfn_destroy_cb
                      /\ x \notin handles[o] /\ cep'[o][x].state \in Fresh
                      /\ \A e \in Cid : \A j \in Nat :
                           At(cep'[o][e], j, x) => e = d /\ j = i
    BY DEF Queued, At
  <2>1. At(cep[o][d], i, x)
    BY <1>5
  <2>2. /\ cep[o][x].bound /\ ~cep[o][x].pfn_destroy_cb
        /\ x \notin handles[o] /\ cep[o][x].state \in Fresh
        /\ \A e \in Cid : \A j \in Nat : At(cep[o][e], j, x) => e = d /\ j = i
    BY <2>1 DEF IInv, Queued
  <2>3. cep'[o][x].bound /\ Unaided(cep[o][x], cep'[o][x])
    BY <1>5, <2>2
  <2>4. ASSUME NEW e \in Cid, NEW j \in Nat, At(cep'[o][e], j, x)
        PROVE  e = d /\ j = i
    <3>1. At(cep[o][e], j, x)
      BY <1>5, <2>4
    <3> QED
      BY <2>2, <3>1
  <2> QED
    BY <2>2, <2>3, <2>4 DEF Unaided
<1>8. FreeList'
  <2> SUFFICES ASSUME NEW o \in Node, NEW i \in 1 .. Len(free_cid[o])
               PROVE  /\ cep'[o][free_cid[o][i]].state = "FREE"
                      /\ \A j \in 1 .. Len(free_cid[o]) :
                           free_cid[o][i] = free_cid[o][j] => i = j
    BY DEF FreeList
  <2>1. free_cid[o][i] \in Cid
    BY DEF IInv, TypeOK
  <2> QED
    BY <1>5, <2>1 DEF IInv, FreeList
<1> QED
  BY <1>3, <1>4, <1>6, <1>7, <1>8 DEF IInv

(* Steps that only send.                                                   *)
LEMMA FrameSend ==
  ASSUME IInv, UNCHANGED <<cep, free_cid, handles, issued, faults>>, net' \subseteq Msg
  PROVE  IInv'
<1>1. TypeOK'
  BY DEF IInv, TypeOK
<1>2. \A n \in Node, c \in Cid : Sound(cep'[n][c])
  BY DEF IInv
<1>3. Held' /\ FreeList'
  BY Zenon DEF IInv, Held, FreeList
<1>4. Queued'
  BY DEF IInv, Queued, At
<1> QED
  BY Zenon, <1>1, <1>2, <1>3, <1>4 DEF IInv

(***************************************************************************)
(* Steps that change who owns an endpoint.                                 *)
(***************************************************************************)

(* The CID that __create_cep takes off the free list is no one's.          *)
LEMMA HeadIsFree ==
  ASSUME IInv, NEW n \in Node, free_cid[n] # <<>>
  PROVE  LET c == Head(free_cid[n])
             t == Tail(free_cid[n])
         IN  /\ c \in Cid /\ cep[n][c].state = "FREE" /\ c \notin handles[n]
             /\ cep[n][c].mad_list = <<>>
             /\ \A d \in Cid, i \in Nat : ~At(cep[n][d], i, c)
             /\ t \in Seq(Cid)
             /\ \A i \in 1 .. Len(t) :
                   /\ t[i] # c /\ cep[n][t[i]].state = "FREE"
                   /\ \A j \in 1 .. Len(t) : t[i] = t[j] => i = j
<1> DEFINE f == free_cid[n]
           c == Head(f)
           t == Tail(f)
<1>1. f \in Seq(Cid) /\ f # <<>>
  BY Zenon DEF IInv, TypeOK
<1>2. \A i \in 1 .. Len(f) :
        /\ cep[n][f[i]].state = "FREE"
        /\ \A j \in 1 .. Len(f) : f[i] = f[j] => i = j
  BY Zenon DEF IInv, FreeList
<1> HIDE DEF f
<1>3. c \in Cid /\ c = f[1] /\ 1 \in 1 .. Len(f)
  BY <1>1
<1>4. cep[n][c].state = "FREE"
  BY Zenon, <1>2, <1>3
<1>5. ~cep[n][c].bound /\ cep[n][c].mad_list = <<>>
  BY Zenon, <1>3, <1>4 DEF IInv, Sound, Local, Gone
<1>6. c \notin handles[n] /\ \A d \in Cid, i \in Nat : ~At(cep[n][d], i, c)
  BY Zenon, <1>3, <1>5 DEF IInv, Held, Queued
<1>7. t \in Seq(Cid) /\ Len(t) = Len(f) - 1 /\ \A i \in 1 .. Len(t) : t[i] = f[i + 1]
  BY <1>1
<1>8. ASSUME NEW i \in 1 .. Len(t)
      PROVE  /\ t[i] # c /\ cep[n][t[i]].state = "FREE"
             /\ \A j \in 1 .. Len(t) : t[i] = t[j] => i = j
  <2>1. Len(f) \in Nat /\ i + 1 \in 1 .. Len(f) /\ t[i] = f[i + 1]
    BY <1>1, <1>7
  <2>2. ASSUME NEW j \in 1 .. Len(t), t[i] = t[j] PROVE i = j
    <3>1. j + 1 \in 1 .. Len(f) /\ t[j] = f[j + 1]
      BY <1>1, <1>7
    <3>2. i + 1 = j + 1
      BY Zenon, <1>2, <2>1, <2>2, <3>1
    <3> QED
      BY <3>2
  <2>3. t[i] # c
    <3>1. i + 1 # 1
      OBVIOUS
    <3> QED
      BY Zenon, <1>2, <1>3, <2>1, <3>1
  <2> QED
    BY Zenon, <1>2, <2>1, <2>2, <2>3
<1> QED
  BY Zenon, <1>3, <1>4, <1>5, <1>6, <1>7, <1>8 DEF f

(* A new REQ: an endpoint for it and the REQ on the listener's list.       *)
LEMMA ReqAcceptedStep ==
  ASSUME IInv, NEW n \in Node, NEW m \in Msg, ReqAccepted(n, m)
  PROVE  IInv'
<1> DEFINE l == CHOOSE c \in Listener(n) : TRUE
           c == Head(free_cid[n])
           t == Tail(free_cid[n])
           k == ReqCep(NextId(n, c), m)
           q == QueueMad(cep[n][l], {c})
<1>1. /\ c \in Cid /\ cep[n][c].state = "FREE" /\ c \notin handles[n]
      /\ cep[n][c].mad_list = <<>>
      /\ \A d \in Cid, i \in Nat : ~At(cep[n][d], i, c)
      /\ t \in Seq(Cid)
      /\ \A i \in 1 .. Len(t) :
            /\ t[i] # c /\ cep[n][t[i]].state = "FREE"
            /\ \A j \in 1 .. Len(t) : t[i] = t[j] => i = j
  BY Zenon, HeadIsFree DEF ReqAccepted
<1>2. Sound(k)
  BY Zenon, <1>1, NextIdType, ReqCepSound DEF IInv
<1>3. /\ k.bound /\ ~k.pfn_destroy_cb /\ k.state \in Fresh /\ k.mad_list = <<>>
  BY Zenon DEF ReqCep, NewCep, Fresh
<1>4. l \in Cid /\ cep[n][l].state = "LISTEN"
  BY Zenon DEF ReqAccepted, Listener
<1>5. l # c
  BY Zenon, <1>1, <1>4
<1>6. Sound(cep[n][l]) /\ cep[n][l] \in Cep
  BY Zenon, <1>4 DEF IInv, Sound
<1>7. Sound(q)
  <2>1. {c} \in Event
    BY Zenon, <1>1 DEF Event
  <2> QED
    BY Zenon, <1>4, <1>6, <2>1, QueueMadSound DEF Gone, Dying
<1>8. /\ q.bound = cep[n][l].bound /\ q.pfn_destroy_cb = cep[n][l].pfn_destroy_cb
      /\ q.state = "LISTEN"
      /\ q.mad_list = Append(cep[n][l].mad_list, {c})
  <2>1. cep[n][l].mad_list = <<>> => Append(cep[n][l].mad_list, {c}) = <<{c}>>
    OBVIOUS
  <2> QED
    BY Zenon, <1>4, <1>6, <2>1 DEF QueueMad, Cep
<1>9. /\ cep' = [cep EXCEPT ![n][c] = k, ![n][l] = q]
      /\ free_cid' = [free_cid EXCEPT ![n] = t]
      /\ issued' = [issued EXCEPT ![n] = @ + 1]
      /\ UNCHANGED <<handles, net, faults>>
  <2>1. cep' = [cep EXCEPT ![n][c] = k, ![n][l] = QueueMad(@, {c})]
    BY Zenon DEF ReqAccepted, ReqEvent
  <2>2. cep \in [Node -> [Cid -> Cep]]
    BY Zenon DEF IInv, TypeOK
  <2>3. [cep EXCEPT ![n][c] = k, ![n][l] = QueueMad(@, {c})]
          = [cep EXCEPT ![n][c] = k, ![n][l] = q]
    <3> HIDE DEF c, k, l
    <3> QED
      BY Zenon, <1>1, <1>4, <1>5, <2>2
  <2> QED
    BY Zenon, <2>1, <2>3 DEF ReqAccepted, Issue
<1> HIDE DEF l, c, t, k, q
<1>10. /\ cep'[n][c] = k /\ cep'[n][l] = q
       /\ \A o \in Node, d \in Cid :
            ~(o = n /\ d \in {c, l}) => cep'[o][d] = cep[o][d]
       /\ cep' \in [Node -> [Cid -> Cep]]
  BY Zenon, <1>1, <1>2, <1>4, <1>5, <1>7, <1>9 DEF IInv, TypeOK, Sound
<1>11. /\ free_cid'[n] = t
       /\ \A o \in Node \ {n} : free_cid'[o] = free_cid[o]
       /\ \A o \in Node : handles[o] \subseteq Cid /\ free_cid[o] \in Seq(Cid)
       /\ handles' = handles
  BY Zenon, <1>9 DEF IInv, TypeOK
<1>12. TypeOK'
  <2>1. free_cid' \in [Node -> Seq(Cid)] /\ issued' \in [Node -> Nat]
    BY <1>1, <1>9 DEF IInv, TypeOK
  <2> QED
    BY Zenon, <1>9, <1>10, <2>1 DEF IInv, TypeOK
<1>13. \A o \in Node, d \in Cid : Sound(cep'[o][d])
  BY Zenon, <1>2, <1>7, <1>10 DEF IInv
<1>14. \A o \in Node, d \in Cid : ~(o = n /\ d = c) =>
         /\ cep'[o][d].bound = cep[o][d].bound
         /\ cep'[o][d].pfn_destroy_cb = cep[o][d].pfn_destroy_cb
         /\ cep'[o][d].state = cep[o][d].state
  BY Zenon, <1>4, <1>8, <1>10
<1>15. Held'
  BY <1>1, <1>11, <1>14 DEF IInv, Held
<1>16. Queued'
  <2> DEFINE w == cep[n][l].mad_list
  <2>1. w \in Seq(Event) /\ Len(w) \in Nat
    BY <1>6 DEF Cep
  <2>2. ASSUME NEW o \in Node, NEW d \in Cid, NEW x \in Cid, NEW i \in Nat,
               At(cep'[o][d], i, x)
        PROVE  \/ o = n /\ d = l /\ x = c /\ i = Len(w) + 1
               \/ ~(o = n /\ x = c) /\ At(cep[o][d], i, x)
    <3>1. CASE o = n /\ d = c
      BY <1>3, <1>10, <2>2, <3>1 DEF At
    <3>2. CASE o = n /\ d = l
      <4>1. i \in 1 .. Len(Append(w, {c})) /\ x \in Append(w, {c})[i]
        BY Zenon, <1>8, <1>10, <2>2, <3>2 DEF At
      <4> HIDE DEF w
      <4>2. i \in 1 .. Len(w) + 1
        BY <2>1, <4>1
      <4>3. CASE i = Len(w) + 1
        <5>1. Append(w, {c})[i] = {c}
          BY <2>1, <4>3
        <5> QED
          BY Zenon, <3>2, <4>1, <4>3, <5>1
      <4>4. CASE i \in 1 .. Len(w)
        <5>1. x \in w[i]
          BY <2>1, <4>1, <4>4
        <5>2. At(cep[n][l], i, x)
          BY Zenon, <4>4, <5>1 DEF At, w
        <5> QED
          BY Zenon, <1>1, <1>4, <3>2, <5>2
      <4> QED
        BY SMTT(30), <2>1, <4>2, <4>3, <4>4
    <3>3. CASE ~(o = n /\ d \in {c, l})
      BY SMTT(30), <1>1, <1>10, <2>2, <3>3
    <3> QED
      BY Zenon, <3>1, <3>2, <3>3
  <2> SUFFICES ASSUME NEW o \in Node, NEW d \in Cid, NEW x \in Cid, NEW i \in Nat,
                      At(cep'[o][d], i, x)
               PROVE  /\ cep'[o][x].bound /\ ~cep'[o][x].pfn_destroy_cb
                      /\ x \notin handles[o] /\ cep'[o][x].state \in Fresh
                      /\ \A e \in Cid : \A j \in Nat :
                           At(cep'[o][e], j, x) => e = d /\ j = i
    BY <1>11 DEF Queued, At
  <2>3. CASE o = n /\ x = c
    <3>1. d = l /\ i = Len(w) + 1
      BY Zenon, <2>2, <2>3
    <3>2. \A e \in Cid : \A j \in Nat : At(cep'[o][e], j, x) => e = l /\ j = Len(w) + 1
      BY Zenon, <2>2, <2>3
    <3> QED
      BY Zenon, <1>1, <1>3, <1>10, <2>3, <3>1, <3>2
  <2>4. CASE ~(o = n /\ x = c)
    <3>1. At(cep[o][d], i, x)
      BY Zenon, <2>2, <2>4
    <3>2. /\ cep[o][x].bound /\ ~cep[o][x].pfn_destroy_cb
          /\ x \notin handles[o] /\ cep[o][x].state \in Fresh
          /\ \A e \in Cid : \A j \in Nat : At(cep[o][e], j, x) => e = d /\ j = i
      BY Zenon, <3>1 DEF IInv, Queued
    <3>3. \A e \in Cid : \A j \in Nat : At(cep'[o][e], j, x) => e = d /\ j = i
      BY Zenon, <2>2, <2>4, <3>2
    <3> QED
      BY Zenon, <1>14, <2>4, <3>2, <3>3
  <2> QED
    BY Zenon, <2>3, <2>4
<1>17. FreeList'
  <2> SUFFICES ASSUME NEW o \in Node, NEW i \in 1 .. Len(free_cid'[o])
               PROVE  /\ cep'[o][free_cid'[o][i]].state = "FREE"
                      /\ \A j \in 1 .. Len(free_cid'[o]) :
                           free_cid'[o][i] = free_cid'[o][j] => i = j
    BY Zenon DEF FreeList
  <2>1. CASE o = n
    <3>1. t[i] \in Cid
      BY SMTT(30), <1>1, <1>11, <2>1
    <3> QED
      BY <1>1, <1>14, <1>11, <2>1, <3>1
  <2>2. CASE o # n
    <3>1. free_cid[o][i] \in Cid
      BY <1>11, <2>2
    <3> QED
      BY <1>11, <1>14, <2>2, <3>1 DEF IInv, FreeList
  <2> QED
    BY Zenon, <2>1, <2>2
<1> QED
  BY Zenon, <1>12, <1>13, <1>15, <1>16, <1>17 DEF IInv

-----------------------------------------------------------------------------
(***************************************************************************)
(* The handlers of received MADs keep it: a handler finds its endpoint     *)
(* through the MAD's IDs, and either repeats its last reply or moves the   *)
(* endpoint on and queues the MAD for the user.                            *)
(***************************************************************************)
(* A handler that changes one endpoint, with or without an event.          *)
LEMMA HandlerStep ==
  ASSUME IInv, NEW n \in Node, NEW c \in Cid, NEW k,
         Sound(k), Steady(cep[n][c], k), Unaided(cep[n][c], k), Set(n, c, k),
         UNCHANGED <<free_cid, handles, net, issued, faults>>
  PROVE  IInv'
<1>1. net' \subseteq Msg /\ issued' \in [Node -> Nat] /\ faults' \in Nat
  BY Zenon DEF IInv, TypeOK
<1> QED
  BY Zenon, <1>1, Frame

(* A handler that moves an endpoint and tells its user.                    *)
LEMMA HandlerMoves ==
  ASSUME IInv, NEW n \in Node, NEW c \in Cid, NEW j,
         cep[n][c].state \notin Gone \cup Fresh, Moved(cep[n][c], j),
         Set(n, c, QueueMad(j, Plain)),
         UNCHANGED <<free_cid, handles, net, issued, faults>>
  PROVE  IInv'
<1>1. Sound(cep[n][c])
  BY Zenon DEF IInv
<1> DEFINE r == QueueMad(j, Plain)
<1>2. Sound(r) /\ Steady(cep[n][c], r) /\ Unaided(cep[n][c], r)
  BY Zenon, <1>1, MovedQueued
<1> QED
  BY Zenon, <1>2, HandlerStep

(* __repeat_mad.                                                           *)
LEMMA RepeatMadStep ==
  ASSUME IInv, NEW n \in Node, NEW c \in Cid, RepeatMad(n, c)
  PROVE  IInv'
<1>1. cep[n][c].mads \subseteq Msg /\ net \subseteq Msg
  BY DEF IInv, TypeOK, Cep
<1> QED
  BY Zenon, <1>1, FrameSend DEF RepeatMad, Send

(* __reject_req and __send_unaffiliated_drep.                              *)
LEMMA ReplyStep ==
  ASSUME IInv, NEW m \in Msg, NEW kind \in MadKinds, NEW w \in {"", "OTHER"},
         Send({Reply(m, kind, w)}),
         UNCHANGED <<cep, free_cid, handles, issued, faults>>
  PROVE  IInv'
<1>1. Reply(m, kind, w) \in Msg /\ net \subseteq Msg
  BY Zenon, ReplyType DEF IInv, TypeOK
<1> QED
  BY Zenon, <1>1, FrameSend DEF Send

(* __req_handler.                                                          *)
LEMMA ReqHandlerStep ==
  ASSUME IInv, NEW n \in Node, NEW m \in Msg, ReqHandler(n, m)
  PROVE  IInv'
<1>1. "REJ" \in MadKinds
  BY Zenon DEF MadKinds
<1>2. CASE ReqRepeated(n, m)
  <2>1. PICK c \in Cid :
          \/ RepeatMad(n, c)
          \/ /\ Send({Reply(m, "REJ", "OTHER")})
             /\ UNCHANGED <<cep, free_cid, handles, issued, faults>>
    BY Zenon, <1>2 DEF ReqRepeated, ById
  <2> QED
    BY Zenon, <1>1, <2>1, RepeatMadStep, ReplyStep
<1>3. CASE ReqRejected(n, m)
  BY Zenon, <1>1, <1>3, ReplyStep DEF ReqRejected
<1> QED
  BY Zenon, <1>2, <1>3, ReqAcceptedStep DEF ReqHandler

(* __mra_handler.                                                          *)
LEMMA MraHandlerStep ==
  ASSUME IInv, NEW n \in Node, NEW m \in Msg, MraHandler(n, m)
  PROVE  IInv'
<1>1. PICK c \in Cid :
        LET k == cep[n][c] IN
        /\ \/ m.what = "REQ" /\ k.state = "REQ_SENT"
           \/ m.what = "REP" /\ k.state = "REP_SENT"
           \/ m.what = "LAP" /\ k.state = "LAP_SENT"
        /\ Set(n, c, QueueMad(To(k, CASE m.what = "REQ" -> "REQ_MRA_RCVD"
                                      [] m.what = "REP" -> "REP_MRA_RCVD"
                                      [] m.what = "LAP" -> "LAP_MRA_RCVD"),
                              Plain))
        /\ UNCHANGED <<free_cid, handles, net, issued, faults>>
  BY Zenon DEF MraHandler
<1> DEFINE k == cep[n][c]
<1>2. k \in Cep /\ Local(k)
  BY Zenon DEF IInv, Sound
<1>3. ASSUME NEW s \in {"REQ_MRA_RCVD", "REP_MRA_RCVD", "LAP_MRA_RCVD"},
             k.state \in {"REQ_SENT", "REP_SENT", "LAP_SENT"},
             Set(n, c, QueueMad(To(k, s), Plain))
      PROVE  IInv'
  <2>1. To(k, s) \in Cep
    <3>1. s \in State
      BY Zenon DEF State, ReqSent, RepSent, LapSent
    <3> QED
      BY Zenon, <1>2, <3>1, HelperTypes
  <2>2. k.state \notin Gone \cup Fresh
    BY Zenon, <1>3 DEF Gone, Fresh, Dying
  <2>3. Moved(k, To(k, s))
    BY Zenon, <1>2, <1>3, <2>1 DEF Moved, To, Cep, Local, Gone, Dying, Awaiting, ReqSent, RepSent
  <2> QED
    BY Zenon, <1>1, <1>3, <2>2, <2>3, HandlerMoves
<1>4. CASE m.what = "REQ" /\ k.state = "REQ_SENT"
  BY Zenon, <1>1, <1>3, <1>4
<1>5. CASE m.what = "REP" /\ k.state = "REP_SENT"
  BY Zenon, <1>1, <1>3, <1>5
<1>6. CASE m.what = "LAP" /\ k.state = "LAP_SENT"
  BY Zenon, <1>1, <1>3, <1>6
<1> QED
  BY Zenon, <1>1, <1>4, <1>5, <1>6

(* __rej_handler.                                                          *)
LEMMA RejHandlerStep ==
  ASSUME IInv, NEW n \in Node, NEW m \in Msg, RejHandler(n, m)
  PROVE  IInv'
<1>1. PICK c \in Cid : /\ Set(n, c, ProcessRej(cep[n][c]))
                       /\ UNCHANGED <<free_cid, handles, net, issued, faults>>
  BY Zenon DEF RejHandler
<1>2. Sound(cep[n][c])
  BY Zenon DEF IInv
<1> QED
  BY Zenon, <1>1, <1>2, ProcessRejSound, HandlerStep

(* __rep_handler.                                                          *)
LEMMA RepHandlerStep ==
  ASSUME IInv, NEW n \in Node, NEW m \in Msg, RepHandler(n, m)
  PROVE  IInv'
<1>1. m.lid \in CommId /\ m.from \in Node /\ m.qpn \in Qpn \cup {0}
      /\ "REP_RCVD" \in State /\ NoId \in CommId
  BY Zenon, NoIdType DEF Msg, State, RepRcvd
<1>2. CASE RepAccepted(n, m)
  <2>1. PICK c \in Cid :
          /\ cep[n][c].state \in ReqSent
          /\ Set(n, c, QueueMad(CancelSend(RepCep(cep[n][c], m)), Plain))
          /\ UNCHANGED <<free_cid, handles, net, issued, faults>>
    BY Zenon, <1>2 DEF RepAccepted
  <2> DEFINE k == cep[n][c]
             j == CancelSend(RepCep(k, m))
  <2>2. k \in Cep /\ Local(k)
    BY DEF IInv, Sound
  <2>3. RepCep(k, m) \in Cep
    BY Zenon, <1>1, <2>2 DEF RepCep, Cep
  <2>4. j \in Cep
    BY Zenon, <2>3, HelperTypes
  <2>5. k.state \notin Gone \cup Fresh
    BY Zenon, <2>1 DEF Gone, Fresh, Dying, ReqSent
  <2>6. Moved(k, j)
    BY Zenon, <2>1, <2>2, <2>4 DEF Moved, RepCep, CancelSend, Cep, Local, Gone, Dying, Awaiting,
                            ReqSent, RepSent
  <2> QED
    BY Zenon, <2>1, <2>5, <2>6, HandlerMoves
<1>3. CASE RepStale(n, m)
  <2> DEFINE S(c) == [cep[n][c] EXCEPT !.remote_comm_id = NoId, !.remote_qpn = 0,
                                       !.remote_ca_guid = m.from]
  <2>1. PICK c \in Cid, out \in {"ok", "nomad"} :
          /\ cep[n][c].state \in ReqSent
          /\ Try(out)
          /\ Set(n, c, IF out = "ok" THEN ProcessRej(S(c)) ELSE S(c))
          /\ Send({Mad("REJ", n, S(c), 0, "OTHER")})
          /\ UNCHANGED <<free_cid, handles, issued>>
    BY Zenon, <1>3 DEF RepStale
  <2> DEFINE k == cep[n][c]
             j == S(c)
  <2>2. k \in Cep /\ Local(k) /\ Sound(k)
    BY Zenon DEF IInv, Sound
  <2>3. j \in Cep
    BY ZenonT(40), <1>1, <2>2 DEF Cep
  <2>4. k.state \notin Gone \cup Fresh /\ k.dst \in Node
    BY Zenon, <2>1, <2>2 DEF Gone, Fresh, Dying, ReqSent, Local
  <2>5. Moved(k, j) /\ j.dst \in Node
    BY Zenon, <2>1, <2>2, <2>3, <2>4 DEF Moved, Cep, Local, Gone, Dying, Awaiting, ReqSent
  <2> HIDE DEF S
  <2>6. Sound(j) /\ Steady(k, j) /\ Unaided(k, j)
    BY <2>2, <2>4, <2>5, MovedSound
  <2> DEFINE r == IF out = "ok" THEN ProcessRej(j) ELSE j
  <2>7. Sound(r) /\ Steady(k, r) /\ Unaided(k, r)
    <3>1. Sound(ProcessRej(j)) /\ Steady(j, ProcessRej(j)) /\ Unaided(j, ProcessRej(j))
      BY <2>6, ProcessRejSound
    <3>2. Steady(k, ProcessRej(j)) /\ Unaided(k, ProcessRej(j))
      BY <2>6, <3>1, SteadyTransitive DEF Unaided
    <3> QED
      BY <2>6, <3>1, <3>2
  <2>8. Mad("REJ", n, j, 0, "OTHER") \in Msg
    BY Zenon, <2>3, <2>5, MadType DEF MadKinds
  <2>9. net' \subseteq Msg /\ issued' \in [Node -> Nat] /\ faults' \in Nat
    BY <2>1, <2>8 DEF Send, Try, IInv, TypeOK
  <2> QED
    BY SMTT(30), <2>1, <2>7, <2>9, Frame
<1>4. CASE RepRepeated(n, m)
  BY SMTT(30), <1>4, RepeatMadStep DEF RepRepeated
<1> QED
  BY <1>2, <1>3, <1>4 DEF RepHandler

(* __rtu_handler and __apr_handler.                                        *)
LEMMA EstablishesStep ==
  ASSUME IInv, NEW n \in Node, NEW m \in Msg, RtuHandler(n, m) \/ AprHandler(n, m)
  PROVE  IInv'
<1>1. PICK c \in Cid :
        /\ cep[n][c].state \in RepSent \cup LapSent
        /\ Set(n, c, QueueMad(To(CancelSend(cep[n][c]), "ESTABLISHED"), Plain))
        /\ UNCHANGED <<free_cid, handles, net, issued, faults>>
  BY DEF RtuHandler, AprHandler
<1> DEFINE k == cep[n][c]
           j == To(CancelSend(k), "ESTABLISHED")
<1>2. k \in Cep /\ Local(k)
  BY DEF IInv, Sound
<1>3. j \in Cep
  BY ZenonT(40), <1>2, HelperTypes DEF State
<1>4. k.state \notin Gone \cup Fresh
  BY <1>1 DEF Gone, Fresh, Dying, RepSent, LapSent
<1>5. Moved(k, j)
  BY <1>1, <1>2, <1>3 DEF Moved, To, CancelSend, Cep, Local, Gone, Dying, Awaiting,
                          ReqSent, RepSent, LapSent
<1> QED
  BY SMTT(30), <1>1, <1>4, <1>5, HandlerMoves

(* __dreq_handler.                                                         *)
LEMMA DreqHandlerStep ==
  ASSUME IInv, NEW n \in Node, NEW m \in Msg, DreqHandler(n, m)
  PROVE  IInv'
<1>1. CASE DreqUnaffiliated(n, m)
  BY Zenon, <1>1, ReplyStep DEF DreqUnaffiliated, MadKinds
<1>2. CASE DreqAccepted(n, m)
  <2> DEFINE J(k) == To(IF k.state \in Connected THEN k ELSE CancelSend(k), "DREQ_RCVD")
  <2>1. PICK c \in Cid :
          /\ cep[n][c].state \in RepSent \cup {"DREQ_SENT"} \cup Connected
          /\ Set(n, c, QueueMad(J(cep[n][c]), Plain))
          /\ UNCHANGED <<free_cid, handles, net, issued, faults>>
    BY <1>2 DEF DreqAccepted
  <2> DEFINE k == cep[n][c]
             j == J(k)
  <2>2. k \in Cep /\ Local(k)
    BY DEF IInv, Sound
  <2>3. j \in Cep
    <3>1. "DREQ_RCVD" \in State
      BY DEF State
    <3>2. (IF k.state \in Connected THEN k ELSE CancelSend(k)) \in Cep
      BY SMTT(30), <2>2, HelperTypes
    <3> QED
      BY Zenon, <3>1, <3>2, HelperTypes
  <2>4. k.state \notin Gone \cup Fresh
    BY SMTT(30), <2>1 DEF Gone, Fresh, Dying, RepSent, Connected, LapSent, LapRcvd
  <2>5. k.dst \in Node /\ ~k.timewait_item
    BY Zenon, <2>1, <2>2 DEF Local, RepSent, Connected, LapSent, LapRcvd
  <2>6. /\ j.ref_cnt = k.ref_cnt /\ j.sends = k.sends /\ j.derefs = k.derefs
        /\ j.mad_list = k.mad_list /\ j.signalled = k.signalled
        /\ j.bound = k.bound /\ j.destroyed = k.destroyed
        /\ j.pfn_destroy_cb = k.pfn_destroy_cb /\ ~j.timewait_item
        /\ j.p_send_mad \in {0, k.p_send_mad} /\ j.dst \in Node /\ j.state = "DREQ_RCVD"
    BY SMTT(30), <2>2, <2>5 DEF To, CancelSend, Cep
  <2>7. Moved(k, j)
    BY ZenonT(40), <2>3, <2>6 DEF Moved, Gone, Dying, Awaiting, ReqSent, RepSent
  <2> HIDE DEF J
  <2> QED
    BY SMTT(30), <2>1, <2>4, <2>7, HandlerMoves
<1>3. CASE DreqRepeated(n, m)
  <2>1. PICK c \in Cid :
          \/ RepeatMad(n, c)
          \/ /\ cep[n][c].state = "DREQ_DESTROY"
             /\ Set(n, c, Keep(cep[n][c], Drep(n, cep[n][c])))
             /\ Send({Drep(n, cep[n][c])})
             /\ UNCHANGED <<free_cid, handles, issued, faults>>
    BY ZenonT(40), <1>3 DEF DreqRepeated
  <2> DEFINE k == cep[n][c]
             j == Keep(k, Drep(n, k))
  <2>2. CASE /\ k.state = "DREQ_DESTROY" /\ Set(n, c, j) /\ Send({Drep(n, k)})
             /\ UNCHANGED <<free_cid, handles, issued, faults>>
    <3>1. k \in Cep /\ Local(k)
      BY DEF IInv, Sound
    <3>2. Drep(n, k) \in Msg
      <4>1. k.dst \in Node
        BY <2>2, <3>1 DEF Local
      <4> QED
        BY ZenonT(40), <3>1, <4>1, MadType DEF Drep, MadKinds
    <3>3. j \in Cep
      BY ZenonT(40), <3>1, <3>2, HelperTypes
    <3>4. Local(j) /\ Steady(k, j) /\ Unaided(k, j)
      BY <3>1 DEF Keep, Cep, Local, Counted, Steady, Unaided, At
    <3>5. net' \subseteq Msg /\ issued' \in [Node -> Nat] /\ faults' \in Nat
      BY SMTT(30), <2>2, <3>2 DEF Send, IInv, TypeOK
    <3> QED
      BY ZenonT(40), <2>2, <3>3, <3>4, <3>5, Frame DEF Sound
  <2> QED
    BY ZenonT(40), <2>1, <2>2, RepeatMadStep
<1> QED
  BY <1>1, <1>2, <1>3 DEF DreqHandler

(* __drep_handler.                                                         *)
LEMMA DrepHandlerStep ==
  ASSUME IInv, NEW n \in Node, NEW m \in Msg, DrepHandler(n, m)
  PROVE  IInv'
<1>1. PICK c \in Cid :
        LET k == cep[n][c] IN
        /\ \/ /\ k.state = "DREQ_SENT"
              /\ Set(n, c, QueueMad(EnterTimewait(CancelSend(k), "TIMEWAIT"), Plain))
           \/ /\ k.state = "DREQ_DESTROY"
              /\ Set(n, c, EnterTimewait(CancelSend(k), "DESTROY"))
        /\ UNCHANGED <<free_cid, handles, net, issued, faults>>
  BY ZenonT(40) DEF DrepHandler
<1> DEFINE k == cep[n][c]
<1>2. k \in Cep /\ Local(k)
  BY DEF IInv, Sound
<1>3. CASE /\ k.state = "DREQ_SENT"
           /\ Set(n, c, QueueMad(EnterTimewait(CancelSend(k), "TIMEWAIT"), Plain))
  <2> DEFINE j == EnterTimewait(CancelSend(k), "TIMEWAIT")
  <2>1. j \in Cep
    BY Zenon, <1>2, HelperTypes DEF State
  <2>2. k.state \notin Gone \cup Fresh
    BY <1>3 DEF Gone, Fresh, Dying
  <2>3. Moved(k, j)
    BY SMTT(30), <1>2, <1>3, <2>1 DEF Moved, EnterTimewait, CancelSend, Cep, Local, Gone, Dying,
                            Awaiting, ReqSent, RepSent
  <2> QED
    BY <1>1, <1>3, <2>2, <2>3, HandlerMoves
<1>4. CASE /\ k.state = "DREQ_DESTROY"
           /\ Set(n, c, EnterTimewait(CancelSend(k), "DESTROY"))
  <2> DEFINE j == EnterTimewait(CancelSend(k), "DESTROY")
  <2>1. j \in Cep
    BY ZenonT(40), <1>2, HelperTypes DEF State, Dying
  <2>2. Local(j)
    BY <1>2, <1>4 DEF EnterTimewait, CancelSend, Cep, Local, Counted, Gone, Dying,
                      Awaiting, ReqSent, RepSent
  <2>3. Steady(k, j) /\ Unaided(k, j)
    BY SMTT(30), <1>2, <1>4 DEF EnterTimewait, CancelSend, Cep, Steady, Unaided, At, Fresh
  <2> QED
    BY Zenon, <1>1, <1>4, <2>1, <2>2, <2>3, HandlerStep DEF Sound
<1> QED
  BY ZenonT(40), <1>1, <1>3, <1>4

(* __lap_handler.                                                          *)
LEMMA LapHandlerStep ==
  ASSUME IInv, NEW n \in Node, NEW m \in Msg, LapHandler(n, m)
  PROVE  IInv'
<1>1. PICK c \in Cid :
        \/ /\ cep[n][c].state \in RepSent \cup {"ESTABLISHED"}
           /\ Set(n, c, QueueMad(To(cep[n][c], "LAP_RCVD"), Plain))
           /\ UNCHANGED <<free_cid, handles, net, issued, faults>>
        \/ RepeatMad(n, c)
  BY ZenonT(40) DEF LapHandler
<1> DEFINE k == cep[n][c]
           j == To(k, "LAP_RCVD")
<1>2. CASE /\ k.state \in RepSent \cup {"ESTABLISHED"}
           /\ Set(n, c, QueueMad(j, Plain))
           /\ UNCHANGED <<free_cid, handles, net, issued, faults>>
  <2>1. k \in Cep /\ Local(k)
    BY DEF IInv, Sound
  <2>2. j \in Cep
    BY Zenon, <2>1, HelperTypes DEF State, LapRcvd
  <2>3. k.state \notin Gone \cup Fresh
    BY SMTT(30), <1>2 DEF Gone, Fresh, Dying, RepSent
  <2>4. Moved(k, j)
    BY SMTT(30), <1>2, <2>1, <2>2 DEF Moved, To, Cep, Local, Gone, Dying, Awaiting, ReqSent, RepSent
  <2> QED
    BY <1>2, <2>3, <2>4, HandlerMoves
<1> QED
  BY <1>1, <1>2, RepeatMadStep

(* A received MAD keeps the invariant.                                     *)
LEMMA ReceiveStep ==
  ASSUME IInv, NEW n \in Node, Receive(n)
  PROVE  IInv'
<1>1. PICK m \in net :
        \/ ReqHandler(n, m)  \/ MraHandler(n, m)  \/ RejHandler(n, m)
        \/ RepHandler(n, m)  \/ RtuHandler(n, m)  \/ DreqHandler(n, m)
        \/ DrepHandler(n, m) \/ LapHandler(n, m)  \/ AprHandler(n, m)
  BY DEF Receive
<1>2. m \in Msg
  BY DEF IInv, TypeOK
<1> QED
  BY SMTT(30), <1>1, <1>2, ReqHandlerStep, MraHandlerStep, RejHandlerStep, RepHandlerStep,
     EstablishesStep, DreqHandlerStep, DrepHandlerStep, LapHandlerStep
=============================================================================
