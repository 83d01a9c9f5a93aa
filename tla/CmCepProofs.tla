----------------------------- MODULE CmCepProofs -----------------------------
(***************************************************************************)
(* The API calls and the internal steps keep the invariant of CmCepLemmas, *)
(* and the theorems that follow: type correctness and five invariants of   *)
(* the communication manager, for any number of nodes, endpoints, sends    *)
(* and failures.                                                           *)
(***************************************************************************)
EXTENDS CmCepLemmas

-----------------------------------------------------------------------------
(***************************************************************************)
(* The steps that hand an endpoint from one owner to another.              *)
(***************************************************************************)
(* al_create_cep.                                                          *)
LEMMA CreateStep ==
  ASSUME IInv, NEW n \in Node, Create(n)
  PROVE  IInv'
<1> DEFINE c == Head(free_cid[n])
           t == Tail(free_cid[n])
           k == [NewCep(NextId(n, c)) EXCEPT !.bound = TRUE, !.pfn_destroy_cb = TRUE]
<1>1. /\ c \in Cid /\ cep[n][c].state = "FREE" /\ c \notin handles[n]
      /\ cep[n][c].mad_list = <<>>
      /\ \A d \in Cid, i \in Nat : ~At(cep[n][d], i, c)
      /\ t \in Seq(Cid)
      /\ \A i \in 1 .. Len(t) :
            /\ t[i] # c /\ cep[n][t[i]].state = "FREE"
            /\ \A j \in 1 .. Len(t) : t[i] = t[j] => i = j
  BY HeadIsFree DEF Create
<1>2. NextId(n, c) \in CommId
  BY SMTT(30), <1>1, NextIdType DEF IInv
<1>3. Sound(k) /\ k.bound /\ k.mad_list = <<>>
  BY Zenon, <1>2, NewSound DEF NewCep
<1>4. /\ cep' = [cep EXCEPT ![n][c] = k]
      /\ handles' = [handles EXCEPT ![n] = @ \cup {c}]
      /\ free_cid' = [free_cid EXCEPT ![n] = t]
      /\ issued' = [issued EXCEPT ![n] = @ + 1]
      /\ UNCHANGED <<net, faults>>
  BY DEF Create, Set, Issue
<1> HIDE DEF c, t, k
<1>5. TypeOK'
  BY <1>1, <1>3, <1>4 DEF IInv, TypeOK, Sound
<1>6. /\ cep'[n][c] = k
      /\ \A o \in Node, d \in Cid : <<o, d>> # <<n, c>> => cep'[o][d] = cep[o][d]
  BY <1>1, <1>4 DEF IInv, TypeOK
<1>7. /\ handles'[n] = handles[n] \cup {c} /\ free_cid'[n] = t
      /\ \A o \in Node \ {n} : handles'[o] = handles[o] /\ free_cid'[o] = free_cid[o]
      /\ \A o \in Node : handles[o] \subseteq Cid /\ free_cid[o] \in Seq(Cid)
  BY <1>4 DEF IInv, TypeOK
<1>8. \A o \in Node, d \in Cid : Sound(cep'[o][d])
  BY <1>3, <1>6 DEF IInv
<1>9. Held'
  <2> SUFFICES ASSUME NEW o \in Node, NEW d \in handles'[o] PROVE cep'[o][d].bound
    BY DEF Held
  <2>1. CASE o = n /\ d = c
    BY <1>3, <1>6, <2>1
  <2>2. CASE ~(o = n /\ d = c)
    <3>1. d \in handles[o] /\ d \in Cid
      BY <1>7, <2>2
    <3> QED
      BY <1>6, <2>2, <3>1 DEF IInv, Held
  <2> QED
    BY <2>1, <2>2
<1>10. Queued'
  <2>1. ASSUME NEW o \in Node, NEW d \in Cid, NEW x \in Cid, NEW i \in Nat,
               At(cep'[o][d], i, x)
        PROVE  At(cep[o][d], i, x) /\ ~(o = n /\ x = c) /\ cep'[o][x] = cep[o][x]
    <3>1. CASE o = n /\ d = c
      BY <1>3, <1>6, <2>1, <3>1 DEF At
    <3>2. CASE ~(o = n /\ d = c)
      BY <1>1, <1>6, <2>1, <3>2
    <3> QED
      BY <3>1, <3>2
  <2> SUFFICES ASSUME NEW o \in Node, NEW d \in Cid, NEW x \in Cid, NEW i \in Nat,
                      At(cep'[o][d], i, x)
               PROVE  /\ cep'[o][x].bound /\ ~cep'[o][x].pfn_destroy_cb
                      /\ x \notin handles'[o] /\ cep'[o][x].state \in Fresh
                      /\ \A e \in Cid : \A j \in Nat :
                           At(cep'[o][e], j, x) => e = d /\ j = i
    BY DEF Queued, At
  <2>2. At(cep[o][d], i, x) /\ ~(o = n /\ x = c) /\ cep'[o][x] = cep[o][x]
    BY <2>1
  <2>3. /\ cep[o][x].bound /\ ~cep[o][x].pfn_destroy_cb
        /\ x \notin handles[o] /\ cep[o][x].state \in Fresh
        /\ \A e \in Cid : \A j \in Nat : At(cep[o][e], j, x) => e = d /\ j = i
    BY <2>2 DEF IInv, Queued
  <2>4. x \notin handles'[o]
    BY <1>7, <2>2, <2>3
  <2>5. \A e \in Cid : \A j \in Nat : At(cep'[o][e], j, x) => e = d /\ j = i
    BY <2>1, <2>3
  <2> QED
    BY <2>2, <2>3, <2>4, <2>5
<1>11. FreeList'
  <2> SUFFICES ASSUME NEW o \in Node, NEW i \in 1 .. Len(free_cid'[o])
               PROVE  /\ cep'[o][free_cid'[o][i]].state = "FREE"
                      /\ \A j \in 1 .. Len(free_cid'[o]) :
                           free_cid'[o][i] = free_cid'[o][j] => i = j
    BY DEF FreeList
  <2>1. CASE o = n
    <3>1. t[i] \in Cid
      BY <1>1, <1>7, <2>1
    <3> QED
      BY <1>1, <1>6, <1>7, <2>1, <3>1
  <2>2. CASE o # n
    <3>1. free_cid[o][i] \in Cid
      BY <1>7, <2>2
    <3> QED
      BY SMTT(30), <1>6, <1>7, <2>2, <3>1 DEF IInv, FreeList
  <2> QED
    BY <2>1, <2>2
<1> QED
  BY SMTT(30), <1>5, <1>8, <1>9, <1>10, <1>11 DEF IInv

(***************************************************************************)
(* __cleanup_mad_list, and the endpoint it is called for: the endpoints    *)
(* that wait on its list are destroyed with it.                            *)
(***************************************************************************)
LEMMA CleanupStep ==
  ASSUME IInv, NEW n \in Node, NEW c \in handles[n], NEW k,
         Sound(k), k.mad_list = <<>>, k.state # "FREE",
         cep' = [cep EXCEPT ![n] = [CleanupMadList(n, c) EXCEPT ![c] = k]],
         \/ handles' = handles /\ k.bound
         \/ handles' = [handles EXCEPT ![n] = @ \ {c}],
         net' \subseteq Msg, faults' \in Nat, UNCHANGED <<free_cid, issued>>
  PROVE  IInv'
<1>1. c \in Cid /\ cep \in [Node -> [Cid -> Cep]]
  BY DEF IInv, TypeOK
<1>2. ASSUME NEW d \in Cid
      PROVE  d \in Waiting(n, c) <=> \E i \in Nat : At(cep[n][c], i, d)
  <2>1. cep[n][c].mad_list \in Seq(Event)
    BY <1>1 DEF Cep
  <2> QED
    BY <2>1 DEF Waiting, At
<1>3. ASSUME NEW d \in Cid, d \in Waiting(n, c)
      PROVE  /\ cep[n][d].bound /\ ~cep[n][d].pfn_destroy_cb /\ d \notin handles[n]
             /\ cep[n][d].state \in Fresh
             /\ \A e \in Cid, j \in Nat : At(cep[n][e], j, d) => e = c
  <2>1. PICK i \in Nat : At(cep[n][c], i, d)
    BY <1>2, <1>3
  <2> QED
    BY <1>1, <2>1 DEF IInv, Queued
<1>4. ASSUME NEW d \in Cid, d \in Waiting(n, c)
      PROVE  LET r == CleanupCep(n, Unbind(cep[n][d]), "ok")
             IN  Sound(r) /\ r.mad_list = <<>> /\ r.state # "FREE"
  <2>1. /\ Sound(cep[n][d]) /\ cep[n][d].state \notin Gone \cup Connected \cup PreApr
        /\ ~cep[n][d].pfn_destroy_cb
    BY <1>3, <1>4 DEF IInv, Fresh, Gone, Dying, Connected, PreApr, LapSent, LapRcvd
  <2> QED
    BY <2>1, CleanupSound
<1>5. c \notin Waiting(n, c)
  BY <1>1, <1>3
<1>6. /\ cep'[n][c] = k
      /\ \A d \in Waiting(n, c) : d \in Cid =>
            cep'[n][d] = CleanupCep(n, Unbind(cep[n][d]), "ok")
      /\ \A o \in Node, d \in Cid :
            ~(o = n /\ d \in Waiting(n, c) \cup {c}) => cep'[o][d] = cep[o][d]
  BY <1>1, <1>5 DEF CleanupMadList
<1>7. \A o \in Node, d \in Cid : Sound(cep'[o][d])
  <2> TAKE o \in Node, d \in Cid
  <2>1. CASE o = n /\ d \in Waiting(n, c)
    BY <1>4, <1>6, <2>1
  <2>2. CASE o = n /\ d = c
    BY <1>6, <2>2
  <2>3. CASE ~(o = n /\ d \in Waiting(n, c) \cup {c})
    BY <1>6, <2>3 DEF IInv
  <2> QED
    BY <2>1, <2>2, <2>3
<1>8. TypeOK'
  <2>1. cep' \in [Node -> [Cid -> Cep]]
    <3>1. \A o \in Node, d \in Cid : cep'[o][d] \in Cep
      BY <1>7 DEF Sound
    <3>2. \A o \in Node : DOMAIN cep'[o] = Cid /\ cep'[o] = [d \in Cid |-> cep'[o][d]]
      BY Zenon, <1>1 DEF CleanupMadList
    <3>3. cep' = [o \in Node |-> cep'[o]]
      BY Zenon, <1>1
    <3> QED
      BY Zenon, <3>1, <3>2, <3>3
  <2>2. handles' \in [Node -> SUBSET Cid]
    BY Zenon DEF IInv, TypeOK
  <2> QED
    BY <2>1, <2>2 DEF IInv, TypeOK
<1>9. /\ \A o \in Node : handles'[o] \subseteq handles[o]
      /\ c \in handles'[n] => k.bound
  BY Zenon DEF IInv, TypeOK
<1>10. Held'
  <2> SUFFICES ASSUME NEW o \in Node, NEW d \in handles'[o] PROVE cep'[o][d].bound
    BY DEF Held
  <2>1. d \in handles[o] /\ d \in Cid
    BY <1>9 DEF IInv, TypeOK
  <2>2. CASE o = n /\ d = c
    BY SMTT(30), <1>6, <1>9, <2>2
  <2>3. CASE ~(o = n /\ d = c)
    <3>1. cep'[o][d] = cep[o][d]
      BY SMTT(30), <1>3, <1>6, <2>1, <2>3
    <3> QED
      BY SMTT(30), <2>1, <3>1 DEF IInv, Held
  <2> QED
    BY <2>2, <2>3
<1>11. Queued'
  <2>1. ASSUME NEW o \in Node, NEW d \in Cid, NEW x \in Cid, NEW i \in Nat,
               At(cep'[o][d], i, x)
        PROVE  At(cep[o][d], i, x) /\ cep'[o][x] = cep[o][x]
    <3>1. CASE o = n /\ d \in Waiting(n, c) \cup {c}
      <4>1. cep'[o][d].mad_list = <<>>
        BY SMTT(30), <1>4, <1>6, <3>1
      <4> QED
        BY <2>1, <4>1 DEF At
    <3>2. CASE ~(o = n /\ d \in Waiting(n, c) \cup {c})
      <4>1. At(cep[o][d], i, x)
        BY SMTT(30), <1>6, <2>1, <3>2
      <4>2. x \notin handles[o]
        BY <4>1 DEF IInv, Queued
      <4>3. ~(o = n /\ x \in Waiting(n, c))
        BY SMTT(30), <1>3, <3>2, <4>1
      <4> QED
        BY SMTT(30), <1>6, <4>1, <4>2, <4>3
    <3> QED
      BY SMTT(30), <3>1, <3>2
  <2> SUFFICES ASSUME NEW o \in Node, NEW d \in Cid, NEW x \in Cid, NEW i \in Nat,
                      At(cep'[o][d], i, x)
               PROVE  /\ cep'[o][x].bound /\ ~cep'[o][x].pfn_destroy_cb
                      /\ x \notin handles'[o] /\ cep'[o][x].state \in Fresh
                      /\ \A e \in Cid : \A j \in Nat :
                           At(cep'[o][e], j, x) => e = d /\ j = i
    BY DEF Queued, At
  <2>2. At(cep[o][d], i, x) /\ cep'[o][x] = cep[o][x]
    BY SMTT(30), <2>1
  <2>3. /\ cep[o][x].bound /\ ~cep[o][x].pfn_destroy_cb
        /\ x \notin handles[o] /\ cep[o][x].state \in Fresh
        /\ \A e \in Cid : \A j \in Nat : At(cep[o][e], j, x) => e = d /\ j = i
    BY SMTT(30), <2>2 DEF IInv, Queued
  <2>4. \A e \in Cid : \A j \in Nat : At(cep'[o][e], j, x) => e = d /\ j = i
    BY SMTT(30), <2>1, <2>3
  <2> QED
    BY SMTT(30), <1>9, <2>2, <2>3, <2>4
<1>12. FreeList'
  <2> SUFFICES ASSUME NEW o \in Node, NEW i \in 1 .. Len(free_cid[o])
               PROVE  /\ cep'[o][free_cid[o][i]].state = "FREE"
                      /\ \A j \in 1 .. Len(free_cid[o]) :
                           free_cid[o][i] = free_cid[o][j] => i = j
    BY DEF FreeList
  <2> DEFINE d == free_cid[o][i]
  <2>1. d \in Cid
    BY SMTT(30) DEF IInv, TypeOK
  <2>2. cep[o][d].state = "FREE" /\ ~cep[o][d].bound
    BY SMTT(30), <2>1 DEF IInv, FreeList, Sound, Local, Gone
  <2>3. ~(o = n /\ d \in Waiting(n, c) \cup {c})
    BY <1>3, <2>1, <2>2 DEF IInv, Held
  <2> QED
    BY SMTT(30), <1>6, <2>1, <2>2, <2>3 DEF IInv, FreeList
<1> QED
  BY <1>7, <1>8, <1>10, <1>11, <1>12 DEF IInv

(* al_cep_poll: an endpoint that came with a REQ passes to the user.       *)
LEMMA PollStep ==
  ASSUME IInv, NEW n \in Node, NEW c \in Cid, Poll(n, c)
  PROVE  IInv'
<1> DEFINE k == cep[n][c]
           w == k.mad_list
<1>1. /\ Sound(k) /\ k \in Cep /\ Local(k) /\ w \in Seq(Event) /\ c \in handles[n]
      /\ cep \in [Node -> [Cid -> Cep]]
  BY Zenon DEF IInv, TypeOK, Sound, Poll, Call, Cep
<1>2. UNCHANGED <<free_cid, net, issued, faults>> /\ net \subseteq Msg
      /\ issued \in [Node -> Nat] /\ faults \in Nat
  BY DEF Poll, IInv, TypeOK
<1>3. CASE w = <<>> /\ Set(n, c, [k EXCEPT !.signalled = FALSE]) /\ UNCHANGED handles
  <2> DEFINE j == [k EXCEPT !.signalled = FALSE]
  <2>1. j \in Cep
    BY Zenon, <1>1 DEF Cep
  <2>2. Local(j) /\ Steady(k, j)
    BY <1>1, <1>3 DEF Local, Counted, Steady, At, Cep
  <2> QED
    BY <1>1, <1>2, <1>3, <2>1, <2>2, Frame DEF Sound
<1>4. CASE /\ w # <<>> /\ Set(n, c, [k EXCEPT !.mad_list = Tail(@)])
           /\ handles' = [handles EXCEPT ![n] = @ \cup Head(w)]
  <2> DEFINE j == [k EXCEPT !.mad_list = Tail(@)]
             h == Head(w)
             t == Tail(w)
  <2>1. t \in Seq(Event) /\ Len(t) = Len(w) - 1 /\ Len(w) \in Nat \ {0} /\ h = w[1]
        /\ h \subseteq Cid /\ \A i \in 1 .. Len(t) : t[i] = w[i + 1]
    BY <1>1, <1>4 DEF Event
  <2>2. j \in Cep
    <3>1. ASSUME NEW x \in Seq(Event) PROVE [k EXCEPT !.mad_list = x] \in Cep
      BY Zenon, <1>1 DEF Cep
    <3> QED
      BY Zenon, <2>1, <3>1
  <2>3. /\ j.mad_list = t /\ j.bound = k.bound /\ j.state = k.state
        /\ j.pfn_destroy_cb = k.pfn_destroy_cb
    BY <1>1 DEF Cep
  <2>4. Local(j)
    <3>1. k.signalled /\ k.state # "FREE"
      BY <1>1, <1>4 DEF Local
    <3> QED
      BY <1>1, <3>1 DEF Local, Counted, Cep
  <2> HIDE DEF j, h, t
  <2>5. /\ cep'[n][c] = j
        /\ \A o \in Node, d \in Cid : ~(o = n /\ d = c) => cep'[o][d] = cep[o][d]
        /\ cep' \in [Node -> [Cid -> Cep]]
    BY Zenon, <1>1, <1>4, <2>2 DEF Set, j
  <2>6. /\ handles'[n] = handles[n] \cup h
        /\ \A o \in Node \ {n} : handles'[o] = handles[o]
        /\ handles' \in [Node -> SUBSET Cid]
    BY <1>4, <2>1 DEF IInv, TypeOK, h
  <2>7. \A o \in Node, d \in Cid :
          /\ cep'[o][d].bound = cep[o][d].bound
          /\ cep'[o][d].pfn_destroy_cb = cep[o][d].pfn_destroy_cb
          /\ cep'[o][d].state = cep[o][d].state
    BY <2>3, <2>5
  <2>8. TypeOK'
    BY <1>2, <2>5, <2>6 DEF IInv, TypeOK
  <2>9. \A o \in Node, d \in Cid : Sound(cep'[o][d])
    BY <2>2, <2>4, <2>5 DEF IInv, Sound
  <2>10. \A x \in h : x \in Cid /\ At(k, 1, x)
    BY <2>1 DEF At
  <2>11. Held'
    <3> SUFFICES ASSUME NEW o \in Node, NEW d \in handles'[o] PROVE cep'[o][d].bound
      BY DEF Held
    <3>1. d \in Cid
      BY <2>6
    <3>2. CASE d \in handles[o]
      BY SMTT(30), <2>7, <3>1, <3>2 DEF IInv, Held
    <3>3. CASE o = n /\ d \in h
      <4>1. At(cep[n][c], 1, d)
        BY SMTT(30), <2>10, <3>3
      <4>2. cep[n][d].bound
        BY SMTT(30), <3>1, <4>1 DEF IInv, Queued
      <4> QED
        BY SMTT(30), <2>7, <3>1, <3>3, <4>2
    <3> QED
      BY <2>6, <3>2, <3>3
  <2>12. Queued'
    <3>1. ASSUME NEW o \in Node, NEW d \in Cid, NEW x \in Cid, NEW i \in Nat,
                 At(cep'[o][d], i, x)
          PROVE  /\ o = n /\ d = c => At(cep[o][d], i + 1, x)
                 /\ ~(o = n /\ d = c) => At(cep[o][d], i, x)
      <4>1. CASE o = n /\ d = c
        <5>1. i \in 1 .. Len(t) /\ x \in t[i]
          BY SMTT(30), <2>3, <2>5, <3>1, <4>1 DEF At
        <5>2. i + 1 \in 1 .. Len(w) /\ x \in w[i + 1]
          BY SMTT(30), <2>1, <5>1
        <5> QED
          BY <4>1, <5>2 DEF At
      <4>2. CASE ~(o = n /\ d = c)
        BY <2>5, <3>1, <4>2
      <4> QED
        BY SMTT(30), <4>1, <4>2
    <3> SUFFICES ASSUME NEW o \in Node, NEW d \in Cid, NEW x \in Cid, NEW i \in Nat,
                        At(cep'[o][d], i, x)
                 PROVE  /\ cep'[o][x].bound /\ ~cep'[o][x].pfn_destroy_cb
                        /\ x \notin handles'[o] /\ cep'[o][x].state \in Fresh
                        /\ \A e \in Cid : \A g \in Nat :
                             At(cep'[o][e], g, x) => e = d /\ g = i
      BY DEF Queued, At
    <3> DEFINE b == IF o = n /\ d = c THEN i + 1 ELSE i
    <3>2. b \in Nat /\ At(cep[o][d], b, x) /\ i \in Nat \ {0}
      <4>1. i \in Nat \ {0}
        BY SMTT(30) DEF At
      <4> QED
        BY <3>1, <4>1
    <3> HIDE DEF b
    <3>3. /\ cep[o][x].bound /\ ~cep[o][x].pfn_destroy_cb
          /\ x \notin handles[o] /\ cep[o][x].state \in Fresh
          /\ \A e \in Cid : \A g \in Nat : At(cep[o][e], g, x) => e = d /\ g = b
      BY Zenon, <3>2 DEF IInv, Queued
    <3>4. x \notin handles'[o]
      <4>1. o = n => x \notin h
        <5> SUFFICES ASSUME o = n, x \in h PROVE FALSE
          BY Zenon
        <5>1. At(cep[n][c], 1, x)
          BY Zenon, <2>10
        <5>2. d = c /\ b = 1
          BY Zenon, <3>3, <5>1
        <5> QED
          BY <3>2, <5>2 DEF b
      <4> QED
        BY Zenon, <2>6, <3>3, <4>1
    <3>5. ASSUME NEW e \in Cid, NEW g \in Nat, At(cep'[o][e], g, x)
          PROVE  e = d /\ g = i
      <4>1. CASE o = n /\ e = c
        BY SMTT(30), <3>1, <3>3, <3>5, <4>1 DEF b
      <4>2. CASE ~(o = n /\ e = c)
        BY Zenon, <3>1, <3>3, <3>5, <4>2 DEF b
      <4> QED
        BY Zenon, <4>1, <4>2
    <3> QED
      BY Zenon, <2>7, <3>3, <3>4, <3>5
  <2>13. FreeList'
    BY SMTT(30), <1>2, <2>7 DEF IInv, FreeList, TypeOK
  <2> QED
    BY Zenon, <2>8, <2>9, <2>11, <2>12, <2>13 DEF IInv
<1> QED
  BY Zenon, <1>3, <1>4 DEF Poll

(* __process_timewait: the endpoint's CID goes back to the free list.      *)
LEMMA TimewaitExpiredStep ==
  ASSUME IInv, NEW n \in Node, NEW c \in Cid, TimewaitExpired(n, c)
  PROVE  IInv'
<1> DEFINE k == cep[n][c]
           r == DestroyCep(RemoveCep(k))
           f == <<c>> \o free_cid[n]
<1>1. Sound(k) /\ k.timewait_item /\ k.ref_cnt = 0
  BY Zenon DEF IInv, TimewaitExpired
<1>2. /\ k.state = "DESTROY" /\ ~k.bound
      /\ Sound(r) /\ r.state = "FREE" /\ r.mad_list = <<>>
  BY Zenon, <1>1, ExpiredSound
<1>3. /\ Set(n, c, r) /\ free_cid' = [free_cid EXCEPT ![n] = f]
      /\ UNCHANGED <<handles, net, issued, faults>>
  BY Zenon, <1>2 DEF TimewaitExpired
<1> HIDE DEF r
<1>4. /\ cep'[n][c] = r
      /\ \A o \in Node, d \in Cid : ~(o = n /\ d = c) => cep'[o][d] = cep[o][d]
      /\ cep' \in [Node -> [Cid -> Cep]]
  BY Zenon, <1>2, <1>3 DEF Set, IInv, TypeOK, Sound
<1>5. free_cid[n] \in Seq(Cid)
  BY Zenon DEF IInv, TypeOK
<1>6. /\ f \in Seq(Cid) /\ Len(f) = Len(free_cid[n]) + 1 /\ f[1] = c
      /\ \A i \in 2 .. Len(f) : f[i] = free_cid[n][i - 1]
      /\ Len(free_cid[n]) \in Nat
  BY <1>5
<1> HIDE DEF f
<1>7. TypeOK'
  BY Zenon, <1>3, <1>4, <1>6 DEF IInv, TypeOK
<1>8. \A o \in Node, d \in Cid : Sound(cep'[o][d])
  BY Zenon, <1>2, <1>4 DEF IInv
<1>9. Held'
  <2> SUFFICES ASSUME NEW o \in Node, NEW d \in handles[o] PROVE cep'[o][d].bound
    BY Zenon, <1>3 DEF Held
  <2>1. d \in Cid /\ cep[o][d].bound
    BY Zenon DEF IInv, TypeOK, Held
  <2> QED
    BY Zenon, <1>2, <1>4, <2>1
<1>10. Queued'
  <2>1. ASSUME NEW o \in Node, NEW d \in Cid, NEW x \in Cid, NEW i \in Nat,
               At(cep'[o][d], i, x)
        PROVE  At(cep[o][d], i, x) /\ cep'[o][x] = cep[o][x]
    <3>1. CASE o = n /\ d = c
      BY SMTT(30), <1>2, <1>4, <2>1, <3>1 DEF At
    <3>2. CASE ~(o = n /\ d = c)
      <4>1. At(cep[o][d], i, x)
        BY Zenon, <1>4, <2>1, <3>2
      <4>2. cep[o][x].bound
        BY Zenon, <4>1 DEF IInv, Queued
      <4> QED
        BY Zenon, <1>2, <1>4, <4>1, <4>2
    <3> QED
      BY Zenon, <3>1, <3>2
  <2> SUFFICES ASSUME NEW o \in Node, NEW d \in Cid, NEW x \in Cid, NEW i \in Nat,
                      At(cep'[o][d], i, x)
               PROVE  /\ cep'[o][x].bound /\ ~cep'[o][x].pfn_destroy_cb
                      /\ x \notin handles[o] /\ cep'[o][x].state \in Fresh
                      /\ \A e \in Cid : \A j \in Nat :
                           At(cep'[o][e], j, x) => e = d /\ j = i
    BY <1>3 DEF Queued, At
  <2>2. At(cep[o][d], i, x) /\ cep'[o][x] = cep[o][x]
    BY Zenon, <2>1
  <2>3. /\ cep[o][x].bound /\ ~cep[o][x].pfn_destroy_cb
        /\ x \notin handles[o] /\ cep[o][x].state \in Fresh
        /\ \A e \in Cid : \A j \in Nat : At(cep[o][e], j, x) => e = d /\ j = i
    BY Zenon, <2>2 DEF IInv, Queued
  <2>4. \A e \in Cid : \A j \in Nat : At(cep'[o][e], j, x) => e = d /\ j = i
    BY Zenon, <2>1, <2>3
  <2> QED
    BY Zenon, <2>2, <2>3, <2>4
<1>11. FreeList'
  <2> SUFFICES ASSUME NEW o \in Node, NEW i \in 1 .. Len(free_cid'[o])
               PROVE  /\ cep'[o][free_cid'[o][i]].state = "FREE"
                      /\ \A j \in 1 .. Len(free_cid'[o]) :
                           free_cid'[o][i] = free_cid'[o][j] => i = j
    BY Zenon DEF FreeList
  <2>1. \A g \in 1 .. Len(free_cid[o]) :
          /\ free_cid[o][g] \in Cid /\ cep[o][free_cid[o][g]].state = "FREE"
          /\ \A j \in 1 .. Len(free_cid[o]) : free_cid[o][g] = free_cid[o][j] => g = j
    BY DEF IInv, FreeList, TypeOK
  <2>2. CASE o # n
    <3>1. free_cid'[o] = free_cid[o]
      BY Zenon, <1>3, <2>2 DEF IInv, TypeOK
    <3> QED
      BY <1>4, <2>1, <2>2, <3>1
  <2>3. CASE o = n
    <3>1. free_cid'[n] = f
      BY Zenon, <1>3 DEF IInv, TypeOK
    <3>2. \A g \in 2 .. Len(f) :
            /\ g - 1 \in 1 .. Len(free_cid[n]) /\ f[g] = free_cid[n][g - 1]
            /\ f[g] \in Cid /\ cep[n][f[g]].state = "FREE" /\ f[g] # c
      <4> TAKE g \in 2 .. Len(f)
      <4>1. g - 1 \in 1 .. Len(free_cid[n]) /\ f[g] = free_cid[n][g - 1]
        BY <1>6
      <4> QED
        BY Zenon, <1>2, <2>1, <2>3, <4>1
    <3>3. \A g, j \in 2 .. Len(f) : f[g] = f[j] => g = j
      <4> TAKE g, j \in 2 .. Len(f)
      <4> HAVE f[g] = f[j]
      <4>1. g - 1 = j - 1
        BY SMTT(30), <2>1, <2>3, <3>2
      <4> QED
        BY <4>1
    <3>4. \A g \in 1 .. Len(f) : g = 1 \/ g \in 2 .. Len(f)
      BY <1>6
    <3>5. i \in 1 .. Len(f)
      BY Zenon, <2>3, <3>1
    <3>6. cep'[n][f[i]].state = "FREE"
      <4>1. CASE i = 1
        BY Zenon, <1>2, <1>4, <1>6, <4>1
      <4>2. CASE i \in 2 .. Len(f)
        BY Zenon, <1>4, <3>2, <4>2
      <4> QED
        BY Zenon, <3>4, <3>5, <4>1, <4>2
    <3>7. \A j \in 1 .. Len(f) : f[i] = f[j] => i = j
      BY Zenon, <1>6, <3>2, <3>3, <3>4, <3>5
    <3> QED
      BY Zenon, <2>3, <3>1, <3>6, <3>7
  <2> QED
    BY Zenon, <2>2, <2>3
<1> QED
  BY <1>7, <1>8, <1>9, <1>10, <1>11 DEF IInv

-----------------------------------------------------------------------------
(***************************************************************************)
(* API calls.                                                              *)
(***************************************************************************)

(* A user's call is about an endpoint that is alive.                       *)
LEMMA CallIsLive ==
  ASSUME IInv, NEW n \in Node, NEW c \in Cid, NEW op, Call(op, n, c)
  PROVE  /\ c \in handles[n] /\ cep[n][c] \in Cep /\ Local(cep[n][c])
         /\ Sound(cep[n][c]) /\ cep[n][c].state \notin Gone
BY Zenon DEF Call, IInv, Sound, Local

(* A call that moves its endpoint to another state.                        *)
LEMMA ApiMoves ==
  ASSUME IInv, NEW n \in Node, NEW c \in handles[n], NEW j,
         cep[n][c].state \notin Gone, Moved(cep[n][c], j),
         Set(n, c, j), UNCHANGED <<free_cid, handles>>,
         net' \subseteq Msg, issued' \in [Node -> Nat], faults' \in Nat
  PROVE  IInv'
<1>1. c \in Cid /\ Sound(cep[n][c])
  BY Zenon DEF IInv, TypeOK
<1>2. Sound(j) /\ Steady(cep[n][c], j)
  BY Zenon, <1>1, MovedSound
<1> QED
  BY Zenon, <1>1, <1>2, Frame

(* What Try, Issue and Send do to the variables that only count.           *)
LEMMA CountersType ==
  ASSUME IInv
  PROVE  /\ net \subseteq Msg /\ issued \in [Node -> Nat] /\ faults \in Nat
         /\ \A out \in Outcome : Try(out) => faults' \in Nat
         /\ \A n \in Node : Issue(n) => issued' \in [Node -> Nat]
         /\ \A m \in Msg : Send({m}) => net' \subseteq Msg
<1>1. net \subseteq Msg /\ issued \in [Node -> Nat] /\ faults \in Nat
  BY Zenon DEF IInv, TypeOK
<1> QED
  BY <1>1 DEF Try, Issue, Send

(* al_cep_listen.                                                          *)
LEMMA ListenStep ==
  ASSUME IInv, NEW n \in Node, NEW c \in Cid, Listen(n, c)
  PROVE  IInv'
<1> DEFINE k == cep[n][c]
           s == IF Listener(n) = {} THEN "LISTEN" ELSE "IDLE"
           j == To(PutMad(k), s)
<1>1. c \in handles[n] /\ k \in Cep /\ Local(k) /\ k.state \notin Gone
  BY Zenon, CallIsLive DEF Listen
<1>2. /\ k.state \in {"IDLE", "PRE_REQ"} /\ Set(n, c, j)
      /\ UNCHANGED <<free_cid, handles, net, issued, faults>>
  BY Zenon DEF Listen
<1>3. s \in {"LISTEN", "IDLE"}
  BY Zenon
<1> HIDE DEF s
<1>4. j \in Cep
  BY Zenon, <1>1, <1>3, HelperTypes DEF State
<1>5. Moved(k, j)
  BY Zenon, <1>1, <1>2, <1>3, <1>4 DEF Moved, To, PutMad, Cep, Local, Gone, Dying, Awaiting,
                                ReqSent, RepSent
<1> QED
  BY Zenon, <1>1, <1>2, <1>5, ApiMoves, CountersType

(* kal_cep_pre_req.                                                        *)
LEMMA PreReqStep ==
  ASSUME IInv, NEW n \in Node, NEW c \in Cid, NEW q \in UserQpn[n], NEW p \in Node,
         NEW out \in Outcome, PreReq(n, c, q, p, out)
  PROVE  IInv'
<1> DEFINE k == cep[n][c]
           u == SaveUserReq(n, c, q, p)
           v == [u EXCEPT !.state = "PRE_REQ", !.p_mad = TRUE]
           w == [PutMad(k) EXCEPT !.was_active = TRUE]
<1>1. c \in handles[n] /\ k \in Cep /\ Local(k) /\ k.state \notin Gone
  BY Zenon, CallIsLive DEF PreReq
<1>2. k.state \in {"IDLE", "PRE_REQ"} /\ Try(out) /\ UNCHANGED <<free_cid, handles, net>>
  BY Zenon DEF PreReq
<1>3. PutMad(k) \in Cep
  BY Zenon, <1>1, HelperTypes
<1>4. u \in Cep
  <2>1. /\ NextId(n, c) \in CommId /\ NoId \in CommId /\ q \in Qpn
    BY Zenon, NextIdType, NoIdType, UserAssumption DEF IInv
  <2> QED
    BY Zenon, <1>3, <2>1 DEF SaveUserReq, Cep
<1>5. /\ u.state = k.state /\ u.ref_cnt = k.ref_cnt /\ u.sends = k.sends
      /\ u.derefs = k.derefs /\ u.mad_list = k.mad_list /\ u.signalled = k.signalled
      /\ u.bound = k.bound /\ u.destroyed = k.destroyed
      /\ u.pfn_destroy_cb = k.pfn_destroy_cb /\ u.timewait_item = k.timewait_item
      /\ u.p_send_mad = k.p_send_mad /\ u.dst = p
  BY Zenon, <1>1 DEF SaveUserReq, PutMad, Cep
<1> HIDE DEF u
<1>6. v \in Cep
  BY ZenonT(40), <1>4 DEF Cep, State, Prep
<1>7. Moved(k, w)
  <2>1. w \in Cep
    BY Zenon, <1>3 DEF Cep
  <2>2. /\ w.state = k.state /\ w.ref_cnt = k.ref_cnt /\ w.sends = k.sends
        /\ w.derefs = k.derefs /\ w.mad_list = k.mad_list /\ w.signalled = k.signalled
        /\ w.bound = k.bound /\ w.destroyed = k.destroyed
        /\ w.pfn_destroy_cb = k.pfn_destroy_cb /\ w.timewait_item = k.timewait_item
        /\ w.p_send_mad = k.p_send_mad /\ w.dst = k.dst
    BY Zenon, <1>1 DEF PutMad, Cep
  <2> HIDE DEF w
  <2> QED
    BY <1>1, <1>2, <2>1, <2>2, Zenon DEF Moved, Local, Gone, Dying, Awaiting, ReqSent, RepSent
<1>8. Moved(k, u)
  BY <1>1, <1>2, <1>4, <1>5, Zenon DEF Moved, Local, Gone, Dying, Awaiting, ReqSent, RepSent
<1>9. Moved(k, v)
  <2>1. /\ v.state = "PRE_REQ" /\ v.ref_cnt = k.ref_cnt /\ v.sends = k.sends
        /\ v.derefs = k.derefs /\ v.mad_list = k.mad_list /\ v.signalled = k.signalled
        /\ v.bound = k.bound /\ v.destroyed = k.destroyed
        /\ v.pfn_destroy_cb = k.pfn_destroy_cb /\ v.timewait_item = k.timewait_item
        /\ v.p_send_mad = k.p_send_mad /\ v.dst = p
    BY Zenon, <1>4, <1>5 DEF Cep
  <2> QED
    BY Zenon, <1>1, <1>2, <1>6, <2>1 DEF Moved, Local, Gone, Dying, Awaiting, ReqSent, RepSent
<1>10. \/ Set(n, c, w) /\ UNCHANGED issued
       \/ Set(n, c, u) /\ Issue(n)
       \/ Set(n, c, v) /\ Issue(n)
  BY Zenon DEF PreReq, u
<1>11. net' \subseteq Msg /\ issued' \in [Node -> Nat] /\ faults' \in Nat
  BY <1>2, <1>10, CountersType
<1> HIDE DEF v, w
<1> QED
  BY Zenon, <1>1, <1>2, <1>7, <1>8, <1>9, <1>10, <1>11, ApiMoves

(***************************************************************************)
(* The calls that hand a MAD over for retried sending.                     *)
(***************************************************************************)
LEMMA ApiSends ==
  ASSUME IInv, NEW n \in Node, NEW c \in handles[n], NEW h,
         cep[n][c].state \notin Gone, Moved(cep[n][c], h), CanSend(h),
         h.state # "TIMEWAIT", h.dst \in Node, NEW s \in State \ (Gone \cup {"TIMEWAIT"}),
         Set(n, c, To(SendRetry(h), s)), UNCHANGED <<free_cid, handles>>,
         net' \subseteq Msg, issued' \in [Node -> Nat], faults' \in Nat
  PROVE  IInv'
<1>1. c \in Cid /\ Sound(cep[n][c])
  BY Zenon DEF IInv, TypeOK
<1>2. Sound(h) /\ Steady(cep[n][c], h) /\ h.state \notin Gone \cup {"TIMEWAIT"}
  BY Zenon, <1>1, MovedSound DEF Moved
<1>3. Sound(To(SendRetry(h), s)) /\ Steady(h, To(SendRetry(h), s))
  BY Zenon, <1>2, SendRetrySound
<1>4. Steady(cep[n][c], To(SendRetry(h), s))
  BY Zenon, <1>2, <1>3, SteadyTransitive
<1> QED
  BY Zenon, <1>1, <1>3, <1>4, Frame

(* What al_cep_send_req and al_cep_send_rep send from: the MAD is gone.    *)
LEMMA PutMadMoves ==
  ASSUME NEW k, Sound(k), k.state \notin Gone
  PROVE  Moved(k, PutMad(k)) /\ PutMad(k).dst = k.dst /\ PutMad(k).state = k.state
<1>1. k \in Cep /\ Local(k)
  BY Zenon DEF Sound
<1>2. PutMad(k) \in Cep
  BY Zenon, <1>1, HelperTypes
<1> QED
  BY Zenon, <1>1, <1>2 DEF Moved, PutMad, Cep, Local, Gone, Dying

(* Refused or without an agent, the endpoint is IDLE again.                *)
LEMMA IdleMoves ==
  ASSUME NEW k, NEW h, Moved(k, h)
  PROVE  /\ h.state \notin {"TIMEWAIT"} =>
              /\ Moved(k, To(h, "IDLE")) /\ Moved(k, To(SendRefused(h), "IDLE"))
              /\ Moved(k, To(RemoveCep(SendRefused(h)), "IDLE"))
<1>1. h \in Cep /\ "IDLE" \in State
  BY Zenon DEF Moved, State
<1>2. SendRefused(h) \in Cep
  BY Zenon, <1>1, HelperTypes DEF SendRefused, CancelSend
<1>3. To(h, "IDLE") \in Cep /\ To(SendRefused(h), "IDLE") \in Cep
      /\ To(RemoveCep(SendRefused(h)), "IDLE") \in Cep
  BY Zenon, <1>1, <1>2, HelperTypes
<1> SUFFICES ASSUME h.state # "TIMEWAIT"
             PROVE  /\ Moved(k, To(h, "IDLE")) /\ Moved(k, To(SendRefused(h), "IDLE"))
                    /\ Moved(k, To(RemoveCep(SendRefused(h)), "IDLE"))
  BY Zenon
<1> USE DEF Gone, Dying, Awaiting, ReqSent, RepSent
<1>4. Moved(k, To(h, "IDLE"))
  BY Zenon, <1>1, <1>3 DEF Moved, To, Cep
<1>5. Moved(k, To(SendRefused(h), "IDLE"))
  BY <1>1, <1>3, Zenon DEF Moved, To, SendRefused, Cep
<1>6. Moved(k, To(RemoveCep(SendRefused(h)), "IDLE"))
  BY SMTT(30), <1>1, <1>3 DEF Moved, To, SendRefused, RemoveCep, Cep
<1> QED
  BY Zenon, <1>4, <1>5, <1>6

(* al_cep_send_req and al_cep_send_rep.                                    *)
LEMMA SendReqRepStep ==
  ASSUME IInv, NEW n \in Node, NEW c \in Cid, NEW out \in Outcome,
         SendReq(n, c, out) \/ SendRep(n, c, out)
  PROVE  IInv'
<1> DEFINE k == cep[n][c]
           h == PutMad(k)
<1>1. c \in handles[n] /\ k \in Cep /\ Local(k) /\ Sound(k) /\ k.state \notin Gone
  BY Zenon, CallIsLive DEF SendReq, SendRep
<1>2. /\ k.state \in PreRep \cup {"PRE_REQ"} /\ Try(out)
      /\ UNCHANGED <<free_cid, handles, issued>>
  BY Zenon DEF SendReq, SendRep
<1>3. k.dst \in Node
  BY Zenon, <1>1, <1>2 DEF Local, PreRep
<1>4. Moved(k, h) /\ h.dst \in Node /\ h.state # "TIMEWAIT" /\ h \in Cep
  BY <1>1, <1>2, <1>3, PutMadMoves, Zenon DEF PreRep, Moved
<1> HIDE DEF h
<1>5. /\ Moved(k, To(h, "IDLE")) /\ Moved(k, To(SendRefused(h), "IDLE"))
      /\ Moved(k, To(RemoveCep(SendRefused(h)), "IDLE"))
  BY Zenon, <1>4, IdleMoves
<1>6. faults' \in Nat /\ issued' \in [Node -> Nat]
  BY Zenon, <1>2, CountersType
<1>7. \A kind \in {"REQ", "REP"} : Mad(kind, n, h, h.local_qpn, "") \in Msg
  <2>1. h.local_qpn \in Qpn \cup {0}
    BY Zenon, <1>4 DEF Cep
  <2> QED
    BY Zenon, <1>4, <2>1, MadType DEF MadKinds
<1>8. ASSUME NEW s \in {"REQ_SENT", "REP_SENT"}, NEW m \in Msg,
             CanSend(h), Set(n, c, To(SendRetry(h), s)), Send({m})
      PROVE  IInv'
  <2>1. s \in State \ (Gone \cup {"TIMEWAIT"})
    BY Zenon DEF State, ReqSent, RepSent, Gone, Dying
  <2>2. net' \subseteq Msg
    BY Zenon, <1>8, CountersType
  <2> QED
    BY Zenon, <1>1, <1>2, <1>4, <1>6, <1>8, <2>1, <2>2, ApiSends
<1>9. ASSUME NEW j, Moved(k, j), Set(n, c, j), UNCHANGED net
      PROVE  IInv'
  <2>1. net' \subseteq Msg
    BY Zenon, <1>9, CountersType
  <2> QED
    BY Zenon, <1>1, <1>2, <1>6, <1>9, <2>1, ApiMoves
<1>10. CASE SendReq(n, c, out)
  <2>1. \/ /\ CanSend(h) /\ Set(n, c, To(SendRetry(h), "REQ_SENT"))
           /\ Send({Mad("REQ", n, h, h.local_qpn, "")})
        \/ Set(n, c, To(h, "IDLE")) /\ UNCHANGED net
        \/ Set(n, c, To(SendRefused(h), "IDLE")) /\ UNCHANGED net
    BY Zenon, <1>10 DEF SendReq, h
  <2> QED
    BY ZenonT(40), <1>5, <1>7, <1>8, <1>9, <2>1
<1>11. CASE SendRep(n, c, out)
  <2>1. \/ /\ CanSend(h) /\ Set(n, c, To(SendRetry(h), "REP_SENT"))
           /\ Send({Mad("REP", n, h, h.local_qpn, "")})
        \/ Set(n, c, To(h, "IDLE")) /\ UNCHANGED net
        \/ Set(n, c, To(RemoveCep(SendRefused(h)), "IDLE")) /\ UNCHANGED net
    BY ZenonT(40), <1>11 DEF SendRep, h
  <2> QED
    BY Zenon, <1>5, <1>7, <1>8, <1>9, <2>1
<1> QED
  BY Zenon, <1>10, <1>11

(* kal_cep_pre_rep.                                                        *)
LEMMA PreRepCallStep ==
  ASSUME IInv, NEW n \in Node, NEW c \in Cid, NEW q \in UserQpn[n], NEW out \in Outcome,
         PreRepCall(n, c, q, out)
  PROVE  IInv'
<1> DEFINE k == cep[n][c]
           h == PutMad(k)
           u == [h EXCEPT !.local_qpn = q]
           v == [h EXCEPT !.local_qpn = q, !.p_mad = TRUE,
                          !.state = PrepState(@), !.pfn_destroy_cb = TRUE]
<1>1. c \in handles[n] /\ k \in Cep /\ Local(k) /\ Sound(k) /\ k.state \notin Gone
  BY Zenon, CallIsLive DEF PreRepCall
<1>2. /\ k.state \in ReqRcvd \cup PreRep /\ Try(out)
      /\ UNCHANGED <<free_cid, handles, net, issued>>
  BY Zenon DEF PreRepCall
<1>3. net' \subseteq Msg /\ issued' \in [Node -> Nat] /\ faults' \in Nat
  BY Zenon, <1>2, CountersType
<1>4. Moved(k, h) /\ h.state = k.state /\ h \in Cep /\ h.dst \in Node
  BY <1>1, <1>2, PutMadMoves, Zenon DEF Moved, Local, ReqRcvd, PreRep
<1>5. q \in Qpn
  BY Zenon, UserAssumption
<1>6. out \in {"ok", "nomad", "refused"}
  BY Zenon DEF Outcome
<1>7. \/ Set(n, c, h) \/ Set(n, c, u) \/ Set(n, c, v)
  BY Zenon, <1>6 DEF PreRepCall
<1>8. PrepState(h.state) \in PreRep
  BY Zenon, <1>2, <1>4 DEF PrepState, ReqRcvd, PreRep
<1> HIDE DEF h
<1>9. Moved(k, u)
  <2>1. u \in Cep
    BY Zenon, <1>4, <1>5 DEF Cep
  <2> QED
    BY Zenon, <1>4, <2>1 DEF Moved, Cep
<1>10. Sound(v) /\ Steady(k, v)
  <2> DEFINE s == PrepState(h.state)
  <2>1. v = [h EXCEPT !.local_qpn = q, !.p_mad = TRUE, !.state = s,
                      !.pfn_destroy_cb = TRUE]
    BY Zenon, <1>4 DEF Cep
  <2>2. s \in PreRep
    BY Zenon, <1>8
  <2> HIDE DEF s, v
  <2>3. s \in State \ (Gone \cup {"TIMEWAIT"}) /\ s \notin Awaiting
    BY Zenon, <2>2 DEF State, Prep, PreRep, Gone, Dying, Awaiting, ReqSent, RepSent
  <2>4. v \in Cep
    BY Zenon, <1>4, <1>5, <2>1, <2>3 DEF Cep
  <2>5. Sound(h) /\ Steady(k, h)
    BY Zenon, <1>1, <1>4, MovedSound
  <2>6. h.ref_cnt # 0 /\ h.state \notin Gone \cup {"TIMEWAIT"}
    BY Zenon, <1>1, <1>2, <1>4, <2>5, LiveReferenced DEF ReqRcvd, PreRep
  <2>7. Local(v)
    BY Zenon, <1>4, <2>1, <2>3, <2>5, <2>6 DEF Sound, Local, Counted, Gone, Dying, Cep
  <2>8. Steady(h, v)
    BY Zenon, <1>4, <2>1, <2>3, <2>6 DEF Steady, At, Gone, Cep
  <2> QED
    BY Zenon, <2>4, <2>5, <2>7, <2>8, SteadyTransitive DEF Sound
<1> HIDE DEF u, v
<1> QED
  BY Zenon, <1>1, <1>2, <1>3, <1>4, <1>7, <1>9, <1>10, ApiMoves, Frame

(* A call that sends one MAD and moves its endpoint.                       *)
LEMMA ApiMovesSends ==
  ASSUME IInv, NEW n \in Node, NEW c \in handles[n], NEW j,
         cep[n][c].state \notin Gone, Moved(cep[n][c], j), NEW m \in Msg,
         Set(n, c, j), Send({m}), UNCHANGED <<free_cid, handles, issued>>, faults' \in Nat
  PROVE  IInv'
<1>1. net' \subseteq Msg /\ issued' \in [Node -> Nat]
  BY Zenon, CountersType
<1> QED
  BY Zenon, <1>1, ApiMoves

(* al_cep_rtu, al_cep_mra and al_cep_drep keep the MAD to repeat it.       *)
LEMMA KeepMoves ==
  ASSUME NEW k, Sound(k), k.state \notin Gone \cup {"TIMEWAIT"}, k.dst \in Node,
         NEW m \in Msg, NEW s \in State \ (Gone \cup Awaiting \cup {"TIMEWAIT"})
  PROVE  /\ Moved(k, To(Keep(k, m), s))
         /\ Moved(k, EnterTimewait(Keep(k, m), "TIMEWAIT"))
<1>1. k \in Cep /\ Local(k) /\ "TIMEWAIT" \in State
  BY Zenon DEF Sound, State
<1>2. To(Keep(k, m), s) \in Cep /\ EnterTimewait(Keep(k, m), "TIMEWAIT") \in Cep
  BY Zenon, <1>1, HelperTypes
<1>3. Moved(k, To(Keep(k, m), s))
  BY Zenon, <1>1, <1>2 DEF Moved, To, Keep, Cep, Local, Gone, Dying
<1>4. Moved(k, EnterTimewait(Keep(k, m), "TIMEWAIT"))
  BY Zenon, <1>1, <1>2 DEF Moved, EnterTimewait, Keep, Cep, Local, Gone, Dying, Awaiting,
                    ReqSent, RepSent
<1> QED
  BY Zenon, <1>3, <1>4

(* al_cep_rtu.                                                             *)
LEMMA SendRtuStep ==
  ASSUME IInv, NEW n \in Node, NEW c \in Cid, SendRtu(n, c)
  PROVE  IInv'
<1> DEFINE k == cep[n][c]
           m == Mad("RTU", n, k, 0, "")
<1>1. c \in handles[n] /\ k \in Cep /\ Local(k) /\ Sound(k) /\ k.state \notin Gone
  BY Zenon, CallIsLive DEF SendRtu
<1>2. /\ k.state \in RepRcvd /\ Set(n, c, To(Keep(k, m), "ESTABLISHED")) /\ Send({m})
      /\ UNCHANGED <<free_cid, handles, issued, faults>>
  BY ZenonT(40) DEF SendRtu
<1>3. k.dst \in Node /\ k.state # "TIMEWAIT"
  BY Zenon, <1>1, <1>2 DEF Local, RepRcvd
<1>4. m \in Msg
  BY Zenon, <1>1, <1>3, MadType DEF MadKinds
<1>5. "ESTABLISHED" \in State \ (Gone \cup Awaiting \cup {"TIMEWAIT"})
  BY Zenon DEF State, Gone, Dying, Awaiting, ReqSent, RepSent
<1> HIDE DEF m
<1>6. Moved(k, To(Keep(k, m), "ESTABLISHED"))
  BY Zenon, <1>1, <1>3, <1>4, <1>5, KeepMoves
<1>7. faults' \in Nat
  BY Zenon, <1>2, CountersType
<1> QED
  BY Zenon, <1>1, <1>2, <1>4, <1>6, <1>7, ApiMovesSends

(* al_cep_mra.                                                             *)
LEMMA SendMraStep ==
  ASSUME IInv, NEW n \in Node, NEW c \in Cid, SendMra(n, c)
  PROVE  IInv'
<1> DEFINE k == cep[n][c]
           w == CASE k.state \in {"REQ_RCVD", "PRE_REP"} -> "REQ"
                  [] k.state = "REP_RCVD" -> "REP"
                  [] OTHER -> "LAP"
           s == CASE k.state = "REQ_RCVD" -> "REQ_MRA_SENT"
                  [] k.state = "PRE_REP"  -> "PRE_REP_MRA_SENT"
                  [] k.state = "REP_RCVD" -> "REP_MRA_SENT"
                  [] k.state = "LAP_RCVD" -> "LAP_MRA_SENT"
                  [] k.state = "PRE_APR"  -> "PRE_APR_MRA_SENT"
           m == Mad("MRA", n, k, 0, w)
<1>1. c \in handles[n] /\ k \in Cep /\ Local(k) /\ Sound(k) /\ k.state \notin Gone
  BY Zenon, CallIsLive DEF SendMra
<1>2. /\ k.state \in {"REQ_RCVD", "PRE_REP", "REP_RCVD", "LAP_RCVD", "PRE_APR"}
      /\ Set(n, c, To(Keep(k, m), s)) /\ Send({m})
      /\ UNCHANGED <<free_cid, handles, issued, faults>>
  BY Zenon DEF SendMra
<1>3. k.dst \in Node /\ k.state # "TIMEWAIT"
  BY Zenon, <1>1, <1>2 DEF Local
<1>4. w \in {"REQ", "REP", "LAP"}
  BY Zenon
<1>5. s \in {"REQ_MRA_SENT", "PRE_REP_MRA_SENT", "REP_MRA_SENT", "LAP_MRA_SENT",
            "PRE_APR_MRA_SENT"}
  BY Zenon, <1>2
<1> HIDE DEF w, s
<1>6. m \in Msg
  BY Zenon, <1>1, <1>3, <1>4, MadType DEF MadKinds
<1> HIDE DEF m
<1>7. s \in State \ (Gone \cup Awaiting \cup {"TIMEWAIT"})
  BY Zenon, <1>5 DEF State, Gone, Dying, Awaiting, ReqSent, RepSent, ReqRcvd, RepRcvd, LapRcvd,
              Prep, PreRep, PreApr
<1>8. Moved(k, To(Keep(k, m), s))
  BY Zenon, <1>1, <1>3, <1>6, <1>7, KeepMoves
<1>9. faults' \in Nat
  BY Zenon, <1>2, CountersType
<1> QED
  BY Zenon, <1>1, <1>2, <1>6, <1>8, <1>9, ApiMovesSends

(* al_cep_drep.                                                            *)
LEMMA SendDrepStep ==
  ASSUME IInv, NEW n \in Node, NEW c \in Cid, SendDrep(n, c)
  PROVE  IInv'
<1> DEFINE k == cep[n][c]
           m == Drep(n, k)
<1>1. c \in handles[n] /\ k \in Cep /\ Local(k) /\ Sound(k) /\ k.state \notin Gone
  BY Zenon, CallIsLive DEF SendDrep
<1>2. /\ k.state = "DREQ_RCVD" /\ Set(n, c, EnterTimewait(Keep(k, m), "TIMEWAIT"))
      /\ Send({m}) /\ UNCHANGED <<free_cid, handles, issued, faults>>
  BY Zenon DEF SendDrep
<1>3. k.dst \in Node /\ k.state # "TIMEWAIT"
  BY Zenon, <1>1, <1>2 DEF Local
<1>4. m \in Msg
  BY Zenon, <1>1, <1>3, MadType DEF Drep, MadKinds
<1>5. "IDLE" \in State \ (Gone \cup Awaiting \cup {"TIMEWAIT"})
  BY Zenon DEF State, Gone, Dying, Awaiting, ReqSent, RepSent
<1> HIDE DEF m
<1>6. Moved(k, EnterTimewait(Keep(k, m), "TIMEWAIT"))
  BY Zenon, <1>1, <1>3, <1>4, <1>5, KeepMoves
<1>7. faults' \in Nat
  BY Zenon, <1>2, CountersType
<1> QED
  BY Zenon, <1>1, <1>2, <1>4, <1>6, <1>7, ApiMovesSends

(* al_cep_rej.                                                             *)
LEMMA SendRejStep ==
  ASSUME IInv, NEW n \in Node, NEW c \in Cid, SendRej(n, c)
  PROVE  IInv'
<1> DEFINE k == cep[n][c]
           m == Mad("REJ", n, k, 0, "OTHER")
<1>1. c \in handles[n] /\ k \in Cep /\ Local(k) /\ Sound(k) /\ k.state \notin Gone
  BY CallIsLive, Zenon DEF SendRej
<1>2. /\ \/ k.state \in ReqRcvd /\ Set(n, c, To(RemoveCep(k), "IDLE"))
         \/ k.state \in RepRcvd /\ Set(n, c, EnterTimewait(k, "TIMEWAIT"))
      /\ Send({m}) /\ UNCHANGED <<free_cid, handles, issued, faults>>
  BY Zenon DEF SendRej
<1>3. k.dst \in Node
  BY <1>1, <1>2, Zenon DEF Local, ReqRcvd, RepRcvd
<1>4. m \in Msg
  BY Zenon, <1>1, <1>3, MadType DEF MadKinds
<1>5. faults' \in Nat
  BY Zenon, <1>2, CountersType
<1> HIDE DEF m
<1>6. "IDLE" \in State /\ "TIMEWAIT" \in State
  BY Zenon DEF State
<1>7. To(RemoveCep(k), "IDLE") \in Cep
  BY ZenonT(40), <1>1, <1>6, HelperTypes
<1>8. EnterTimewait(k, "TIMEWAIT") \in Cep
  BY Zenon, <1>1, <1>6, HelperTypes
<1>9. ASSUME k.state \in ReqRcvd PROVE Moved(k, To(RemoveCep(k), "IDLE"))
  <2>1. ~k.timewait_item
    BY Zenon, <1>1, <1>9 DEF Local, ReqRcvd
  <2> DEFINE j == To(RemoveCep(k), "IDLE")
  <2>2. /\ j.ref_cnt = k.ref_cnt /\ j.sends = k.sends /\ j.derefs = k.derefs
        /\ j.mad_list = k.mad_list /\ j.signalled = k.signalled
        /\ j.bound = k.bound /\ j.destroyed = k.destroyed
        /\ j.pfn_destroy_cb = k.pfn_destroy_cb /\ j.timewait_item = k.timewait_item
        /\ j.p_send_mad = k.p_send_mad /\ j.state = "IDLE"
    BY Zenon, <1>1 DEF To, RemoveCep, Cep
  <2> QED
    BY ZenonT(40), <1>7, <2>1, <2>2 DEF Moved, Gone, Dying, Awaiting, ReqSent, RepSent
<1>10. ASSUME k.state \in RepRcvd PROVE Moved(k, EnterTimewait(k, "TIMEWAIT"))
  BY Zenon, <1>1, <1>3, <1>8 DEF Moved, EnterTimewait, Cep, Gone, Dying, Awaiting,
                                    ReqSent, RepSent
<1> QED
  BY Zenon, <1>1, <1>2, <1>4, <1>5, <1>9, <1>10, ApiMovesSends

(* al_cep_lap and al_cep_dreq.                                             *)
LEMMA SendLapDreqStep ==
  ASSUME IInv, NEW n \in Node, NEW c \in Cid, NEW out \in Outcome,
         SendLap(n, c) \/ SendDreq(n, c, out)
  PROVE  IInv'
<1> DEFINE k == cep[n][c]
           t == EnterTimewait(SendRefused(k), "TIMEWAIT")
<1>1. c \in handles[n] /\ k \in Cep /\ Local(k) /\ Sound(k) /\ k.state \notin Gone
  BY ZenonT(40), CallIsLive DEF SendLap, SendDreq
<1>2. k.state \in Connected /\ UNCHANGED <<free_cid, handles, issued>>
  BY ZenonT(40) DEF SendLap, SendDreq, Connected
<1>3. k.dst \in Node /\ k.state # "TIMEWAIT" /\ k.remote_qpn \in Qpn \cup {0}
  BY ZenonT(40), <1>1, <1>2 DEF Local, Connected, LapSent, LapRcvd, Cep
<1>4. faults' \in Nat /\ issued' \in [Node -> Nat]
  BY ZenonT(40), <1>2, CountersType DEF SendLap, SendDreq
<1>5. Moved(k, k)
  BY <1>1, <1>3, Zenon DEF Moved, Local, Gone, Dying
<1>6. Mad("LAP", n, k, 0, "") \in Msg /\ Mad("DREQ", n, k, k.remote_qpn, "") \in Msg
  BY ZenonT(40), <1>1, <1>3, MadType DEF MadKinds
<1>7. ASSUME NEW s \in {"LAP_SENT", "DREQ_SENT"}, NEW m \in Msg,
             CanSend(k), Set(n, c, To(SendRetry(k), s)), Send({m})
      PROVE  IInv'
  <2>1. s \in State \ (Gone \cup {"TIMEWAIT"})
    BY Zenon DEF State, LapSent, Gone, Dying
  <2>2. net' \subseteq Msg
    BY Zenon, <1>7, CountersType
  <2> QED
    BY Zenon, <1>1, <1>2, <1>3, <1>4, <1>5, <1>7, <2>1, <2>2, ApiSends
<1>8. Moved(k, t)
  <2>1. SendRefused(k) \in Cep /\ "TIMEWAIT" \in State
    BY Zenon, <1>1, HelperTypes DEF SendRefused, CancelSend, State
  <2>2. t \in Cep
    BY Zenon, <2>1, HelperTypes
  <2> QED
    BY Zenon, <1>1, <1>3, <2>2 DEF Moved, EnterTimewait, SendRefused, Cep, Gone, Dying, Awaiting,
                            ReqSent, RepSent
<1>9. CASE Set(n, c, t) /\ UNCHANGED net
  <2>1. net' \subseteq Msg
    BY Zenon, <1>9, CountersType
  <2> QED
    BY ZenonT(40), <1>1, <1>2, <1>4, <1>8, <1>9, <2>1, ApiMoves
<1> QED
  BY ZenonT(40), <1>6, <1>7, <1>9 DEF SendLap, SendDreq

(* al_cep_pre_apr.                                                         *)
LEMMA PreAprCallStep ==
  ASSUME IInv, NEW n \in Node, NEW c \in Cid, NEW out \in Outcome, PreAprCall(n, c, out)
  PROVE  IInv'
<1> DEFINE k == cep[n][c]
           h == PutMad(k)
           v == [h EXCEPT !.p_mad = TRUE, !.state = PrepState(@)]
<1>1. c \in handles[n] /\ k \in Cep /\ Local(k) /\ Sound(k) /\ k.state \notin Gone
  BY Zenon, CallIsLive DEF PreAprCall
<1>2. /\ k.state \in LapRcvd \cup PreApr /\ Try(out)
      /\ Set(n, c, IF out = "nomad" THEN h ELSE v)
      /\ UNCHANGED <<free_cid, handles, net, issued>>
  BY Zenon DEF PreAprCall
<1>3. net' \subseteq Msg /\ issued' \in [Node -> Nat] /\ faults' \in Nat
  BY Zenon, <1>2, CountersType
<1>4. Moved(k, h) /\ h.state = k.state /\ h \in Cep /\ h.dst \in Node
  BY Zenon, <1>1, <1>2, PutMadMoves DEF Moved, Local, LapRcvd, PreApr
<1>5. PrepState(h.state) \in PreApr
  BY Zenon, <1>2, <1>4 DEF PrepState, LapRcvd, PreApr
<1> HIDE DEF h
<1>6. Moved(k, v)
  <2> DEFINE s == PrepState(h.state)
  <2>1. v = [h EXCEPT !.p_mad = TRUE, !.state = s]
    BY Zenon, <1>4 DEF Cep
  <2>2. s \in PreApr
    BY Zenon, <1>5
  <2> HIDE DEF s, v
  <2>3. s \in State \ (Gone \cup {"TIMEWAIT"}) /\ s \notin Awaiting
    BY Zenon, <2>2 DEF State, Prep, PreApr, Gone, Dying, Awaiting, ReqSent, RepSent
  <2>4. v \in Cep
    BY Zenon, <1>4, <2>1, <2>3 DEF Cep
  <2>5. h.state # "TIMEWAIT"
    BY Zenon, <1>2, <1>4 DEF LapRcvd, PreApr
  <2> QED
    BY <1>4, <2>1, <2>3, <2>4, <2>5 DEF Moved, Cep
<1> HIDE DEF v
<1> QED
  BY Zenon, <1>1, <1>2, <1>3, <1>4, <1>6, ApiMoves

(* al_cep_send_apr.                                                        *)
LEMMA SendAprStep ==
  ASSUME IInv, NEW n \in Node, NEW c \in Cid, NEW out \in Outcome, SendApr(n, c, out)
  PROVE  IInv'
<1> DEFINE k == cep[n][c]
           h == PutMad(k)
           j == To(h, "ESTABLISHED")
           m == Mad("APR", n, h, 0, "")
<1>1. c \in handles[n] /\ k \in Cep /\ Local(k) /\ Sound(k) /\ k.state \notin Gone
  BY Zenon, CallIsLive DEF SendApr
<1>2. /\ k.state \in PreApr /\ Try(out) /\ UNCHANGED <<free_cid, handles, issued>>
      /\ \/ Set(n, c, j) /\ Send({m})
         \/ Set(n, c, h) /\ UNCHANGED net
  BY Zenon DEF SendApr
<1>3. issued' \in [Node -> Nat] /\ faults' \in Nat
  BY ZenonT(40), <1>2, CountersType
<1>4. Moved(k, h) /\ h.state = k.state /\ h \in Cep /\ h.dst \in Node
  BY ZenonT(40), <1>1, <1>2, PutMadMoves DEF Moved, Local, PreApr
<1> HIDE DEF h
<1>5. m \in Msg
  BY Zenon, <1>4, MadType DEF MadKinds
<1>6. j \in Cep
  BY ZenonT(40), <1>4, HelperTypes DEF State
<1>7. Moved(k, j)
  <2>1. h.state # "TIMEWAIT"
    BY Zenon, <1>2, <1>4 DEF PreApr
  <2> QED
    BY ZenonT(40), <1>4, <1>6, <2>1 DEF Moved, To, Cep, Gone, Dying, Awaiting, ReqSent, RepSent
<1> HIDE DEF j, m
<1>8. CASE Set(n, c, j) /\ Send({m})
  BY Zenon, <1>1, <1>2, <1>3, <1>5, <1>7, <1>8, ApiMovesSends
<1>9. CASE Set(n, c, h) /\ UNCHANGED net
  <2>1. net' \subseteq Msg
    BY Zenon, <1>9, CountersType
  <2> QED
    BY Zenon, <1>1, <1>2, <1>3, <1>4, <1>9, <2>1, ApiMoves
<1> QED
  BY Zenon, <1>2, <1>8, <1>9

(* al_cep_established.                                                     *)
LEMMA EstablishedStep ==
  ASSUME IInv, NEW n \in Node, NEW c \in Cid, Established(n, c)
  PROVE  IInv'
<1> DEFINE k == cep[n][c]
           j == To(CancelSend(k), "ESTABLISHED")
<1>1. c \in handles[n] /\ k \in Cep /\ Local(k) /\ k.state \notin Gone
  BY Zenon, CallIsLive DEF Established
<1>2. /\ k.state \in RepSent /\ Set(n, c, j)
      /\ UNCHANGED <<free_cid, handles, net, issued, faults>>
  BY Zenon DEF Established
<1>3. j \in Cep
  BY Zenon, <1>1, HelperTypes DEF State
<1>4. Moved(k, j)
  BY Zenon, <1>1, <1>2, <1>3 DEF Moved, To, CancelSend, Cep, Local, Gone, Dying, Awaiting,
                          ReqSent, RepSent
<1> QED
  BY Zenon, <1>1, <1>2, <1>4, ApiMoves, CountersType

(* The MADs __cleanup_cep sends.                                           *)
LEMMA CleanupMadsType ==
  ASSUME NEW n \in Node, NEW k, Sound(k), NEW out
  PROVE  CleanupMads(n, k, out) \subseteq Msg
<1>1. k \in Cep /\ Local(k) /\ k.remote_qpn \in Qpn \cup {0}
  BY Zenon DEF Sound, Cep
<1>2. CASE k.state \in {"FREE", "IDLE", "LISTEN", "DESTROY"}
  BY Zenon, <1>2 DEF CleanupMads, PreRep, ReqRcvd, RepRcvd, ReqSent, RepSent, Connected, PreApr,
              LapSent, LapRcvd
<1>3. CASE k.dst \in Node
  <2>1. /\ Mad("REJ", n, k, 0, "OTHER") \in Msg /\ Mad("REJ", n, k, 0, "TIMEOUT") \in Msg
        /\ Mad("DREQ", n, k, k.remote_qpn, "") \in Msg /\ Mad("DREP", n, k, 0, "") \in Msg
    BY Zenon, <1>1, <1>3, MadType DEF MadKinds
  <2> QED
    BY Zenon, <2>1 DEF CleanupMads, Drep
<1> QED
  BY Zenon, <1>1, <1>2, <1>3 DEF Local

(* The MADs __cleanup_mad_list sends.                                      *)
LEMMA CleanupMadListMadsType ==
  ASSUME IInv, NEW n \in Node, NEW c \in Cid
  PROVE  CleanupMadListMads(n, c) \subseteq Msg
<1>1. Waiting(n, c) \subseteq Cid
  <2>1. cep[n][c].mad_list \in Seq(Event)
    BY DEF IInv, TypeOK, Cep
  <2> QED
    BY <2>1 DEF Waiting, Event
<1>2. \A d \in Waiting(n, c) : CleanupMads(n, cep[n][d], "ok") \subseteq Msg
  BY Zenon, <1>1, CleanupMadsType DEF IInv
<1> QED
  BY Zenon, <1>2 DEF CleanupMadListMads

(* al_destroy_cep and kal_cep_destroy.                                     *)
LEMMA DestroyStep ==
  ASSUME IInv, NEW n \in Node, NEW c \in Cid, NEW drop \in BOOLEAN, NEW out \in Outcome,
         Destroy(n, c, drop, out)
  PROVE  IInv'
<1> DEFINE h == cep[n][c]
           k == IF drop THEN To(h, "IDLE") ELSE h
           r == NotifyDestroy(CleanupCep(n, Unbind(k), out))
<1>1. c \in handles[n] /\ h \in Cep /\ Local(h) /\ Sound(h) /\ h.state \notin Gone
  BY ZenonT(40), CallIsLive DEF Destroy
<1>2. /\ drop => h.state \in ReqRcvd
      /\ IF k.state \in Connected \cup PreApr
         THEN Try(out) /\ (out = "ok" => CanSend(k))
         ELSE out = "ok" /\ UNCHANGED faults
      /\ cep' = [cep EXCEPT ![n] = [CleanupMadList(n, c) EXCEPT ![c] = r]]
      /\ handles' = [handles EXCEPT ![n] = @ \ {c}]
      /\ Send(CleanupMads(n, k, out) \cup CleanupMadListMads(n, c))
      /\ UNCHANGED <<free_cid, issued>>
  BY ZenonT(40) DEF Destroy
<1>3. Sound(k) /\ k.state \notin Gone
  <2>1. To(h, "IDLE") \in Cep
    BY ZenonT(40), <1>1, HelperTypes DEF State
  <2>2. drop => Moved(h, To(h, "IDLE"))
    BY Zenon, <1>1, <1>2, <2>1 DEF Moved, To, Cep, Local, Gone, Dying, Awaiting, ReqSent, RepSent,
                            ReqRcvd
  <2>3. To(h, "IDLE").state = "IDLE"
    BY Zenon, <1>1 DEF To, Cep
  <2> QED
    BY ZenonT(40), <1>1, <2>2, <2>3, MovedSound DEF Gone, Dying
<1> HIDE DEF k
<1>4. Sound(r) /\ r.mad_list = <<>> /\ r.state # "FREE"
  BY <1>2, <1>3, CleanupSound, Zenon
<1>5. net' \subseteq Msg /\ faults' \in Nat
  BY Zenon, <1>2, <1>3, CleanupMadsType, CleanupMadListMadsType, CountersType DEF Send
<1> HIDE DEF r
<1> QED
  BY ZenonT(40), <1>1, <1>2, <1>4, <1>5, CleanupStep

(* kal_cep_cancel_listen.                                                  *)
LEMMA CancelListenStep ==
  ASSUME IInv, NEW n \in Node, NEW c \in Cid, CancelListen(n, c)
  PROVE  IInv'
<1> DEFINE h == cep[n][c]
           r == [To(h, "IDLE") EXCEPT !.mad_list = <<>>]
<1>1. c \in handles[n] /\ h \in Cep /\ Local(h) /\ Sound(h) /\ h.state \notin Gone
      /\ h.bound /\ h.state = "LISTEN"
  BY Zenon, CallIsLive DEF CancelListen, Call
<1>2. /\ cep' = [cep EXCEPT ![n] = [CleanupMadList(n, c) EXCEPT
                    ![c] = [To(@, "IDLE") EXCEPT !.mad_list = <<>>]]]
      /\ Send(CleanupMadListMads(n, c))
      /\ UNCHANGED <<free_cid, handles, issued, faults>>
  BY Zenon DEF CancelListen
<1>3. c \notin Waiting(n, c)
  <2> SUFFICES ASSUME c \in Waiting(n, c) PROVE FALSE
    BY Zenon
  <2>1. h.mad_list \in Seq(Event)
    BY Zenon, <1>1 DEF Cep
  <2>2. PICK i \in Nat : At(cep[n][c], i, c)
    BY <2>1 DEF Waiting, At
  <2> QED
    BY Zenon, <1>1, <2>2 DEF IInv, Queued
<1>4. CleanupMadList(n, c)[c] = h
  BY Zenon, <1>3 DEF CleanupMadList
<1>5. cep' = [cep EXCEPT ![n] = [CleanupMadList(n, c) EXCEPT ![c] = r]]
  <2>1. [CleanupMadList(n, c) EXCEPT ![c] = [To(@, "IDLE") EXCEPT !.mad_list = <<>>]]
          = [CleanupMadList(n, c) EXCEPT ![c] = r]
    BY Zenon, <1>4 DEF CleanupMadList
  <2> QED
    BY Zenon, <1>2, <2>1
<1>6. r \in Cep
  <2>1. To(h, "IDLE") \in Cep /\ <<>> \in Seq(Event)
    BY <1>1, HelperTypes DEF State
  <2> DEFINE j == To(h, "IDLE")
  <2> HIDE DEF j
  <2>2. ASSUME NEW x \in Seq(Event), j \in Cep PROVE [j EXCEPT !.mad_list = x] \in Cep
    BY Zenon, <2>2 DEF Cep
  <2> QED
    BY Zenon, <2>1, <2>2 DEF j
<1>7. Local(r) /\ r.bound /\ r.mad_list = <<>> /\ r.state # "FREE"
  BY Zenon, <1>1 DEF To, Cep, Local, Counted, Gone, Dying, Awaiting, ReqSent, RepSent
<1>8. net' \subseteq Msg /\ faults' \in Nat
  BY Zenon, <1>2, CleanupMadListMadsType, CountersType DEF Send
<1> HIDE DEF r
<1> QED
  BY ZenonT(40), <1>1, <1>2, <1>5, <1>6, <1>7, <1>8, CleanupStep DEF Sound

(* A call of a user keeps the invariant.                                   *)
LEMMA ApiStep ==
  ASSUME IInv, NEW n \in Node, Api(n)
  PROVE  IInv'
<1>1. CASE Create(n)
  BY Zenon, <1>1, CreateStep
<1>2. CASE \E c \in Cid :
             \/ Listen(n, c) \/ CancelListen(n, c) \/ SendRtu(n, c)
             \/ SendRej(n, c) \/ SendMra(n, c) \/ SendLap(n, c)
             \/ SendDrep(n, c) \/ Established(n, c) \/ Poll(n, c)
  <2>1. "ok" \in Outcome
    BY Zenon DEF Outcome
  <2> QED
    BY Zenon, <1>2, <2>1, ListenStep, CancelListenStep, SendRtuStep, SendRejStep, SendMraStep,
       SendLapDreqStep, SendDrepStep, EstablishedStep, PollStep
<1>3. CASE \E c \in Cid, out \in Outcome :
             \/ \E drop \in BOOLEAN : Destroy(n, c, drop, out)
             \/ \E q \in UserQpn[n], p \in Node : PreReq(n, c, q, p, out)
             \/ \E q \in UserQpn[n] : PreRepCall(n, c, q, out)
             \/ SendReq(n, c, out) \/ SendRep(n, c, out)
             \/ PreAprCall(n, c, out) \/ SendApr(n, c, out)
             \/ SendDreq(n, c, out)
  BY ZenonT(40), <1>3, DestroyStep, PreReqStep, PreRepCallStep, SendReqRepStep, PreAprCallStep,
     SendAprStep, SendLapDreqStep
<1> QED
  BY Zenon, <1>1, <1>2, <1>3 DEF Api

-----------------------------------------------------------------------------
(***************************************************************************)
(* Completions, callbacks and the timer.                                   *)
(***************************************************************************)
LEMMA SendCbStep ==
  ASSUME IInv, NEW n \in Node, NEW c \in Cid, NEW id \in SendIds, SendCb(n, c, id)
  PROVE  IInv'
<1> DEFINE k == cep[n][c]
           j == [k EXCEPT !.sends = @ \ {id}, !.derefs = @ + 1]
           r == IF j.p_send_mad # id THEN j ELSE SendFailed(n, CancelSend(j))
           ms == IF j.state \in ReqSent \cup RepSent
                 THEN {Mad("REJ", n, j, 0, "TIMEOUT")} ELSE {}
<1>1. k \in Cep /\ Local(k) /\ Sound(k) /\ id \in k.sends
  BY Zenon DEF IInv, Sound, SendCb
<1>2. /\ Set(n, c, r) /\ (UNCHANGED net \/ Send(ms))
      /\ UNCHANGED <<free_cid, handles, issued, faults>>
  BY Zenon DEF SendCb
<1>3. ms \subseteq Msg
  <2>1. /\ j.state = k.state /\ j.dst = k.dst /\ j.local_comm_id = k.local_comm_id
        /\ j.remote_comm_id = k.remote_comm_id
    BY Zenon, <1>1 DEF Cep
  <2>2. Mad("REJ", n, j, 0, "TIMEOUT") = Mad("REJ", n, k, 0, "TIMEOUT")
    BY Zenon, <2>1 DEF Mad
  <2>3. k.state \in ReqSent \cup RepSent => Mad("REJ", n, k, 0, "TIMEOUT") \in Msg
    BY ZenonT(40), <1>1, MadType DEF MadKinds, Local, ReqSent, RepSent
  <2> QED
    BY Zenon, <2>1, <2>2, <2>3
<1>4. Sound(r) /\ Steady(k, r) /\ Unaided(k, r)
  BY Zenon, <1>1, SendCbSound
<1> HIDE DEF r, ms
<1>5. net' \subseteq Msg /\ issued' \in [Node -> Nat] /\ faults' \in Nat
  BY Zenon, <1>2, <1>3 DEF Send, IInv, TypeOK
<1> QED
  BY Zenon, <1>2, <1>4, <1>5, Frame

(* A reference dropped after an unlock.                                    *)
LEMMA DerefStep ==
  ASSUME IInv, NEW n \in Node, NEW c \in Cid, Deref(n, c)
  PROVE  IInv'
<1> DEFINE k == cep[n][c]
           r == NotifyDestroy([k EXCEPT !.derefs = @ - 1, !.ref_cnt = @ - 1])
<1>1. Sound(k) /\ k.derefs > 0
  BY Zenon DEF IInv, Deref
<1>2. Sound(r) /\ Steady(k, r) /\ Unaided(k, r)
  BY Zenon, <1>1, DerefSound
<1>3. Set(n, c, r) /\ UNCHANGED <<free_cid, handles, net, issued, faults>>
  BY Zenon DEF Deref
<1> HIDE DEF r
<1> QED
  BY Zenon, <1>2, <1>3, HandlerStep

(* The manager starts with every CID on the free list.                     *)
LEMMA InitIInv ==
  ASSUME Init
  PROVE  IInv
<1>1. ASSUME NEW c \in Cid PROVE Sound(FreeCid(<<c, 0>>)) /\ FreeCid(<<c, 0>>) \in Cep
  <2>1. <<c, 0>> \in CommId
    BY Zenon DEF CommId
  <2> QED
    BY Zenon, <2>1, NewSound
<1>2. cep \in [Node -> [Cid -> Cep]]
  BY Zenon, <1>1 DEF Init
<1>3. \A n \in Node : /\ free_cid[n] \in Seq(Cid) /\ Len(free_cid[n]) = CidCount
                      /\ \A i \in 1 .. CidCount : free_cid[n][i] = i
  BY CidAssumption DEF Init, Cid
<1>4. free_cid \in [Node -> Seq(Cid)]
  <2>1. free_cid = [n \in Node |-> free_cid[n]]
    BY Zenon DEF Init
  <2> QED
    BY Zenon, <1>3, <2>1
<1>5. TypeOK
  BY Zenon, <1>2, <1>4 DEF Init, TypeOK
<1>6. \A n \in Node, c \in Cid : /\ Sound(cep[n][c]) /\ cep[n][c].mad_list = <<>>
                                 /\ cep[n][c].state = "FREE"
  BY Zenon, <1>1 DEF Init, FreeCid, NewCep
<1>7. Held
  BY Zenon DEF Init, Held
<1>8. Queued
  BY <1>6 DEF Queued, At
<1>9. FreeList
  <2> SUFFICES ASSUME NEW n \in Node, NEW i \in 1 .. CidCount
               PROVE  /\ cep[n][free_cid[n][i]].state = "FREE"
                      /\ \A j \in 1 .. CidCount : free_cid[n][i] = free_cid[n][j] => i = j
    BY Zenon, <1>3 DEF FreeList
  <2>1. i \in Cid
    BY Zenon DEF Cid
  <2> QED
    BY <1>3, <1>6, <2>1, CidAssumption
<1> QED
  BY Zenon, <1>5, <1>6, <1>7, <1>8, <1>9 DEF IInv

(* Every step keeps the invariant.                                         *)
LEMMA NextIInv ==
  ASSUME IInv, [Next]_vars
  PROVE  IInv'
<1>1. CASE UNCHANGED vars
  BY Zenon, <1>1, FrameSend DEF vars, IInv, TypeOK
<1>2. ASSUME NEW n \in Node, Receive(n) PROVE IInv'
  BY Zenon, <1>2, ReceiveStep
<1>3. ASSUME NEW n \in Node, Api(n) PROVE IInv'
  BY <1>3, ApiStep
<1>4. ASSUME NEW n \in Node, Internal(n) PROVE IInv'
  BY Zenon, <1>4, SendCbStep, DerefStep, TimewaitExpiredStep DEF Internal
<1> QED
  BY Zenon, <1>1, <1>2, <1>3, <1>4 DEF Next

-----------------------------------------------------------------------------
(* The invariant holds in every behaviour of the communication manager.    *)
THEOREM Inductive == Spec => []IInv
<1>1. Init => IInv
  BY Zenon, InitIInv
<1>2. IInv /\ [Next]_vars => IInv'
  BY Zenon, NextIInv
<1> QED
  BY <1>1, <1>2, PTL DEF Spec

(* Endpoints, messages, handles and the free list keep their types: no     *)
(* handler or call ever takes ref_cnt below zero, and no MAD is addressed  *)
(* before a path is known.                                                 *)
THEOREM TypeCorrect == Spec => []TypeOK
<1>1. IInv => TypeOK
  BY Zenon DEF IInv
<1> QED
  BY <1>1, Inductive, PTL

(* ref_cnt always is the number of the holders that are left: the user,    *)
(* the MAD service for each send, each callback or completion.             *)
THEOREM ReferencesExact == Spec => []References
<1>1. IInv => References
  BY Zenon DEF IInv, Sound, Local, Counted, Gone, References
<1> QED
  BY <1>1, Inductive, PTL

(* An endpoint that waits for an answer has its MAD out: the completion    *)
(* of __cep_mad_send_cb ends the wait if no answer does.                   *)
THEOREM NoWaitWithoutSend == Spec => []WaitingHasSend
<1>1. IInv => WaitingHasSend
  BY Zenon DEF IInv, Sound, Local, Awaiting, WaitingHasSend
<1> QED
  BY <1>1, Inductive, PTL

(* The timewait list holds exactly the endpoints in TIMEWAIT and DESTROY,  *)
(* as __process_timewait asserts.                                          *)
THEOREM TimewaitListExact == Spec => []TimewaitList
<1>1. IInv => TimewaitList
  BY Zenon DEF IInv, Sound, Local, TimewaitList
<1> QED
  BY <1>1, Inductive, PTL

(* MADs wait on the list of an endpoint only while its user has been       *)
(* called back and not yet found the list empty.                           *)
THEOREM NoEventLost == Spec => []QueuedIsSignalled
<1>1. IInv => QueuedIsSignalled
  BY Zenon DEF IInv, Sound, Local, QueuedIsSignalled
<1> QED
  BY <1>1, Inductive, PTL

(* The destroy callback runs exactly once, at the last dereference.        *)
THEOREM DestroyCallbackOnce == Spec => []CallbackOnce
<1>1. IInv => CallbackOnce
  BY Zenon DEF IInv, Sound, Local, CallbackOnce
<1> QED
  BY <1>1, Inductive, PTL
==============================================================================
