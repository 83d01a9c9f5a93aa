-------------------------- MODULE AlFmrPoolProofs --------------------------
(***************************************************************************)
(* The safety properties of AlFmrPool for any number of FMRs, clients and  *)
(* page lists, any dirty_watermark and any limit of remaps: what a client  *)
(* has stays mapped, a flush waits for what it found dirty, and no flush   *)
(* is forgotten.                                                           *)
(***************************************************************************)
EXTENDS AlFmrPool, FiniteSetTheorems, TLAPS

(* An element of the pool and the state of a client.                       *)
Elem == [list : {"free", "dirty", "rest", "unmap", "none", "freed"}, cur : {"free", "dirty", "rest"},
         ref_count : 0..Cardinality(FmrClient), remap_count : 0..MaxRemaps,
         in_cash : BOOLEAN, key : Key \cup {NoKey}, hw : Key \cup {NoKey}]
ClientRec == [pc : {"idle", "map", "cache", "signal", "wait"}, el : Fmr \cup {NoFmr},
              key : Key \cup {NoKey}]

(* Who has an FMR: the call that maps it does not have it yet.             *)
Has(k, e) == k.el = e /\ k.pc # "map"
Having(e) == {c \in FmrClient : Has(client[c], e)}

(* An FMR is on rest_list as long as somebody has it; what is in the cache *)
(* is mapped to its key and on the list that p_cur_list says; remap_count  *)
(* is 0 only of what is not mapped, or is about to be unmapped.            *)
ElemSound(f) ==
    /\ f.list = "rest" <=> f.ref_count # 0
    /\ f.list = "rest" => f.cur = "rest"
    /\ f.in_cash => f.key = f.hw /\ f.cur = f.list
    /\ f.list \in {"free", "none"} => f.remap_count < MaxRemaps
    /\ f.list = "dirty" => f.remap_count = MaxRemaps
    /\ f.list \in {"unmap", "freed"} => f.remap_count = 0
    /\ f.list # "unmap" /\ f.remap_count = 0 => f.hw = NoKey

(* A client has what is mapped to its pages; what it maps is on no list.   *)
ClientSound(k) ==
    /\ k.pc \in {"map", "cache"} => k.el # NoFmr /\ k.key \in Key
    /\ k.pc = "map" => fmr[k.el].list = "none"
    /\ k.pc # "map" /\ k.el # NoFmr => fmr[k.el].hw = k.key

(* The references are counted, and only one call maps an FMR; it is the    *)
(* one in whose hands the FMR is.                                          *)
PoolSound ==
    /\ fmr \in [Fmr -> Elem] /\ client \in [FmrClient -> ClientRec]
    /\ \A e \in Fmr : ElemSound(fmr[e]) /\ fmr[e].ref_count = Cardinality(Having(e))
    /\ \A c \in FmrClient : ClientSound(client[c])
    /\ \A c, d \in FmrClient :
         Calling(c, "map") /\ Calling(d, "map") /\ client[c].el = client[d].el => c = d
    /\ \A e \in Fmr : fmr[e].list = "none" => \E c \in FmrClient : Calling(c, "map") /\ client[c].el = e

(* The flushes in progress, and those that were interrupted, are the       *)
(* requests, the answers that wait for their client and the answers that   *)
(* were lost, but for the one that the thread has answered and not counted *)
(* yet.                                                                    *)
InFlight == {c \in FmrClient : InFlush(c)}
FlushCounted ==
    flush_req + (IF flush_done THEN 1 ELSE 0) + lost
      = Cardinality(InFlight) + alerts + (IF cleaner = "dec" THEN 1 ELSE 0)
FlushTyped ==
    /\ dirty_len \in 0..MaxDirtyLen /\ flush_req \in Nat /\ lost \in Nat /\ alerts \in Nat
    /\ do_flush \in BOOLEAN /\ flush_done \in BOOLEAN /\ missed \in BOOLEAN
    /\ cleaner \in {"test", "batch", "unmap", "answer", "dec", "stop", "wait", "gone"}
    /\ fmr_pool \in {"new", "open", "closing"}
    /\ waiting \in Seq(FmrClient) /\ owed \in [FmrClient -> SUBSET Fmr]
WaitSound ==
    /\ \A i \in 1..Len(waiting) : Calling(waiting[i], "wait")
    /\ \A i, j \in 1..Len(waiting) : waiting[i] = waiting[j] => i = j

(* What is owed to a flush is dirty, and the thread has neither passed the *)
(* dirty list nor left an answer since.                                    *)
OwedSound ==
    \A c \in FmrClient :
        /\ \A e \in owed[c] : fmr[e].list = "dirty"
        /\ owed[c] # {} => ~flush_done /\ cleaner \notin {"unmap", "answer"}
FlushSound ==
    /\ FlushTyped /\ FlushCounted /\ WaitSound /\ OwedSound /\ FlushComplete
    /\ cleaner = "dec" => flush_req > 0

(* The thread has FMRs on its own list only while it unmaps them, and does *)
(* not stop over a request that nobody is about to signal.                 *)
ThreadSound ==
    /\ \A e \in Fmr : fmr[e].list = "unmap" => cleaner = "unmap"
    /\ cleaner \in {"stop", "wait"} /\ flush_req > 0
         => do_flush \/ \E c \in FmrClient : Calling(c, "signal")
    /\ cleaner = "wait" => ~do_flush

(* The invariant of a pool until it is freed, and after.                   *)
FmrInv == PoolSound /\ FlushSound /\ ThreadSound
FreedInv ==
    /\ fmr_pool = "freed" /\ cleaner = "gone" /\ waiting = <<>>
    /\ \A c \in FmrClient : Calling(c, "idle")
    /\ HeldIsMapped /\ FlushComplete /\ FlushesAnswered

(* The size of a set that gains or loses an element.                       *)
LEMMA OneDiffers ==
  ASSUME NEW S, NEW T, NEW c, IsFiniteSet(S), \A d : d # c => (d \in T <=> d \in S)
  PROVE  /\ IsFiniteSet(T) /\ Cardinality(S) \in Nat /\ Cardinality(T) \in Nat
         /\ Cardinality(T) = Cardinality(S) + (IF c \in T THEN 1 ELSE 0) - (IF c \in S THEN 1 ELSE 0)
<1>1. Cardinality(S) \in Nat
  BY FS_CardinalityType
<1>2. CASE c \in S /\ c \notin T
  <2>1. T = S \ {c}
    BY <1>2
  <2> QED
    BY <1>1, <1>2, <2>1, FS_RemoveElement, FS_CardinalityType
<1>3. CASE c \notin S /\ c \in T
  <2>1. T = S \cup {c}
    BY <1>3
  <2> QED
    BY <1>1, <1>3, <2>1, FS_AddElement, FS_CardinalityType
<1>4. CASE c \in S <=> c \in T
  <2>1. T = S
    BY <1>4
  <2> QED
    BY <1>1, <1>4, <2>1
<1> QED
  BY <1>2, <1>3, <1>4

(* A pool without FMRs satisfies the invariant.                            *)
LEMMA FmrInitial == FmrInit => FmrInv
<1> SUFFICES ASSUME FmrInit PROVE FmrInv
  OBVIOUS
<1>1. IsFiniteSet(FmrClient) /\ Cardinality(FmrClient) \in Nat /\ MaxRemaps \in Nat \ {0}
  BY FmrAssumption, FS_CardinalityType
<1>2. 0 \in 0..Cardinality(FmrClient) /\ 0 \in 0..MaxRemaps
  BY <1>1
<1>3. fmr \in [Fmr -> Elem] /\ client \in [FmrClient -> ClientRec]
  BY <1>2, Zenon DEF FmrInit, Elem, ClientRec
<1>4. InFlight = {} /\ \A e \in Fmr : Having(e) = {}
  BY FmrAssumption DEF FmrInit, InFlight, InFlush, Having, Has
<1>5. Cardinality(InFlight) = 0 /\ \A e \in Fmr : Cardinality(Having(e)) = 0
  BY <1>4, FS_EmptySet
<1>6. PoolSound
  <2>1. ASSUME NEW e \in Fmr PROVE ElemSound(fmr[e]) /\ fmr[e].ref_count = 0
    BY <1>1, <2>1 DEF FmrInit, ElemSound
  <2>2. ASSUME NEW c \in FmrClient PROVE ClientSound(client[c]) /\ client[c].pc = "idle"
    BY <2>2 DEF FmrInit, ClientSound
  <2> QED
    <3>1. \A e \in Fmr : fmr[e].list = "freed"
      BY Zenon DEF FmrInit
    <3> QED
      BY <1>3, <1>5, <2>1, <2>2, <3>1 DEF PoolSound, Calling
<1>7. FlushSound
  <2>1. FlushTyped
    <3>1. MaxDirtyLen \in Nat /\ 0 \in 0..MaxDirtyLen /\ 0 \in Nat /\ <<>> \in Seq(FmrClient)
      BY FmrAssumption
    <3> QED
      BY <3>1, Zenon DEF FmrInit, FlushTyped
  <2>2. waiting = <<>> /\ owed = [c \in FmrClient |-> {}] /\ cleaner = "test" /\ flush_req = 0
        /\ flush_done = FALSE /\ lost = 0 /\ missed = FALSE /\ alerts = 0
    BY Zenon DEF FmrInit
  <2>3. WaitSound /\ OwedSound /\ FlushCounted
    <3>1. \A i \in 1..Len(waiting) : FALSE
      BY <2>2
    <3>2. \A c \in FmrClient : owed[c] = {}
      BY <2>2
    <3>3. WaitSound
      BY <3>1, Zenon DEF WaitSound
    <3>4. OwedSound
      BY <3>2 DEF OwedSound
    <3>5. FlushCounted
      BY <1>5, <2>2 DEF FlushCounted
    <3> QED
      BY <3>3, <3>4, <3>5
  <2> QED
    BY <2>1, <2>2, <2>3 DEF FlushSound, FlushComplete
<1>8. ThreadSound
  <2>1. cleaner = "test" /\ \A e \in Fmr : fmr[e].list = "freed"
    BY Zenon DEF FmrInit
  <2> QED
    BY <2>1 DEF ThreadSound
<1> QED
  BY <1>6, <1>7, <1>8 DEF FmrInv

(* The counts are numbers.                                                 *)
LEMMA FmrCounts ==
  ASSUME NEW e
  PROVE  /\ IsFiniteSet(Having(e)) /\ Cardinality(Having(e)) \in 0..Cardinality(FmrClient)
         /\ IsFiniteSet(InFlight) /\ Cardinality(InFlight) \in 0..Cardinality(FmrClient)
<1>1. Having(e) \subseteq FmrClient /\ InFlight \subseteq FmrClient /\ IsFiniteSet(FmrClient)
  BY FmrAssumption DEF Having, InFlight
<1> QED
  BY <1>1, FS_Subset, FS_CardinalityType

(* Client c, whose call becomes k, may leave FMR e as r: r is sound, its   *)
(* count follows c, and no other client maps it or finds it mapped to      *)
(* other pages.                                                            *)
Fits(c, k, e, r) ==
    /\ k \in ClientRec /\ r \in Elem /\ ElemSound(r)
    /\ client[c].el \in {e, NoFmr} /\ k.el \in {e, NoFmr}
    /\ \A d \in FmrClient \ {c} : client[d].el = e => client[d].pc # "map" /\ r.hw = fmr[e].hw
    /\ r.ref_count = fmr[e].ref_count + (IF Has(k, e) THEN 1 ELSE 0)
                                      - (IF Has(client[c], e) THEN 1 ELSE 0)
    /\ k.pc \in {"map", "cache"} => k.el = e /\ k.key \in Key
    /\ k.pc = "map" <=> r.list = "none"
    /\ r.list = "unmap" => fmr[e].list = "unmap"
    /\ k.pc # "map" /\ k.el = e => r.hw = k.key

(* A call that leaves its FMR fit keeps the pool sound.                    *)
LEMMA CallKeeps ==
  ASSUME PoolSound, NEW c \in FmrClient, NEW k, NEW e \in Fmr, NEW r, Fits(c, k, e, r),
         client' = [client EXCEPT ![c] = k], fmr' = [fmr EXCEPT ![e] = r]
  PROVE  PoolSound'
<1>1. /\ fmr' \in [Fmr -> Elem] /\ client' \in [FmrClient -> ClientRec]
      /\ fmr'[e] = r /\ \A x \in Fmr \ {e} : fmr'[x] = fmr[x]
      /\ client'[c] = k /\ \A d \in FmrClient \ {c} : client'[d] = client[d]
  BY DEF PoolSound, Fits
<1>2. e # NoFmr /\ NoFmr \notin Fmr
  BY FmrAssumption
<1>3. ASSUME NEW x \in Fmr PROVE fmr'[x].ref_count = Cardinality(Having(x))'
  <2>1. fmr[x].ref_count = Cardinality(Having(x)) /\ IsFiniteSet(Having(x)) /\ Cardinality(Having(x)) \in Nat
    BY FmrCounts DEF PoolSound
  <2>2. CASE x # e
    <3>1. \A d \in FmrClient : Has(client'[d], x) <=> Has(client[d], x)
      BY <1>1, <1>2, <2>2 DEF Has, Fits
    <3>2. Having(x)' = Having(x)
      BY <3>1, Zenon DEF Having
    <3> QED
      BY <1>1, <2>1, <2>2, <3>2
  <2>3. CASE x = e
    <3>1. PICK S, T : S = Having(e) /\ T = Having(e)'
      OBVIOUS
    <3>2. \A d : d # c => (d \in T <=> d \in S)
      BY <1>1, <3>1, Zenon DEF Having
    <3>3. (c \in S <=> Has(client[c], e)) /\ (c \in T <=> Has(k, e))
      BY <1>1, <3>1, Zenon DEF Having
    <3>4. Cardinality(T) = Cardinality(S) + (IF c \in T THEN 1 ELSE 0) - (IF c \in S THEN 1 ELSE 0)
      BY <2>1, <2>3, <3>1, <3>2, OneDiffers
    <3>5. fmr'[e].ref_count = fmr[e].ref_count + (IF c \in T THEN 1 ELSE 0) - (IF c \in S THEN 1 ELSE 0)
      BY <1>1, <3>3 DEF Fits
    <3> QED
      BY <2>1, <2>3, <3>1, <3>4, <3>5
  <2> QED
    BY <2>2, <2>3
<1>4. \A x \in Fmr : ElemSound(fmr'[x])
  BY <1>1 DEF PoolSound, Fits
<1>5. ASSUME NEW d \in FmrClient PROVE ClientSound(client[d])'
  <2>1. CASE d = c
    BY <1>1, <1>2, <2>1 DEF ClientSound, ClientRec, Fits
  <2>2. CASE d # c /\ client[d].el = e
    BY <1>1, <1>2, <2>2 DEF PoolSound, ClientSound, Fits
  <2>3. CASE d # c /\ client[d].el # e
    <3>1. client'[d] = client[d] /\ client[d].el \in Fmr \cup {NoFmr}
      BY <1>1, <2>3 DEF PoolSound, ClientRec
    <3>2. client[d].el # NoFmr => fmr'[client[d].el] = fmr[client[d].el]
      BY <1>1, <2>3, <3>1
    <3> QED
      BY <3>1, <3>2 DEF PoolSound, ClientSound
  <2> QED
    BY <2>1, <2>2, <2>3
<1>6. ASSUME NEW a \in FmrClient, NEW b \in FmrClient,
             client'[a].pc = "map" /\ client'[b].pc = "map" /\ client'[a].el = client'[b].el
      PROVE  a = b
  BY <1>1, <1>6 DEF PoolSound, Calling, Fits
<1>7. ASSUME NEW x \in Fmr, fmr'[x].list = "none"
      PROVE  \E d \in FmrClient : client'[d].pc = "map" /\ client'[d].el = x
  <2>1. CASE x = e
    BY <1>1, <1>7, <2>1 DEF Fits
  <2>2. CASE x # e
    <3>1. PICK d \in FmrClient : client[d].pc = "map" /\ client[d].el = x
      BY <1>1, <1>7, <2>2 DEF PoolSound, Calling
    <3>2. d # c
      BY <1>2, <2>2, <3>1 DEF Fits
    <3> QED
      BY <1>1, <3>1, <3>2
  <2> QED
    BY <2>1, <2>2
<1> QED
  BY <1>1, <1>3, <1>4, <1>5, <1>6, <1>7 DEF PoolSound, Calling

(* What a call or the thread leaves of the flushes.                        *)
LEMMA FlushKeeps ==
  ASSUME FlushSound, \A c \in FmrClient : InFlush(c)' <=> InFlush(c),
         \A c \in FmrClient : Calling(c, "wait") => Calling(c, "wait")',
         UNCHANGED <<flush_req, flush_done, waiting, lost, missed, alerts>>,
         dirty_len' \in 0..MaxDirtyLen, do_flush' \in BOOLEAN, fmr_pool' \in {"new", "open", "closing"},
         cleaner' \in {"test", "batch", "unmap", "answer", "dec", "stop", "wait", "gone"},
         cleaner' = "dec" <=> cleaner = "dec",
         owed' \in [FmrClient -> SUBSET Fmr],
         \A c \in FmrClient : /\ owed'[c] \subseteq owed[c]
                              /\ \A e \in owed'[c] : fmr'[e].list = "dirty"
                              /\ owed'[c] # {} => cleaner' \notin {"unmap", "answer"}
  PROVE  FlushSound'
<1>1. FlushTyped'
  BY DEF FlushSound, FlushTyped
<1>2. InFlight' = InFlight
  BY DEF InFlight
<1>3. FlushCounted'
  BY <1>2 DEF FlushSound, FlushCounted
<1>4. \A i \in 1..Len(waiting) : waiting[i] \in FmrClient
  BY DEF FlushSound, FlushTyped
<1>5. WaitSound'
  BY <1>4 DEF FlushSound, WaitSound
<1>6. OwedSound'
  BY DEF FlushSound, OwedSound
<1> QED
  BY <1>1, <1>3, <1>5, <1>6 DEF FlushSound, FlushComplete

(* A step that wakes the thread or leaves it alone.                        *)
LEMMA WakeKeeps ==
  ASSUME FmrInv, flush_req' = flush_req, UNCHANGED <<do_flush, cleaner>> \/ SignalDoFlush,
         SignalDoFlush \/ \A c \in FmrClient : Calling(c, "signal") => Calling(c, "signal")',
         \A e \in Fmr : fmr'[e].list = "unmap" => fmr[e].list = "unmap"
  PROVE  ThreadSound'
<1>1. ThreadSound
  BY DEF FmrInv
<1>2. CASE SignalDoFlush
  <2>1. CASE cleaner = "wait"
    BY <1>1, <1>2, <2>1 DEF SignalDoFlush, ThreadSound
  <2>2. CASE cleaner # "wait"
    BY <1>1, <1>2, <2>2 DEF SignalDoFlush, ThreadSound
  <2> QED
    BY <2>1, <2>2
<1>3. CASE /\ UNCHANGED <<do_flush, cleaner>>
           /\ \A c \in FmrClient : Calling(c, "signal") => Calling(c, "signal")'
  BY <1>1, <1>3 DEF ThreadSound
<1> QED
  BY <1>2, <1>3

(* A map or unmap call of client c.                                        *)
LEMMA MapKeeps ==
  ASSUME FmrInv, NEW c \in FmrClient, NEW k \in ClientRec, PoolSound',
         client' = [client EXCEPT ![c] = k], ~InFlush(c), k.pc \notin {"signal", "wait"},
         UNCHANGED <<flush_req, flush_done, waiting, lost, missed, alerts, fmr_pool>>,
         dirty_len' \in 0..MaxDirtyLen,
         UNCHANGED <<do_flush, cleaner>> \/ SignalDoFlush,
         owed' \in [FmrClient -> SUBSET Fmr],
         \A d \in FmrClient : /\ owed'[d] \subseteq owed[d]
                              /\ \A e \in owed'[d] : fmr'[e].list = "dirty",
         \A e \in Fmr : fmr'[e].list = "unmap" => fmr[e].list = "unmap"
  PROVE  FmrInv'
<1>1. /\ client \in [FmrClient -> ClientRec] /\ FlushSound
      /\ cleaner \in {"test", "batch", "unmap", "answer", "dec", "stop", "wait", "gone"}
      /\ do_flush \in BOOLEAN /\ fmr_pool \in {"new", "open", "closing"}
  BY DEF FmrInv, PoolSound, FlushSound, FlushTyped
<1>2. /\ do_flush' \in BOOLEAN
      /\ cleaner' = cleaner \/ (cleaner = "wait" /\ cleaner' = "test")
  BY <1>1, Zenon DEF SignalDoFlush
<1>3. client'[c] = k /\ \A d \in FmrClient : d # c => client'[d] = client[d]
  BY <1>1
<1>4. \A d \in FmrClient : /\ InFlush(d)' <=> InFlush(d)
                           /\ Calling(d, "wait") => Calling(d, "wait")'
  BY <1>3, Zenon DEF InFlush, Calling
<1>5. \A d \in FmrClient : owed'[d] # {} => cleaner' \notin {"unmap", "answer"}
  BY <1>1, <1>2 DEF FlushSound, OwedSound
<1>6. FlushSound'
  BY <1>1, <1>2, <1>4, <1>5, FlushKeeps
<1>7. \A d \in FmrClient : Calling(d, "signal") => Calling(d, "signal")'
  BY <1>3, Zenon DEF InFlush, Calling
<1>8. ThreadSound'
  BY <1>7, WakeKeeps, Zenon
<1> QED
  BY <1>6, <1>8 DEF FmrInv

(* What is known of an FMR and of a client.                                *)
LEMMA FmrOf ==
  ASSUME FmrInv, NEW e \in Fmr
  PROVE  /\ fmr \in [Fmr -> Elem] /\ fmr[e] \in Elem /\ ElemSound(fmr[e])
         /\ fmr[e].ref_count = Cardinality(Having(e)) /\ fmr[e].ref_count \in Nat
         /\ fmr[e].remap_count \in 0..MaxRemaps /\ MaxRemaps \in Nat \ {0} /\ e # NoFmr
<1>1. /\ fmr \in [Fmr -> Elem] /\ fmr[e] \in Elem /\ ElemSound(fmr[e])
      /\ fmr[e].ref_count = Cardinality(Having(e))
  BY DEF FmrInv, PoolSound
<1>2. fmr[e].remap_count \in 0..MaxRemaps
  BY <1>1, Zenon DEF Elem
<1>3. Cardinality(Having(e)) \in Nat /\ MaxRemaps \in Nat \ {0} /\ e # NoFmr
  BY FmrCounts, FS_CardinalityType, FmrAssumption
<1> QED
  BY <1>1, <1>2, <1>3

(* What the invariant says of one client.                                  *)
LEMMA ClientOf ==
  ASSUME FmrInv, NEW c \in FmrClient
  PROVE  /\ client \in [FmrClient -> ClientRec] /\ client[c] \in ClientRec /\ ClientSound(client[c])
         /\ client[c].el \in Fmr \cup {NoFmr} /\ client[c].key \in Key \cup {NoKey}
         /\ owed \in [FmrClient -> SUBSET Fmr] /\ \A e \in owed[c] : fmr[e].list = "dirty"
<1>1. client \in [FmrClient -> ClientRec] /\ client[c] \in ClientRec /\ ClientSound(client[c])
  BY DEF FmrInv, PoolSound
<1>2. client[c].el \in Fmr \cup {NoFmr} /\ client[c].key \in Key \cup {NoKey}
  BY <1>1, Zenon DEF ClientRec
<1>3. owed \in [FmrClient -> SUBSET Fmr] /\ \A e \in owed[c] : fmr[e].list = "dirty"
  BY DEF FmrInv, FlushSound, FlushTyped, OwedSound
<1> QED
  BY <1>1, <1>2, <1>3

(* One more client with an FMR that not all clients have.                  *)
LEMMA OneMore ==
  ASSUME FmrInv, NEW e \in Fmr, NEW c \in FmrClient, ~Has(client[c], e)
  PROVE  fmr[e].ref_count + 1 \in 0..Cardinality(FmrClient)
<1>1. PICK S, T : S = Having(e) /\ T = Having(e) \cup {c}
  BY Zenon
<1>2. /\ T \subseteq FmrClient /\ c \notin S
      /\ IsFiniteSet(S) /\ IsFiniteSet(FmrClient)
  <2>1. T \subseteq FmrClient /\ c \notin S
    BY <1>1, Zenon DEF Having
  <2> QED
    BY <1>1, <2>1, FmrCounts, FmrAssumption
<1>3. Cardinality(T) = Cardinality(S) + 1 /\ Cardinality(S) \in Nat
  BY <1>1, <1>2, FS_AddElement, FS_CardinalityType, Zenon
<1>4. Cardinality(T) <= Cardinality(FmrClient) /\ Cardinality(FmrClient) \in Nat
  BY <1>2, FS_Subset, FS_CardinalityType
<1>5. fmr[e].ref_count = Cardinality(S)
  BY <1>1, FmrOf
<1> QED
  BY <1>3, <1>4, <1>5

(* An FMR that nobody has is not mapped for anybody.                       *)
LEMMA NobodyHas ==
  ASSUME FmrInv, NEW e \in Fmr, fmr[e].ref_count = 0, NEW c \in FmrClient
  PROVE  ~Has(client[c], e)
<1>1. IsFiniteSet(Having(e)) /\ Cardinality(Having(e)) = 0
  BY FmrOf, FmrCounts
<1>2. Having(e) = {}
  BY <1>1, FS_EmptySet
<1> QED
  BY <1>2 DEF Having

(* A map or unmap call of client c that leaves FMR e as r.                 *)
LEMMA CallDone ==
  ASSUME FmrInv, NEW c \in FmrClient, NEW k, NEW e \in Fmr, NEW r, Fits(c, k, e, r),
         client' = [client EXCEPT ![c] = k], fmr' = [fmr EXCEPT ![e] = r],
         client[c].pc \notin {"signal", "wait"}, k.pc \notin {"signal", "wait"},
         UNCHANGED <<flush_req, flush_done, waiting, lost, missed, alerts, fmr_pool>>,
         dirty_len' \in 0..MaxDirtyLen,
         UNCHANGED <<do_flush, cleaner>> \/ SignalDoFlush,
         NoLongerOwed({e}) \/ (owed' = owed /\ fmr[e].list # "dirty")
  PROVE  FmrInv'
<1>1. PoolSound'
  <2>1. PoolSound
    BY DEF FmrInv
  <2> QED
    BY <2>1, CallKeeps, Zenon
<1>2. fmr \in [Fmr -> Elem] /\ owed \in [FmrClient -> SUBSET Fmr]
  BY FmrOf, ClientOf
<1>3. \A d \in FmrClient : \A x \in owed[d] : fmr[x].list = "dirty"
  BY ClientOf
<1>4. \A x \in Fmr : x # e => fmr'[x] = fmr[x]
  BY <1>2
<1>5. owed' \in [FmrClient -> SUBSET Fmr]
  BY <1>2 DEF NoLongerOwed
<1>6. ASSUME NEW d \in FmrClient
      PROVE  owed'[d] \subseteq owed[d] /\ \A x \in owed'[d] : fmr'[x].list = "dirty"
  <2>1. e \notin owed'[d] /\ owed'[d] \subseteq owed[d]
    BY <1>2, <1>3 DEF NoLongerOwed
  <2> QED
    BY <1>2, <1>3, <1>4, <2>1
<1>7. ~InFlush(c) /\ k \in ClientRec
  BY DEF InFlush, Fits
<1>8. \A x \in Fmr : fmr'[x].list = "unmap" => fmr[x].list = "unmap"
  BY <1>2, <1>4 DEF Fits
<1> QED
  BY <1>1, <1>5, <1>6, <1>7, <1>8, MapKeeps, Zenon

(* The pages are found in the cache.                                       *)
LEMMA MapCachedKeeps ==
  ASSUME FmrInv, NEW c \in FmrClient, NEW k \in Key, MapFmr(c, k), MapCached(c, k)
  PROVE  FmrInv'
<1>1. PICK e \in Fmr :
        /\ fmr[e].in_cash /\ fmr[e].key = k
        /\ fmr' = IF fmr[e].ref_count = 0
                  THEN [fmr EXCEPT ![e] = [@ EXCEPT !.ref_count = 1, !.list = "rest", !.cur = "rest"]]
                  ELSE [fmr EXCEPT ![e].ref_count = @ + 1]
        /\ NoLongerOwed({e})
        /\ client' = [client EXCEPT ![c] = [@ EXCEPT !.el = e, !.key = k]]
  BY Zenon DEF MapCached
<1>2. client[c].pc = "idle" /\ client[c].el = NoFmr
      /\ UNCHANGED <<flush_req, do_flush, flush_done, cleaner, fmr_pool, waiting, lost, missed, alerts, dirty_len>>
  BY Zenon DEF MapFmr, MapCached, Calling
<1>3. PICK q : q = [client[c] EXCEPT !.el = e, !.key = k]
  OBVIOUS
<1>4. client[c] \in ClientRec /\ client \in [FmrClient -> ClientRec]
  BY ClientOf, Zenon
<1>5. q \in ClientRec
  BY <1>3, <1>4, Zenon DEF ClientRec
<1>6. q.pc = "idle" /\ q.el = e /\ q.key = k
  BY <1>2, <1>3, <1>4 DEF ClientRec
<1>7. client' = [client EXCEPT ![c] = q]
  BY <1>1, <1>3, <1>4
<1>8. PICK n : n = fmr[e].ref_count + 1
  OBVIOUS
<1>9. ~Has(client[c], e) /\ Has(q, e)
  BY <1>2, <1>6, FmrAssumption DEF Has
<1>10. n \in 0..Cardinality(FmrClient) /\ n = fmr[e].ref_count + 1 /\ n # 0
  BY <1>8, <1>9, OneMore, FmrOf
<1>11. PICK r : r = [fmr[e] EXCEPT !.ref_count = n, !.list = "rest", !.cur = "rest"]
  OBVIOUS
<1>12. fmr[e] \in Elem /\ ElemSound(fmr[e]) /\ fmr[e].ref_count \in Nat /\ fmr \in [Fmr -> Elem]
  BY FmrOf, Zenon
<1>13. r \in Elem
  BY <1>10, <1>11, <1>12, Zenon DEF Elem
<1>14. /\ r.ref_count = n /\ r.list = "rest" /\ r.cur = "rest" /\ r.hw = fmr[e].hw /\ r.key = fmr[e].key
       /\ r.in_cash = fmr[e].in_cash /\ r.remap_count = fmr[e].remap_count
  BY <1>11, <1>12 DEF Elem
<1>15. fmr' = [fmr EXCEPT ![e] = r]
  <2>1. CASE fmr[e].ref_count = 0
    <3>1. n = 1
      BY <1>10, <2>1
    <3> QED
      BY <1>1, <1>11, <2>1, <3>1, Zenon
  <2>2. CASE fmr[e].ref_count # 0
    <3>1. fmr[e].list = "rest" /\ fmr[e].cur = "rest"
      BY <1>12, <2>2 DEF ElemSound
    <3>2. r = [fmr[e] EXCEPT !.ref_count = n]
      BY <1>11, <1>12, <3>1, Zenon DEF Elem
    <3> QED
      BY <1>1, <1>8, <1>12, <2>2, <3>2
  <2> QED
    BY <2>1, <2>2
<1>16. ElemSound(r) /\ r.hw = k
  <2>1. fmr[e].list # "unmap"
    BY <1>1, <1>12 DEF ElemSound, Elem
  <2> QED
    BY <1>1, <1>10, <1>12, <1>14, <2>1 DEF ElemSound
<1>17. \A d \in FmrClient : client[d].el = e => client[d].pc # "map"
  <2>1. fmr[e].list # "none"
    BY <1>1, <1>12 DEF ElemSound, Elem
  <2> QED
    BY <2>1, ClientOf DEF ClientSound
<1>18. Fits(c, q, e, r)
  <2>1. r.ref_count = fmr[e].ref_count + (IF Has(q, e) THEN 1 ELSE 0) - (IF Has(client[c], e) THEN 1 ELSE 0)
    BY <1>9, <1>10, <1>12, <1>14
  <2> QED
    BY <1>2, <1>5, <1>6, <1>13, <1>14, <1>16, <1>17, <2>1 DEF Fits
<1>19. dirty_len' \in 0..MaxDirtyLen
  BY <1>2 DEF FmrInv, FlushSound, FlushTyped
<1>20. client[c].pc \notin {"signal", "wait"} /\ q.pc \notin {"signal", "wait"}
  BY <1>2, <1>6
<1>21. NoLongerOwed({e})
  BY <1>1, Zenon
<1> QED
  BY <1>2, <1>7, <1>15, <1>18, <1>19, <1>20, <1>21, CallDone, Zenon

(* The FMR that a call maps is in nobody's hands.                          *)
LEMMA MapTakeKeeps ==
  ASSUME FmrInv, NEW c \in FmrClient, NEW k \in Key, MapFmr(c, k), MapTake(c, k)
  PROVE  FmrInv'
<1>1. PICK e \in Fmr :
        /\ fmr[e].list = "free"
        /\ fmr' = [fmr EXCEPT ![e] = [@ EXCEPT !.list = "none", !.in_cash = FALSE]]
        /\ client' = [client EXCEPT ![c] = [@ EXCEPT !.pc = "map", !.el = e, !.key = k]]
        /\ UNCHANGED <<dirty_len, owed>>
  BY Zenon DEF MapTake, OnList
<1>2. client[c].pc = "idle" /\ client[c].el = NoFmr
      /\ UNCHANGED <<flush_req, do_flush, flush_done, cleaner, fmr_pool, waiting, lost, missed, alerts>>
  BY Zenon DEF MapFmr, Calling
<1>3. PICK q, r : /\ q = [client[c] EXCEPT !.pc = "map", !.el = e, !.key = k]
                  /\ r = [fmr[e] EXCEPT !.list = "none", !.in_cash = FALSE]
  OBVIOUS
<1>4. client[c] \in ClientRec /\ fmr[e] \in Elem /\ ElemSound(fmr[e]) /\ e # NoFmr
      /\ fmr[e].ref_count \in Nat
  BY ClientOf, FmrOf, Zenon
<1>5. q \in ClientRec /\ r \in Elem
  BY <1>3, <1>4, Zenon DEF ClientRec, Elem
<1>6. q.pc = "map" /\ q.el = e /\ q.key = k
  BY <1>3, <1>4 DEF ClientRec
<1>7. /\ r.ref_count = fmr[e].ref_count /\ r.list = "none" /\ r.hw = fmr[e].hw /\ r.in_cash = FALSE
      /\ r.remap_count = fmr[e].remap_count
  BY <1>3, <1>4 DEF Elem
<1>8. fmr[e].ref_count = 0 /\ ElemSound(r)
  BY <1>1, <1>4, <1>7 DEF ElemSound
<1>9. ~Has(client[c], e) /\ ~Has(q, e)
  BY <1>2, <1>4, <1>6 DEF Has
<1>10. \A d \in FmrClient : client[d].el # e
  <2>1. ASSUME NEW d \in FmrClient, client[d].el = e PROVE FALSE
    <3>1. ~Has(client[d], e)
      BY <1>8, NobodyHas
    <3>2. ClientSound(client[d])
      BY ClientOf
    <3> QED
      BY <1>1, <1>4, <2>1, <3>1, <3>2 DEF Has, ClientSound
  <2> QED
    BY <2>1
<1>11. Fits(c, q, e, r)
  BY <1>2, <1>4, <1>5, <1>6, <1>7, <1>8, <1>9, <1>10 DEF Fits
<1>12. dirty_len' \in 0..MaxDirtyLen /\ client[c].pc \notin {"signal", "wait"} /\ q.pc \notin {"signal", "wait"}
       /\ fmr[e].list # "dirty"
  BY <1>1, <1>2, <1>6 DEF FmrInv, FlushSound, FlushTyped
<1>13. client' = [client EXCEPT ![c] = q] /\ fmr' = [fmr EXCEPT ![e] = r]
  BY <1>1, <1>3, Zenon
<1> QED
  BY <1>1, <1>2, <1>11, <1>12, <1>13, CallDone, Zenon

(* What a call that maps FMR e knows of it.                                *)
Taken(c, e) ==
    /\ e \in Fmr /\ client[c].key \in Key /\ client[c] \in ClientRec
    /\ fmr[e] \in Elem /\ fmr[e].list = "none" /\ fmr[e].ref_count = 0
    /\ fmr[e].remap_count \in 0..MaxRemaps /\ fmr[e].remap_count < MaxRemaps /\ fmr[e].in_cash = FALSE
    /\ \A d \in FmrClient \ {c} : client[d].el # e
    /\ fmr[e].remap_count = 0 => fmr[e].hw = NoKey
    /\ ~Has(client[c], e)

(* A call that maps an FMR has it to itself.                               *)
LEMMA Mapping ==
  ASSUME FmrInv, NEW c \in FmrClient, Calling(c, "map"), NEW e, e = client[c].el
  PROVE  Taken(c, e)
<1>1. client[c].pc = "map" /\ e \in Fmr \cup {NoFmr} /\ ClientSound(client[c]) /\ client[c] \in ClientRec
  BY ClientOf DEF Calling
<1>2. e \in Fmr /\ client[c].key \in Key /\ fmr[e].list = "none"
  BY <1>1 DEF ClientSound
<1>3. fmr[e] \in Elem /\ ElemSound(fmr[e]) /\ fmr[e].remap_count \in 0..MaxRemaps
  BY <1>2, FmrOf
<1>4. /\ fmr[e].ref_count = 0 /\ fmr[e].remap_count < MaxRemaps
      /\ fmr[e].remap_count = 0 => fmr[e].hw = NoKey
  BY <1>2, <1>3 DEF ElemSound
<1>5. fmr[e].in_cash = FALSE
  <2>1. fmr[e].cur # "none" /\ fmr[e].in_cash \in BOOLEAN
    BY <1>3, Zenon DEF Elem
  <2> QED
    BY <1>2, <1>3, <2>1 DEF ElemSound
<1>6. ASSUME NEW d \in FmrClient \ {c} PROVE client[d].el # e
  <2>1. ~Has(client[d], e)
    BY <1>2, <1>4, <1>6, NobodyHas
  <2>2. ~(Calling(c, "map") /\ Calling(d, "map") /\ client[c].el = client[d].el)
    BY <1>6 DEF FmrInv, PoolSound
  <2> QED
    BY <2>1, <2>2 DEF Has, Calling
<1>7. ~Has(client[c], e)
  BY <1>1 DEF Has
<1> QED
  BY <1>1, <1>2, <1>3, <1>4, <1>5, <1>6, <1>7, Zenon DEF Taken

(* The hardware maps the FMR,                                              *)
LEMMA MapPhysKeeps ==
  ASSUME FmrInv, NEW c \in FmrClient, MapPhys(c, TRUE)
  PROVE  FmrInv'
<1>1. PICK e, x : e = client[c].el /\ x = client[c].key
  OBVIOUS
<1>2a. Calling(c, "map") /\ UNCHANGED <<dirty_len, do_flush, cleaner, fmr_pool, Flushing>>
  BY Zenon DEF MapPhys
<1>2b. Taken(c, e)
  BY <1>1, <1>2a, Mapping, Zenon
<1>2. /\ fmr' = [fmr EXCEPT ![e] = [fmr[e] EXCEPT !.remap_count = fmr[e].remap_count + 1,
                                      !.ref_count = 1, !.hw = x, !.list = "rest", !.cur = "rest"]]
      /\ client' = [client EXCEPT ![c].pc = "cache"]
  BY <1>1, Zenon DEF MapPhys
<1>3. /\ e \in Fmr /\ x \in Key /\ client[c] \in ClientRec /\ fmr[e] \in Elem /\ fmr[e].list = "none"
      /\ fmr[e].ref_count = 0 /\ fmr[e].remap_count \in 0..MaxRemaps /\ fmr[e].remap_count < MaxRemaps
      /\ fmr[e].in_cash = FALSE /\ ~Has(client[c], e)
  BY <1>1, <1>2b, Zenon DEF Taken
<1>4. \A d \in FmrClient \ {c} : client[d].el # e
  BY <1>2b, Zenon DEF Taken
<1>5. PICK q, r : /\ q = [client[c] EXCEPT !.pc = "cache"]
                  /\ r = [fmr[e] EXCEPT !.remap_count = fmr[e].remap_count + 1,
                                        !.ref_count = 1, !.hw = x, !.list = "rest", !.cur = "rest"]
  BY Zenon
<1>6. fmr[e].remap_count + 1 \in 0..MaxRemaps /\ 1 \in 0..Cardinality(FmrClient)
  BY <1>3, OneMore, FmrAssumption
<1>7. q \in ClientRec /\ r \in Elem
  BY <1>3, <1>5, <1>6, Zenon DEF ClientRec, Elem
<1>8. q.pc = "cache" /\ q.el = e /\ q.key = x
  BY <1>1, <1>3, <1>5 DEF ClientRec
<1>9. /\ r.ref_count = 1 /\ r.list = "rest" /\ r.cur = "rest" /\ r.hw = x /\ r.in_cash = FALSE
      /\ r.remap_count = fmr[e].remap_count + 1
  BY <1>3, <1>5 DEF Elem
<1>10. ElemSound(r) /\ Has(q, e)
  BY <1>3, <1>8, <1>9 DEF ElemSound, Has
<1>11. Fits(c, q, e, r)
  BY <1>1, <1>3, <1>4, <1>7, <1>8, <1>9, <1>10 DEF Fits
<1>12. client' = [client EXCEPT ![c] = q] /\ fmr' = [fmr EXCEPT ![e] = r]
  <2>1. fmr' = [fmr EXCEPT ![e] = r]
    BY <1>2, <1>5, Zenon
  <2>2. client' = [client EXCEPT ![c] = q]
    BY <1>2, <1>5
  <2> QED
    BY <2>1, <2>2
<1>13. /\ UNCHANGED <<flush_req, flush_done, waiting, lost, missed, alerts, fmr_pool, do_flush, cleaner>>
       /\ owed' = owed /\ fmr[e].list # "dirty" /\ dirty_len' \in 0..MaxDirtyLen
       /\ client[c].pc \notin {"signal", "wait"} /\ q.pc \notin {"signal", "wait"}
  BY <1>2a, <1>3, <1>8 DEF Flushing, Calling, FmrInv, FlushSound, FlushTyped
<1> QED
  BY <1>3, <1>11, <1>12, <1>13, CallDone, Zenon

(* or fails to.                                                            *)
LEMMA MapPhysFailKeeps ==
  ASSUME FmrInv, NEW c \in FmrClient, MapPhys(c, FALSE)
  PROVE  FmrInv'
<1>1. PICK e : e = client[c].el
  OBVIOUS
<1>2a. Calling(c, "map") /\ UNCHANGED <<dirty_len, do_flush, cleaner, fmr_pool, Flushing>>
  BY Zenon DEF MapPhys
<1>2b. Taken(c, e)
  BY <1>1, <1>2a, Mapping, Zenon
<1>2. /\ fmr' = [fmr EXCEPT ![e] = [@ EXCEPT !.list = "free", !.cur = "free"]]
      /\ client' = [client EXCEPT ![c] = [@ EXCEPT !.pc = "idle", !.el = NoFmr, !.key = NoKey]]
  BY <1>1, Zenon DEF MapPhys
<1>3. /\ e \in Fmr /\ client[c] \in ClientRec /\ fmr[e] \in Elem /\ fmr[e].list = "none"
      /\ fmr[e].ref_count = 0 /\ fmr[e].remap_count < MaxRemaps
      /\ fmr[e].remap_count = 0 => fmr[e].hw = NoKey
      /\ fmr[e].in_cash = FALSE /\ ~Has(client[c], e)
  BY <1>1, <1>2b, Zenon DEF Taken
<1>4. \A d \in FmrClient \ {c} : client[d].el # e
  BY <1>2b, Zenon DEF Taken
<1>5. PICK q, r : /\ q = [client[c] EXCEPT !.pc = "idle", !.el = NoFmr, !.key = NoKey]
                  /\ r = [fmr[e] EXCEPT !.list = "free", !.cur = "free"]
  BY Zenon
<1>6. q \in ClientRec /\ r \in Elem
  BY <1>3, <1>5, Zenon DEF ClientRec, Elem
<1>7. q.pc = "idle" /\ q.el = NoFmr
  BY <1>3, <1>5 DEF ClientRec
<1>8. /\ r.ref_count = 0 /\ r.list = "free" /\ r.remap_count < MaxRemaps /\ r.in_cash = FALSE
      /\ r.remap_count = 0 => r.hw = NoKey
  BY <1>3, <1>5 DEF Elem
<1>9. ElemSound(r) /\ ~Has(q, e) /\ e # NoFmr
  BY <1>3, <1>7, <1>8, FmrAssumption DEF ElemSound, Has
<1>10. Fits(c, q, e, r)
  BY <1>1, <1>3, <1>4, <1>6, <1>7, <1>8, <1>9 DEF Fits
<1>11. client' = [client EXCEPT ![c] = q] /\ fmr' = [fmr EXCEPT ![e] = r]
  BY <1>2, <1>5, Zenon
<1>12. /\ UNCHANGED <<flush_req, flush_done, waiting, lost, missed, alerts, fmr_pool, do_flush, cleaner>>
       /\ owed' = owed /\ fmr[e].list # "dirty" /\ dirty_len' \in 0..MaxDirtyLen
       /\ client[c].pc \notin {"signal", "wait"} /\ q.pc \notin {"signal", "wait"}
  BY <1>2a, <1>3, <1>7 DEF Flushing, Calling, FmrInv, FlushSound, FlushTyped
<1> QED
  BY <1>3, <1>10, <1>11, <1>12, CallDone, Zenon

(* What a client has is on rest_list and is not being mapped.              *)
LEMMA Holding ==
  ASSUME FmrInv, NEW c \in FmrClient, NEW e, e = client[c].el, e # NoFmr, ~Calling(c, "map")
  PROVE  /\ e \in Fmr /\ client[c] \in ClientRec /\ fmr[e] \in Elem /\ ElemSound(fmr[e])
         /\ Has(client[c], e) /\ fmr[e].ref_count \in Nat \ {0} /\ fmr[e].list = "rest"
         /\ fmr[e].cur = "rest" /\ fmr[e].hw = client[c].key
         /\ \A d \in FmrClient : client[d].el = e => client[d].pc # "map"
<1>1. /\ e \in Fmr /\ client[c] \in ClientRec /\ ClientSound(client[c]) /\ client[c].pc # "map"
  BY ClientOf DEF Calling
<1>2. /\ fmr[e] \in Elem /\ ElemSound(fmr[e]) /\ fmr[e].ref_count \in Nat
  BY <1>1, FmrOf, Zenon
<1>3. Has(client[c], e) /\ fmr[e].hw = client[c].key
  BY <1>1 DEF Has, ClientSound
<1>4. fmr[e].ref_count # 0
  BY <1>1, <1>3, NobodyHas
<1>5. fmr[e].list = "rest" /\ fmr[e].cur = "rest"
  BY <1>2, <1>4 DEF ElemSound
<1>6. ASSUME NEW d \in FmrClient, client[d].el = e PROVE client[d].pc # "map"
  <2>1. ClientSound(client[d])
    BY ClientOf
  <2> QED
    BY <1>5, <1>6, <2>1 DEF ClientSound
<1> QED
  BY <1>1, <1>2, <1>3, <1>4, <1>5, <1>6

(* The FMR that was mapped enters the cache.                               *)
LEMMA MapCacheKeeps ==
  ASSUME FmrInv, NEW c \in FmrClient, MapCache(c)
  PROVE  FmrInv'
<1>1. PICK e, x : e = client[c].el /\ x = client[c].key
  OBVIOUS
<1>2. Calling(c, "cache") /\ UNCHANGED <<dirty_len, do_flush, cleaner, fmr_pool, Flushing>>
  BY Zenon DEF MapCache
<1>3. /\ fmr' = [fmr EXCEPT ![e] = [@ EXCEPT !.in_cash = TRUE, !.key = x]]
      /\ client' = [client EXCEPT ![c].pc = "idle"]
  BY <1>1, Zenon DEF MapCache
<1>4. client[c].pc = "cache" /\ e # NoFmr /\ x \in Key /\ ~Calling(c, "map")
  BY <1>1, <1>2, ClientOf DEF ClientSound, Calling
<1>5. /\ e \in Fmr /\ client[c] \in ClientRec /\ fmr[e] \in Elem /\ ElemSound(fmr[e])
      /\ Has(client[c], e) /\ fmr[e].ref_count \in Nat \ {0} /\ fmr[e].list = "rest"
      /\ fmr[e].cur = "rest" /\ fmr[e].hw = x
      /\ \A d \in FmrClient : client[d].el = e => client[d].pc # "map"
  BY <1>1, <1>4, Holding
<1>6. PICK q, r : /\ q = [client[c] EXCEPT !.pc = "idle"]
                  /\ r = [fmr[e] EXCEPT !.in_cash = TRUE, !.key = x]
  BY Zenon
<1>7. q \in ClientRec /\ r \in Elem
  BY <1>4, <1>5, <1>6, Zenon DEF ClientRec, Elem
<1>8. q.pc = "idle" /\ q.el = e /\ q.key = x
  BY <1>1, <1>5, <1>6 DEF ClientRec
<1>9. /\ r.ref_count = fmr[e].ref_count /\ r.list = "rest" /\ r.cur = "rest" /\ r.hw = x /\ r.key = x
      /\ r.remap_count = fmr[e].remap_count
  BY <1>5, <1>6 DEF Elem
<1>10. ElemSound(r) /\ Has(q, e)
  BY <1>5, <1>8, <1>9 DEF ElemSound, Has
<1>11. Fits(c, q, e, r)
  BY <1>1, <1>5, <1>7, <1>8, <1>9, <1>10 DEF Fits
<1>12. client' = [client EXCEPT ![c] = q] /\ fmr' = [fmr EXCEPT ![e] = r]
  <2>1. fmr' = [fmr EXCEPT ![e] = r]
    BY <1>3, <1>6, Zenon
  <2>2. client' = [client EXCEPT ![c] = q]
    BY <1>3, <1>6
  <2> QED
    BY <2>1, <2>2
<1>13. /\ UNCHANGED <<flush_req, flush_done, waiting, lost, missed, alerts, fmr_pool, do_flush, cleaner>>
       /\ owed' = owed /\ fmr[e].list # "dirty" /\ dirty_len' \in 0..MaxDirtyLen
       /\ client[c].pc \notin {"signal", "wait"} /\ q.pc \notin {"signal", "wait"}
  BY <1>2, <1>4, <1>5, <1>8 DEF Flushing, FmrInv, FlushSound, FlushTyped
<1> QED
  BY <1>5, <1>11, <1>12, <1>13, CallDone, Zenon

(* The FMR a client gives back, if others have it still or nobody has.     *)
LEMMA UnmapRecord ==
  ASSUME FmrInv, NEW c \in FmrClient, NEW e \in Fmr, UnmapFmr(c), e = client[c].el,
         fmr[e].list = "rest", fmr[e].cur = "rest", fmr[e].ref_count \in Nat \ {0}
  PROVE  \E r \in Elem :
           /\ fmr' = [fmr EXCEPT ![e] = r] /\ ElemSound(r) /\ r.hw = fmr[e].hw
           /\ r.list \in {"free", "dirty", "rest"}
           /\ r.ref_count = fmr[e].ref_count - 1 /\ dirty_len' \in 0..MaxDirtyLen
           /\ UNCHANGED <<do_flush, cleaner>> \/ SignalDoFlush
<1>1. /\ fmr[e] \in Elem /\ ElemSound(fmr[e]) /\ fmr[e].remap_count \in 0..MaxRemaps
      /\ MaxRemaps \in Nat /\ fmr[e].ref_count \in 0..Cardinality(FmrClient)
      /\ dirty_len \in 0..MaxDirtyLen /\ MaxDirtyLen \in Nat /\ Cardinality(FmrClient) \in Nat
  <2>1. fmr[e] \in Elem /\ ElemSound(fmr[e]) /\ fmr[e].remap_count \in 0..MaxRemaps /\ MaxRemaps \in Nat
    BY FmrOf
  <2>2. fmr[e].ref_count \in 0..Cardinality(FmrClient)
    BY <2>1, Zenon DEF Elem
  <2> QED
    BY <2>1, <2>2, FmrAssumption, FS_CardinalityType DEF FmrInv, FlushSound, FlushTyped
<1>2. CASE fmr[e].ref_count # 1
  <2>1. fmr' = [fmr EXCEPT ![e].ref_count = @ - 1] /\ UNCHANGED <<dirty_len, do_flush, cleaner>>
    BY <1>2, Zenon DEF UnmapFmr
  <2>2. PICK r, n : n = fmr[e].ref_count - 1 /\ r = [fmr[e] EXCEPT !.ref_count = n]
    BY Zenon
  <2>3. n \in 0..Cardinality(FmrClient) /\ n # 0
    BY <1>1, <1>2, <2>2
  <2>4. r \in Elem
    BY <1>1, <2>2, <2>3, Zenon DEF Elem
  <2>5. fmr' = [fmr EXCEPT ![e] = r]
    BY <2>1, <2>2
  <2>6. /\ r.ref_count = n /\ r.hw = fmr[e].hw /\ r.list = "rest" /\ r.cur = "rest"
        /\ r.in_cash = fmr[e].in_cash /\ r.key = fmr[e].key /\ r.remap_count = fmr[e].remap_count
    BY <1>1, <2>2 DEF Elem
  <2>7. ElemSound(r)
    BY <1>1, <2>3, <2>6 DEF ElemSound
  <2>8. r.ref_count = fmr[e].ref_count - 1 /\ dirty_len' \in 0..MaxDirtyLen
    BY <1>1, <2>1, <2>2, <2>6
  <2> QED
    BY <2>1, <2>4, <2>5, <2>6, <2>7, <2>8, Zenon
<1>3. CASE fmr[e].ref_count = 1 /\ fmr[e].remap_count < MaxRemaps
  <2>1. /\ fmr' = [fmr EXCEPT ![e] = [@ EXCEPT !.ref_count = 0, !.list = "free", !.cur = "free"]]
        /\ UNCHANGED <<dirty_len, do_flush, cleaner>>
    BY <1>3, Zenon DEF UnmapFmr, Release
  <2>2. PICK r : r = [fmr[e] EXCEPT !.ref_count = 0, !.list = "free", !.cur = "free"]
    BY Zenon
  <2>3. 0 \in 0..Cardinality(FmrClient)
    BY <1>1
  <2>4. r \in Elem /\ fmr' = [fmr EXCEPT ![e] = r]
    BY <1>1, <2>1, <2>2, <2>3, Zenon DEF Elem
  <2>5. /\ r.ref_count = 0 /\ r.hw = fmr[e].hw /\ r.list = "free" /\ r.cur = "free"
        /\ r.in_cash = fmr[e].in_cash /\ r.key = fmr[e].key /\ r.remap_count = fmr[e].remap_count
    BY <1>1, <2>2 DEF Elem
  <2>6. ElemSound(r)
    BY <1>1, <1>3, <2>5 DEF ElemSound
  <2>7. r.ref_count = fmr[e].ref_count - 1 /\ dirty_len' \in 0..MaxDirtyLen
    BY <1>1, <1>3, <2>1, <2>5
  <2> QED
    BY <2>1, <2>4, <2>5, <2>6, <2>7, Zenon
<1>4. CASE fmr[e].ref_count = 1 /\ ~(fmr[e].remap_count < MaxRemaps)
  <2>1. /\ fmr' = [fmr EXCEPT ![e] = [@ EXCEPT !.ref_count = 0, !.list = "dirty", !.cur = "dirty"]]
        /\ dirty_len < MaxDirtyLen /\ dirty_len' = dirty_len + 1 /\ SignalDoFlush
    BY <1>4, Zenon DEF UnmapFmr, Release
  <2>2. PICK r : r = [fmr[e] EXCEPT !.ref_count = 0, !.list = "dirty", !.cur = "dirty"]
    BY Zenon
  <2>3. 0 \in 0..Cardinality(FmrClient) /\ dirty_len' \in 0..MaxDirtyLen /\ fmr[e].remap_count = MaxRemaps
    BY <1>1, <1>4, <2>1
  <2>4. r \in Elem /\ fmr' = [fmr EXCEPT ![e] = r]
    BY <1>1, <2>1, <2>2, <2>3, Zenon DEF Elem
  <2>5. /\ r.ref_count = 0 /\ r.hw = fmr[e].hw /\ r.list = "dirty" /\ r.cur = "dirty"
        /\ r.in_cash = fmr[e].in_cash /\ r.key = fmr[e].key /\ r.remap_count = fmr[e].remap_count
    BY <1>1, <2>2 DEF Elem
  <2>6. ElemSound(r)
    BY <1>1, <2>3, <2>5 DEF ElemSound
  <2>7. r.ref_count = fmr[e].ref_count - 1
    BY <1>4, <2>5
  <2> QED
    BY <2>1, <2>3, <2>4, <2>5, <2>6, <2>7, Zenon
<1> QED
  BY <1>2, <1>3, <1>4

(* mlnx_unmap_fmr_pool: the last client leaves the FMR free or dirty.      *)
LEMMA UnmapKeeps ==
  ASSUME FmrInv, NEW c \in FmrClient, UnmapFmr(c)
  PROVE  FmrInv'
<1>1. PICK e : e = client[c].el
  OBVIOUS
<1>2. /\ Calling(c, "idle") /\ e # NoFmr /\ UNCHANGED <<fmr_pool, Flushing>>
      /\ client' = [client EXCEPT ![c] = [@ EXCEPT !.el = NoFmr, !.key = NoKey]]
  BY <1>1, Zenon DEF UnmapFmr
<1>3. /\ e \in Fmr /\ client[c] \in ClientRec /\ Has(client[c], e)
      /\ fmr[e].ref_count \in Nat \ {0} /\ fmr[e].list = "rest" /\ fmr[e].cur = "rest"
      /\ \A d \in FmrClient : client[d].el = e => client[d].pc # "map"
  <2>1. ~Calling(c, "map") /\ e # NoFmr
    BY <1>2 DEF Calling
  <2> QED
    BY <1>1, <2>1, Holding
<1>4. PICK r \in Elem :
           /\ fmr' = [fmr EXCEPT ![e] = r] /\ ElemSound(r) /\ r.hw = fmr[e].hw
           /\ r.list \in {"free", "dirty", "rest"}
           /\ r.ref_count = fmr[e].ref_count - 1 /\ dirty_len' \in 0..MaxDirtyLen
           /\ UNCHANGED <<do_flush, cleaner>> \/ SignalDoFlush
  BY <1>1, <1>3, UnmapRecord
<1>5. PICK q : q = [client[c] EXCEPT !.el = NoFmr, !.key = NoKey]
  BY Zenon
<1>6. q \in ClientRec /\ client' = [client EXCEPT ![c] = q]
  BY <1>2, <1>3, <1>5, Zenon DEF ClientRec
<1>7. q.pc = "idle" /\ q.el = NoFmr /\ client[c].pc = "idle"
  BY <1>2, <1>3, <1>5 DEF ClientRec, Calling
<1>8. ~Has(q, e) /\ e # NoFmr
  BY <1>2, <1>7 DEF Has
<1>9. Fits(c, q, e, r)
  <2>1. r.ref_count = fmr[e].ref_count + (IF Has(q, e) THEN 1 ELSE 0) - (IF Has(client[c], e) THEN 1 ELSE 0)
    BY <1>3, <1>4, <1>8
  <2>2. ElemSound(r) /\ r.hw = fmr[e].hw /\ r.list \in {"free", "dirty", "rest"}
    BY <1>4, Zenon
  <2> QED
    BY <1>1, <1>3, <1>6, <1>7, <1>8, <2>1, <2>2 DEF Fits
<1>10. /\ UNCHANGED <<flush_req, flush_done, waiting, lost, missed, alerts, fmr_pool>>
       /\ owed' = owed /\ fmr[e].list # "dirty" /\ dirty_len' \in 0..MaxDirtyLen
       /\ client[c].pc \notin {"signal", "wait"} /\ q.pc \notin {"signal", "wait"}
  BY <1>2, <1>3, <1>4, <1>7 DEF Flushing
<1> QED
  BY <1>3, <1>4, <1>6, <1>9, <1>10, CallDone, Zenon

(* A client whose call changes and not what it has.                        *)
LEMMA PcKeeps ==
  ASSUME FmrInv, NEW c \in FmrClient, NEW p \in {"idle", "signal", "wait"},
         client[c].pc \in {"idle", "signal", "wait"},
         client' = [client EXCEPT ![c].pc = p], fmr' = fmr
  PROVE  /\ PoolSound' /\ client'[c].pc = p
         /\ \A d \in FmrClient : d # c => client'[d] = client[d]
<1>1. client \in [FmrClient -> ClientRec] /\ client[c] \in ClientRec /\ ClientSound(client[c])
  BY ClientOf
<1>2. PICK q : q = [client[c] EXCEPT !.pc = p]
  BY Zenon
<1>3. q \in ClientRec
  BY <1>1, <1>2, Zenon DEF ClientRec
<1>4. q.pc = p /\ q.el = client[c].el /\ q.key = client[c].key
  BY <1>1, <1>2 DEF ClientRec
<1>5. client' = [client EXCEPT ![c] = q]
  BY <1>1, <1>2
<1>6. /\ client' \in [FmrClient -> ClientRec] /\ client'[c] = q
      /\ \A d \in FmrClient : d # c => client'[d] = client[d]
  BY <1>1, <1>3, <1>5
<1>7. ASSUME NEW e \in Fmr PROVE Having(e)' = Having(e)
  <2>1. \A d \in FmrClient : Has(client'[d], e) <=> Has(client[d], e)
    BY <1>4, <1>6 DEF Has
  <2> QED
    BY <2>1, Zenon DEF Having
<1>8. ClientSound(q)'
  BY <1>1, <1>4 DEF ClientSound
<1>9. ASSUME NEW d \in FmrClient PROVE ClientSound(client[d])'
  <2>1. CASE d = c
    BY <1>6, <1>8, <2>1, Zenon
  <2>2. CASE d # c
    BY <1>6, <2>2, ClientOf DEF ClientSound
  <2> QED
    BY <2>1, <2>2
<1>10. ASSUME NEW a \in FmrClient, NEW b \in FmrClient,
              Calling(a, "map")' /\ Calling(b, "map")' /\ client'[a].el = client'[b].el
       PROVE  a = b
  <2>1. a # c /\ b # c
    BY <1>4, <1>6, <1>10 DEF Calling
  <2> QED
    BY <1>6, <1>10, <2>1 DEF FmrInv, PoolSound, Calling
<1>12. ASSUME NEW e \in Fmr, fmr'[e].list = "none"
       PROVE  \E d \in FmrClient : Calling(d, "map")' /\ client'[d].el = e
  <2>1. PICK d \in FmrClient : Calling(d, "map") /\ client[d].el = e
    BY <1>12 DEF FmrInv, PoolSound
  <2>2. d # c
    BY <2>1 DEF Calling
  <2> QED
    BY <1>6, <2>1, <2>2 DEF Calling
<1>11. PoolSound'
  <2>1. ASSUME NEW e \in Fmr PROVE ElemSound(fmr'[e]) /\ fmr'[e].ref_count = Cardinality(Having(e))'
    BY <1>7, FmrOf
  <2>2. fmr' \in [Fmr -> Elem]
    BY DEF FmrInv, PoolSound
  <2> QED
    BY <1>6, <1>9, <1>10, <1>12, <2>1, <2>2, Zenon DEF PoolSound
<1> QED
  BY <1>4, <1>6, <1>11

(* The number of flushes in progress when the call of c changes.           *)
LEMMA FlightCount ==
  ASSUME NEW c \in FmrClient, \A d \in FmrClient : d # c => (InFlush(d)' <=> InFlush(d))
  PROVE  /\ Cardinality(InFlight) \in Nat /\ Cardinality(InFlight') \in Nat
         /\ Cardinality(InFlight') = Cardinality(InFlight) + (IF InFlush(c)' THEN 1 ELSE 0)
                                                          - (IF InFlush(c) THEN 1 ELSE 0)
<1>1. PICK S, T : S = InFlight /\ T = InFlight'
  BY Zenon
<1>2. /\ \A d : d # c => (d \in T <=> d \in S)
      /\ (c \in S <=> InFlush(c)) /\ (c \in T <=> InFlush(c)')
  BY <1>1, Zenon DEF InFlight
<1>3. IsFiniteSet(S)
  BY <1>1, FmrCounts
<1>4. /\ Cardinality(S) \in Nat /\ Cardinality(T) \in Nat
      /\ Cardinality(T) = Cardinality(S) + (IF c \in T THEN 1 ELSE 0) - (IF c \in S THEN 1 ELSE 0)
  BY <1>2, <1>3, OneDiffers
<1> QED
  BY <1>1, <1>2, <1>4

(* The clients that wait are in a flush, one by one.                       *)
LEMMA WaitKeeps ==
  ASSUME FlushSound, waiting' = waiting,
         \A d \in FmrClient : Calling(d, "wait") => Calling(d, "wait")'
  PROVE  WaitSound'
<1>1. \A i \in 1..Len(waiting) : waiting[i] \in FmrClient
  BY DEF FlushSound, FlushTyped
<1> QED
  BY <1>1 DEF FlushSound, WaitSound

(* A client asks for a flush,                                              *)
LEMMA FlushFmrKeeps ==
  ASSUME FmrInv, NEW c \in FmrClient, FlushFmr(c)
  PROVE  FmrInv'
<1>1. /\ Calling(c, "idle") /\ flush_req' = flush_req + 1
      /\ client' = [client EXCEPT ![c].pc = "signal"]
      /\ UNCHANGED <<fmr, dirty_len, do_flush, flush_done, cleaner, fmr_pool, waiting, lost, missed, alerts>>
  BY Zenon DEF FlushFmr
<1>2. FlushTyped /\ FlushCounted /\ WaitSound /\ OwedSound /\ FlushComplete
  BY Zenon DEF FmrInv, FlushSound
<1>3. client[c].pc = "idle"
  BY Zenon, <1>1 DEF Calling
<1>4. /\ PoolSound' /\ client'[c].pc = "signal"
      /\ \A d \in FmrClient : d # c => client'[d] = client[d]
  BY <1>1, <1>3, PcKeeps, Zenon
<1>5. /\ ~InFlush(c) /\ InFlush(c)'
      /\ \A d \in FmrClient : d # c => (InFlush(d)' <=> InFlush(d))
      /\ \A d \in FmrClient : Calling(d, "wait") => Calling(d, "wait")'
  BY Zenon, <1>3, <1>4 DEF InFlush, Calling
<1>6. /\ Cardinality(InFlight) \in Nat /\ Cardinality(InFlight') = Cardinality(InFlight) + 1
  BY <1>5, FlightCount
<1>7. flush_req \in Nat /\ lost \in Nat /\ alerts \in Nat /\ flush_req' \in Nat /\ flush_req' > 0
  BY <1>1, <1>2 DEF FlushTyped
<1>8. FlushCounted'
  BY <1>1, <1>2, <1>6, <1>7 DEF FlushCounted
<1>9. WaitSound'
  BY Zenon, <1>1, <1>5, WaitKeeps DEF FmrInv
<1>10. owed' \in [FmrClient -> SUBSET Fmr] /\ OwedSound'
  <2>1. CASE cleaner \in {"unmap", "answer"} \/ flush_done
    <3>1. owed' = owed
      BY <2>1, Zenon DEF FlushFmr
    <3> QED
      BY Zenon, <1>1, <1>2, <3>1 DEF FlushTyped, OwedSound
  <2>2. CASE ~(cleaner \in {"unmap", "answer"} \/ flush_done)
    <3>1. owed' = [owed EXCEPT ![c] = OnList("dirty")] /\ owed \in [FmrClient -> SUBSET Fmr]
      BY <1>2, <2>2, Zenon DEF FlushFmr, FlushTyped
    <3>2. OnList("dirty") \in SUBSET Fmr /\ \A e \in OnList("dirty") : fmr[e].list = "dirty"
      BY Zenon DEF OnList
    <3>3. owed' \in [FmrClient -> SUBSET Fmr] /\ owed'[c] = OnList("dirty")
          /\ \A d \in FmrClient : d # c => owed'[d] = owed[d]
      BY Zenon, <3>1, <3>2
    <3> QED
      BY Zenon, <1>1, <1>2, <2>2, <3>2, <3>3 DEF OwedSound
  <2> QED
    BY Zenon, <2>1, <2>2
<1>11. FlushTyped'
  BY Zenon, <1>1, <1>2, <1>7, <1>10 DEF FlushTyped
<1>12. ThreadSound'
  BY Zenon, <1>1, <1>4 DEF FmrInv, ThreadSound, Calling
<1> QED
  BY Zenon, <1>1, <1>2, <1>4, <1>7, <1>8, <1>9, <1>10, <1>11, <1>12 DEF FmrInv, FlushSound, FlushComplete

(* and wakes the cleanup thread.                                           *)
LEMMA FlushSignalKeeps ==
  ASSUME FmrInv, NEW c \in FmrClient, FlushSignal(c)
  PROVE  FmrInv'
<1>1. /\ client[c].pc = "signal" /\ client' = [client EXCEPT ![c].pc = "wait"]
      /\ SignalDoFlush /\ UNCHANGED <<fmr, dirty_len, fmr_pool, Flushing>>
  BY Zenon DEF FlushSignal, Calling
<1>2. FlushSound /\ FlushTyped /\ OwedSound
  BY Zenon DEF FmrInv, FlushSound
<1>3. /\ PoolSound' /\ client'[c].pc = "wait"
      /\ \A d \in FmrClient : d # c => client'[d] = client[d]
  BY <1>1, PcKeeps, Zenon
<1>4. \A d \in FmrClient : /\ InFlush(d)' <=> InFlush(d)
                           /\ Calling(d, "wait") => Calling(d, "wait")'
  BY Zenon, <1>1, <1>3 DEF InFlush, Calling
<1>5. /\ do_flush' \in BOOLEAN
      /\ cleaner' = cleaner \/ (cleaner = "wait" /\ cleaner' = "test")
      /\ cleaner \in {"test", "batch", "unmap", "answer", "dec", "stop", "wait", "gone"}
  BY <1>1, <1>2, Zenon DEF SignalDoFlush, FlushTyped
<1>6. /\ UNCHANGED <<flush_req, flush_done, waiting, lost, missed, alerts, owed, fmr, dirty_len, fmr_pool>>
      /\ dirty_len \in 0..MaxDirtyLen /\ fmr_pool \in {"new", "open", "closing"}
      /\ owed \in [FmrClient -> SUBSET Fmr]
  BY Zenon, <1>1, <1>2 DEF Flushing, FlushTyped
<1>7. \A d \in FmrClient : /\ owed'[d] \subseteq owed[d]
                           /\ \A e \in owed'[d] : fmr'[e].list = "dirty"
                           /\ owed'[d] # {} => cleaner' \notin {"unmap", "answer"}
  BY Zenon, <1>2, <1>5, <1>6 DEF OwedSound
<1>8. /\ cleaner' \in {"test", "batch", "unmap", "answer", "dec", "stop", "wait", "gone"}
      /\ cleaner' = "dec" <=> cleaner = "dec"
  BY Zenon, <1>5
<1>9. /\ UNCHANGED <<flush_req, flush_done, waiting, lost, missed, alerts>> /\ do_flush' \in BOOLEAN
      /\ dirty_len' \in 0..MaxDirtyLen /\ fmr_pool' \in {"new", "open", "closing"}
      /\ owed' \in [FmrClient -> SUBSET Fmr]
  BY Zenon, <1>5, <1>6
<1>10. FlushSound'
  BY <1>2, <1>4, <1>7, <1>8, <1>9, FlushKeeps, Zenon
<1>11. ThreadSound'
  BY Zenon, <1>1, <1>6, WakeKeeps
<1> QED
  BY Zenon, <1>3, <1>10, <1>11 DEF FmrInv

(* The thread changes an FMR only when no client has it or maps it.        *)
LEMMA ThreadKeeps ==
  ASSUME FmrInv, client' = client, fmr' \in [Fmr -> Elem],
         \A e \in Fmr : /\ ElemSound(fmr'[e]) /\ fmr'[e].ref_count = fmr[e].ref_count
                        /\ fmr'[e] = fmr[e] \/ (fmr[e].ref_count = 0 /\ "none" \notin {fmr[e].list, fmr'[e].list})
  PROVE  PoolSound'
<1>1. client' \in [FmrClient -> ClientRec]
  BY Zenon DEF FmrInv, PoolSound
<1>2. ASSUME NEW e \in Fmr PROVE ElemSound(fmr'[e]) /\ fmr'[e].ref_count = Cardinality(Having(e))'
  <2>1. Having(e)' = Having(e)
    BY Zenon DEF Having
  <2>2. fmr[e].ref_count = Cardinality(Having(e))
    BY Zenon, FmrOf
  <2> QED
    BY Zenon, <2>1, <2>2
<1>3. ASSUME NEW d \in FmrClient PROVE ClientSound(client[d])'
  <2>1. ClientSound(client[d]) /\ client[d].el \in Fmr \cup {NoFmr} /\ client'[d] = client[d]
    BY Zenon, ClientOf
  <2>2. CASE client[d].el = NoFmr
    BY Zenon, <2>1, <2>2 DEF ClientSound
  <2>3. CASE client[d].el # NoFmr
    <3>1. PICK e \in Fmr : e = client[d].el
      BY Zenon, <2>1, <2>3
    <3>2. fmr[e].list = "none" \/ Has(client[d], e)
      BY Zenon, <2>1, <2>3, <3>1 DEF ClientSound, Has
    <3>3. Has(client[d], e) => fmr[e].ref_count # 0
      BY Zenon, NobodyHas
    <3>4. fmr'[e] = fmr[e]
      BY Zenon, <3>2, <3>3
    <3> QED
      BY Zenon, <2>1, <3>1, <3>4 DEF ClientSound
  <2> QED
    BY Zenon, <2>2, <2>3
<1>4. \A a, b \in FmrClient :
         Calling(a, "map")' /\ Calling(b, "map")' /\ client'[a].el = client'[b].el => a = b
  BY Zenon DEF FmrInv, PoolSound, Calling
<1>5. \A e \in Fmr : fmr'[e].list = "none" => \E c \in FmrClient : Calling(c, "map")' /\ client'[c].el = e
  BY Zenon DEF FmrInv, PoolSound, Calling
<1> QED
  BY <1>1, <1>2, <1>3, <1>4, <1>5, Zenon DEF PoolSound

(* A step that leaves the FMRs, the clients and the flushes alone.         *)
LEMMA QuietKeeps ==
  ASSUME FmrInv, ThreadSound', UNCHANGED <<fmr, dirty_len, client, Flushing>>,
         do_flush' \in BOOLEAN, fmr_pool' \in {"new", "open", "closing"},
         cleaner' = cleaner \/ (cleaner' \in {"test", "batch", "stop", "wait", "gone"} /\ cleaner # "dec")
  PROVE  FmrInv'
<1>1. fmr' = fmr /\ client' = client /\ dirty_len' = dirty_len /\ owed' = owed
      /\ UNCHANGED <<flush_req, flush_done, waiting, lost, missed, alerts>>
  BY Zenon DEF Flushing
<1>2. PoolSound'
  BY Zenon, <1>1, FmrOf, ThreadKeeps DEF FmrInv, PoolSound
<1>3. FlushSound /\ FlushTyped /\ OwedSound
  BY Zenon DEF FmrInv, FlushSound
<1>4. \A d \in FmrClient : (InFlush(d)' <=> InFlush(d)) /\ (Calling(d, "wait") => Calling(d, "wait")')
  BY Zenon, <1>1 DEF InFlush, Calling
<1>5. \A d \in FmrClient : /\ owed'[d] \subseteq owed[d]
                           /\ \A e \in owed'[d] : fmr'[e].list = "dirty"
                           /\ owed'[d] # {} => cleaner' \notin {"unmap", "answer"}
  BY Zenon, <1>1, <1>3 DEF OwedSound
<1>6. /\ dirty_len' \in 0..MaxDirtyLen /\ owed' \in [FmrClient -> SUBSET Fmr]
      /\ cleaner' = "dec" <=> cleaner = "dec"
      /\ cleaner' \in {"test", "batch", "unmap", "answer", "dec", "stop", "wait", "gone"}
  BY Zenon, <1>1, <1>3 DEF FlushTyped
<1>7. FlushSound'
  BY Zenon, <1>1, <1>3, <1>4, <1>5, <1>6, FlushKeeps
<1> QED
  BY Zenon, <1>2, <1>7 DEF FmrInv

(* The cleanup thread tests whether there is something to release,         *)
LEMMA CleanTestKeeps == ASSUME FmrInv, CleanTest PROVE FmrInv'
<1>1. /\ cleaner = "test" /\ cleaner' \in {"batch", "stop"} /\ (cleaner' = "stop" => ~(flush_req > 0))
      /\ UNCHANGED <<fmr, dirty_len, do_flush, fmr_pool, client, Flushing>>
  BY Zenon DEF CleanTest
<1>2. do_flush \in BOOLEAN /\ fmr_pool \in {"new", "open", "closing"}
  BY Zenon DEF FmrInv, FlushSound, FlushTyped
<1>3. ThreadSound'
  BY Zenon, <1>1 DEF FmrInv, ThreadSound, Flushing
<1> QED
  BY Zenon, <1>1, <1>2, <1>3, QuietKeeps

(* or stops, or waits.                                                     *)
LEMMA CleanStopKeeps == ASSUME FmrInv, CleanStop PROVE FmrInv'
<1>1. /\ cleaner = "stop" /\ cleaner' \in {"gone", "test", "wait"} /\ do_flush' \in {do_flush, FALSE}
      /\ cleaner' = "wait" => do_flush' = FALSE /\ ~do_flush
      /\ UNCHANGED <<fmr, dirty_len, fmr_pool, client, Flushing>>
  BY Zenon DEF CleanStop
<1>2. do_flush \in BOOLEAN /\ fmr_pool \in {"new", "open", "closing"}
  BY DEF FmrInv, FlushSound, FlushTyped
<1>3. ThreadSound'
  BY Zenon, <1>1 DEF FmrInv, ThreadSound, Flushing, Calling
<1> QED
  BY <1>1, <1>2, <1>3, QuietKeeps, Zenon

(* A step that only wakes the thread.                                      *)
LEMMA OnlyWakes ==
  ASSUME FmrInv, fmr_pool' \in {"new", "open", "closing"}, UNCHANGED <<fmr, dirty_len, client, Flushing>>,
         UNCHANGED <<do_flush, cleaner>> \/ SignalDoFlush
  PROVE  FmrInv'
<1>1. do_flush \in BOOLEAN
  BY Zenon DEF FmrInv, FlushSound, FlushTyped
<1>2. /\ do_flush' \in BOOLEAN
      /\ cleaner' = cleaner \/ (cleaner' = "test" /\ cleaner = "wait")
  BY <1>1, Zenon DEF SignalDoFlush
<1>3. ThreadSound'
  BY Zenon, WakeKeeps DEF Flushing, Calling
<1> QED
  BY Zenon, <1>2, <1>3, QuietKeeps

(* __destroying_fmr_pool stops the thread.                                 *)
LEMMA DestroyKeeps == ASSUME FmrInv, DestroyFmrPool PROVE FmrInv'
BY Zenon, OnlyWakes DEF DestroyFmrPool

(* mlnx_create_fmr_pool is done, or fails.                                 *)
LEMMA CreatePoolKeeps == ASSUME FmrInv, CreatePoolDone \/ CreatePoolFails PROVE FmrInv'
BY Zenon, OnlyWakes DEF CreatePoolDone, CreatePoolFails

(* The thread takes the dirty FMRs, which nobody has.                      *)
LEMMA BatchTakeKeeps == ASSUME FmrInv, BatchTake PROVE FmrInv'
<1>1. /\ cleaner = "batch" /\ NoLongerOwed(OnList("dirty")) /\ dirty_len' = 0
      /\ cleaner' \in {"answer", "unmap"}
      /\ UNCHANGED <<flush_req, do_flush, flush_done, fmr_pool, waiting, client, lost, missed, alerts>>
  BY Zenon DEF BatchTake
<1>2. fmr' = [e \in Fmr |-> IF e \in OnList("dirty")
                            THEN [fmr[e] EXCEPT !.list = "unmap", !.remap_count = 0, !.in_cash = FALSE]
                            ELSE fmr[e]]
  BY Zenon DEF BatchTake
<1>3. 0 \in 0..MaxRemaps /\ MaxRemaps \in Nat \ {0} /\ 0 \in 0..MaxDirtyLen
  BY FmrAssumption
<1>4. ASSUME NEW e \in Fmr
      PROVE  /\ fmr'[e] \in Elem /\ ElemSound(fmr'[e]) /\ fmr'[e].ref_count = fmr[e].ref_count
             /\ fmr'[e] = fmr[e] \/ (fmr[e].ref_count = 0 /\ "none" \notin {fmr[e].list, fmr'[e].list})
  <2>1. fmr[e] \in Elem /\ ElemSound(fmr[e])
    BY Zenon, FmrOf
  <2>2. CASE e \notin OnList("dirty")
    BY <1>2, <2>1, <2>2, Zenon
  <2>3. CASE e \in OnList("dirty")
    <3>1. PICK r : r = [fmr[e] EXCEPT !.list = "unmap", !.remap_count = 0, !.in_cash = FALSE]
      BY Zenon
    <3>2. fmr'[e] = r /\ fmr[e].list = "dirty"
      BY <1>2, <2>3, <3>1, Zenon DEF OnList
    <3>3. r \in Elem
      BY <1>3, <2>1, <3>1, Zenon DEF Elem
    <3>4. r.list = "unmap" /\ r.remap_count = 0 /\ r.in_cash = FALSE /\ r.ref_count = fmr[e].ref_count
      BY Zenon, <2>1, <3>1 DEF Elem
    <3> QED
      BY Zenon, <1>3, <2>1, <3>2, <3>3, <3>4 DEF ElemSound
  <2> QED
    BY Zenon, <2>2, <2>3
<1>5. fmr' \in [Fmr -> Elem]
  BY <1>2, <1>4, Zenon
<1>6. PoolSound'
  BY Zenon, <1>1, <1>4, <1>5, ThreadKeeps
<1>7. FlushSound /\ FlushTyped /\ OwedSound
  BY Zenon DEF FmrInv, FlushSound
<1>8. \A d \in FmrClient : owed'[d] = {}
  <2>1. \A d \in FmrClient : owed[d] \subseteq OnList("dirty")
    BY Zenon, <1>7 DEF OwedSound, FlushTyped, OnList
  <2> QED
    BY Zenon, <1>1, <2>1 DEF NoLongerOwed
<1>9. owed' \in [FmrClient -> SUBSET Fmr]
  BY Zenon, <1>1, <1>7 DEF NoLongerOwed, FlushTyped
<1>10. \A d \in FmrClient : (InFlush(d)' <=> InFlush(d)) /\ (Calling(d, "wait") => Calling(d, "wait")')
  BY Zenon, <1>1 DEF InFlush, Calling
<1>11. /\ dirty_len' \in 0..MaxDirtyLen /\ do_flush' \in BOOLEAN /\ fmr_pool' \in {"new", "open", "closing"}
       /\ UNCHANGED <<flush_req, flush_done, waiting, lost, missed, alerts>>
       /\ cleaner' = "dec" <=> cleaner = "dec"
       /\ cleaner' \in {"test", "batch", "unmap", "answer", "dec", "stop", "wait", "gone"}
  BY Zenon, <1>1, <1>3, <1>7 DEF FlushTyped
<1>12. FlushSound'
  BY Zenon, <1>7, <1>8, <1>9, <1>10, <1>11, FlushKeeps
<1>13. ThreadSound'
  <2>1. CASE OnList("dirty") = {}
    <3>1. \A e \in Fmr : fmr'[e] = fmr[e]
      BY <1>2, <2>1, Zenon
    <3>2. \A e \in Fmr : fmr'[e].list # "unmap"
      BY Zenon, <1>1, <3>1 DEF FmrInv, ThreadSound
    <3> QED
      BY Zenon, <1>1, <3>2 DEF ThreadSound
  <2>2. CASE OnList("dirty") # {}
    <3>1. cleaner' = "unmap"
      BY <2>2, Zenon DEF BatchTake
    <3> QED
      BY Zenon, <3>1 DEF ThreadSound
  <2> QED
    BY Zenon, <2>1, <2>2
<1> QED
  BY Zenon, <1>6, <1>12, <1>13 DEF FmrInv

(* The thread unmaps them.                                                 *)
LEMMA BatchUnmapKeeps == ASSUME FmrInv, BatchUnmap PROVE FmrInv'
<1>1. /\ cleaner = "unmap" /\ cleaner' = "answer"
      /\ UNCHANGED <<dirty_len, do_flush, fmr_pool, client, Flushing>>
  BY Zenon DEF BatchUnmap
<1>2. fmr' = [e \in Fmr |-> IF e \in OnList("unmap")
                            THEN [fmr[e] EXCEPT !.list = "free", !.hw = NoKey] ELSE fmr[e]]
  BY Zenon DEF BatchUnmap
<1>3. MaxRemaps \in Nat \ {0}
  BY Zenon, FmrAssumption
<1>4. ASSUME NEW e \in Fmr
      PROVE  /\ fmr'[e] \in Elem /\ ElemSound(fmr'[e]) /\ fmr'[e].ref_count = fmr[e].ref_count
             /\ fmr'[e] = fmr[e] \/ (fmr[e].ref_count = 0 /\ "none" \notin {fmr[e].list, fmr'[e].list})
             /\ fmr'[e].list # "unmap"
  <2>1. fmr[e] \in Elem /\ ElemSound(fmr[e])
    BY FmrOf
  <2>2. CASE e \notin OnList("unmap")
    BY <1>2, <2>1, <2>2, Zenon DEF OnList
  <2>3. CASE e \in OnList("unmap")
    <3>1. PICK r : r = [fmr[e] EXCEPT !.list = "free", !.hw = NoKey]
      BY Zenon
    <3>2. fmr'[e] = r /\ fmr[e].list = "unmap"
      BY <1>2, <2>3, <3>1, Zenon DEF OnList
    <3>3. r \in Elem
      BY <2>1, <3>1, Zenon DEF Elem
    <3>4. /\ r.list = "free" /\ r.remap_count = fmr[e].remap_count /\ r.in_cash = fmr[e].in_cash
          /\ r.ref_count = fmr[e].ref_count /\ r.hw = NoKey
      BY Zenon, <2>1, <3>1 DEF Elem
    <3>5. ~fmr[e].in_cash
      <4>1. fmr[e].cur # "unmap"
        BY <2>1, Zenon DEF Elem
      <4> QED
        BY Zenon, <2>1, <3>2, <4>1 DEF ElemSound
    <3> QED
      BY <1>3, <2>1, <3>2, <3>3, <3>4, <3>5 DEF ElemSound
  <2> QED
    BY Zenon, <2>2, <2>3
<1>5. fmr' \in [Fmr -> Elem]
  BY <1>2, <1>4, Zenon
<1>6. PoolSound'
  BY Zenon, <1>1, <1>4, <1>5, ThreadKeeps
<1>7. FlushSound /\ FlushTyped /\ OwedSound
  BY DEF FmrInv, FlushSound
<1>8. owed' = owed /\ \A d \in FmrClient : owed'[d] = {}
  BY Zenon, <1>1, <1>7 DEF OwedSound, Flushing
<1>9. \A d \in FmrClient : (InFlush(d)' <=> InFlush(d)) /\ (Calling(d, "wait") => Calling(d, "wait")')
  BY Zenon, <1>1 DEF InFlush, Calling
<1>10. /\ dirty_len' \in 0..MaxDirtyLen /\ do_flush' \in BOOLEAN /\ fmr_pool' \in {"new", "open", "closing"}
       /\ UNCHANGED <<flush_req, flush_done, waiting, lost, missed, alerts>>
       /\ cleaner' = "dec" <=> cleaner = "dec"
       /\ cleaner' \in {"test", "batch", "unmap", "answer", "dec", "stop", "wait", "gone"}
       /\ owed' \in [FmrClient -> SUBSET Fmr]
  BY Zenon, <1>1, <1>7, <1>8 DEF FlushTyped, Flushing
<1>11. FlushSound'
  BY Zenon, <1>7, <1>8, <1>9, <1>10, FlushKeeps
<1>12. ThreadSound'
  BY Zenon, <1>1, <1>4 DEF ThreadSound
<1> QED
  BY <1>6, <1>11, <1>12 DEF FmrInv

(* A client finds its answer, or waits for it.                             *)
LEMMA FlushWaitKeeps ==
  ASSUME FmrInv, NEW c \in FmrClient, FlushWait(c)
  PROVE  FmrInv'
<1>1. /\ client[c].pc = "wait" /\ c \notin Waiting
      /\ UNCHANGED <<fmr, dirty_len, flush_req, do_flush, cleaner, fmr_pool, lost, alerts>>
  BY Zenon DEF FlushWait, Calling
<1>2. /\ FlushSound /\ FlushTyped /\ FlushCounted /\ WaitSound /\ OwedSound /\ FlushComplete
      /\ cleaner = "dec" => flush_req > 0
  BY Zenon DEF FmrInv, FlushSound
<1>3. /\ flush_req \in Nat /\ lost \in Nat /\ alerts \in Nat /\ owed \in [FmrClient -> SUBSET Fmr]
      /\ waiting \in Seq(FmrClient)
  BY Zenon, <1>2 DEF FlushTyped
<1>4. CASE flush_done
  <2>1. /\ flush_done' = FALSE /\ Returned(c) /\ client' = [client EXCEPT ![c].pc = "idle"] /\ waiting' = waiting
    BY <1>4, Zenon DEF FlushWait
  <2>2. /\ PoolSound' /\ client'[c].pc = "idle"
        /\ \A d \in FmrClient : d # c => client'[d] = client[d]
    BY <1>1, <2>1, PcKeeps, Zenon
  <2>3. \A d \in FmrClient : owed[d] = {}
    BY Zenon, <1>2, <1>4 DEF OwedSound
  <2>4. missed' = FALSE /\ owed' \in [FmrClient -> SUBSET Fmr] /\ \A d \in FmrClient : owed'[d] = {}
    BY Zenon, <1>2, <1>3, <2>1, <2>3 DEF Returned, FlushComplete, FlushTyped
  <2>5. /\ InFlush(c) /\ ~InFlush(c)'
        /\ \A d \in FmrClient : d # c => (InFlush(d)' <=> InFlush(d))
    BY Zenon, <1>1, <2>2 DEF InFlush
  <2>6. /\ Cardinality(InFlight) \in Nat /\ Cardinality(InFlight') = Cardinality(InFlight) - 1
    BY <2>5, FlightCount
  <2>7. FlushCounted'
    <3>1. flush_req + 1 + lost = Cardinality(InFlight) + alerts + (IF cleaner = "dec" THEN 1 ELSE 0)
      BY Zenon, <1>2, <1>4 DEF FlushCounted
    <3>2. flush_req' = flush_req /\ lost' = lost /\ alerts' = alerts /\ cleaner' = cleaner /\ ~flush_done'
      BY <1>1, <2>1, Zenon
    <3>3. flush_req' + 0 + lost' = Cardinality(InFlight') + alerts' + (IF cleaner' = "dec" THEN 1 ELSE 0)
      BY <1>3, <2>6, <3>1, <3>2
    <3> QED
      BY <3>2, <3>3, Zenon DEF FlushCounted
  <2>8. WaitSound'
    <3>1. \A i \in 1..Len(waiting) : waiting[i] # c
      BY <1>1, Zenon DEF Waiting
    <3>2. \A i \in 1..Len(waiting) : waiting[i] \in FmrClient
      BY <1>3
    <3>3. \A i \in 1..Len(waiting) : client[waiting[i]].pc = "wait"
      BY Zenon, <1>2 DEF WaitSound, Calling
    <3>4. \A i \in 1..Len(waiting) : client'[waiting[i]].pc = "wait"
      BY Zenon, <2>2, <3>1, <3>2, <3>3
    <3>5. \A i, k \in 1..Len(waiting) : waiting[i] = waiting[k] => i = k
      BY Zenon, <1>2 DEF WaitSound
    <3> QED
      BY <2>1, <3>4, <3>5, Zenon DEF WaitSound, Calling
  <2>9. OwedSound'
    BY Zenon, <2>4 DEF OwedSound
  <2>10. FlushTyped'
    BY <1>1, <1>2, <2>1, <2>4, Zenon DEF FlushTyped
  <2>11. ThreadSound'
    BY Zenon, <1>1, <2>2, WakeKeeps DEF Calling
  <2> QED
    BY Zenon, <1>1, <1>2, <2>2, <2>4, <2>7, <2>8, <2>9, <2>10, <2>11 DEF FmrInv, FlushSound, FlushComplete
<1>5. CASE ~flush_done
  <2>1. waiting' = Append(waiting, c) /\ UNCHANGED <<flush_done, client, owed, missed>>
    BY <1>5, Zenon DEF FlushWait
  <2>2. PoolSound'
    BY Zenon, <1>1, <2>1, FmrOf, ThreadKeeps DEF FmrInv, PoolSound
  <2>3. waiting' \in Seq(FmrClient)
    BY <1>3, <2>1
  <2>4. /\ Len(waiting') = Len(waiting) + 1 /\ Len(waiting) \in Nat /\ waiting'[Len(waiting) + 1] = c
        /\ \A i \in 1..Len(waiting) : waiting'[i] = waiting[i] /\ waiting[i] # c
    BY <1>1, <1>3, <2>1 DEF Waiting
  <2>5. WaitSound'
    <3>1. \A i \in 1..Len(waiting) : client[waiting[i]].pc = "wait"
      BY <1>2 DEF WaitSound, Calling
    <3>2. \A i \in 1..Len(waiting') : client'[waiting'[i]].pc = "wait"
      BY <1>1, <2>1, <2>4, <3>1
    <3>3. \A i, k \in 1..Len(waiting') : waiting'[i] = waiting'[k] => i = k
      BY <1>2, <2>4 DEF WaitSound
    <3> QED
      BY <3>2, <3>3, Zenon DEF WaitSound, Calling
  <2>6. InFlight' = InFlight
    BY Zenon, <2>1 DEF InFlight, InFlush
  <2>7. FlushCounted' /\ OwedSound'
    BY Zenon, <1>1, <1>2, <2>1, <2>6 DEF FlushCounted, OwedSound, InFlush
  <2>8. FlushTyped'
    BY Zenon, <1>1, <1>2, <2>1, <2>3 DEF FlushTyped
  <2>9. ThreadSound'
    BY Zenon, <1>1, <2>1, WakeKeeps DEF Calling
  <2> QED
    BY Zenon, <1>1, <1>2, <2>1, <2>2, <2>5, <2>7, <2>8, <2>9 DEF FmrInv, FlushSound, FlushComplete
<1> QED
  BY Zenon, <1>4, <1>5

(* The thread answers a client that waits, or leaves the answer.           *)
LEMMA CleanAnswerKeeps == ASSUME FmrInv, CleanAnswer PROVE FmrInv'
<1>1. /\ cleaner = "answer" /\ UNCHANGED <<fmr, dirty_len, flush_req, do_flush, fmr_pool, alerts>>
  BY Zenon DEF CleanAnswer
<1>2. /\ FlushSound /\ FlushTyped /\ FlushCounted /\ WaitSound /\ OwedSound /\ FlushComplete
  BY Zenon DEF FmrInv, FlushSound
<1>3. /\ flush_req \in Nat /\ lost \in Nat /\ alerts \in Nat
      /\ owed \in [FmrClient -> SUBSET Fmr] /\ waiting \in Seq(FmrClient)
      /\ do_flush \in BOOLEAN /\ fmr_pool \in {"new", "open", "closing"} /\ dirty_len \in 0..MaxDirtyLen
  BY Zenon, <1>2 DEF FlushTyped
<1>4. \A d \in FmrClient : owed[d] = {}
  BY Zenon, <1>1, <1>2 DEF OwedSound
<1>8. \A e \in Fmr : fmr[e].list # "unmap"
  BY Zenon, <1>1 DEF FmrInv, ThreadSound
<1>5. CASE flush_req = 0
  <2>1. cleaner' = "stop" /\ UNCHANGED <<flush_done, waiting, owed, lost, missed, alerts, client>>
    BY <1>1, <1>3, <1>5 DEF CleanAnswer
  <2>2. ThreadSound'
    BY <1>1, <1>5, <1>8, <2>1 DEF ThreadSound
  <2> QED
    BY Zenon, <1>1, <1>3, <2>1, <2>2, QuietKeeps DEF Flushing
<1>6. CASE flush_req > 0 /\ waiting # <<>>
  <2>1. PICK c : c = Head(waiting)
    BY Zenon
  <2>2. /\ cleaner' = "dec" /\ waiting' = Tail(waiting) /\ Returned(c)
        /\ client' = [client EXCEPT ![c].pc = "idle"] /\ UNCHANGED <<flush_done, lost>>
    BY <1>6, <2>1 DEF CleanAnswer
  <2>3. /\ Len(waiting) \in Nat \ {0} /\ c = waiting[1] /\ c \in FmrClient /\ waiting' \in Seq(FmrClient)
        /\ Len(waiting') = Len(waiting) - 1 /\ \A i \in 1..Len(waiting') : waiting'[i] = waiting[i + 1]
    BY <1>3, <1>6, <2>1, <2>2
  <2>4. client[c].pc = "wait" /\ 1 \in 1..Len(waiting)
    BY <1>2, <2>3 DEF WaitSound, Calling
  <2>5. /\ PoolSound' /\ client'[c].pc = "idle"
        /\ \A d \in FmrClient : d # c => client'[d] = client[d]
    BY <1>1, <2>2, <2>3, <2>4, PcKeeps, Zenon
  <2>6. missed' = FALSE /\ owed' \in [FmrClient -> SUBSET Fmr] /\ \A d \in FmrClient : owed'[d] = {}
    BY Zenon, <1>2, <1>3, <1>4, <2>2, <2>3 DEF Returned, FlushComplete, FlushTyped
  <2>7. /\ InFlush(c) /\ ~InFlush(c)'
        /\ \A d \in FmrClient : d # c => (InFlush(d)' <=> InFlush(d))
    BY Zenon, <2>4, <2>5 DEF InFlush
  <2>8. /\ Cardinality(InFlight) \in Nat /\ Cardinality(InFlight') = Cardinality(InFlight) - 1
    BY <2>3, <2>7, FlightCount
  <2>9. FlushCounted'
    BY <1>1, <1>2, <1>3, <2>2, <2>8 DEF FlushCounted
  <2>10. WaitSound'
    <3>1. \A i \in 1..Len(waiting') : i + 1 \in 1..Len(waiting) /\ i + 1 # 1
      BY <2>3
    <3>2. \A i \in 1..Len(waiting') : waiting'[i] \in FmrClient /\ waiting'[i] # c
      BY <1>2, <1>3, <2>3, <2>4, <3>1 DEF WaitSound
    <3>3. \A i \in 1..Len(waiting') : client[waiting'[i]].pc = "wait"
      BY <1>2, <2>3, <3>1 DEF WaitSound, Calling
    <3>4. \A i \in 1..Len(waiting') : client'[waiting'[i]].pc = "wait"
      BY Zenon, <2>5, <3>2, <3>3
    <3>5. \A i, k \in 1..Len(waiting') : waiting'[i] = waiting'[k] => i = k
      BY <1>2, <2>3, <3>1 DEF WaitSound
    <3> QED
      BY <3>4, <3>5, Zenon DEF WaitSound, Calling
  <2>11. OwedSound'
    BY Zenon, <2>6 DEF OwedSound
  <2>12. FlushTyped'
    BY <1>1, <1>2, <2>2, <2>3, <2>6, Zenon DEF FlushTyped
  <2> QED
    BY Zenon, <1>1, <1>6, <1>8, <2>2, <2>5, <2>6, <2>9, <2>10, <2>11, <2>12
       DEF FmrInv, FlushSound, FlushComplete, ThreadSound
<1>7. CASE flush_req > 0 /\ waiting = <<>>
  <2>1. /\ cleaner' = "dec" /\ flush_done' = TRUE /\ lost' = lost + IF flush_done THEN 1 ELSE 0
        /\ UNCHANGED <<waiting, owed, missed, client>>
    BY <1>7 DEF CleanAnswer
  <2>2. PoolSound'
    BY Zenon, <1>1, <2>1, FmrOf, ThreadKeeps DEF FmrInv, PoolSound
  <2>3. InFlight' = InFlight /\ Cardinality(InFlight) \in Nat
    BY Zenon, <2>1, FmrCounts, FS_CardinalityType DEF InFlight, InFlush
  <2>4. FlushCounted' /\ lost' \in Nat
    BY <1>1, <1>2, <1>3, <2>1, <2>3 DEF FlushCounted
  <2>5. OwedSound'
    BY Zenon, <1>4, <2>1 DEF OwedSound
  <2>6. \A d \in FmrClient : Calling(d, "wait") => Calling(d, "wait")'
    BY Zenon, <2>1 DEF Calling
  <2>7. WaitSound'
    BY Zenon, <1>2, <2>1, <2>6, WaitKeeps
  <2>8. FlushTyped'
    BY Zenon, <1>1, <1>2, <2>1, <2>4 DEF FlushTyped
  <2> QED
    BY Zenon, <1>1, <1>2, <1>7, <1>8, <2>1, <2>2, <2>4, <2>5, <2>7, <2>8
       DEF FmrInv, FlushSound, FlushComplete, ThreadSound
<1> QED
  BY <1>3, <1>5, <1>6, <1>7

(* The thread counts the request that it answered.                         *)
LEMMA CleanDecKeeps == ASSUME FmrInv, CleanDec PROVE FmrInv'
<1>1. /\ cleaner = "dec" /\ flush_req' = flush_req - 1
      /\ cleaner' = "test" \/ (cleaner' = "stop" /\ flush_req = 1)
      /\ UNCHANGED <<fmr, dirty_len, do_flush, flush_done, fmr_pool, waiting, client, owed, lost, missed, alerts>>
  BY Zenon DEF CleanDec
<1>2. /\ FlushSound /\ FlushTyped /\ FlushCounted /\ WaitSound /\ OwedSound /\ FlushComplete
      /\ flush_req > 0
  BY Zenon, <1>1 DEF FmrInv, FlushSound
<1>3. flush_req \in Nat /\ flush_req' \in Nat /\ lost \in Nat /\ alerts \in Nat
  BY <1>1, <1>2 DEF FlushTyped
<1>4. PoolSound'
  BY Zenon, <1>1, FmrOf, ThreadKeeps DEF FmrInv, PoolSound
<1>5. InFlight' = InFlight /\ Cardinality(InFlight) \in Nat
  BY <1>1, FmrCounts, FS_CardinalityType, Zenon DEF InFlight, InFlush
<1>6. FlushCounted'
  BY <1>1, <1>2, <1>3, <1>5 DEF FlushCounted
<1>7. OwedSound'
  BY Zenon, <1>1, <1>2 DEF OwedSound
<1>8. \A d \in FmrClient : Calling(d, "wait") => Calling(d, "wait")'
  BY Zenon, <1>1 DEF Calling
<1>9. WaitSound'
  BY Zenon, <1>1, <1>2, <1>8, WaitKeeps
<1>10. FlushTyped'
  BY Zenon, <1>1, <1>2, <1>3 DEF FlushTyped
<1>11. ThreadSound'
  BY <1>1, <1>3 DEF FmrInv, ThreadSound
<1> QED
  BY Zenon, <1>1, <1>2, <1>4, <1>6, <1>7, <1>9, <1>10, <1>11 DEF FmrInv, FlushSound, FlushComplete

(* mlnx_create_fmr_pool allocates an FMR.                                  *)
LEMMA CreateFmrKeeps ==
  ASSUME FmrInv, NEW e \in Fmr, CreateFmr(e)
  PROVE  FmrInv'
<1>1. /\ fmr[e].list = "freed" /\ fmr' = [fmr EXCEPT ![e].list = "free"]
      /\ UNCHANGED <<dirty_len, do_flush, cleaner, fmr_pool, client, Flushing>>
  BY Zenon DEF CreateFmr
<1>2. PICK r : r = [fmr[e] EXCEPT !.list = "free"]
  BY Zenon
<1>3. fmr[e] \in Elem /\ ElemSound(fmr[e]) /\ fmr \in [Fmr -> Elem]
  BY Zenon, FmrOf DEF FmrInv, PoolSound
<1>4. /\ r \in Elem /\ r.list = "free" /\ r.ref_count = fmr[e].ref_count /\ r.cur = fmr[e].cur
      /\ r.in_cash = fmr[e].in_cash /\ r.remap_count = fmr[e].remap_count /\ r.hw = fmr[e].hw
  BY Zenon, <1>2, <1>3 DEF Elem
<1>5. ElemSound(r) /\ fmr[e].ref_count = 0
  <2>1. fmr[e].cur # "freed" /\ MaxRemaps \in Nat \ {0}
    BY Zenon, <1>3, FmrAssumption DEF Elem
  <2> QED
    BY <1>1, <1>3, <1>4, <2>1 DEF ElemSound
<1>6. fmr'[e] = r /\ fmr' \in [Fmr -> Elem] /\ \A x \in Fmr \ {e} : fmr'[x] = fmr[x]
  BY Zenon, <1>1, <1>2, <1>3, <1>4
<1>7. PoolSound'
  <2>1. ASSUME NEW x \in Fmr
        PROVE  /\ ElemSound(fmr'[x]) /\ fmr'[x].ref_count = fmr[x].ref_count
               /\ fmr'[x] = fmr[x] \/ (fmr[x].ref_count = 0 /\ "none" \notin {fmr[x].list, fmr'[x].list})
    BY Zenon, <1>1, <1>4, <1>5, <1>6, FmrOf
  <2> QED
    BY Zenon, <1>1, <1>6, <2>1, ThreadKeeps
<1>8. FlushSound'
  <2>1. FlushSound /\ FlushTyped /\ OwedSound
    BY DEF FmrInv, FlushSound
  <2>2. \A d \in FmrClient : (InFlush(d)' <=> InFlush(d)) /\ (Calling(d, "wait") => Calling(d, "wait")')
    BY Zenon, <1>1 DEF InFlush, Calling
  <2>3. UNCHANGED <<flush_req, flush_done, waiting, lost, missed, alerts, owed>>
    BY Zenon, <1>1 DEF Flushing
  <2>4. \A d \in FmrClient : /\ owed'[d] \subseteq owed[d]
                             /\ \A x \in owed'[d] : fmr'[x].list = "dirty"
                             /\ owed'[d] # {} => cleaner' \notin {"unmap", "answer"}
    <3>1. \A d \in FmrClient : owed[d] \subseteq Fmr \ {e}
      BY Zenon, <1>1, <2>1 DEF OwedSound, FlushTyped
    <3> QED
      BY Zenon, <1>1, <1>6, <2>1, <2>3, <3>1 DEF OwedSound
  <2> QED
    BY Zenon, <1>1, <2>1, <2>2, <2>3, <2>4, FlushKeeps DEF FlushTyped
<1>9. ThreadSound'
  BY Zenon, <1>1, <1>4, <1>6, WakeKeeps DEF Flushing, Calling
<1> QED
  BY Zenon, <1>7, <1>8, <1>9 DEF FmrInv

(* A wait is interrupted: the flush is no longer in progress, but counted  *)
(* among the interrupted ones.                                             *)
LEMMA FlushAlertedKeeps ==
  ASSUME FmrInv, NEW c \in FmrClient, FlushAlerted(c)
  PROVE  FmrInv'
<1>1. /\ alerts' = alerts + 1 /\ client' = [client EXCEPT ![c].pc = "idle"] /\ owed' = [owed EXCEPT ![c] = {}]
      /\ UNCHANGED <<fmr, dirty_len, flush_req, do_flush, flush_done, cleaner, fmr_pool, lost, missed>>
  BY Zenon DEF FlushAlerted
<1>2. PICK k \in 1..Len(waiting) :
         /\ waiting[k] = c
         /\ waiting' = [i \in 1..(Len(waiting) - 1) |-> waiting[IF i < k THEN i ELSE i + 1]]
  BY Zenon DEF FlushAlerted
<1>3. /\ FlushSound /\ FlushTyped /\ FlushCounted /\ WaitSound /\ OwedSound /\ FlushComplete
      /\ cleaner = "dec" => flush_req > 0
  BY Zenon DEF FmrInv, FlushSound
<1>4. /\ flush_req \in Nat /\ lost \in Nat /\ alerts \in Nat /\ owed \in [FmrClient -> SUBSET Fmr]
      /\ waiting \in Seq(FmrClient) /\ Len(waiting) \in Nat
  BY <1>3 DEF FlushTyped
<1>5. client[c].pc = "wait"
  BY Zenon, <1>2, <1>3 DEF WaitSound, Calling
<1>6. /\ PoolSound' /\ client'[c].pc = "idle"
      /\ \A d \in FmrClient : d # c => client'[d] = client[d]
  BY <1>1, <1>5, PcKeeps, Zenon
<1>7. PICK g \in [1..(Len(waiting) - 1) -> 1..Len(waiting)] :
         /\ \A i \in 1..(Len(waiting) - 1) : g[i] # k /\ waiting'[i] = waiting[g[i]]
         /\ \A i, j \in 1..(Len(waiting) - 1) : g[i] = g[j] => i = j
  <2> DEFINE g == [i \in 1..(Len(waiting) - 1) |-> IF i < k THEN i ELSE i + 1]
  <2>1. \A i \in 1..(Len(waiting) - 1) : g[i] = IF i < k THEN i ELSE i + 1
    BY Zenon
  <2>2. \A i \in 1..(Len(waiting) - 1) : g[i] \in 1..Len(waiting) /\ g[i] # k
    BY <1>4, <2>1
  <2>3. \A i, j \in 1..(Len(waiting) - 1) : g[i] = g[j] => i = j
    BY <1>4, <2>1
  <2>4. \A i \in 1..(Len(waiting) - 1) : waiting'[i] = waiting[g[i]]
    BY <1>2, <2>1, Zenon
  <2>5. g \in [1..(Len(waiting) - 1) -> 1..Len(waiting)]
    BY Zenon, <2>2
  <2> QED
    BY <2>2, <2>3, <2>4, <2>5, Zenon
<1>8. waiting' \in Seq(FmrClient) /\ Len(waiting') = Len(waiting) - 1
  <2>1. Len(waiting) - 1 \in Nat
    BY <1>2, <1>4
  <2>2. \A i \in 1..(Len(waiting) - 1) : waiting'[i] \in FmrClient
    BY <1>4, <1>7
  <2>3. waiting' \in [1..(Len(waiting) - 1) -> FmrClient]
    BY Zenon, <1>2, <2>2
  <2> QED
    BY <2>1, <2>3
<1>9. WaitSound'
  <2>1. \A i \in 1..Len(waiting') : waiting'[i] \in FmrClient /\ waiting'[i] # c
    BY <1>2, <1>3, <1>4, <1>7, <1>8 DEF WaitSound
  <2>2. \A i \in 1..Len(waiting') : client[waiting'[i]].pc = "wait"
    BY <1>3, <1>7, <1>8 DEF WaitSound, Calling
  <2>3. \A i \in 1..Len(waiting') : client'[waiting'[i]].pc = "wait"
    BY Zenon, <1>6, <2>1, <2>2
  <2>4. ASSUME NEW i \in 1..Len(waiting'), NEW j \in 1..Len(waiting'), waiting'[i] = waiting'[j]
        PROVE  i = j
    <3>1. /\ waiting'[i] = waiting[g[i]] /\ g[i] \in 1..Len(waiting)
          /\ waiting'[j] = waiting[g[j]] /\ g[j] \in 1..Len(waiting)
      BY <1>7, <1>8, Zenon
    <3>2. g[i] = g[j]
      BY <1>3, <2>4, <3>1, Zenon DEF WaitSound
    <3> QED
      BY Zenon, <1>7, <1>8, <3>2
  <2> QED
    BY <2>3, <2>4, Zenon DEF WaitSound, Calling
<1>10. FlushCounted'
  <2>1. /\ InFlush(c) /\ ~InFlush(c)'
        /\ \A d \in FmrClient : d # c => (InFlush(d)' <=> InFlush(d))
    BY Zenon, <1>5, <1>6 DEF InFlush
  <2>2. /\ Cardinality(InFlight) \in Nat /\ Cardinality(InFlight') = Cardinality(InFlight) - 1
    BY <2>1, FlightCount
  <2> QED
    BY <1>1, <1>3, <1>4, <2>2 DEF FlushCounted
<1>11. OwedSound' /\ owed' \in [FmrClient -> SUBSET Fmr]
  BY Zenon, <1>1, <1>3, <1>4 DEF OwedSound
<1>12. FlushTyped'
  BY <1>1, <1>3, <1>4, <1>8, <1>11 DEF FlushTyped
<1>13. ThreadSound'
  BY Zenon, <1>1, <1>5, <1>6, WakeKeeps DEF Calling
<1> QED
  BY Zenon, <1>1, <1>3, <1>6, <1>9, <1>10, <1>11, <1>12, <1>13 DEF FmrInv, FlushSound, FlushComplete

(* __cleanup_fmr_pool finds every FMR on a list, and frees it unmapped; no *)
(* call is left, and every flush was answered.                             *)
LEMMA CleanupKeeps == ASSUME FmrInv, CleanupFmrPool PROVE FreedInv'
<1>1. /\ cleaner = "gone" /\ \A c \in FmrClient : client[c].pc = "idle"
      /\ fmr_pool' = "freed" /\ UNCHANGED <<do_flush, cleaner, client, Flushing>>
  BY Zenon DEF CleanupFmrPool, Calling
<1>2. fmr' = [e \in Fmr |->
                IF fmr[e].list \notin {"dirty", "rest", "free"} THEN fmr[e]
                ELSE IF fmr[e].list = "dirty" \/ fmr[e].remap_count # 0
                     THEN [fmr[e] EXCEPT !.list = "freed", !.in_cash = FALSE, !.hw = NoKey]
                     ELSE [fmr[e] EXCEPT !.list = "freed", !.in_cash = FALSE]]
  BY Zenon DEF CleanupFmrPool
<1>3. ASSUME NEW e \in Fmr
      PROVE  /\ fmr'[e].list = "freed" /\ fmr'[e].hw = NoKey
             /\ fmr'[e].in_cash /\ fmr'[e].ref_count = 0
                  => fmr'[e].cur = fmr'[e].list /\ fmr'[e].hw = fmr'[e].key
  <2>1. fmr[e] \in Elem /\ ElemSound(fmr[e])
    BY FmrOf
  <2>2. fmr[e].list \in {"dirty", "rest", "free", "freed"}
    <3>1. fmr[e].list # "none"
      BY Zenon, <1>1 DEF FmrInv, PoolSound, Calling
    <3>2. fmr[e].list # "unmap"
      BY Zenon, <1>1 DEF FmrInv, ThreadSound
    <3> QED
      BY <2>1, <3>1, <3>2, Zenon DEF Elem
  <2>3. CASE fmr[e].list = "freed"
    <3>1. fmr'[e] = fmr[e]
      BY <1>2, <2>3, Zenon
    <3>2. PICK r : r = fmr[e]
      BY Zenon
    <3>3. r.hw = NoKey /\ (r.in_cash => r.cur = r.list /\ r.hw = r.key)
      BY Zenon, <2>1, <2>3, <3>2 DEF ElemSound
    <3> QED
      BY <2>3, <3>1, <3>2, <3>3, Zenon
  <2>4. CASE fmr[e].list # "freed" /\ (fmr[e].list = "dirty" \/ fmr[e].remap_count # 0)
    <3>1. PICK r : r = [fmr[e] EXCEPT !.list = "freed", !.in_cash = FALSE, !.hw = NoKey]
      BY Zenon
    <3>2. fmr'[e] = r
      BY <1>2, <2>2, <2>4, <3>1, Zenon
    <3>3. r.list = "freed" /\ r.in_cash = FALSE /\ r.hw = NoKey
      BY Zenon, <2>1, <3>1 DEF Elem
    <3> QED
      BY <3>2, <3>3, Zenon
  <2>5. CASE fmr[e].list # "freed" /\ ~(fmr[e].list = "dirty" \/ fmr[e].remap_count # 0)
    <3>1. PICK r : r = [fmr[e] EXCEPT !.list = "freed", !.in_cash = FALSE]
      BY Zenon
    <3>2. fmr'[e] = r
      BY <1>2, <2>2, <2>5, <3>1, Zenon
    <3>3. fmr[e].hw = NoKey
      BY Zenon, <2>1, <2>2, <2>5 DEF ElemSound
    <3>4. r.list = "freed" /\ r.in_cash = FALSE /\ r.hw = NoKey
      BY Zenon, <2>1, <3>1, <3>3 DEF Elem
    <3> QED
      BY <3>2, <3>4, Zenon
  <2> QED
    BY Zenon, <2>3, <2>4, <2>5
<1>4. HeldIsMapped'
  BY Zenon, <1>1, <1>3 DEF HeldIsMapped
<1>5. FlushSound /\ FlushTyped /\ FlushCounted /\ WaitSound
  BY Zenon DEF FmrInv, FlushSound
<1>6. UNCHANGED <<flush_req, flush_done, waiting, lost, missed, alerts, client, cleaner>>
  BY Zenon, <1>1 DEF Flushing
<1>7. FlushComplete' /\ FlushesAnswered'
  BY Zenon, <1>1, <1>5, <1>6 DEF FlushSound, FlushComplete, FlushesAnswered, FlushCounted, InFlight, InFlush
<1>8. waiting' = <<>>
  <2>1. Len(waiting) \in Nat /\ waiting \in Seq(FmrClient)
    BY <1>5 DEF FlushTyped
  <2>2. \A i \in 1..Len(waiting) : waiting[i] \in FmrClient /\ client[waiting[i]].pc = "wait"
    BY <1>5, <2>1 DEF WaitSound, Calling
  <2>3. \A i \in 1..Len(waiting) : FALSE
    BY Zenon, <1>1, <2>2
  <2>4. Len(waiting) = 0
    BY <2>1, <2>3
  <2> QED
    BY <1>6, <2>1, <2>4
<1> QED
  BY Zenon, <1>1, <1>4, <1>6, <1>7, <1>8 DEF FreedInv, Calling

(* A pool that is freed takes no step.                                     *)
LEMMA FreedStays == ASSUME FreedInv, [FmrNext]_fmrvars PROVE FreedInv'
<1>1. /\ fmr_pool = "freed" /\ cleaner = "gone" /\ waiting = <<>>
      /\ \A c \in FmrClient : client[c].pc = "idle"
  BY Zenon DEF FreedInv, Calling
<1>2. ASSUME NEW e \in Fmr PROVE ~CreateFmr(e)
  BY <1>1, Zenon DEF CreateFmr
<1>3. ~CreatePoolDone /\ ~CreatePoolFails /\ ~DestroyFmrPool /\ ~CleanupFmrPool
  BY <1>1, Zenon DEF CreatePoolDone, CreatePoolFails, DestroyFmrPool, CleanupFmrPool
<1>4. ~Cleaner
  BY <1>1, Zenon DEF Cleaner, CleanTest, BatchTake, BatchUnmap, CleanAnswer, CleanDec, CleanStop
<1>5. ASSUME NEW c \in FmrClient
      PROVE  ~FmrCall(c) /\ ~UnmapFmr(c) /\ ~FlushFmr(c) /\ \A k \in Key : ~MapFmr(c, k)
  BY <1>1, Zenon DEF FmrCall, MapPhys, MapCache, FlushSignal, FlushWait, UnmapFmr, FlushFmr, MapFmr, Calling
<1>6. ASSUME NEW c \in FmrClient PROVE ~FlushAlerted(c)
  <2>1. \A k \in 1..Len(waiting) : FALSE
    BY <1>1
  <2> QED
    BY <2>1, Zenon DEF FlushAlerted
<1>7. UNCHANGED fmrvars
  BY <1>2, <1>3, <1>4, <1>5, <1>6, Zenon DEF FmrNext
<1>8. UNCHANGED <<fmr, client, fmr_pool, cleaner, waiting, missed, flush_req, flush_done, lost, alerts>>
  BY Zenon, <1>7 DEF fmrvars
<1> QED
  BY Zenon, <1>8 DEF FreedInv, HeldIsMapped, FlushComplete, FlushesAnswered, Calling, InFlush

(* Every step keeps the invariant of the pool, or frees it.                *)
LEMMA FmrStep == (FmrInv \/ FreedInv) /\ [FmrNext]_fmrvars => (FmrInv \/ FreedInv)'
<1> SUFFICES ASSUME FmrInv, [FmrNext]_fmrvars PROVE FmrInv' \/ FreedInv'
  BY Zenon, FreedStays
<1>1. CASE Cleaner
  BY <1>1, CleanTestKeeps, BatchTakeKeeps, BatchUnmapKeeps, CleanAnswerKeeps, CleanDecKeeps,
     CleanStopKeeps, Zenon DEF Cleaner
<1>2. CASE (\E e \in Fmr : CreateFmr(e)) \/ CreatePoolDone \/ CreatePoolFails
  BY <1>2, CreateFmrKeeps, CreatePoolKeeps, Zenon
<1>3. CASE DestroyFmrPool \/ CleanupFmrPool
  BY <1>3, DestroyKeeps, CleanupKeeps, Zenon
<1>4. ASSUME NEW c \in FmrClient, FmrCall(c) PROVE FmrInv'
  BY <1>4, MapPhysKeeps, MapPhysFailKeeps, MapCacheKeeps, FlushSignalKeeps, FlushWaitKeeps, Zenon DEF FmrCall
<1>5. ASSUME NEW c \in FmrClient, UnmapFmr(c) \/ FlushFmr(c) \/ FlushAlerted(c) PROVE FmrInv'
  BY <1>5, UnmapKeeps, FlushFmrKeeps, FlushAlertedKeeps, Zenon
<1>6. ASSUME NEW c \in FmrClient, NEW k \in Key, MapFmr(c, k) PROVE FmrInv'
  <2>1. MapCached(c, k) \/ MapTake(c, k)
    BY <1>6, Zenon DEF MapFmr
  <2> QED
    BY <1>6, <2>1, MapCachedKeeps, MapTakeKeeps, Zenon
<1>7. CASE UNCHANGED fmrvars
  <2>1. UNCHANGED <<fmr, dirty_len, client, Flushing>> /\ UNCHANGED <<do_flush, cleaner>> /\ fmr_pool' = fmr_pool
    BY Zenon, <1>7 DEF fmrvars, Flushing
  <2>2. fmr_pool \in {"new", "open", "closing"}
    BY Zenon DEF FmrInv, FlushSound, FlushTyped
  <2> QED
    BY Zenon, <2>1, <2>2, OnlyWakes
<1> QED
  BY <1>1, <1>2, <1>3, <1>4, <1>5, <1>6, <1>7, Zenon DEF FmrNext

(* What a client has stays mapped to the pages it asked for: neither the   *)
(* cleanup thread nor another client's call unmaps or remaps it, for any   *)
(* number of FMRs, clients, page lists and remaps (mlnx_map_phys_fmr_pool, *)
(* mlnx_unmap_fmr_pool, __fmr_pool_batch_release); and __cleanup_fmr_pool  *)
(* frees every FMR, and none that is still mapped.                         *)
THEOREM FmrHeldMapped == FmrSpec => []HeldIsMapped
<1>1. FmrInit => FmrInv \/ FreedInv
  BY Zenon, FmrInitial
<1>2. (FmrInv \/ FreedInv) /\ [FmrNext]_fmrvars => (FmrInv \/ FreedInv)'
  BY Zenon, FmrStep
<1>3. ASSUME FmrInv PROVE HeldIsMapped
  <2>1. ASSUME NEW c \in FmrClient, client[c].el # NoFmr, Calling(c, "idle")
        PROVE  fmr[client[c].el].hw = client[c].key
    BY Zenon, <1>3, <2>1, ClientOf DEF ClientSound, Calling
  <2>2. ASSUME NEW e \in Fmr
        PROVE  /\ fmr[e].list \in {"free", "dirty"} => fmr[e].ref_count = 0
               /\ fmr[e].list = "free" => fmr[e].remap_count < MaxRemaps
               /\ fmr[e].list = "dirty" => fmr[e].remap_count = MaxRemaps
               /\ fmr[e].in_cash /\ fmr[e].ref_count = 0
                    => fmr[e].cur = fmr[e].list /\ fmr[e].hw = fmr[e].key
               /\ fmr[e].list = "freed" => fmr[e].hw = NoKey
    <3>1. ElemSound(fmr[e])
      BY Zenon, <1>3, FmrOf
    <3> QED
      BY Zenon, <3>1 DEF ElemSound
  <2>3. fmr_pool # "freed"
    BY Zenon, <1>3 DEF FmrInv, FlushSound, FlushTyped
  <2> QED
    BY <2>1, <2>2, <2>3, Zenon DEF HeldIsMapped
<1>4. FreedInv => HeldIsMapped
  BY Zenon DEF FreedInv
<1> QED
  BY <1>1, <1>2, <1>3, <1>4, PTL DEF FmrSpec

(* A flush that began before the thread passed the dirty list, and while   *)
(* flush_done_event held no answer, returns only after everything it found *)
(* dirty has been released or is in use again (mlnx_flush_fmr_pool,        *)
(* __fmr_cleanup_thread).                                                  *)
THEOREM FmrFlushed == FmrSpec => []FlushComplete
<1>1. FmrInit => FmrInv \/ FreedInv
  BY FmrInitial
<1>2. (FmrInv \/ FreedInv) /\ [FmrNext]_fmrvars => (FmrInv \/ FreedInv)'
  BY FmrStep
<1>3. FmrInv \/ FreedInv => FlushComplete
  BY Zenon DEF FmrInv, FlushSound, FreedInv
<1> QED
  BY <1>1, <1>2, <1>3, PTL DEF FmrSpec

(* The cleanup thread answers every flush once, and sleeps over none, for  *)
(* any number of clients and of interrupted waits: as long as the thread   *)
(* is not stopped, at most as many flushes wait for ever as answers were   *)
(* lost in flush_done_event (mlnx_flush_fmr_pool, __fmr_cleanup_thread).   *)
THEOREM FlushesAccounted == FmrSpec => []FlushesAnswered
<1>1. FmrInit => FmrInv \/ FreedInv
  BY FmrInitial
<1>2. (FmrInv \/ FreedInv) /\ [FmrNext]_fmrvars => (FmrInv \/ FreedInv)'
  BY FmrStep
<1>3. FmrInv => FlushesAnswered
  <2>1. FmrInv => FlushCounted /\ ThreadSound
    BY Zenon DEF FmrInv, FlushSound
  <2> QED
    BY Zenon, <2>1 DEF FlushCounted, ThreadSound, FlushesAnswered, InFlight
<1>4. FreedInv => FlushesAnswered
  BY Zenon DEF FreedInv
<1> QED
  BY <1>1, <1>2, <1>3, <1>4, PTL DEF FmrSpec
=============================================================================
