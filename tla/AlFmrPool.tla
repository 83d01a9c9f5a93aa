----------------------------- MODULE AlFmrPool ------------------------------
(***************************************************************************)
(* The pool of fast memory regions, core/al/kernel/al_fmr_pool.c.  An FMR  *)
(* is mapped to the pages a client asks for; released, it stays mapped and *)
(* in the cache, where the next client with the same pages finds it.  An   *)
(* FMR that was mapped max_remaps times is dirty until the cleanup thread  *)
(* has unmapped it.  A client may flush the pool: wait until the thread    *)
(* has unmapped what is dirty.  The pool of the model is created with the  *)
(* cache; without one the search finds nothing.                            *)
(*                                                                         *)
(* Key stands for a list of pages with its virtual address.  The order of  *)
(* the lists is left out: any free FMR may be taken, any of two with the   *)
(* same key found.  Each client has one FMR at a time.                     *)
(***************************************************************************)
EXTENDS Integers, FiniteSets, Sequences

CONSTANTS
    Fmr, NoFmr, Key, NoKey, FmrClient,
    MaxRemaps,       \* max_remaps
    Watermark,       \* dirty_watermark
    MaxDirtyLen,     \* bound: dirty_len, which only a batch release resets
    MaxAlerts        \* bound: flushes whose wait is interrupted

ASSUME FmrAssumption ==
    /\ NoFmr \notin Fmr /\ NoKey \notin Key /\ IsFiniteSet(FmrClient)
    /\ {MaxRemaps, Watermark, MaxDirtyLen} \subseteq Nat \ {0} /\ MaxAlerts \in Nat

VARIABLES
    fmr,             \* mlnx_fmr_pool_element_t
    dirty_len, flush_req,
    do_flush, flush_done,    \* the events: signalled and waited for by nobody
    cleaner,         \* where __fmr_cleanup_thread stands
    fmr_pool,        \* state of the pool object
    waiting,         \* the clients that wait for flush_done, in order
    client,          \* of each client its call, and the FMR it has
    owed,            \* the dirty FMRs that a flush must wait for
    lost, missed,    \* signals lost in flush_done; a flush that was too early
    alerts           \* the flushes that were interrupted

fmrvars == <<fmr, dirty_len, flush_req, do_flush, flush_done, cleaner, fmr_pool, waiting, client,
             owed, lost, missed, alerts>>

(* list is where list_item is linked: "unmap" is the thread's own list,    *)
(* "none" in the hands of a call, "freed" before it is allocated and after *)
(* it is freed.  cur is p_cur_list, hw the pages the adapter maps.         *)
FmrTypeOK ==
    /\ fmr \in [Fmr -> [list : {"free", "dirty", "rest", "unmap", "none", "freed"},
                        cur : {"free", "dirty", "rest"},
                        ref_count : 0..Cardinality(FmrClient), remap_count : 0..MaxRemaps,
                        in_cash : BOOLEAN, key : Key \cup {NoKey}, hw : Key \cup {NoKey}]]
    /\ dirty_len \in 0..MaxDirtyLen /\ flush_req \in 0..(Cardinality(FmrClient) + MaxAlerts + 1)
    /\ do_flush \in BOOLEAN /\ flush_done \in BOOLEAN /\ missed \in BOOLEAN
    /\ cleaner \in {"test", "batch", "unmap", "answer", "dec", "stop", "wait", "gone"}
    /\ fmr_pool \in {"new", "open", "closing", "freed"} /\ alerts \in 0..MaxAlerts
    /\ client \in [FmrClient -> [pc : {"idle", "map", "cache", "signal", "wait"},
                                 el : Fmr \cup {NoFmr}, key : Key \cup {NoKey}]]
    /\ waiting \in Seq(FmrClient) /\ owed \in [FmrClient -> SUBSET Fmr] /\ lost \in Nat

(* The pool object, its events and its thread are there, but no FMR.       *)
FmrInit ==
    /\ fmr = [e \in Fmr |-> [list |-> "freed", cur |-> "free", ref_count |-> 0, remap_count |-> 0,
                             in_cash |-> FALSE, key |-> NoKey, hw |-> NoKey]]
    /\ dirty_len = 0 /\ flush_req = 0 /\ do_flush = FALSE /\ flush_done = FALSE
    /\ cleaner = "test" /\ fmr_pool = "new" /\ waiting = <<>>
    /\ client = [c \in FmrClient |-> [pc |-> "idle", el |-> NoFmr, key |-> NoKey]]
    /\ owed = [c \in FmrClient |-> {}] /\ lost = 0 /\ missed = FALSE /\ alerts = 0

OnList(list) == {e \in Fmr : fmr[e].list = list}
Calling(c, pc) == client[c].pc = pc
Waiting == {waiting[i] : i \in 1..Len(waiting)}
InFlush(c) == client[c].pc \in {"signal", "wait"}
Flushing == <<flush_req, flush_done, waiting, owed, lost, missed, alerts>>

(* cl_event_signal( do_flush_event ): it releases the thread that waits.   *)
SignalDoFlush ==
    IF cleaner = "wait" THEN cleaner' = "test" /\ UNCHANGED do_flush
                        ELSE do_flush' = TRUE /\ UNCHANGED cleaner

(* What a revived or released FMR no longer owes to a flush.               *)
NoLongerOwed(es) == owed' = [c \in FmrClient |-> owed[c] \ es]

-----------------------------------------------------------------------------
(* mlnx_create_fmr_pool: one FMR after another is allocated, and the pool  *)
(* is attached to its PD.  When a step fails the pool is destroyed, with   *)
(* the FMRs it has by then.                                                *)

CreateFmr(e) ==
    /\ fmr_pool = "new" /\ fmr[e].list = "freed"
    /\ fmr' = [fmr EXCEPT ![e].list = "free"]
    /\ UNCHANGED <<dirty_len, do_flush, cleaner, fmr_pool, client, Flushing>>

CreatePoolDone ==
    /\ fmr_pool = "new" /\ OnList("freed") = {} /\ fmr_pool' = "open"
    /\ UNCHANGED <<fmr, dirty_len, do_flush, cleaner, client, Flushing>>

CreatePoolFails ==
    /\ fmr_pool = "new" /\ fmr_pool' = "closing" /\ SignalDoFlush
    /\ UNCHANGED <<fmr, dirty_len, client, Flushing>>

-----------------------------------------------------------------------------
(* mlnx_map_phys_fmr_pool *)

(* Mutant: the FMR stays on the list it is on.                             *)
MapCached_Listed(c, k) ==
    /\ \E e \in Fmr :
         /\ fmr[e].in_cash /\ fmr[e].key = k
         /\ fmr' = [fmr EXCEPT ![e].ref_count = @ + 1]
         /\ NoLongerOwed({e})
         /\ client' = [client EXCEPT ![c].el = e, ![c].key = k]
    /\ UNCHANGED dirty_len

(* Found in the cache: the FMR is taken from the list it is on.            *)
MapCached(c, k) ==
    /\ \E e \in Fmr :
         /\ fmr[e].in_cash /\ fmr[e].key = k
         /\ fmr' = IF fmr[e].ref_count = 0
                   THEN [fmr EXCEPT ![e] = [@ EXCEPT !.ref_count = 1, !.list = "rest", !.cur = "rest"]]
                   ELSE [fmr EXCEPT ![e].ref_count = @ + 1]
         /\ NoLongerOwed({e})
         /\ client' = [client EXCEPT ![c] = [@ EXCEPT !.el = e, !.key = k]]
    /\ UNCHANGED dirty_len

(* A free FMR is taken for the pages, and leaves the cache.                *)
MapTake(c, k) ==
    \E e \in OnList("free") :
        /\ fmr' = [fmr EXCEPT ![e] = [@ EXCEPT !.list = "none", !.in_cash = FALSE]]
        /\ client' = [client EXCEPT ![c] = [@ EXCEPT !.pc = "map", !.el = e, !.key = k]]
        /\ UNCHANGED <<dirty_len, owed>>

(* The search, under the lock; with nothing free the call is refused.      *)
MapFmr(c, k) ==
    /\ fmr_pool = "open" /\ Calling(c, "idle") /\ client[c].el = NoFmr
    /\ IF \E e \in Fmr : fmr[e].in_cash /\ fmr[e].key = k THEN MapCached(c, k)
                                                          ELSE MapTake(c, k)
    /\ UNCHANGED <<flush_req, do_flush, flush_done, cleaner, fmr_pool, waiting, lost, missed,
                   alerts>>

(* mlnx_map_phys_fmr without the lock, then rest_list or, if it fails,     *)
(* free_list.                                                              *)
MapPhys(c, ok) ==
    LET e == client[c].el IN
    /\ Calling(c, "map")
    /\ IF ok
       THEN /\ fmr' = [fmr EXCEPT ![e] = [@ EXCEPT !.remap_count = fmr[e].remap_count + 1,
                                            !.ref_count = 1, !.hw = client[c].key,
                                            !.list = "rest", !.cur = "rest"]]
            /\ client' = [client EXCEPT ![c].pc = "cache"]
       ELSE /\ fmr' = [fmr EXCEPT ![e] = [@ EXCEPT !.list = "free", !.cur = "free"]]
            /\ client' = [client EXCEPT ![c] = [@ EXCEPT !.pc = "idle", !.el = NoFmr, !.key = NoKey]]
    /\ UNCHANGED <<dirty_len, do_flush, cleaner, fmr_pool, Flushing>>

(* The FMR enters the cache, and the call returns it.                      *)
MapCache(c) ==
    /\ Calling(c, "cache")
    /\ fmr' = [fmr EXCEPT ![client[c].el] = [@ EXCEPT !.in_cash = TRUE, !.key = client[c].key]]
    /\ client' = [client EXCEPT ![c].pc = "idle"]
    /\ UNCHANGED <<dirty_len, do_flush, cleaner, fmr_pool, Flushing>>

-----------------------------------------------------------------------------
(* mlnx_unmap_fmr_pool *)

(* The last reference is gone.                                             *)
Release(e) ==
    IF fmr[e].remap_count < MaxRemaps
    THEN /\ fmr' = [fmr EXCEPT ![e] = [@ EXCEPT !.ref_count = 0, !.list = "free", !.cur = "free"]]
         /\ UNCHANGED <<dirty_len, do_flush, cleaner>>
    ELSE /\ fmr' = [fmr EXCEPT ![e] = [@ EXCEPT !.ref_count = 0, !.list = "dirty", !.cur = "dirty"]]
         /\ dirty_len < MaxDirtyLen /\ dirty_len' = dirty_len + 1
         /\ SignalDoFlush

UnmapFmr(c) ==
    LET e == client[c].el IN
    /\ fmr_pool = "open" /\ Calling(c, "idle") /\ e # NoFmr
    /\ IF fmr[e].ref_count = 1
       THEN Release(e)
       ELSE /\ fmr' = [fmr EXCEPT ![e].ref_count = @ - 1]
            /\ UNCHANGED <<dirty_len, do_flush, cleaner>>
    /\ client' = [client EXCEPT ![c] = [@ EXCEPT !.el = NoFmr, !.key = NoKey]]
    /\ UNCHANGED <<fmr_pool, Flushing>>

-----------------------------------------------------------------------------
(* mlnx_flush_fmr_pool: the request is counted, signalled and waited for.  *)

FlushFmr(c) ==
    /\ fmr_pool = "open" /\ Calling(c, "idle")
    /\ flush_req' = flush_req + 1
    /\ client' = [client EXCEPT ![c].pc = "signal"]
    /\ owed' = IF cleaner \in {"unmap", "answer"} \/ flush_done
               THEN owed ELSE [owed EXCEPT ![c] = OnList("dirty")]
    /\ UNCHANGED <<fmr, dirty_len, do_flush, flush_done, cleaner, fmr_pool, waiting, lost, missed,
                   alerts>>

FlushSignal(c) ==
    /\ Calling(c, "signal") /\ SignalDoFlush
    /\ client' = [client EXCEPT ![c].pc = "wait"]
    /\ UNCHANGED <<fmr, dirty_len, fmr_pool, Flushing>>

(* The flush of c returns.                                                 *)
Returned(c) ==
    /\ missed' = (missed \/ owed[c] # {})
    /\ owed' = [owed EXCEPT ![c] = {}]

FlushWait(c) ==
    /\ Calling(c, "wait") /\ c \notin Waiting
    /\ IF flush_done
       THEN /\ flush_done' = FALSE /\ Returned(c)
            /\ client' = [client EXCEPT ![c].pc = "idle"]
            /\ UNCHANGED waiting
       ELSE waiting' = Append(waiting, c) /\ UNCHANGED <<flush_done, client, owed, missed>>
    /\ UNCHANGED <<fmr, dirty_len, flush_req, do_flush, cleaner, fmr_pool, lost, alerts>>

(* The wait is alertable: a flush that waits may give up with IB_ERROR,    *)
(* and leaves its request, or its answer, behind.                          *)
FlushAlerted(c) ==
    /\ alerts < MaxAlerts /\ alerts' = alerts + 1
    /\ \E k \in 1..Len(waiting) :
         /\ waiting[k] = c
         /\ waiting' = [i \in 1..(Len(waiting) - 1) |-> waiting[IF i < k THEN i ELSE i + 1]]
    /\ client' = [client EXCEPT ![c].pc = "idle"] /\ owed' = [owed EXCEPT ![c] = {}]
    /\ UNCHANGED <<fmr, dirty_len, flush_req, do_flush, flush_done, cleaner, fmr_pool, lost, missed>>

-----------------------------------------------------------------------------
(* __fmr_cleanup_thread *)

(* Mutant: a flush is answered before the release.                         *)
CleanTest_AnswerFirst ==
    /\ cleaner = "test"
    /\ cleaner' = IF flush_req > 0 THEN "answer" ELSE IF dirty_len >= Watermark THEN "batch" ELSE "stop"
    /\ UNCHANGED <<fmr, dirty_len, do_flush, fmr_pool, client, Flushing>>

CleanTest ==
    /\ cleaner = "test"
    /\ cleaner' = IF flush_req > 0 \/ dirty_len >= Watermark THEN "batch" ELSE "stop"
    /\ UNCHANGED <<fmr, dirty_len, do_flush, fmr_pool, client, Flushing>>

(* __fmr_pool_batch_release: the dirty FMRs leave the cache and the list,  *)
BatchTake ==
    /\ cleaner = "batch"
    /\ fmr' = [e \in Fmr |-> IF e \in OnList("dirty")
                             THEN [fmr[e] EXCEPT !.list = "unmap", !.remap_count = 0, !.in_cash = FALSE]
                             ELSE fmr[e]]
    /\ NoLongerOwed(OnList("dirty")) /\ dirty_len' = 0
    /\ cleaner' = IF OnList("dirty") = {} THEN "answer" ELSE "unmap"
    /\ UNCHANGED <<flush_req, do_flush, flush_done, fmr_pool, waiting, client, lost, missed, alerts>>

(* are unmapped without the lock, and become free; p_cur_list is left.     *)
BatchUnmap ==
    /\ cleaner = "unmap"
    /\ fmr' = [e \in Fmr |-> IF e \in OnList("unmap")
                             THEN [fmr[e] EXCEPT !.list = "free", !.hw = NoKey] ELSE fmr[e]]
    /\ cleaner' = "answer"
    /\ UNCHANGED <<dirty_len, do_flush, fmr_pool, client, Flushing>>

(* One flush is answered: flush_done_event releases a client that waits.   *)
CleanAnswer ==
    /\ cleaner = "answer"
    /\ \/ /\ flush_req = 0 /\ cleaner' = "stop"
          /\ UNCHANGED <<flush_done, waiting, owed, lost, missed, client>>
       \/ /\ flush_req > 0 /\ cleaner' = "dec"
          /\ IF waiting # <<>>
             THEN /\ waiting' = Tail(waiting) /\ Returned(Head(waiting))
                  /\ client' = [client EXCEPT ![Head(waiting)].pc = "idle"]
                  /\ UNCHANGED <<flush_done, lost>>
             ELSE /\ flush_done' = TRUE /\ lost' = lost + IF flush_done THEN 1 ELSE 0
                  /\ UNCHANGED <<waiting, owed, missed, client>>
    /\ UNCHANGED <<fmr, dirty_len, flush_req, do_flush, fmr_pool, alerts>>

(* Mutant: all requests are answered by one signal.                        *)
CleanDec_All ==
    /\ cleaner = "dec" /\ flush_req' = 0
    /\ cleaner' = "stop"
    /\ UNCHANGED <<fmr, dirty_len, do_flush, flush_done, fmr_pool, waiting, client, owed, lost, missed,
                   alerts>>

CleanDec ==
    /\ cleaner = "dec" /\ flush_req' = flush_req - 1
    /\ cleaner' = IF flush_req = 1 THEN "stop" ELSE "test"
    /\ UNCHANGED <<fmr, dirty_len, do_flush, flush_done, fmr_pool, waiting, client, owed, lost, missed,
                   alerts>>

CleanStop ==
    /\ cleaner = "stop"
    /\ \/ fmr_pool = "closing" /\ cleaner' = "gone" /\ UNCHANGED do_flush
       \/ fmr_pool # "closing" /\ cleaner' = (IF do_flush THEN "test" ELSE "wait") /\ do_flush' = FALSE
    /\ UNCHANGED <<fmr, dirty_len, fmr_pool, client, Flushing>>

Cleaner == CleanTest \/ BatchTake \/ BatchUnmap \/ CleanAnswer \/ CleanDec \/ CleanStop

-----------------------------------------------------------------------------
(* mlnx_destroy_fmr_pool: __destroying_fmr_pool stops the thread and waits *)
(* for it, __cleanup_fmr_pool runs when no call has a reference.           *)

DestroyFmrPool ==
    /\ fmr_pool = "open" /\ fmr_pool' = "closing" /\ SignalDoFlush
    /\ UNCHANGED <<fmr, dirty_len, client, Flushing>>

(* The dirty FMRs are released, rest_list is added to free_list, and what  *)
(* is then on free_list is unmapped, if it was mapped since the last       *)
(* release, and freed, whoever may have it.                                *)
CleanupFmrPool ==
    /\ fmr_pool = "closing" /\ cleaner = "gone" /\ \A c \in FmrClient : Calling(c, "idle")
    /\ fmr' = [e \in Fmr |->
                 IF fmr[e].list \notin {"dirty", "rest", "free"} THEN fmr[e]
                 ELSE IF fmr[e].list = "dirty" \/ fmr[e].remap_count # 0
                      THEN [fmr[e] EXCEPT !.list = "freed", !.in_cash = FALSE, !.hw = NoKey]
                      ELSE [fmr[e] EXCEPT !.list = "freed", !.in_cash = FALSE]]
    /\ fmr_pool' = "freed" /\ dirty_len' = 0
    /\ UNCHANGED <<do_flush, cleaner, client, Flushing>>

FmrCall(c) == MapPhys(c, TRUE) \/ MapPhys(c, FALSE) \/ MapCache(c) \/ FlushSignal(c) \/ FlushWait(c)

FmrNext ==
    \/ (\E e \in Fmr : CreateFmr(e)) \/ CreatePoolDone \/ CreatePoolFails
    \/ Cleaner \/ DestroyFmrPool \/ CleanupFmrPool
    \/ \E c \in FmrClient : \/ FmrCall(c) \/ UnmapFmr(c) \/ FlushFmr(c) \/ FlushAlerted(c)
                           \/ \E k \in Key : MapFmr(c, k)

(* Threads run; clients need ask for nothing, and destroy nothing, and no  *)
(* wait need be interrupted.                                               *)
FmrFairness ==
    /\ WF_fmrvars(Cleaner) /\ WF_fmrvars(CleanupFmrPool)
    /\ \A c \in FmrClient : WF_fmrvars(FmrCall(c))

FmrSpec == FmrInit /\ [][FmrNext]_fmrvars /\ FmrFairness

-----------------------------------------------------------------------------
(* Properties *)

(* What a client has is mapped to the pages it asked for until it gives it *)
(* back or the pool is gone: neither the cleanup thread nor another client *)
(* unmaps or remaps it, although it can be found in the cache all the      *)
(* time.  For that, what is on free_list or dirty_list is not in use and   *)
(* can be mapped again or not (al_fmr_pool.h), and what the cache finds    *)
(* without a reference is mapped to its key and on the list p_cur_list     *)
(* says, from which it is then removed: the batch release leaves           *)
(* p_cur_list wrong, but not of an FMR in the cache.  With the pool every  *)
(* FMR is freed, wherever it was when the pool was destroyed, and none     *)
(* while it is mapped: remap_count tells whether it is.                    *)
HeldIsMapped ==
    /\ \A c \in FmrClient :
         client[c].el # NoFmr /\ Calling(c, "idle") /\ fmr_pool # "freed"
           => fmr[client[c].el].hw = client[c].key
    /\ \A e \in Fmr :
         /\ fmr[e].list \in {"free", "dirty"} => fmr[e].ref_count = 0
         /\ fmr[e].list = "free" => fmr[e].remap_count < MaxRemaps
         /\ fmr[e].list = "dirty" => fmr[e].remap_count = MaxRemaps
         /\ fmr[e].in_cash /\ fmr[e].ref_count = 0
              => fmr[e].cur = fmr[e].list /\ fmr[e].hw = fmr[e].key
         /\ fmr_pool = "freed" => fmr[e].list = "freed"
         /\ fmr[e].list = "freed" => fmr[e].hw = NoKey

(* A flush leaves nothing unreleased that was dirty when it was called,    *)
(* unless the thread was past the dirty list already, or flush_done_event  *)
(* held an answer that nobody had taken: that of a flush whose client does *)
(* not wait yet, or was interrupted.                                       *)
FlushComplete == ~missed

(* No flush is forgotten, and none answered twice: those in progress, and  *)
(* those that were interrupted, are the requests, the answer that waits in *)
(* flush_done_event and the answers lost there, but for one that the       *)
(* thread has answered and not counted yet.  And the thread does not sleep *)
(* over a request, unless its client is about to wake it.  So, as long as  *)
(* the thread is not stopped, at most as many flushes wait for ever as     *)
(* answers were lost.                                                      *)
FlushesAnswered ==
    /\ flush_req + (IF flush_done THEN 1 ELSE 0) + lost
         = Cardinality({c \in FmrClient : InFlush(c)}) + alerts + (IF cleaner = "dec" THEN 1 ELSE 0)
    /\ cleaner = "wait" /\ flush_req > 0 => \E c \in FmrClient : Calling(c, "signal")

(* A flush returns, unless a signal was lost in flush_done_event, because  *)
(* two flushes were answered before either client waited, or the pool was  *)
(* destroyed under it; and a pool that is destroyed is freed, unless such  *)
(* a flush still waits.                                                    *)
FlushReturns ==
    /\ \A c \in FmrClient :
         Calling(c, "signal") ~> Calling(c, "idle") \/ lost > 0 \/ fmr_pool # "open"
    /\ fmr_pool = "closing" ~> fmr_pool = "freed" \/ waiting # <<>>

=============================================================================
