---------------------------- MODULE AlObjStates -----------------------------
(***************************************************************************)
(* The steps that change the state of an object keep the invariant: its    *)
(* construction, its marking for destruction, the end of a wait for its    *)
(* references, its cleanup and the release of its memory.                  *)
(***************************************************************************)
EXTENDS AlObjLemmas

(* Steps that change the state of an object x *)

(* What such a step leaves alone, of the other objects,                    *)
Aside(o) ==
    /\ obj'[o] = obj[o] /\ (o \in expired' <=> o \in expired) /\ Count(o)' = Count(o)
    /\ \A k, pcs : pcs \subseteq Making \cup Destroyer => (Busy(k, o, pcs)' <=> Busy(k, o, pcs))

(* An object the step leaves aside keeps its part of the invariant.        *)
LEMMA Elsewhere ==
  ASSUME IInv, NEW o \in Obj, Aside(o)
  PROVE  Counted(o)' /\ GivenUp(o)' /\ ListOK(o)' /\ (Queued(o) => Queued(o)')
<1>1. Counted(o) /\ GivenUp(o) /\ ListOK(o)
  BY DEF IInv
<1>2. \A k : /\ Busy(k, o, {"cleanup"})' <=> Busy(k, o, {"cleanup"})
             /\ Busy(k, o, Looping)' <=> Busy(k, o, Looping)
             /\ Busy(k, o, Destroyer)' <=> Busy(k, o, Destroyer)
  <2>1. {"cleanup"} \subseteq Destroyer /\ Looping \subseteq Destroyer
    BY DEF Destroyer, Building
  <2> QED
    BY <2>1, Zenon DEF Aside
<1>3. (ByEvent(o)' <=> ByEvent(o)) /\ (Freed(o)' <=> Freed(o))
  BY DEF Aside, ByEvent, Freed
<1>4. Counted(o)'
  BY <1>1, <1>3 DEF Counted, Aside
<1>5. GivenUp(o)'
  BY <1>1, <1>2, <1>3 DEF GivenUp, Aside
<1>6. ListOK(o)'
  BY <1>1, <1>2, <1>3 DEF ListOK, Aside
<1>7. Queued(o) => Queued(o)'
  BY <1>2, <1>3 DEF Queued, Aside
<1> QED
  BY <1>4, <1>5, <1>6, <1>7

(* and of the calls for them.                                              *)
LEMMA AsideFrame ==
  ASSUME NEW f \in Frame, FrameOK(f), obj'[f.obj] = obj[f.obj],
         f.obj \in expired' <=> f.obj \in expired
  PROVE  FrameOK(f)'
BY DEF FrameOK, Freed, ByEvent

(* The queue stays sound when the object of the step is not on it.         *)
LEMMA QueueSame ==
  ASSUME IInv, queue' = queue, NEW x, ~Queued(x), \A o \in Obj : o # x => Aside(o)
  PROVE  QueueOK'
<1>1. queue \in Seq(Obj) /\ QueueOK
  BY DEF IInv, Typed
<1>2. ASSUME NEW i \in 1 .. Len(queue) PROVE Queued(queue[i])'
  <2>1. PICK c \in Obj : c = queue[i]
    BY <1>1
  <2>2. Queued(c) /\ c # x /\ queue'[i] = c
    BY <1>1, <2>1 DEF QueueOK
  <2>3. Queued(c)'
    BY <2>2, Elsewhere
  <2> QED
    BY <2>2, <2>3
<1>3. \A i, j \in 1 .. Len(queue') : queue'[j] = queue'[i] => j = i
  BY <1>1 DEF QueueOK
<1>4. \A i \in 1 .. Len(queue') : Queued(queue[i])'
  BY <1>2, Zenon
<1> QED
  BY <1>3, <1>4 DEF QueueOK

(* What remains to show of a step.                                         *)
LEMMA Turned ==
  ASSUME IInv, Typed', NEW a, NEW b, Differ(a, b), NEW x \in Obj, QueueOK',
         \A o \in Obj : IsFiniteSet(Kids(o)'),
         \A o \in Obj : o # x => Aside(o),
         \A k \in DOMAIN Frames' : k = a \/ k = b \/ Frames'[k].obj = x => FrameOK(Frames[k])',
         \A j, k : Busy(j, x, Making)' /\ Busy(k, x, Making)' => j = k,
         \A j, k : Busy(j, x, Destroyer)' /\ Busy(k, x, Destroyer)' => j = k,
         Counted(x)', GivenUp(x)', ListOK(x)'
  PROVE  IInv'
<1>1. IsFiniteSet(DOMAIN Frames')
  BY FiniteFrames DEF IInv
<1>2. ASSUME NEW k \in DOMAIN Frames' PROVE FrameOK(Frames[k])'
  <2>1. CASE k = a \/ k = b \/ Frames'[k].obj = x
    BY <2>1
  <2>2. CASE k # a /\ k # b /\ Frames'[k].obj # x
    <3>1. PICK f : f = Frames[k]
      OBVIOUS
    <3>2. k \in DOMAIN Frames /\ Frames'[k] = f /\ f \in Frame /\ FrameOK(f)
      BY <2>2, <3>1, FramesTyped DEF Differ, IInv, Typed
    <3>3. f.obj \in Obj /\ f.obj # x
      BY <2>2, <3>2 DEF Frame
    <3>4. FrameOK(f)'
      BY <3>2, <3>3, AsideFrame DEF Aside
    <3> QED
      BY <3>2, <3>4
  <2> QED
    BY <2>1, <2>2
<1>3. OneEach(Making)' /\ OneEach(Destroyer)'
  <2>1. \A o \in Obj : o # x => \A k : /\ Busy(k, o, Making)' <=> Busy(k, o, Making)
                                       /\ Busy(k, o, Destroyer)' <=> Busy(k, o, Destroyer)
    BY Zenon DEF Aside
  <2>2. OneEach(Making) /\ OneEach(Destroyer)
    BY Zenon DEF IInv
  <2>3. ASSUME NEW o \in Obj, NEW j, NEW k, Busy(j, o, Making)', Busy(k, o, Making)' PROVE j = k
    BY <2>1, <2>2, <2>3 DEF OneEach
  <2>4. ASSUME NEW o \in Obj, NEW j, NEW k, Busy(j, o, Destroyer)', Busy(k, o, Destroyer)' PROVE j = k
    BY <2>1, <2>2, <2>4 DEF OneEach
  <2> QED
    BY Zenon, <2>3, <2>4 DEF OneEach
<1>4. \A o \in Obj : Counted(o)' /\ GivenUp(o)' /\ ListOK(o)'
  BY Zenon, Elsewhere
<1> QED
  BY <1>1, <1>2, <1>3, <1>4 DEF IInv

(* The references on the others are as many as before.                     *)
Apart(k, x) == k \in DOMAIN Frames => Frames[k].obj = x \/ Frames[k].pc \notin Making \cup Destroyer

(* When a step leaves an object aside.                                     *)
LEMMA AsideOf ==
  ASSUME IInv, NEW a, NEW b, Differ(a, b), NEW x, NEW o \in Obj, o # x,
         obj'[o] = obj[o], o \in expired' <=> o \in expired,
         Apart(a, x), Apart(a, x)', Apart(b, x)',
         Cardinality(Holders(o)) \in Int, Cardinality(Holders(o)') \in Int,
         Cardinality(Kids(o)) \in Int, Cardinality(Kids(o)') \in Int,
         Cardinality(Holders(o)') + Cardinality(Kids(o)') = Cardinality(Holders(o)) + Cardinality(Kids(o))
  PROVE  Aside(o)
<1>1. ASSUME NEW k, NEW pcs, pcs \subseteq Making \cup Destroyer
      PROVE  Busy(k, o, pcs)' <=> Busy(k, o, pcs)
  <2>1. CASE k = a \/ k = b
    BY <1>1, <2>1 DEF Differ, Busy, Apart
  <2>2. CASE k # a /\ k # b
    BY Zenon, <2>2 DEF Differ, Busy
  <2> QED
    BY Zenon, <2>1, <2>2
<1>2. Building \subseteq Making \cup Destroyer
  BY Zenon DEF Destroyer
<1>3. Built(o)' <=> Built(o)
  BY Zenon, <1>1, <1>2 DEF Built
<1>4. One(Built(o)') = One(Built(o)) /\ One(Built(o)) \in Int
  BY <1>3 DEF One
<1>5. Count(o)' = Count(o)
  BY <1>4 DEF Count
<1> QED
  BY Zenon, <1>1, <1>5 DEF Aside

(* No call but a and b gains or loses a reference when nothing is freed.   *)
LEMMA HoldersApart ==
  ASSUME IInv, NEW a, NEW b, Differ(a, b), NEW o,
         \A c \in Obj : Freed(c)' <=> Freed(c),
         a \in Holders(o)' <=> a \in Holders(o), b \notin Holders(o)'
  PROVE  Holders(o)' = Holders(o)
<1>1. \A k \in DOMAIN Frames : Frames[k].obj \in Obj
  BY FramesTyped, Zenon DEF IInv, Typed, Frame
<1>2. ASSUME NEW k PROVE k \in Holders(o)' <=> k \in Holders(o)
  <2>1. CASE k = a
    BY Zenon, <2>1
  <2>2. CASE k = b
    BY Zenon, <2>2 DEF Differ, Holders
  <2>3. CASE k # a /\ k # b
    <3>1. /\ k \in DOMAIN Frames' <=> k \in DOMAIN Frames
          /\ k \in DOMAIN Frames => Frames'[k] = Frames[k]
      BY Zenon, <2>3 DEF Differ
    <3>2. k \in DOMAIN Frames => (Freed(Frames[k].obj)' <=> Freed(Frames[k].obj))
      BY Zenon, <1>1, <3>1
    <3> QED
      BY Zenon, <3>1, <3>2 DEF Holders, Holds, Abandoned
  <2> QED
    BY Zenon, <2>1, <2>2, <2>3
<1> QED
  BY <1>2, Zenon

(* No child comes or goes when no parent pointer and no creation changes.  *)
LEMMA KidsApart ==
  ASSUME NEW a, NEW b, Differ(a, b), NEW o \in Obj,
         \A c \in Obj : /\ obj'[c].p_parent_obj = obj[c].p_parent_obj
                        /\ Busy(a, c, Attaching)' <=> Busy(a, c, Attaching)
                        /\ ~Busy(b, c, Attaching)'
  PROVE  Kids(o)' = Kids(o)
<1>1. ASSUME NEW c \in Obj, NEW k PROVE Busy(k, c, Attaching)' <=> Busy(k, c, Attaching)
  BY Zenon DEF Differ, Busy
<1>2. ASSUME NEW c \in Obj
      PROVE  (obj'[c].p_parent_obj = o /\ ~\E k : Busy(k, c, Attaching)')
               <=> (obj[c].p_parent_obj = o /\ ~\E k : Busy(k, c, Attaching))
  BY Zenon, <1>1
<1> QED
  BY <1>2, Zenon DEF Kids

(* The holders and the children of an object are finitely many.            *)
LEMMA Cards ==
  ASSUME IInv, NEW o \in Obj
  PROVE  /\ IsFiniteSet(Holders(o)) /\ IsFiniteSet(Kids(o))
         /\ Cardinality(Holders(o)) \in Nat /\ Cardinality(Kids(o)) \in Nat
<1>1. IsFiniteSet(Holders(o)) /\ IsFiniteSet(Kids(o))
  BY Zenon, FS_Subset DEF IInv, Holders
<1> QED
  BY Zenon, <1>1, FS_CardinalityType

(* Mark by the first caller.                                               *)
LEMMA MarkStep ==
  ASSUME IInv, NEW t \in Thr, Mark(t), obj[Top(t).obj].state # "DESTROYING"
  PROVE  IInv'
<1>1. PICK a, b, f, h : /\ Move(a, b, f, h) /\ Sane(f, "mark") /\ h.pc = "drop" /\ f = Top(t)
                        /\ h.obj = f.obj /\ h.at = f.at /\ h.sync = f.sync
  BY GoneTo DEF Mark, Pc, DestroyPc
<1>2. /\ FrameOK(f) /\ f.pc = "mark" /\ f.obj \in Obj /\ obj[f.obj] \in AlObj /\ ~Freed(f.obj)
      /\ Differ(a, b) /\ a \in DOMAIN Frames /\ Frames[a] = f
      /\ a \in DOMAIN Frames' /\ Frames'[a] = h /\ b \notin DOMAIN Frames'
  BY Zenon, <1>1 DEF Move, Own, Sane, IInv, Typed
<1>3. PICK x \in Obj : x = f.obj
  BY Zenon, <1>2
<1>4. obj[x].state = "INITIALIZED"
  BY Zenon, <1>1, <1>2, <1>3 DEF FrameOK, Freed, AlObj
<1>5. PICK r \in AlObj : /\ r = [obj[x] EXCEPT !.state = "DESTROYING"]
                         /\ obj' = [obj EXCEPT ![x] = r]
  <2>1. [obj[x] EXCEPT !.state = "DESTROYING"] \in AlObj
    BY <1>2, <1>3, Zenon DEF AlObj
  <2>2. obj[Top(t).obj].state # "DESTROYING" /\ Top(t).obj = x
    BY Zenon, <1>1, <1>3
  <2>3. obj' = [obj EXCEPT ![x] = [obj[x] EXCEPT !.state = "DESTROYING"]]
    BY <2>2, Zenon DEF Mark
  <2> QED
    BY <2>1, <2>3, Zenon
<1>6. /\ r.user_destroy_cb = obj[x].user_destroy_cb /\ r.obj_list = obj[x].obj_list
      /\ r.state = "DESTROYING" /\ r.ref_cnt = obj[x].ref_cnt /\ r.event = obj[x].event
      /\ r.p_parent_obj = obj[x].p_parent_obj
  BY Zenon, <1>2, <1>3, <1>5 DEF AlObj
<1>7. /\ obj' \in [Obj -> AlObj] /\ obj'[x] = r
      /\ \A o \in Obj : o # x => obj'[o] = obj[o]
  BY <1>5, Written, Zenon
<1>8. queue' = queue /\ expired' = expired /\ Typed'
  BY Zenon, <1>1, <1>7 DEF Mark, Calm, IInv, Typed, Move, Own
<1>9. \A c \in Obj : Freed(c)' <=> Freed(c)
  BY <1>4, <1>6, <1>7 DEF Freed
<1>10. ASSUME NEW o \in Obj PROVE Holders(o)' = Holders(o)
  BY <1>1, <1>2, <1>9, HoldersApart DEF Holders, Holds, Abandoned, Making, CreatePc, Attaching
<1>11. ASSUME NEW o \in Obj PROVE Kids(o)' = Kids(o)
  BY <1>1, <1>2, <1>6, <1>7, KidsApart DEF Busy, Attaching
<1>12. Apart(a, x) /\ Apart(a, x)' /\ Apart(b, x)'
  BY Zenon, <1>1, <1>2, <1>3 DEF Apart
<1>13. ASSUME NEW o \in Obj, o # x PROVE Aside(o)
  <2>1. Holders(o)' = Holders(o) /\ Kids(o)' = Kids(o)
    BY <1>10, <1>11, Zenon
  <2>2. obj'[o] = obj[o] /\ (o \in expired' <=> o \in expired)
    BY <1>7, <1>8, <1>13, Zenon
  <2>3. Cardinality(Holders(o)) \in Int /\ Cardinality(Kids(o)) \in Int
    BY Cards
  <2>4. /\ Cardinality(Holders(o)') \in Int /\ Cardinality(Kids(o)') \in Int
        /\ Cardinality(Holders(o)') + Cardinality(Kids(o)') = Cardinality(Holders(o)) + Cardinality(Kids(o))
    BY <2>1, <2>3, Zenon
  <2> QED
    BY <1>2, <1>12, <1>13, <2>2, <2>3, <2>4, AsideOf, Zenon
<1>14. \A k : ~Busy(k, x, Destroyer)
  BY Zenon, <1>4 DEF IInv, Busy, FrameOK
<1>15. QueueOK'
  BY Zenon, <1>4, <1>8, <1>13, QueueSame DEF Queued
<1>16. ASSUME NEW k \in DOMAIN Frames', k = a \/ k = b \/ Frames'[k].obj = x PROVE FrameOK(Frames[k])'
  <2>1. CASE k = a
    <3>1. FrameOK(h)'
      BY Zenon, <1>1, <1>2, <1>3, <1>6, <1>7 DEF FrameOK, Making, CreatePc, Attaching, Destroyer, Building, Looping
    <3> QED
      BY <1>2, <2>1, <3>1
  <2>2. CASE k # a
    <3>1. PICK g : g = Frames[k]
      BY Zenon
    <3>2. k \in DOMAIN Frames /\ Frames'[k] = g /\ g.obj = x /\ FrameOK(g)
      BY <1>2, <1>16, <2>2, <3>1 DEF Differ, IInv
    <3>3. FrameOK(g)'
      BY Zenon, <1>4, <1>6, <1>7, <1>8, <3>2 DEF FrameOK, Freed, Destroyer, Building
    <3> QED
      BY Zenon, <3>2, <3>3
  <2> QED
    BY Zenon, <2>1, <2>2
<1>17. ASSUME NEW k, Busy(k, x, Destroyer)' PROVE k = a
  BY Zenon, <1>2, <1>14, <1>17 DEF Differ, Busy
<1>18. ASSUME NEW k PROVE Busy(k, x, Making)' <=> Busy(k, x, Making)
  BY Zenon, <1>1, <1>2 DEF Differ, Busy, Making, CreatePc
<1>19. Counted(x)'
  <2>1. Built(x) /\ Built(x)'
    BY Zenon, <1>1, <1>2, <1>3, <1>4 DEF Built, Busy, Building, Looping
  <2>2. Count(x)' = Count(x)
    BY Zenon, <1>10, <1>11, <2>1 DEF Count, One
  <2>3. Counted(x)
    BY Zenon DEF IInv
  <2> QED
    BY <1>4, <1>6, <1>7, <1>8, <2>2, <2>3 DEF Counted, Freed
<1>20. GivenUp(x)'
  <2>1. x \notin expired
    BY Zenon, <1>4, <1>14 DEF IInv, GivenUp, Freed, Busy, Destroyer
  <2> QED
    BY Zenon, <1>8, <2>1 DEF GivenUp
<1>21. ListOK(x)'
  BY <1>1, <1>2, <1>3, <1>6, <1>7 DEF ListOK, Freed, Busy, Looping
<1>22. \A o \in Obj : IsFiniteSet(Kids(o)')
  BY Zenon, <1>11 DEF IInv
<1>23. /\ \A j, k : Busy(j, x, Making)' /\ Busy(k, x, Making)' => j = k
       /\ \A j, k : Busy(j, x, Destroyer)' /\ Busy(k, x, Destroyer)' => j = k
  BY <1>17, <1>18 DEF IInv, OneEach
<1> QED
  BY <1>2, <1>8, <1>13, <1>15, <1>16, <1>19, <1>20, <1>21, <1>22, <1>23, Turned

(* Construct with memory for object x.                                     *)
Constructs(t, x) ==
    /\ obj' = [obj EXCEPT ![x] = NewObj]
    /\ stack' = [stack EXCEPT ![t][1].obj = x, ![t][1].pc = "attach"]

(* construct_al_obj and init_al_obj make object x, held by its creator.    *)
LEMMA ConstructStep ==
  ASSUME IInv, NEW t \in Thr, At(t, "construct"), NEW x \in Obj, obj[x].state = "NONE",
         Constructs(t, x), UNCHANGED <<hdl_vector, queue>>, Calm
  PROVE  IInv'
<1>1. PICK f \in Frame : f = Top(t) /\ f = stack[t][1] /\ Sane(f, "construct") /\ stack[t] # <<>>
  BY Zenon, AtTop
<1>2. PICK h \in Frame : h = [f EXCEPT !.obj = x, !.pc = "attach"]
  BY <1>1, Zenon DEF Frame, Pc, CreatePc
<1>3. h.pc = "attach" /\ h.obj = x /\ h.at = f.at
  BY <1>1, <1>2 DEF Frame
<1>4. stack' = [stack EXCEPT ![t] = [stack[t] EXCEPT ![1] = h]]
  <2>1. stack \in [Thr -> Seq(Frame)] /\ stack[t] \in Seq(Frame) /\ 1 \in DOMAIN stack[t]
    BY <1>1 DEF IInv, Typed
  <2> QED
    BY <1>1, <1>2, <2>1, Zenon DEF Constructs
<1>5. PICK a, b : Move(a, b, f, h)
  BY <1>1, <1>4, Moved, Zenon
<1>6. /\ FrameOK(f) /\ f.pc = "construct"
      /\ Differ(a, b) /\ a \in DOMAIN Frames /\ Frames[a] = f
      /\ a \in DOMAIN Frames' /\ Frames'[a] = h /\ b \notin DOMAIN Frames'
  BY Zenon, <1>1, <1>5 DEF Move, Own, Sane
<1>7. NewObj \in AlObj
  BY ObjAssumption DEF NewObj, AlObj
<1>8. /\ NewObj.state = "INITIALIZED" /\ NewObj.ref_cnt = 2 /\ NewObj.p_parent_obj = NoObj
      /\ ~NewObj.event
  BY Zenon DEF NewObj
<1>9. /\ obj' \in [Obj -> AlObj] /\ obj'[x] = NewObj
      /\ \A o \in Obj : o # x => obj'[o] = obj[o]
  BY <1>7, Written, Zenon DEF Constructs
<1>10. queue' = queue /\ expired' = expired /\ Typed'
  BY Zenon, <1>5, <1>9 DEF Calm, IInv, Typed, Move, Own
<1>11. \A c \in Obj : Freed(c)' <=> Freed(c)
  BY Zenon, <1>8, <1>9 DEF Freed
<1>12. /\ Holders(x) = {} /\ Kids(x) = {} /\ x \notin expired /\ obj[x].p_parent_obj = NoObj
  <2>1. Count(x) = 0 /\ x \notin expired /\ obj[x].p_parent_obj = NoObj
    BY Zenon DEF IInv, Counted, ListOK
  <2>2. Cardinality(Holders(x)) = 0 /\ Cardinality(Kids(x)) = 0
    BY <2>1, Cards DEF Count, One
  <2> QED
    BY Zenon, <2>1, <2>2, Cards, FS_EmptySet
<1>13. f.at \in Obj /\ f.at # x
  <2>1. f.at \in Obj
    BY Zenon, <1>6 DEF FrameOK, CreatePc
  <2>2. a \in Holders(f.at)
    BY Zenon, <1>6 DEF Holders, Holds, Abandoned, CreatePc, Attaching
  <2> QED
    BY Zenon, <1>12, <2>1, <2>2
<1>14. \A k \in DOMAIN Frames : Frames[k].obj # x
  BY DEF IInv, FrameOK
<1>15. ASSUME NEW o \in Obj, o # x PROVE Holders(o)' = Holders(o)
  BY <1>3, <1>6, <1>11, <1>15, HoldersApart DEF Holders, Holds, Abandoned, Making, CreatePc, Attaching
<1>16. Holders(x)' = {a}
  <2>1. a \in Holders(x)'
    BY <1>3, <1>6, Zenon DEF Holders, Holds, Making, CreatePc
  <2>2. ASSUME NEW k, k # a PROVE k \notin Holders(x)'
    <3>1. k \in DOMAIN Frames' => k \in DOMAIN Frames /\ Frames'[k] = Frames[k] /\ Frames[k].obj \in Obj
      BY <1>6, <2>2, FramesTyped, Zenon DEF Differ, IInv, Typed, Frame
    <3>2. k \in DOMAIN Frames' => (Freed(Frames[k].obj)' <=> Freed(Frames[k].obj))
      BY Zenon, <1>11, <3>1
    <3>3. k \in Holders(x)' => k \in Holders(x)
      BY Zenon, <3>1, <3>2 DEF Holders, Holds, Abandoned
    <3> QED
      BY Zenon, <1>12, <3>3
  <2> QED
    BY <2>1, <2>2, Zenon
<1>17. ASSUME NEW o \in Obj PROVE Kids(o)' = Kids(o)
  BY <1>3, <1>6, <1>8, <1>9, <1>12, KidsApart DEF Busy, Attaching
<1>18. Apart(a, x) /\ Apart(a, x)' /\ Apart(b, x)'
  BY Zenon, <1>3, <1>6 DEF Apart, Making, CreatePc, Destroyer, Building, Looping
<1>19. ASSUME NEW o \in Obj, o # x PROVE Aside(o)
  BY <1>6, <1>9, <1>10, <1>15, <1>17, <1>18, <1>19, Cards, AsideOf
<1>20. QueueOK'
  BY Zenon, <1>10, <1>19, QueueSame DEF Queued
<1>21. ASSUME NEW k, k \in DOMAIN Frames', Frames'[k].obj = x PROVE k = a
  BY Zenon, <1>6, <1>14, <1>21 DEF Differ
<1>22. FrameOK(h)'
  BY Zenon, <1>3, <1>8, <1>9, <1>13 DEF FrameOK, Making, CreatePc, Attaching, Destroyer, Building, Looping
<1>23. ASSUME NEW k \in DOMAIN Frames', k = a \/ k = b \/ Frames'[k].obj = x PROVE FrameOK(Frames[k])'
  BY <1>6, <1>21, <1>22, <1>23
<1>24. /\ \A j, k : Busy(j, x, Making)' /\ Busy(k, x, Making)' => j = k
       /\ \A j, k : Busy(j, x, Destroyer)' /\ Busy(k, x, Destroyer)' => j = k
  BY Zenon, <1>21 DEF Busy
<1>25. Counted(x)'
  <2>1. Built(x)'
    BY Zenon, <1>8, <1>9 DEF Built
  <2>2. Cardinality(Holders(x)') = 1
    BY <1>16, FS_Singleton, Zenon
  <2>3. Cardinality(Kids(x)') = 0
    BY Zenon, <1>12, <1>17, FS_EmptySet
  <2>4. Count(x)' = 2
    BY <2>1, <2>2, <2>3 DEF Count, One
  <2> QED
    BY <1>8, <1>9, <2>4 DEF Counted, Freed
<1>26. GivenUp(x)' /\ ListOK(x)'
  BY Zenon, <1>8, <1>9, <1>10, <1>12 DEF GivenUp, ListOK, Freed
<1>27. \A o \in Obj : IsFiniteSet(Kids(o)')
  BY Zenon, <1>17 DEF IInv
<1> QED
  BY Zenon, <1>6, <1>10, <1>19, <1>20, <1>23, <1>24, <1>25, <1>26, <1>27, Turned

(* The wait of sync_destroy_obj expires.                                   *)
LEMMA ExpireStep ==
  ASSUME IInv, NEW t \in Thr, Expire(t)
  PROVE  IInv'
<1>1. PICK a, b, f, h : /\ Move(a, b, f, h) /\ Sane(f, "wait") /\ h.pc = "cleanup" /\ f = Top(t)
                        /\ h.obj = f.obj /\ h.at = f.at /\ h.sync = f.sync
  BY GoneTo DEF Expire, Pc, DestroyPc
<1>2. /\ FrameOK(f) /\ f.pc = "wait" /\ f.obj \in Obj
      /\ Differ(a, b) /\ a \in DOMAIN Frames /\ Frames[a] = f
      /\ a \in DOMAIN Frames' /\ Frames'[a] = h /\ b \notin DOMAIN Frames'
  BY Zenon, <1>1 DEF Move, Own, Sane
<1>3. PICK x \in Obj : x = f.obj
  BY Zenon, <1>2
<1>4. obj[x].state = "DESTROYING" /\ ByEvent(x) /\ Busy(a, x, Destroyer) /\ ~Busy(a, x, Looping)
  BY Zenon, <1>2, <1>3 DEF FrameOK, Destroyer, Busy, Looping
<1>5. PICK r \in AlObj : r = [obj[x] EXCEPT !.ref_cnt = 0] /\ obj' = [obj EXCEPT ![x] = r]
  <2>1. obj[x] \in AlObj /\ 0 \in Int
    BY DEF IInv, Typed
  <2>2. [obj[x] EXCEPT !.ref_cnt = 0] \in AlObj
    BY <2>1, Zenon DEF AlObj
  <2>3. obj' = [obj EXCEPT ![x] = [obj[x] EXCEPT !.ref_cnt = 0]]
    BY <1>1, <1>3, Zenon DEF Expire
  <2> QED
    BY <2>2, <2>3, Zenon
<1>6. /\ r.user_destroy_cb = obj[x].user_destroy_cb /\ r.obj_list = obj[x].obj_list
      /\ r.state = obj[x].state /\ r.p_parent_obj = obj[x].p_parent_obj
  BY Zenon, <1>5 DEF AlObj, IInv, Typed
<1>7. /\ obj' \in [Obj -> AlObj] /\ obj'[x] = r
      /\ \A o \in Obj : o # x => obj'[o] = obj[o]
  BY <1>5, Written, Zenon
<1>8. queue' = queue /\ expired' = expired \cup {x} /\ Typed'
  BY <1>1, <1>3, <1>7 DEF Expire, IInv, Typed, Move, Own
<1>9. \A c \in Obj : Freed(c)' <=> Freed(c)
  BY Zenon, <1>6, <1>7 DEF Freed
<1>10. ASSUME NEW o \in Obj PROVE Holders(o)' = Holders(o)
  <2>1. /\ f.pc \notin {"mark", "again", "drop"} \cup Making /\ f.pc \notin CreatePc \cup {"deref"}
        /\ h.pc \notin {"mark", "again", "drop"} \cup Making /\ h.pc \notin CreatePc \cup {"deref"}
    BY Zenon, <1>1, <1>2 DEF Making, CreatePc
  <2>2. a \notin Holders(o) /\ a \notin Holders(o)' /\ b \notin Holders(o)'
    BY Zenon, <1>2, <2>1 DEF Holders, Holds
  <2> QED
    BY Zenon, <1>2, <1>9, <2>2, HoldersApart
<1>11. ASSUME NEW o \in Obj PROVE Kids(o)' = Kids(o)
  BY <1>1, <1>2, <1>6, <1>7, KidsApart DEF Busy, Attaching
<1>12. Apart(a, x) /\ Apart(a, x)' /\ Apart(b, x)'
  BY Zenon, <1>1, <1>2, <1>3 DEF Apart
<1>13. ASSUME NEW o \in Obj, o # x PROVE Aside(o)
  <2>1. Holders(o)' = Holders(o) /\ Kids(o)' = Kids(o)
    BY <1>10, <1>11, Zenon
  <2>2. obj'[o] = obj[o] /\ (o \in expired' <=> o \in expired)
    BY <1>7, <1>8, <1>13, Zenon
  <2>3. Cardinality(Holders(o)) \in Int /\ Cardinality(Kids(o)) \in Int
    BY Cards
  <2>4. /\ Cardinality(Holders(o)') \in Int /\ Cardinality(Kids(o)') \in Int
        /\ Cardinality(Holders(o)') + Cardinality(Kids(o)') = Cardinality(Holders(o)) + Cardinality(Kids(o))
    BY <2>1, <2>3, Zenon
  <2> QED
    BY <1>2, <1>12, <1>13, <2>2, <2>3, <2>4, AsideOf, Zenon
<1>14. QueueOK'
  BY <1>4, <1>8, <1>13, QueueSame, Zenon DEF Queued
<1>15. ASSUME NEW k, k # a PROVE ~Busy(k, x, Destroyer)
  BY <1>4, <1>15, Zenon DEF IInv, OneEach
<1>16. ASSUME NEW k \in DOMAIN Frames', k = a \/ k = b \/ Frames'[k].obj = x PROVE FrameOK(Frames[k])'
  <2>1. CASE k = a
    <3>1. FrameOK(h)'
      BY <1>1, <1>3, <1>4, <1>6, <1>7, <1>8 DEF FrameOK, Making, CreatePc, Attaching, Destroyer, Building, Looping
    <3> QED
      BY Zenon, <1>2, <2>1, <3>1
  <2>2. CASE k # a
    <3>1. PICK g : g = Frames[k]
      BY Zenon
    <3>2. k \in DOMAIN Frames /\ Frames'[k] = g /\ g.obj = x /\ FrameOK(g)
      BY Zenon, <1>2, <1>16, <2>2, <3>1 DEF Differ, IInv
    <3>3. g.pc \notin Destroyer
      BY Zenon, <1>15, <2>2, <3>1, <3>2 DEF Busy
    <3>4. FrameOK(g)'
      BY Zenon, <1>6, <1>7, <3>2, <3>3 DEF FrameOK, Freed, Destroyer, Building
    <3> QED
      BY Zenon, <3>2, <3>4
  <2> QED
    BY Zenon, <2>1, <2>2
<1>17. ASSUME NEW k, Busy(k, x, Destroyer)' PROVE k = a
  BY Zenon, <1>2, <1>15, <1>17 DEF Differ, Busy
<1>18. ASSUME NEW k PROVE Busy(k, x, Making)' <=> Busy(k, x, Making)
  BY Zenon, <1>1, <1>2 DEF Differ, Busy, Making, CreatePc
<1>19. Counted(x)'
  BY <1>4, <1>6, <1>7, <1>8 DEF Counted
<1>20. GivenUp(x)'
  BY Zenon, <1>1, <1>2, <1>3, <1>4, <1>6, <1>7 DEF GivenUp, ByEvent, Busy
<1>21. ListOK(x)'
  <2>1. \A k : ~Busy(k, x, Looping)
    BY Zenon, <1>4, <1>15 DEF Busy, Destroyer, Building
  <2> QED
    BY Zenon, <1>4, <1>6, <1>7, <2>1 DEF IInv, ListOK, Freed
<1>22. \A o \in Obj : IsFiniteSet(Kids(o)')
  BY Zenon, <1>11 DEF IInv
<1>23. /\ \A j, k : Busy(j, x, Making)' /\ Busy(k, x, Making)' => j = k
       /\ \A j, k : Busy(j, x, Destroyer)' /\ Busy(k, x, Destroyer)' => j = k
  BY Zenon, <1>17, <1>18 DEF IInv, OneEach
<1> QED
  BY Zenon, <1>2, <1>8, <1>13, <1>14, <1>16, <1>19, <1>20, <1>21, <1>22, <1>23, Turned

(* The asynchronous processor takes an object to free.                     *)
LEMMA AsyncTakeStep ==
  ASSUME IInv, AsyncTake
  PROVE  IInv'
<1>1. queue \in Seq(Obj) /\ queue # <<>> /\ queue' = Tail(queue) /\ QueueOK /\ Async \in Thr
  BY Zenon DEF IInv, Typed, AsyncTake, Thr
<1>2. PICK x \in Obj : x = Head(queue) /\ x = queue[1]
  BY <1>1
<1>3. PICK g \in Frame : g = [Destroying(x, FALSE) EXCEPT !.pc = "cleanup"]
  BY Zenon DEF Frame, Destroying, Pc, DestroyPc
<1>4. g.pc = "cleanup" /\ g.obj = x
  BY Zenon, <1>3 DEF Destroying
<1>5. stack[Async] = <<>> /\ stack' = [stack EXCEPT ![Async] = <<g>>]
  BY <1>2, <1>3, Zenon DEF AsyncTake
<1>6. PICK a, b : /\ Differ(a, b) /\ stack' \in [Thr -> Seq(Frame)] /\ a \notin DOMAIN Frames
                  /\ a \notin DOMAIN Frames' /\ b \in DOMAIN Frames' /\ Frames'[b] = g
  BY <1>1, <1>5, Enters, Zenon DEF IInv, Typed
<1>7. obj' = obj /\ expired' = expired /\ Typed'
  <2>1. Tail(queue) \in Seq(Obj)
    BY <1>1
  <2> QED
    BY Zenon, <1>1, <1>6, <2>1 DEF AsyncTake, Calm, IInv, Typed
<1>8. /\ obj[x].state = "DESTROYING" /\ x \notin expired /\ obj[x].ref_cnt = 0
      /\ \A k : ~Busy(k, x, Destroyer)
  <2>1. 1 \in 1 .. Len(queue)
    BY <1>1
  <2>2. Queued(x)
    BY Zenon, <1>1, <1>2, <2>1 DEF QueueOK
  <2> QED
    BY Zenon, <2>2 DEF Queued
<1>9. \A c \in Obj : Freed(c)' <=> Freed(c)
  BY Zenon, <1>7 DEF Freed
<1>10. ASSUME NEW o \in Obj PROVE Holders(o)' = Holders(o)
  <2>1. a \notin Holders(o) /\ a \notin Holders(o)' /\ b \notin Holders(o)'
    BY Zenon, <1>4, <1>6 DEF Holders, Holds, Making, CreatePc
  <2> QED
    BY Zenon, <1>6, <1>9, <2>1, HoldersApart
<1>11. ASSUME NEW o \in Obj PROVE Kids(o)' = Kids(o)
  BY Zenon, <1>4, <1>6, <1>7, KidsApart DEF Busy, Attaching
<1>12. Apart(a, x) /\ Apart(a, x)' /\ Apart(b, x)'
  BY Zenon, <1>4, <1>6 DEF Apart
<1>13. ASSUME NEW o \in Obj, o # x PROVE Aside(o)
  BY <1>6, <1>7, <1>10, <1>11, <1>12, <1>13, Cards, AsideOf
<1>14. QueueOK'
  <2>1. /\ Len(queue') = Len(queue) - 1 /\ Len(queue) \in Nat /\ 1 \in 1 .. Len(queue)
        /\ \A i \in 1 .. Len(queue') : i + 1 \in 1 .. Len(queue) /\ queue'[i] = queue[i + 1]
    BY <1>1
  <2>2. \A i, j \in 1 .. Len(queue') : queue'[j] = queue'[i] => j = i
    BY <1>1, <2>1 DEF QueueOK
  <2>3. ASSUME NEW i \in 1 .. Len(queue') PROVE Queued(queue[i])'
    <3>1. PICK c \in Obj : c = queue'[i] /\ c = queue[i + 1]
      BY <1>1, <2>1
    <3>2. Queued(c) /\ c # x
      BY <1>1, <1>2, <2>1, <3>1 DEF QueueOK
    <3>3. Queued(c)'
      BY Zenon, <1>13, <3>2, Elsewhere
    <3> QED
      BY Zenon, <3>1, <3>3
  <2> QED
    BY Zenon, <2>2, <2>3 DEF QueueOK
<1>15. FrameOK(g)'
  BY Zenon, <1>4, <1>7, <1>8 DEF FrameOK, Making, CreatePc, Attaching, Destroyer, Building, Looping
<1>16. ASSUME NEW k \in DOMAIN Frames', k = a \/ k = b \/ Frames'[k].obj = x PROVE FrameOK(Frames[k])'
  <2>1. CASE k = b
    BY Zenon, <1>6, <1>15, <2>1
  <2>2. CASE k # b
    <3>1. PICK e : e = Frames[k]
      BY Zenon
    <3>2. k \in DOMAIN Frames /\ Frames'[k] = e /\ FrameOK(e)
      BY Zenon, <1>6, <1>16, <2>2, <3>1 DEF Differ, IInv
    <3>3. FrameOK(e)'
      BY Zenon, <1>7, <3>2 DEF FrameOK, Freed, ByEvent
    <3> QED
      BY Zenon, <3>2, <3>3
  <2> QED
    BY Zenon, <2>1, <2>2
<1>17. ASSUME NEW k, Busy(k, x, Destroyer)' PROVE k = b
  BY Zenon, <1>6, <1>8, <1>17 DEF Differ, Busy
<1>18. ASSUME NEW k PROVE Busy(k, x, Making)' <=> Busy(k, x, Making)
  BY Zenon, <1>4, <1>6 DEF Differ, Busy, Making, CreatePc
<1>19. /\ \A j, k : Busy(j, x, Making)' /\ Busy(k, x, Making)' => j = k
       /\ \A j, k : Busy(j, x, Destroyer)' /\ Busy(k, x, Destroyer)' => j = k
  BY Zenon, <1>17, <1>18 DEF IInv, OneEach
<1>20. ASSUME NEW k PROVE ~Busy(k, x, Building) /\ ~Busy(k, x, Building)' /\ ~Busy(k, x, Looping)
  <2>1. ~Busy(k, x, Building) /\ ~Busy(k, x, Looping)
    BY Zenon, <1>8 DEF Busy, Destroyer, Building
  <2>2. ~Busy(b, x, Building)'
    BY Zenon, <1>4, <1>6 DEF Busy, Building, Looping
  <2> QED
    BY Zenon, <1>17, <2>1, <2>2 DEF Busy, Destroyer
<1>21. Counted(x)'
  <2>1. Built(x)' <=> Built(x)
    BY Zenon, <1>7, <1>20 DEF Built
  <2>2. Count(x)' = Count(x)
    BY Zenon, <1>10, <1>11, <2>1 DEF Count, One
  <2>3. Counted(x)
    BY Zenon DEF IInv
  <2> QED
    BY Zenon, <1>7, <2>2, <2>3 DEF Counted, Freed
<1>22. GivenUp(x)'
  BY Zenon, <1>7, <1>8 DEF GivenUp
<1>23. ListOK(x)'
  BY Zenon, <1>7, <1>8, <1>20 DEF IInv, ListOK, Freed
<1>24. \A o \in Obj : IsFiniteSet(Kids(o)')
  BY Zenon, <1>11 DEF IInv
<1> QED
  BY ZenonT(30), <1>6, <1>7, <1>13, <1>14, <1>16, <1>19, <1>21, <1>22, <1>23, <1>24, Turned

(* async_destroy_cb frees x, the object of call a, which goes on to drop   *)
(* the reference on parent p, or returns.                                  *)
Frees(a, b, x, p) ==
    /\ Differ(a, b) /\ Busy(a, x, {"cleanup"}) /\ b \notin DOMAIN Frames'
    /\ \/ p = NoObj /\ a \notin DOMAIN Frames'
       \/ /\ p \in Obj /\ a \in DOMAIN Frames'
          /\ Frames'[a].pc = "deref" /\ Frames'[a].obj = x /\ Frames'[a].at = p
    /\ p = obj[x].p_parent_obj /\ obj'[x].state = "DESTROYED" /\ obj'[x].p_parent_obj = NoObj
    /\ \A o \in Obj : o # x => obj'[o] = obj[o]

(* The children of others: x leaves those of p.                            *)
LEMMA FreesKids ==
  ASSUME IInv, NEW a, NEW b, NEW x \in Obj, NEW p, Frees(a, b, x, p), NEW o \in Obj
  PROVE  Kids(o)' = Kids(o) \ {x}
<1>1. ASSUME NEW c \in Obj, NEW k PROVE Busy(k, c, Attaching)' <=> Busy(k, c, Attaching)
  BY Zenon DEF Frees, Differ, Busy, Attaching
<1>2. o # NoObj
  BY Zenon, ObjAssumption
<1>3. ASSUME NEW c \in Obj
      PROVE  (obj'[c].p_parent_obj = o /\ ~\E k : Busy(k, c, Attaching)')
               <=> (obj[c].p_parent_obj = o /\ (~\E k : Busy(k, c, Attaching)) /\ c # x)
  BY Zenon, <1>1, <1>2 DEF Frees
<1> QED
  BY <1>3, Zenon DEF Kids

(* The creator of x, if it has not taken its reference on p yet, has lost  *)
(* it to the call that frees x; nobody else loses or gains one.            *)
HeldAfter(a, x, p, o, k) ==
    /\ a \notin Holders(o) /\ (a \in Holders(o)' <=> o = p)
    /\ k # a /\ k \in Holders(o)' => k \in Holders(o)
    /\ k # a /\ o # x => (k \in Holders(o)' <=> k \in Holders(o) /\ ~(o = p /\ Busy(k, x, Attaching)))
    /\ o = p /\ Busy(k, x, Attaching) => k \in Holders(o)

(* Who holds object o after object x is freed.                             *)
LEMMA FreesHolds ==
  ASSUME IInv, NEW a, NEW b, NEW x \in Obj, NEW p, Frees(a, b, x, p), NEW o \in Obj, NEW k
  PROVE  HeldAfter(a, x, p, o, k)
<1>1. \A j \in DOMAIN Frames : Frames[j].obj \in Obj /\ FrameOK(Frames[j])
  BY FramesTyped, Zenon DEF IInv, Typed, Frame
<1>2. ~Freed(x) /\ Freed(x)' /\ \A c \in Obj : c # x => (Freed(c)' <=> Freed(c))
  <2>1. obj[x].state = "DESTROYING"
    BY Zenon, <1>1 DEF Frees, Busy, FrameOK, Destroyer
  <2> QED
    BY Zenon, <2>1 DEF Frees, Freed
<1>3. Busy(k, x, Attaching) => Frames[k].at = p
  BY Zenon, <1>1, <1>2 DEF Busy, FrameOK, Frees
<1>4. a \notin Holders(o) /\ (a \in Holders(o)' <=> o = p)
  <2>1. a \notin Holders(o)
    BY Zenon DEF Frees, Busy, Holders, Holds, Making, CreatePc
  <2>2. a \in Holders(o)' <=> o = p
    BY Zenon, ObjAssumption DEF Frees, Holders, Holds, Abandoned, Making, CreatePc, Attaching
  <2> QED
    BY Zenon, <2>1, <2>2
<1>5. ASSUME k # a
      PROVE  /\ k \in Holders(o)' => k \in Holders(o)
             /\ o # x => (k \in Holders(o)' <=> k \in Holders(o) /\ ~(o = p /\ Busy(k, x, Attaching)))
  <2>1. /\ k \in DOMAIN Frames' <=> k \in DOMAIN Frames
        /\ k \in DOMAIN Frames => Frames'[k] = Frames[k]
    BY Zenon, <1>5 DEF Frees, Differ
  <2>2. CASE k \notin DOMAIN Frames
    BY Zenon, <2>1, <2>2 DEF Holders
  <2>3. CASE k \in DOMAIN Frames /\ Frames[k].obj # x
    <3>1. Freed(Frames[k].obj)' <=> Freed(Frames[k].obj)
      BY <1>1, <1>2, <2>1, <2>3
    <3>2. k \in Holders(o)' <=> k \in Holders(o)
      BY Zenon, <2>1, <2>3, <3>1 DEF Holders, Holds, Abandoned
    <3> QED
      BY Zenon, <2>3, <3>2 DEF Busy
  <2>4. CASE k \in DOMAIN Frames /\ Frames[k].obj = x
    <3>1. ~Freed(Frames[k].obj) /\ Freed(Frames[k].obj)'
      BY Zenon, <1>2, <2>1, <2>4
    <3> QED
      BY <1>3, <2>1, <2>4, <3>1 DEF Holders, Holds, Abandoned, Busy, Making
  <2> QED
    BY Zenon, <2>2, <2>3, <2>4
<1>6. o = p /\ Busy(k, x, Attaching) => k \in Holders(o)
  BY <1>2, <1>3 DEF Busy, Holders, Holds, Abandoned, Attaching, CreatePc
<1> QED
  BY Zenon, <1>4, <1>5, <1>6 DEF HeldAfter

(* Freeing x leaves the other objects aside.                               *)
LEMMA FreesAside ==
  ASSUME IInv, NEW a, NEW b, NEW x \in Obj, NEW p, Frees(a, b, x, p), expired' = expired,
         NEW o \in Obj, o # x
  PROVE  Aside(o)
<1>1. /\ IsFiniteSet(Holders(o)) /\ IsFiniteSet(Kids(o))
      /\ Cardinality(Holders(o)) \in Nat /\ Cardinality(Kids(o)) \in Nat
  BY Zenon, Cards
<1>2. Kids(o)' = Kids(o) \ {x}
  BY Zenon, FreesKids
<1>3. ASSUME NEW k
      PROVE  /\ a \notin Holders(o) /\ (a \in Holders(o)' <=> o = p)
             /\ k # a => (k \in Holders(o)' <=> k \in Holders(o) /\ ~(o = p /\ Busy(k, x, Attaching)))
             /\ o = p /\ Busy(k, x, Attaching) => k \in Holders(o)
  <2>1. HeldAfter(a, x, p, o, k)
    BY Zenon, FreesHolds
  <2> QED
    BY Zenon, <2>1 DEF HeldAfter
<1>4. x \in Kids(o) <=> o = p /\ ~\E k : Busy(k, x, Attaching)
  BY Zenon DEF Kids, Frees
<1>5. /\ Cardinality(Holders(o)') \in Nat /\ Cardinality(Kids(o)') \in Nat
      /\ Cardinality(Holders(o)') + Cardinality(Kids(o)') = Cardinality(Holders(o)) + Cardinality(Kids(o))
  <2>1. CASE o # p
    <3>1. Holders(o)' = Holders(o)
      BY <1>3, <2>1
    <3>2. Kids(o)' = Kids(o)
      BY Zenon, <1>2, <1>4, <2>1
    <3> QED
      BY Zenon, <1>1, <3>1, <3>2
  <2>2. CASE o = p /\ \E k : Busy(k, x, Attaching)
    <3>1. PICK c : Busy(c, x, Attaching)
      BY Zenon, <2>2
    <3>2. c # a
      BY Zenon, <3>1 DEF Frees, Busy, Attaching
    <3>3. \A k : Busy(k, x, Attaching) => k = c
      <4>1. \A k : Busy(k, x, Attaching) => Busy(k, x, Making)
        BY Zenon DEF Busy, Attaching, Making, CreatePc
      <4> QED
        BY Zenon, <3>1, <4>1 DEF IInv, OneEach
    <3>4. \A k : k # a /\ k # c => (k \in Holders(o) <=> k \in Holders(o)')
      BY <1>3, <3>3
    <3>5. c \in Holders(o) /\ c \notin Holders(o)' /\ a \notin Holders(o) /\ a \in Holders(o)'
      BY Zenon, <1>3, <2>2, <3>1, <3>2
    <3>6. PICK S, T : S = Holders(o) /\ T = Holders(o)'
      BY Zenon
    <3>7. IsFiniteSet(S) /\ a # c
      BY <1>1, <3>2, <3>6, Zenon
    <3>8. ASSUME NEW k, k # a, k # c PROVE k \in S <=> k \in T
      BY <3>4, <3>6, <3>8, Zenon
    <3>9. Cardinality(T) = Cardinality(S)
      <4>1. /\ IsFiniteSet(T) /\ Cardinality(S) \in Nat /\ Cardinality(T) \in Nat
            /\ Cardinality(T) + One(a \in S) + One(c \in S) = Cardinality(S) + One(a \in T) + One(c \in T)
        BY <3>7, <3>8, TwoDiffer
      <4>2. a \notin S /\ c \in S /\ a \in T /\ c \notin T
        BY <3>5, <3>6, Zenon
      <4> QED
        BY <4>1, <4>2 DEF One
    <3>10. Kids(o)' = Kids(o)
      BY Zenon, <1>2, <1>4, <2>2
    <3> QED
      BY Zenon, <1>1, <3>6, <3>9, <3>10
  <2>3. CASE o = p /\ ~\E k : Busy(k, x, Attaching)
    <3>1. Holders(o)' = Holders(o) \cup {a}
      BY Zenon, <1>3, <2>3
    <3>2. Cardinality(Holders(o)') = Cardinality(Holders(o)) + 1
      <4>1. PICK S : S = Holders(o) /\ IsFiniteSet(S) /\ a \notin S
        BY <1>1, <1>3, Zenon
      <4>2. Cardinality(S \cup {a}) = Cardinality(S) + 1
        BY Zenon, <4>1, FS_AddElement
      <4> QED
        BY <3>1, <4>1, <4>2, Zenon
    <3>3. x \in Kids(o)
      BY Zenon, <1>4, <2>3
    <3>4. Cardinality(Kids(o)') = Cardinality(Kids(o)) - 1 /\ Cardinality(Kids(o)') \in Nat
      BY Zenon, <1>1, <1>2, <3>3, FS_RemoveElement, FS_CardinalityType
    <3> QED
      BY <1>1, <3>2, <3>4
  <2> QED
    BY Zenon, <2>1, <2>2, <2>3
<1>6. Apart(a, x) /\ Apart(a, x)' /\ Apart(b, x)' /\ Differ(a, b) /\ obj'[o] = obj[o]
  BY Zenon DEF Frees, Apart, Busy
<1> QED
  BY <1>1, <1>5, <1>6, AsideOf

(* The freed object has no reference left, unless a wait gave up on it.    *)
LEMMA FreesCounted ==
  ASSUME IInv, NEW a, NEW b, NEW x \in Obj, NEW p, Frees(a, b, x, p), expired' = expired,
         obj'[x].ref_cnt = obj[x].ref_cnt
  PROVE  Counted(x)'
<1> SUFFICES ASSUME x \notin expired PROVE obj[x].ref_cnt = 0 /\ Count(x)' = 0
  BY Zenon DEF Counted, Frees, Freed
<1>1. obj[x].state = "DESTROYING" /\ obj[x].ref_cnt = 0 /\ Busy(a, x, Destroyer)
  <2>1. a \in DOMAIN Frames /\ FrameOK(Frames[a]) /\ Frames[a].obj = x /\ Frames[a].pc = "cleanup"
    BY Zenon DEF Frees, Busy, IInv
  <2> QED
    BY Zenon, <2>1 DEF FrameOK, Busy, Destroyer
<1>2. Count(x) = 0
  BY Zenon, <1>1 DEF IInv, Counted
<1>3. ~Built(x) /\ Cardinality(Holders(x)) = 0 /\ Cardinality(Kids(x)) = 0
  BY <1>2, Cards DEF Count, One
<1>4. Holders(x) = {} /\ Kids(x) = {}
  BY Zenon, <1>3, Cards, FS_EmptySet
<1>5. p # x
  <2> SUFFICES ASSUME p = x PROVE FALSE
    BY Zenon
  <2>1. ASSUME NEW k, Busy(k, x, Attaching) PROVE FALSE
    <3>1. HeldAfter(a, x, p, x, k)
      BY Zenon, FreesHolds
    <3> QED
      BY Zenon, <1>4, <2>1, <3>1 DEF HeldAfter
  <2>2. x \in Kids(x)
    BY <2>1, Zenon DEF Kids, Frees
  <2> QED
    BY Zenon, <1>4, <2>2
<1>6. Holders(x)' = {} /\ Kids(x)' = {}
  <2>1. ASSUME NEW k PROVE k \notin Holders(x)'
    <3>1. HeldAfter(a, x, p, x, k)
      BY Zenon, FreesHolds
    <3> QED
      BY Zenon, <1>4, <1>5, <3>1 DEF HeldAfter
  <2>2. Kids(x)' = {}
    BY Zenon, <1>4, FreesKids
  <2> QED
    BY Zenon, <2>1, <2>2
<1>7. ~Built(x)'
  <2>1. \A k : ~Busy(k, x, Building)
    BY Zenon, <1>3 DEF Built
  <2>2. \A k : ~Busy(k, x, Building)'
    BY <2>1 DEF Frees, Differ, Busy, Building, Looping
  <2> QED
    BY Zenon, <2>2 DEF Built, Frees
<1> QED
  BY <1>1, <1>6, <1>7, FS_EmptySet DEF Count, One

(* Freeing x keeps the invariant,                                          *)
LEMMA FreesStep ==
  ASSUME IInv, Typed', NEW a, NEW b, NEW x \in Obj, NEW p, Frees(a, b, x, p), expired' = expired,
         queue' = queue, obj'[x].ref_cnt = obj[x].ref_cnt, obj'[x].obj_list = obj[x].obj_list,
         obj'[x].user_destroy_cb = obj[x].user_destroy_cb
  PROVE  IInv'
<1>1. Counted(x)' /\ \A o \in Obj : o # x => Aside(o)
  BY Zenon, FreesCounted, FreesAside
<1>2. Busy(a, x, Destroyer) /\ obj[x].state = "DESTROYING" /\ ~Busy(a, x, Looping) /\ Differ(a, b)
  BY Zenon DEF Frees, Busy, IInv, FrameOK, Destroyer, Looping
<1>3. QueueOK'
  BY Zenon, <1>1, <1>2, QueueSame DEF Queued
<1>4. \A o \in Obj : IsFiniteSet(Kids(o)')
  <2> TAKE o \in Obj
  <2>1. Kids(o)' = Kids(o) \ {x} /\ IsFiniteSet(Kids(o))
    BY FreesKids, Zenon DEF IInv
  <2> QED
    BY <2>1, FS_RemoveElement
<1>5. ASSUME NEW k, k # a PROVE ~Busy(k, x, Destroyer)
  BY <1>2, <1>5, Zenon DEF IInv, OneEach
<1>6. ASSUME NEW k \in DOMAIN Frames', k = a \/ k = b \/ Frames'[k].obj = x PROVE FrameOK(Frames[k])'
  <2>1. CASE k = a
    <3>1. PICK h : h = Frames'[a]
      BY Zenon
    <3>2. h.pc = "deref" /\ h.obj = x /\ h.at \in Obj /\ obj'[x].state = "DESTROYED"
      BY Zenon, <1>6, <2>1, <3>1 DEF Frees
    <3>3. FrameOK(h)'
      BY Zenon, <3>2 DEF FrameOK, Making, CreatePc, Attaching, Destroyer, Building, Looping
    <3> QED
      BY Zenon, <2>1, <3>1, <3>3
  <2>2. CASE k # a
    <3>1. PICK g : g = Frames[k]
      BY Zenon
    <3>2. k \in DOMAIN Frames /\ Frames'[k] = g /\ g.obj = x /\ FrameOK(g)
      BY Zenon, <1>6, <2>2, <3>1 DEF Frees, Differ, IInv
    <3>3. g.pc \notin Destroyer
      BY Zenon, <1>5, <2>2, <3>1, <3>2 DEF Busy
    <3>4. FrameOK(g)'
      BY <3>2, <3>3, Zenon DEF FrameOK, Freed, Frees, Destroyer, Building
    <3> QED
      BY Zenon, <3>2, <3>4
  <2> QED
    BY Zenon, <2>1, <2>2
<1>7. ASSUME NEW k PROVE ~Busy(k, x, Destroyer)' /\ (Busy(k, x, Making)' <=> Busy(k, x, Making))
  <2>1. CASE k = a
    BY Zenon, <2>1 DEF Frees, Busy, Destroyer, Building, Looping, Making, CreatePc
  <2>2. CASE k # a
    BY Zenon, <1>5, <2>2 DEF Frees, Differ, Busy
  <2> QED
    BY Zenon, <2>1, <2>2
<1>8. GivenUp(x)'
  BY Zenon DEF IInv, GivenUp, ByEvent, Frees, Freed
<1>9. ListOK(x)'
  <2>1. \A k : ~Busy(k, x, Looping)
    BY Zenon, <1>2, <1>5 DEF Busy, Destroyer, Building
  <2> QED
    BY <1>2, <2>1, Zenon DEF IInv, ListOK, Frees, Freed
<1>10. /\ \A j, k : Busy(j, x, Making)' /\ Busy(k, x, Making)' => j = k
       /\ \A j, k : Busy(j, x, Destroyer)' /\ Busy(k, x, Destroyer)' => j = k
  BY <1>7, Zenon DEF IInv, OneEach
<1> QED
  BY <1>1, <1>2, <1>3, <1>4, <1>6, <1>8, <1>9, <1>10, Turned, Zenon

(* and that is what async_destroy_cb does.                                 *)
LEMMA CleanupStep ==
  ASSUME IInv, NEW t \in Thr, Cleanup(t)
  PROVE  IInv'
<1>1. PICK f \in Frame : f = Top(t) /\ f.pc = "cleanup" /\ stack[t] # <<>> /\ At(t, "cleanup")
  BY Zenon, AtTop DEF Cleanup, Sane
<1>2. PICK x \in Obj : x = f.obj
  BY Zenon, <1>1 DEF Frame
<1>3. PICK p \in Obj \cup {NoObj} : p = obj[x].p_parent_obj
  BY Zenon DEF IInv, Typed, AlObj
<1>4. PICK r \in AlObj : r = [obj[x] EXCEPT !.state = "DESTROYED", !.p_parent_obj = NoObj]
                        /\ obj' = [obj EXCEPT ![x] = r]
  <2>1. obj[x] \in AlObj
    BY Zenon DEF IInv, Typed
  <2>2. [obj[x] EXCEPT !.state = "DESTROYED", !.p_parent_obj = NoObj] \in AlObj
    BY <2>1, Zenon DEF AlObj
  <2>3. obj' = [obj EXCEPT ![x] = [obj[x] EXCEPT !.state = "DESTROYED", !.p_parent_obj = NoObj]]
    BY <1>1, <1>2, Zenon DEF Cleanup, IInv, Typed
  <2> QED
    BY <2>2, <2>3, Zenon
<1>5. /\ r.user_destroy_cb = obj[x].user_destroy_cb /\ r.obj_list = obj[x].obj_list
      /\ r.ref_cnt = obj[x].ref_cnt /\ r.state = "DESTROYED" /\ r.p_parent_obj = NoObj
  BY Zenon, <1>4 DEF AlObj, IInv, Typed
<1>6. /\ obj' \in [Obj -> AlObj] /\ obj'[x] = r
      /\ \A o \in Obj : o # x => obj'[o] = obj[o]
  BY <1>4, Written, Zenon
<1>7. queue' = queue /\ expired' = expired /\ hdl_vector' = hdl_vector /\ bugcheck' = bugcheck
  BY Zenon DEF Cleanup, Calm
<1>8. CASE p = NoObj
  <2>1. Return(t)
    BY Zenon, <1>1, <1>2, <1>3, <1>8 DEF Cleanup
  <2>2. PICK a, b : Pop(a, b, f)
    BY <1>1, <2>1, Popped
  <2>3. Frees(a, b, x, p) /\ Typed'
    BY <1>1, <1>2, <1>3, <1>5, <1>6, <1>7, <1>8, <2>2, Zenon DEF Pop, Own, Frees, Busy, IInv, Typed
  <2> QED
    BY <1>5, <1>6, <1>7, <2>3, FreesStep
<1>9. CASE p # NoObj
  <2>1. GotoWith(t, p, "deref")
    <3>1. Top(t).obj = x /\ obj[Top(t).obj].p_parent_obj = p /\ p # NoObj
      BY Zenon, <1>1, <1>2, <1>3, <1>9
    <3>2. stack' = [stack EXCEPT ![t][1].pc = "deref", ![t][1].at = p]
      BY <3>1, ZenonT(30) DEF Cleanup
    <3> QED
      BY <3>2, ZenonT(30) DEF GotoWith
  <2>2. PICK a, b, h : Move(a, b, f, h) /\ h.pc = "deref" /\ h.obj = f.obj /\ h.at = p
    BY <1>1, <2>1, GoneOn DEF Pc
  <2>3. Frees(a, b, x, p) /\ Typed'
    BY <1>1, <1>2, <1>3, <1>5, <1>6, <1>7, <1>9, <2>2, Zenon DEF Move, Own, Frees, Busy, IInv, Typed
  <2> QED
    BY <1>5, <1>6, <1>7, <2>3, FreesStep
<1> QED
  BY Zenon, <1>8, <1>9

=============================================================================
