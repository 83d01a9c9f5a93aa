---------------------------- MODULE AlObjProofs -----------------------------
(***************************************************************************)
(* References to the access layer's objects are counted exactly, an object *)
(* is cleaned up once and it leaves no child behind, for any tree of       *)
(* objects and any number of threads.                                      *)
(***************************************************************************)
EXTENDS AlObjStates

(* Taking an object off a list leaves a list.                              *)
LEMMA Unlinked ==
  ASSUME NEW list \in Seq(Obj), NEW o, On(list, o)
  PROVE  Unlink(list, o) \in Seq(Obj) /\ list # <<>>
<1>1. PICK i \in 1 .. Len(list) : i = CHOOSE j \in 1 .. Len(list) : list[j] = o
  <2>1. \E j \in 1 .. Len(list) : list[j] = o
    BY DEF On
  <2>2. (CHOOSE j \in 1 .. Len(list) : list[j] = o) \in 1 .. Len(list)
    BY <2>1, Zenon
  <2> QED
    BY <2>2, Zenon
<1>2. Unlink(list, o) = [j \in 1 .. Len(list) - 1 |-> list[IF j < i THEN j ELSE j + 1]]
  BY <1>1 DEF Unlink
<1>3. Len(list) - 1 \in Nat /\ \A j \in 1 .. Len(list) - 1 : list[IF j < i THEN j ELSE j + 1] \in Obj
  OBVIOUS
<1>4. [j \in 1 .. Len(list) - 1 |-> list[IF j < i THEN j ELSE j + 1]] \in Seq(Obj)
  BY <1>3
<1> QED
  BY <1>1, <1>2, <1>4

(* detach_al_obj takes the object off the list of its parent.              *)
LEMMA DetachStep ==
  ASSUME IInv, NEW t \in Thr, Detach(t)
  PROVE  IInv'
<1>1. PICK a, b, f, h : /\ Move(a, b, f, h) /\ Sane(f, "unlink") /\ h.pc = "children" /\ f = Top(t)
                        /\ h.obj = f.obj /\ h.at = f.at /\ h.sync = f.sync
  BY GoneTo DEF Detach, Pc, DestroyPc
<1>2. FrameOK(f) /\ f.pc = "unlink" /\ f.obj \in Obj /\ f.at \in Obj /\ obj[f.at] \in AlObj
      /\ On(obj[f.at].obj_list, f.obj)
  BY <1>1 DEF Move, Own, Sane, IInv, Typed, FrameOK
<1>3. PICK list \in Seq(Obj) : list = Unlink(obj[f.at].obj_list, f.obj) /\ obj[f.at].obj_list # <<>>
  BY <1>2, Unlinked DEF AlObj
<1>4. PICK r \in AlObj : /\ r = [obj[f.at] EXCEPT !.obj_list = list]
                         /\ obj' = [obj EXCEPT ![f.at] = r]
  BY <1>1, <1>2, <1>3, Zenon DEF Detach, AlObj
<1>5. /\ r.user_destroy_cb = obj[f.at].user_destroy_cb
      /\ r.state = obj[f.at].state /\ r.ref_cnt = obj[f.at].ref_cnt /\ r.event = obj[f.at].event
      /\ r.p_parent_obj = obj[f.at].p_parent_obj
  BY <1>2, <1>4 DEF AlObj
<1>6. /\ obj' \in [Obj -> AlObj] /\ obj'[f.at] = r
      /\ \A o \in Obj : o # f.at => obj'[o] = obj[o]
  BY <1>2, <1>4, Written, Zenon
<1>7. queue' = queue /\ expired' = expired /\ Typed'
  BY <1>1, <1>6 DEF Detach, Calm, IInv, Typed, Move, Own
<1>8. FrameOK(h)'
  <2>1. obj'[f.obj].state = obj[f.obj].state
    BY <1>2, <1>5, <1>6
  <2> QED
    BY <1>1, <1>2, <2>1 DEF FrameOK, Making, CreatePc, Attaching, Destroyer, Building, Looping
<1>9. Follows(f, h)
  BY <1>1, <1>2 DEF Follows, Making, CreatePc, Destroyer, Building, Looping
<1>10. ASSUME NEW o \in Obj PROVE Quiet(f, h, o)
  BY <1>1, <1>2, <1>3, <1>5, <1>6 DEF Quiet, Attaching, Looping
<1>11. \A o \in Obj : FrameRefs(f, o) = FrameRefs(h, o)
  BY <1>1, <1>2, RefsOf DEF Building, Looping
<1> QED
  BY <1>1, <1>7, <1>8, <1>9, <1>10, <1>11, QuietMove

(* Two objects are written.                                                *)
LEMMA BothWritten ==
  ASSUME IInv, NEW x \in Obj, NEW y \in Obj, x # y, NEW r \in AlObj, NEW q \in AlObj,
         obj' = [obj EXCEPT ![x] = r, ![y] = q]
  PROVE  /\ obj' \in [Obj -> AlObj] /\ obj'[x] = r /\ obj'[y] = q
         /\ \A o \in Obj : o # x /\ o # y => obj'[o] = obj[o]
BY Zenon DEF IInv, Typed

(* attach_al_obj: the object goes on the list of a parent that is not      *)
(* being destroyed.                                                        *)
LEMMA AttachStep ==
  ASSUME IInv, NEW t \in Thr, Attach(t), obj[Top(t).at].state = "INITIALIZED"
  PROVE  IInv'
<1>1. PICK a, b, f, h : /\ Move(a, b, f, h) /\ Sane(f, "attach") /\ h.pc = "insert" /\ f = Top(t)
                        /\ h.obj = f.obj /\ h.at = f.at /\ h.sync = f.sync
  BY GoneTo DEF Attach, Pc, CreatePc
<1>2. FrameOK(f) /\ f.pc = "attach" /\ f.obj \in Obj /\ obj[f.at] \in AlObj /\ obj[f.obj] \in AlObj
      /\ f.at \in Obj /\ f.at # f.obj /\ ~Freed(f.obj) /\ obj[f.obj].p_parent_obj = NoObj
  BY Zenon, <1>1 DEF Move, Own, Sane, IInv, Typed, FrameOK, Making, CreatePc
<1>3. PICK r \in AlObj : r = [obj[f.at] EXCEPT !.obj_list = Append(obj[f.at].obj_list, f.obj)]
  <2>0. obj[f.at].obj_list \in Seq(Obj)
    BY Zenon, <1>2 DEF AlObj
  <2>1. Append(obj[f.at].obj_list, f.obj) \in Seq(Obj)
    BY <1>2, <2>0
  <2>2. PICK list \in Seq(Obj) : list = Append(obj[f.at].obj_list, f.obj)
    BY <2>1, Zenon
  <2> QED
    BY <1>2, <2>2, Zenon DEF AlObj
<1>4. PICK q \in AlObj : q = [obj[f.obj] EXCEPT !.p_parent_obj = f.at]
  BY <1>2, Zenon DEF AlObj
<1>5. obj' = [obj EXCEPT ![f.at] = r, ![f.obj] = q]
  <2>1. obj' = [obj EXCEPT ![f.at].obj_list = Append(@, f.obj), ![f.obj].p_parent_obj = f.at]
    BY <1>1, Zenon DEF Attach
  <2>2. obj \in [Obj -> AlObj]
    BY Zenon DEF IInv, Typed
  <2> QED
    BY <1>2, <1>3, <1>4, <2>1, <2>2, Zenon
<1>6. /\ r.user_destroy_cb = obj[f.at].user_destroy_cb
      /\ r.state = obj[f.at].state /\ r.ref_cnt = obj[f.at].ref_cnt /\ r.event = obj[f.at].event
      /\ r.p_parent_obj = obj[f.at].p_parent_obj
  BY Zenon, <1>2, <1>3 DEF AlObj
<1>7. /\ q.user_destroy_cb = obj[f.obj].user_destroy_cb /\ q.obj_list = obj[f.obj].obj_list
      /\ q.state = obj[f.obj].state /\ q.ref_cnt = obj[f.obj].ref_cnt /\ q.event = obj[f.obj].event
      /\ q.p_parent_obj = f.at
  BY <1>2, <1>4 DEF AlObj
<1>8. /\ obj' \in [Obj -> AlObj] /\ obj'[f.at] = r /\ obj'[f.obj] = q
      /\ \A o \in Obj : o # f.at /\ o # f.obj => obj'[o] = obj[o]
  BY <1>2, <1>5, BothWritten, ZenonT(30)
<1>9. queue' = queue /\ expired' = expired /\ Typed'
  BY Zenon, <1>1, <1>8 DEF Attach, Calm, IInv, Typed, Move, Own
<1>10. FrameOK(h)'
  BY Zenon, <1>1, <1>2, <1>7, <1>8 DEF FrameOK, Making, CreatePc, Attaching, Destroyer, Building, Looping
<1>11. Follows(f, h)
  BY <1>1, <1>2 DEF Follows, Making, CreatePc, Destroyer, Building, Looping
<1>12. ASSUME NEW o \in Obj PROVE Quiet(f, h, o)
  <2>1. CASE o = f.at
    <3>1. obj[o].state = "INITIALIZED"
      BY Zenon, <1>1, <2>1
    <3> QED
      BY <1>1, <1>2, <1>6, <1>8, <2>1, <3>1 DEF Quiet, Attaching, Looping
  <2>2. CASE o = f.obj
    BY <1>1, <1>2, <1>7, <1>8, <2>2 DEF Quiet, Attaching, Looping, Making, CreatePc
  <2>3. CASE o # f.at /\ o # f.obj
    BY Zenon, <1>1, <1>2, <1>8, <2>3 DEF Quiet, Attaching, Looping
  <2> QED
    BY Zenon, <2>1, <2>2, <2>3
<1>13. \A o \in Obj : FrameRefs(f, o) = FrameRefs(h, o)
  BY <1>1, <1>2, RefsOf DEF Abandoned, Making, CreatePc
<1> QED
  BY Zenon, <1>1, <1>9, <1>10, <1>11, <1>12, <1>13, QuietMove

(* A creation that fails.                                                  *)
LEMMA Undone ==
  ASSUME IInv, NEW t \in Thr, NEW pc \in Making, At(t, pc), Undo(t)
  PROVE  \E a, b, f, h, g :
            /\ Push(a, b, f, h, g) /\ f = Top(t) /\ Sane(f, pc)
            /\ h.pc = "deref" /\ h.obj = f.obj /\ h.at = f.at /\ g.pc = "mark" /\ g.obj = f.obj
<1>1. PICK f \in Frame : f = Top(t) /\ Sane(f, pc) /\ stack[t] # <<>>
  BY Zenon, AtTop
<1>2. PICK h \in Frame : h = [f EXCEPT !.pc = "deref"]
  BY <1>1, Zenon DEF Frame, Pc
<1>3. h.pc = "deref" /\ h.obj = f.obj /\ h.at = f.at
  BY Zenon, <1>1, <1>2 DEF Frame
<1>4. PICK g \in Frame : g = Destroying(f.obj, FALSE)
  BY <1>1, Zenon DEF Frame, Destroying, Pc, DestroyPc
<1>6. g.pc = "mark" /\ g.obj = f.obj
  BY Zenon, <1>4 DEF Destroying
<1>5. stack' = [stack EXCEPT ![t] = <<g, h>> \o Tail(stack[t])]
  BY Zenon, <1>1, <1>2, <1>4 DEF Undo
<1>8. \E a, b : Push(a, b, f, h, g)
  BY <1>1, <1>5, Pushed, Zenon
<1> QED
  BY <1>1, <1>3, <1>6, <1>8, Zenon

(* What an undone creation had is divided between its call and the one     *)
(* that destroys the object.                                               *)
LEMMA UndoneRefs ==
  ASSUME NEW f, NEW h, NEW g, NEW o, FrameOK(f), f.pc \in Making, ~Freed(f.obj),
         h.pc = "deref", h.obj = f.obj, h.at = f.at, g.pc = "mark", g.obj = f.obj
  PROVE  FrameRefs(f, o) = FrameRefs(h, o) + FrameRefs(g, o)
<1>1. f.obj # f.at
  BY Zenon DEF FrameOK
<1>2. FrameRefs(f, o) = One(f.obj = o \/ f.at = o)
  BY RefsOf DEF Abandoned
<1>3. FrameRefs(h, o) = One(h.at = o) /\ FrameRefs(g, o) = One(g.obj = o)
  BY RefsOf
<1> QED
  BY <1>1, <1>2, <1>3 DEF One

(* The frames of a creation that gives up, and of the destroy that it      *)
(* calls, are sound.                                                       *)
LEMMA UndoneOK ==
  ASSUME NEW f, NEW h, NEW g, FrameOK(f), f.pc \in Making, obj'[f.obj].state = obj[f.obj].state,
         h.pc = "deref", h.obj = f.obj, h.at = f.at, g.pc = "mark", g.obj = f.obj
  PROVE  FrameOK(h)' /\ FrameOK(g)' /\ Follows(f, h)
<1>1. f.at \in Obj /\ obj[f.obj].state # "NONE"
  BY Zenon DEF FrameOK, Making
<1>2. f.pc # "cleanup"
  BY Zenon DEF Making, CreatePc
<1> QED
  BY Zenon, <1>1, <1>2 DEF FrameOK, Follows, Making, CreatePc, Attaching, Destroyer, Building, Looping

(* attach_al_obj refuses, or the resource cannot be allocated.             *)
LEMMA UndoStep ==
  ASSUME IInv, NEW t \in Thr, NEW pc \in {"attach", "allocate"}, At(t, pc), Undo(t),
         UNCHANGED <<obj, hdl_vector, queue>>, Calm
  PROVE  IInv'
<1>1. pc \in Making
  BY Zenon DEF Making, CreatePc
<1>2. PICK a, b, f, h, g :
            /\ Push(a, b, f, h, g) /\ f = Top(t) /\ Sane(f, pc)
            /\ h.pc = "deref" /\ h.obj = f.obj /\ h.at = f.at /\ g.pc = "mark" /\ g.obj = f.obj
  BY <1>1, Undone, Zenon
<1>3. FrameOK(f) /\ f.pc \in {"attach", "allocate"} /\ f.pc \in Making /\ ~Freed(f.obj) /\ f.obj \in Obj
  BY Zenon, <1>1, <1>2 DEF Push, Own, Sane
<1>4. ASSUME NEW o \in Obj PROVE FrameRefs(f, o) = FrameRefs(h, o) + FrameRefs(g, o)
  BY <1>2, <1>3, UndoneRefs
<1>6. FrameOK(h)' /\ FrameOK(g)' /\ Follows(f, h)
  BY <1>2, <1>3, UndoneOK, ZenonT(30)
<1>7. expired' = expired /\ queue' = queue /\ Typed'
  BY Zenon, <1>2 DEF Calm, IInv, Typed, Push, Own
<1>8. ASSUME NEW o \in Obj PROVE Quiet(f, h, o)
  BY Zenon, <1>2, <1>3 DEF Quiet, Attaching, Looping
<1> QED
  BY <1>2, <1>3, <1>4, <1>6, <1>7, <1>8, QuietPush

(* The handle vector cannot grow: the child leaves the list.               *)
TakenBack(f) == obj' = [obj EXCEPT ![f.at].obj_list = Unlink(@, f.obj), ![f.obj].p_parent_obj = NoObj]

(* The creation gives up because the handle vector cannot grow.            *)
LEMMA InsertUndoStep ==
  ASSUME IInv, NEW t \in Thr, At(t, "insert"), On(obj[Top(t).at].obj_list, Top(t).obj),
         TakenBack(Top(t)), Undo(t), UNCHANGED <<hdl_vector, queue>>, Calm
  PROVE  IInv'
<1>1. "insert" \in Making
  BY Zenon DEF Making, CreatePc
<1>2. PICK a, b, f, h, g :
            /\ Push(a, b, f, h, g) /\ f = Top(t) /\ Sane(f, "insert")
            /\ h.pc = "deref" /\ h.obj = f.obj /\ h.at = f.at /\ g.pc = "mark" /\ g.obj = f.obj
  BY <1>1, Undone, ZenonT(30)
<1>3. /\ FrameOK(f) /\ f.pc = "insert" /\ ~Freed(f.obj) /\ f.obj \in Obj /\ f.at \in Obj /\ f.at # f.obj
      /\ obj[f.at] \in AlObj /\ obj[f.obj] \in AlObj
  BY <1>1, <1>2, Zenon DEF Push, Own, Sane, FrameOK, IInv, Typed, CreatePc
<1>4. PICK list \in Seq(Obj) : list = Unlink(obj[f.at].obj_list, f.obj) /\ obj[f.at].obj_list # <<>>
  <2>1. obj[f.at].obj_list \in Seq(Obj)
    BY Zenon, <1>3 DEF AlObj
  <2> QED
    BY Zenon, <1>2, <2>1, Unlinked
<1>5. PICK r \in AlObj : r = [obj[f.at] EXCEPT !.obj_list = list]
  BY <1>3, <1>4, Zenon DEF AlObj
<1>6. PICK q \in AlObj : q = [obj[f.obj] EXCEPT !.p_parent_obj = NoObj]
  BY <1>3, Zenon DEF AlObj
<1>7. obj' = [obj EXCEPT ![f.at] = r, ![f.obj] = q]
  <2>1. obj' = [obj EXCEPT ![f.at].obj_list = Unlink(@, f.obj), ![f.obj].p_parent_obj = NoObj]
    BY <1>2, Zenon DEF TakenBack
  <2>2. obj \in [Obj -> AlObj]
    BY Zenon DEF IInv, Typed
  <2> QED
    BY <1>3, <1>4, <1>5, <1>6, <2>1, <2>2, Zenon
<1>8. /\ r.user_destroy_cb = obj[f.at].user_destroy_cb
      /\ r.state = obj[f.at].state /\ r.ref_cnt = obj[f.at].ref_cnt /\ r.event = obj[f.at].event
      /\ r.p_parent_obj = obj[f.at].p_parent_obj
  BY Zenon, <1>3, <1>5 DEF AlObj
<1>9. /\ q.user_destroy_cb = obj[f.obj].user_destroy_cb /\ q.obj_list = obj[f.obj].obj_list
      /\ q.state = obj[f.obj].state /\ q.ref_cnt = obj[f.obj].ref_cnt /\ q.event = obj[f.obj].event
      /\ q.p_parent_obj = NoObj
  BY Zenon, <1>3, <1>6 DEF AlObj
<1>10. /\ obj' \in [Obj -> AlObj] /\ obj'[f.at] = r /\ obj'[f.obj] = q
       /\ \A o \in Obj : o # f.at /\ o # f.obj => obj'[o] = obj[o]
  BY <1>3, <1>7, BothWritten, ZenonT(30)
<1>11. ASSUME NEW o \in Obj PROVE FrameRefs(f, o) = FrameRefs(h, o) + FrameRefs(g, o)
  BY <1>1, <1>2, <1>3, UndoneRefs
<1>13. FrameOK(h)' /\ FrameOK(g)' /\ Follows(f, h)
  <2>1. obj'[f.obj].state = obj[f.obj].state
    BY Zenon, <1>9, <1>10
  <2> QED
    BY <1>1, <1>2, <1>3, <2>1, UndoneOK, Zenon
<1>14. expired' = expired /\ queue' = queue /\ Typed'
  BY Zenon, <1>2, <1>10 DEF Calm, IInv, Typed, Push, Own
<1>15. ASSUME NEW o \in Obj PROVE Quiet(f, h, o)
  <2>1. CASE o = f.at
    BY Zenon, <1>2, <1>3, <1>4, <1>8, <1>10, <2>1 DEF Quiet, Attaching, Looping
  <2>2. CASE o = f.obj
    BY <1>1, <1>2, <1>3, <1>9, <1>10, <2>2 DEF Quiet, Attaching, Looping
  <2>3. CASE o # f.at /\ o # f.obj
    BY Zenon, <1>2, <1>3, <1>10, <2>3 DEF Quiet, Attaching, Looping
  <2> QED
    BY Zenon, <2>1, <2>2, <2>3
<1> QED
  BY <1>2, <1>3, <1>11, <1>13, <1>14, <1>15, QuietPush

(* deref_al_obj changes the count, the event and the queue only.           *)
LEMMA DerefKeeps ==
  ASSUME IInv, NEW x \in Obj, Deref(x)
  PROVE  /\ \A o \in Obj : /\ obj'[o].state = obj[o].state /\ obj'[o].p_parent_obj = obj[o].p_parent_obj
                            /\ obj'[o].user_destroy_cb = obj[o].user_destroy_cb
         /\ obj'[x].ref_cnt = obj[x].ref_cnt - 1
<1>1. obj \in [Obj -> AlObj] /\ obj[x] \in AlObj
  BY Zenon DEF IInv, Typed
<1>2. PICK e : e = (obj[x].event \/ (obj[x].ref_cnt = 1 /\ ByEvent(x)))
  BY Zenon
<1>3. PICK n : n = obj[x].ref_cnt - 1
  BY Zenon
<1>4. obj' = [obj EXCEPT ![x] = [obj[x] EXCEPT !.ref_cnt = n, !.event = e]]
  BY <1>2, <1>3, Zenon DEF Deref
<1> QED
  BY Zenon, <1>1, <1>3, <1>4 DEF AlObj

(* A call that drops a reference it holds and goes on keeps the invariant, *)
LEMMA DerefMove ==
  ASSUME IInv, NEW a, NEW b, NEW f, NEW h, Move(a, b, f, h), Follows(f, h), FrameOK(h)',
         NEW x \in Obj, Deref(x), UNCHANGED hdl_vector, Calm,
         h.pc \in Attaching <=> f.pc \in Attaching, f.pc \in Looping => h.pc \in Looping,
         \A o \in Obj : FrameRefs(f, o) = FrameRefs(h, o) + One(o = x),
         Holds(f, x) \/ (f.obj = x /\ f.pc = "last" /\ ByEvent(x))
  PROVE  IInv'
<1>1. OwnCalls(a, b) /\ b \notin DOMAIN Frames' /\ stack' \in [Thr -> Seq(Frame)]
  BY Zenon, MoveOwn DEF Move, Own
<1>2. \A o, pcs : /\ Busy(a, o, pcs) <=> f.obj = o /\ f.pc \in pcs
                  /\ Busy(a, o, pcs)' <=> f.obj = o /\ h.pc \in pcs
  BY Zenon DEF Move, Own, Busy, Follows
<1>3. Freed(h.obj)' <=> Freed(h.obj)
  BY Zenon, DerefKeeps DEF Move, Own, Follows, Freed
<1>4. \A o \in Obj : Has(a, o) = Has(a, o)' + One(o = x)
  <2> TAKE o \in Obj
  <2>1. Has(a, o) = FrameRefs(f, o) /\ Has(a, o)' = FrameRefs(h, o)
    BY <1>3, HasFrame DEF Move, Own
  <2> QED
    BY Zenon, <2>1
<1>5. \A o \in Obj : /\ Busy(a, o, Attaching)' <=> Busy(a, o, Attaching)
                     /\ Busy(a, o, Looping) => Busy(a, o, Looping)'
  BY Zenon, <1>2
<1>6. a \in Holders(x) \/ (Busy(a, x, {"last"}) /\ ByEvent(x))
  BY Zenon, <1>2 DEF Holders, Move, Own
<1> QED
  BY <1>1, <1>4, <1>5, <1>6, Derefs

(* and so does one that drops its last reference and returns.              *)
LEMMA DerefPop ==
  ASSUME IInv, NEW a, NEW b, NEW f, Pop(a, b, f),
         NEW x \in Obj, Deref(x), UNCHANGED hdl_vector, Calm,
         f.pc \notin Attaching, f.pc \notin Looping, f.pc # "cleanup",
         \A o \in Obj : FrameRefs(f, o) = One(o = x),
         Holds(f, x) \/ (f.obj = x /\ f.pc = "last")
  PROVE  IInv'
<1>1. OwnCalls(a, b) /\ b \notin DOMAIN Frames' /\ a \notin DOMAIN Frames' /\ stack' \in [Thr -> Seq(Frame)]
  BY Zenon, PopOwn DEF Pop, Own
<1>2. \A o, pcs : /\ Busy(a, o, pcs) <=> f.obj = o /\ f.pc \in pcs
                  /\ ~Busy(a, o, pcs)'
  BY Zenon DEF Pop, Own, Busy
<1>3. \A o \in Obj : Has(a, o) = Has(a, o)' + One(o = x)
  <2> TAKE o \in Obj
  <2>1. Has(a, o) = FrameRefs(f, o) /\ Has(a, o)' = 0
    BY HasFrame DEF Pop, Own
  <2> QED
    BY <2>1 DEF One
<1>4. \A o \in Obj : /\ Busy(a, o, Attaching)' <=> Busy(a, o, Attaching)
                     /\ Busy(a, o, Looping) => Busy(a, o, Looping)'
  BY Zenon, <1>2
<1>5. a \in Holders(x) \/ Busy(a, x, {"last"})
  BY Zenon, <1>2 DEF Holders, Pop, Own
<1> QED
  BY <1>1, <1>3, <1>4, <1>5, Derefs

(* The last act of a call.                                                 *)
LEMMA LastDerefStep ==
  ASSUME IInv, NEW t \in Thr, LastDeref(t)
  PROVE  IInv'
<1>1. PICK f : f = Top(t) /\ Sane(f, "deref") /\ stack[t] # <<>>
  BY Zenon, AtTop DEF LastDeref
<1>2. PICK a, b : Pop(a, b, f)
  BY Zenon, <1>1, Popped DEF LastDeref
<1>3. f.pc = "deref" /\ f.at \in Obj
  BY Zenon, <1>1, <1>2 DEF Sane, Pop, Own, FrameOK
<1>4. Deref(f.at) /\ UNCHANGED hdl_vector /\ Calm
  BY Zenon, <1>1 DEF LastDeref
<1>5. \A o \in Obj : FrameRefs(f, o) = One(o = f.at)
  BY Zenon, <1>3, RefsOf DEF One
<1>6. Holds(f, f.at)
  BY Zenon, <1>3 DEF Holds, Abandoned, Attaching
<1> QED
  BY <1>2, <1>3, <1>4, <1>5, <1>6, DerefPop DEF Attaching, Looping

(* A second caller of destroy drops its reference.                         *)
LEMMA AgainStep ==
  ASSUME IInv, NEW t \in Thr, Again(t)
  PROVE  IInv'
<1>1. PICK f : f = Top(t) /\ Sane(f, "again") /\ stack[t] # <<>>
  BY Zenon, AtTop DEF Again
<1>2. PICK a, b : Pop(a, b, f)
  BY Zenon, <1>1, Popped DEF Again
<1>3. f.pc = "again" /\ f.obj \in Obj
  BY Zenon, <1>1, <1>2 DEF Sane, Pop, Own
<1>4. Deref(f.obj) /\ UNCHANGED hdl_vector /\ Calm
  BY Zenon, <1>1 DEF Again
<1>5. \A o \in Obj : FrameRefs(f, o) = One(o = f.obj)
  BY Zenon, <1>3, RefsOf DEF One
<1>6. Holds(f, f.obj)
  BY Zenon, <1>3 DEF Holds
<1> QED
  BY <1>2, <1>3, <1>4, <1>5, <1>6, DerefPop DEF Attaching, Looping

(* The first one drops the reference of its caller and goes on.            *)
LEMMA DropStep ==
  ASSUME IInv, NEW t \in Thr, Drop(t)
  PROVE  IInv'
<1>1. PICK a, b, f, h : /\ Move(a, b, f, h) /\ Sane(f, "drop") /\ h.pc = "free_hdl" /\ f = Top(t)
                        /\ h.obj = f.obj /\ h.at = f.at /\ h.sync = f.sync
  BY GoneTo DEF Drop, Pc, DestroyPc
<1>2. FrameOK(f) /\ f.pc = "drop" /\ f.obj \in Obj
  BY Zenon, <1>1 DEF Move, Own, Sane
<1>3. Deref(f.obj) /\ UNCHANGED hdl_vector /\ Calm
  BY Zenon, <1>1 DEF Drop
<1>4. obj'[f.obj].state = obj[f.obj].state
  BY Zenon, <1>2, <1>3, DerefKeeps
<1>5. FrameOK(h)'
  BY Zenon, <1>1, <1>2, <1>4 DEF FrameOK, Making, CreatePc, Attaching, Destroyer, Building, Looping
<1>6. Follows(f, h)
  BY Zenon, <1>1, <1>2 DEF Follows, Making, CreatePc, Destroyer, Building, Looping
<1>7. \A o \in Obj : FrameRefs(f, o) = FrameRefs(h, o) + One(o = f.obj)
  BY <1>1, <1>2, RefsOf DEF One, Building, Looping
<1>8. Holds(f, f.obj)
  BY Zenon, <1>2 DEF Holds
<1> QED
  BY <1>1, <1>2, <1>3, <1>5, <1>6, <1>7, <1>8, DerefMove DEF Attaching, Looping

(* The creation drops the reference of init_al_obj.                        *)
LEMMA DropInitStep ==
  ASSUME IInv, NEW t \in Thr, DropInit(t)
  PROVE  IInv'
<1>1. PICK a, b, f, h : /\ Move(a, b, f, h) /\ Sane(f, "drop_init") /\ h.pc = "deref" /\ f = Top(t)
                        /\ h.obj = f.obj /\ h.at = f.at /\ h.sync = f.sync
  BY GoneTo DEF DropInit, Pc
<1>2. FrameOK(f) /\ f.pc = "drop_init" /\ f.obj \in Obj /\ f.at \in Obj /\ f.obj # f.at
  BY Zenon, <1>1 DEF Move, Own, Sane, FrameOK, Making, CreatePc
<1>3. Deref(f.obj) /\ UNCHANGED hdl_vector /\ Calm
  BY Zenon, <1>1 DEF DropInit
<1>4. obj'[f.obj].state = obj[f.obj].state
  BY Zenon, <1>2, <1>3, DerefKeeps
<1>5. FrameOK(h)'
  BY Zenon, <1>1, <1>2, <1>4 DEF FrameOK, Making, CreatePc, Attaching, Destroyer, Building, Looping
<1>6. Follows(f, h)
  BY Zenon, <1>1, <1>2 DEF Follows, Making, CreatePc, Destroyer, Building, Looping
<1>7. \A o \in Obj : FrameRefs(f, o) = FrameRefs(h, o) + One(o = f.obj)
  <2> TAKE o \in Obj
  <2>1. FrameRefs(f, o) = One(f.obj = o \/ f.at = o)
    BY <1>2, RefsOf DEF Making, CreatePc, Abandoned, Attaching
  <2>2. FrameRefs(h, o) = One(f.at = o)
    BY <1>1, RefsOf
  <2> QED
    BY <1>2, <2>1, <2>2 DEF One
<1>8. Holds(f, f.obj)
  BY Zenon, <1>2 DEF Holds, Making, CreatePc
<1> QED
  BY <1>1, <1>2, <1>3, <1>5, <1>6, <1>7, <1>8, DerefMove DEF Attaching, Looping

(* async_destroy_obj and sync_destroy_obj drop the reference of            *)
(* construct_al_obj.                                                       *)
LEMMA LastReferenceStep ==
  ASSUME IInv, NEW t \in Thr, LastReference(t)
  PROVE  IInv'
<1>1. PICK f : f = Top(t) /\ Sane(f, "last") /\ stack[t] # <<>>
  BY Zenon, AtTop DEF LastReference
<1>2. At(t, "last") /\ Deref(f.obj) /\ UNCHANGED hdl_vector /\ Calm
  BY Zenon, <1>1 DEF LastReference
<1>3. CASE f.sync \/ f.obj \in SyncObj
  <2>1. PICK x \in {"cleanup", "wait"} : /\ x = "cleanup" => obj[f.obj].ref_cnt = 1
                                         /\ Goto(t, x)
    BY Zenon, <1>1, <1>3 DEF LastReference
  <2>2. x \in Pc
    BY Zenon DEF Pc, DestroyPc
  <2>3. PICK a, b, h : /\ Move(a, b, f, h) /\ h.pc = x /\ h.obj = f.obj /\ h.at = f.at /\ h.sync = f.sync
    BY <1>1, <1>2, <2>1, <2>2, GoneTo
  <2>4. /\ FrameOK(f) /\ f.pc = "last" /\ f.obj \in Obj /\ obj[f.obj].state = "DESTROYING"
        /\ ByEvent(f.obj)
    BY <1>1, <1>3, <2>3, Zenon DEF Move, Own, Sane, FrameOK, Destroyer, Building
  <2>5. f.obj \notin expired
    <3> SUFFICES ASSUME f.obj \in expired PROVE FALSE
      BY Zenon
    <3>1. PICK k : Busy(k, f.obj, {"cleanup"})
      BY Zenon, <2>4 DEF IInv, GivenUp, Freed
    <3>2. Busy(a, f.obj, {"last"})
      BY Zenon, <2>3, <2>4 DEF Move, Own, Busy
    <3>3. Busy(k, f.obj, Destroyer) /\ Busy(a, f.obj, Destroyer)
      BY Zenon, <3>1, <3>2 DEF Busy, Destroyer, Building
    <3>4. k = a
      BY Zenon, <2>4, <3>3 DEF IInv, OneEach
    <3> QED
      BY Zenon, <3>1, <3>2, <3>4 DEF Busy
  <2>6. /\ obj'[f.obj].state = obj[f.obj].state /\ obj'[f.obj].user_destroy_cb = obj[f.obj].user_destroy_cb
        /\ obj'[f.obj].ref_cnt = obj[f.obj].ref_cnt - 1
    BY <1>2, <2>4, DerefKeeps
  <2>7. ByEvent(f.obj)' /\ expired' = expired
    BY Zenon, <1>2, <2>4, <2>6 DEF ByEvent, Calm
  <2>8. FrameOK(h)'
    <3>1. x = "cleanup" => obj'[f.obj].ref_cnt = 0
      BY <2>1, <2>6
    <3> QED
      BY <2>3, <2>4, <2>5, <2>6, <2>7, <3>1
      DEF FrameOK, Making, CreatePc, Attaching, Destroyer, Building, Looping
  <2>9. Follows(f, h)
    BY Zenon, <2>3, <2>4 DEF Follows, Making, CreatePc, Destroyer, Building, Looping
  <2>10. \A o \in Obj : FrameRefs(f, o) = FrameRefs(h, o) + One(o = f.obj)
    <3> TAKE o \in Obj
    <3>1. FrameRefs(f, o) = One(f.obj = o) /\ FrameRefs(h, o) = 0
      BY <2>3, <2>4, RefsOf DEF Building
    <3> QED
      BY <3>1 DEF One
  <2> QED
    BY <1>2, <2>3, <2>4, <2>8, <2>9, <2>10, DerefMove DEF Attaching, Looping
<1>4. CASE ~(f.sync \/ f.obj \in SyncObj)
  <2>1. Return(t)
    BY Zenon, <1>1, <1>4 DEF LastReference
  <2>2. PICK a, b : Pop(a, b, f)
    BY Zenon, <1>1, <2>1, Popped
  <2>3. f.pc = "last" /\ f.obj \in Obj
    BY Zenon, <1>1, <2>2 DEF Sane, Pop, Own
  <2>4. \A o \in Obj : FrameRefs(f, o) = One(o = f.obj)
    BY Zenon, <2>3, RefsOf DEF One, Building
  <2> QED
    BY <1>2, <2>2, <2>3, <2>4, DerefPop DEF Attaching, Looping
<1> QED
  BY Zenon, <1>3, <1>4

(* ref_al_obj.                                                             *)
Ref(x) == obj' = [obj EXCEPT ![x].ref_cnt = @ + 1]

(* ref_al_obj changes the count only.                                      *)
LEMMA RefKeeps ==
  ASSUME IInv, NEW x \in Obj, Ref(x)
  PROVE  /\ obj' \in [Obj -> AlObj] /\ obj'[x].ref_cnt = obj[x].ref_cnt + 1
         /\ \A o \in Obj : o # x => obj'[o] = obj[o]
         /\ \A o \in Obj : /\ obj'[o].state = obj[o].state /\ obj'[o].p_parent_obj = obj[o].p_parent_obj
                            /\ obj'[o].user_destroy_cb = obj[o].user_destroy_cb
                            /\ obj'[o].obj_list = obj[o].obj_list /\ obj'[o].event = obj[o].event
<1>1. obj \in [Obj -> AlObj] /\ obj[x] \in AlObj /\ obj[x].ref_cnt + 1 \in Int
  BY DEF IInv, Typed, AlObj
<1>2. PICK r : r = [obj[x] EXCEPT !.ref_cnt = obj[x].ref_cnt + 1]
  BY Zenon
<1>3. r \in AlObj
  BY <1>1, <1>2, Zenon DEF AlObj
<1>4. obj' = [obj EXCEPT ![x] = r]
  BY <1>2, Zenon DEF Ref
<1>5. /\ r.user_destroy_cb = obj[x].user_destroy_cb /\ r.obj_list = obj[x].obj_list
      /\ r.state = obj[x].state /\ r.ref_cnt = obj[x].ref_cnt + 1 /\ r.event = obj[x].event
      /\ r.p_parent_obj = obj[x].p_parent_obj
  BY Zenon, <1>1, <1>2 DEF AlObj
<1>6. obj' \in [Obj -> AlObj] /\ obj'[x] = r /\ \A o \in Obj : o # x => obj'[o] = obj[o]
  BY <1>3, <1>4, Written, Zenon
<1> QED
  BY Zenon, <1>5, <1>6

(* An object that has a reference gets another.                            *)
LEMMA RefTaken ==
  ASSUME IInv, NEW a, NEW b, OwnCalls(a, b), NEW x \in Obj, Ref(x), obj[x].ref_cnt # 0,
         UNCHANGED <<hdl_vector, queue>>, Calm, stack' \in [Thr -> Seq(Frame)],
         \A o \in Obj : /\ Busy(a, o, Attaching)' <=> Busy(a, o, Attaching)
                        /\ Busy(a, o, Looping) => Busy(a, o, Looping)'
                        /\ Has(a, o) + One(o = x) = Has(a, o)' + Has(b, o)'
  PROVE  IInv'
<1>1. /\ obj' \in [Obj -> AlObj] /\ obj'[x].ref_cnt = obj[x].ref_cnt + 1
      /\ \A o \in Obj : o # x => obj'[o] = obj[o]
      /\ \A o \in Obj : /\ obj'[o].state = obj[o].state /\ obj'[o].p_parent_obj = obj[o].p_parent_obj
                         /\ obj'[o].user_destroy_cb = obj[o].user_destroy_cb
                         /\ obj'[o].obj_list = obj[o].obj_list /\ obj'[o].event = obj[o].event
  BY Zenon, RefKeeps
<1>2. expired' = expired /\ Typed'
  BY Zenon, <1>1 DEF Calm, IInv, Typed
<1>3. OwnQueue(a)
  BY Zenon DEF OwnQueue
<1>4. ASSUME NEW o \in Obj
      PROVE  /\ OwnObject(a, o) /\ KidKept(a, o)
             /\ obj'[o].ref_cnt + Has(a, o) = obj[o].ref_cnt + Has(a, o)' + Has(b, o)'
  <2>1. obj[o].ref_cnt = 0 => obj'[o].ref_cnt = 0
    BY Zenon, <1>1
  <2>2. obj'[o].event => obj[o].event
    BY <1>1, ZenonT(30)
  <2>3. OwnObject(a, o)
    BY Zenon, <1>1, <2>1, <2>2, ObjectKept
  <2>4. KidKept(a, o)
    BY Zenon, <1>1 DEF KidKept
  <2>5. obj'[o].ref_cnt = obj[o].ref_cnt + One(o = x) /\ obj[o].ref_cnt \in Int
    <3>1. obj[o].ref_cnt \in Int
      BY Zenon DEF IInv, Typed, AlObj
    <3>2. obj'[o].ref_cnt = IF o = x THEN obj[o].ref_cnt + 1 ELSE obj[o].ref_cnt
      BY <1>1, Zenon
    <3> QED
      BY <3>1, <3>2 DEF One
  <2>6. /\ Has(a, o) \in Int /\ Has(a, o)' \in Int /\ Has(b, o)' \in Int /\ One(o = x) \in Int
        /\ Has(a, o) + One(o = x) = Has(a, o)' + Has(b, o)'
    <3>1. Has(a, o) + One(o = x) = Has(a, o)' + Has(b, o)'
      BY Zenon
    <3> QED
      BY <3>1 DEF Has, FrameRefs, One
  <2> QED
    BY <2>3, <2>4, <2>5, <2>6
<1> QED
  BY Zenon, <1>2, <1>3, <1>4, Steady

(* al_hdl_ref, which begins a call.                                        *)
LEMMA HdlRefStep ==
  ASSUME IInv, NEW t \in Thr, NEW x \in Obj, NEW g \in Frame, stack[t] = <<>>,
         g.obj = x, \/ g.pc \in {"deref", "construct"} /\ g.at = x
                    \/ g.pc = "mark",
         obj[x].ref_cnt # 0, Ref(x), stack' = [stack EXCEPT ![t] = <<g>>],
         UNCHANGED <<hdl_vector, queue>>, Calm
  PROVE  IInv'
<1>1. PICK a, b : /\ Differ(a, b) /\ stack' \in [Thr -> Seq(Frame)] /\ a \notin DOMAIN Frames
                  /\ a \notin DOMAIN Frames' /\ b \in DOMAIN Frames' /\ Frames'[b] = g
  BY Enters, ZenonT(30) DEF IInv, Typed
<1>2. obj[x].state # "NONE" /\ obj'[x].state = obj[x].state
  BY Zenon, RefKeeps DEF IInv, Counted
<1>3. FrameOK(g)'
  BY Zenon, <1>2 DEF FrameOK, Making, CreatePc, Attaching, Destroyer, Building, Looping
<1>4. OwnCalls(a, b)
  BY Zenon, <1>1, <1>3 DEF OwnCalls
<1>5. ASSUME NEW o \in Obj PROVE Has(a, o) + One(o = x) = Has(a, o)' + Has(b, o)'
  <2>1. Freed(g.obj)' <=> Freed(g.obj)
    BY Zenon, <1>2 DEF Freed
  <2>2. Has(a, o) = 0 /\ Has(a, o)' = 0 /\ Has(b, o)' = FrameRefs(g, o)
    BY Zenon, <1>1, <2>1, HasFrame
  <2>3. FrameRefs(g, o) = One(o = x)
    BY Zenon, RefsOf DEF One
  <2> QED
    BY Zenon, <2>2, <2>3 DEF One
<1>6. \A o \in Obj : /\ Busy(a, o, Attaching)' <=> Busy(a, o, Attaching)
                     /\ Busy(a, o, Looping) => Busy(a, o, Looping)'
  BY Zenon, <1>1 DEF Busy
<1> QED
  BY <1>1, <1>4, <1>5, <1>6, RefTaken

(* The innermost call is one of the calls.                                 *)
LEMMA TopOK ==
  ASSUME IInv, NEW t \in Thr, stack[t] # <<>>
  PROVE  FrameOK(Top(t))
<1>1. PICK n \in Nat : n = Len(stack[t]) /\ n > 0 /\ stack[t][1] = Top(t) /\ DOMAIN stack = Thr
  BY DEF IInv, Typed, Top
<1>2. PICK k : k = <<t, n>>
  BY Zenon
<1>3. k \in {t} \X (1 .. Len(stack[t])) /\ k[1] = t /\ k[2] = n /\ n + 1 - n = 1
  BY <1>1, <1>2
<1>4. k \in Calls /\ Call(k) = Top(t)
  BY Zenon, <1>1, <1>3 DEF Calls, Call
<1>5. k \in DOMAIN Frames /\ Frames[k] = Top(t)
  BY <1>4 DEF Frames
<1> QED
  BY Zenon, <1>5 DEF IInv

(* The body of the loop over the children.                                 *)
LEMMA RefChildStep ==
  ASSUME IInv, NEW t \in Thr, RefChild(t)
  PROVE  IInv'
<1>1. PICK f \in Frame : f = Top(t) /\ Sane(f, "ref_child") /\ stack[t] # <<>>
  BY Zenon, AtTop DEF RefChild
<1>2. PICK h \in Frame : h = [f EXCEPT !.pc = "children"]
  BY <1>1, Zenon DEF Frame, Pc, DestroyPc
<1>3. h.pc = "children" /\ h.obj = f.obj
  BY Zenon, <1>1, <1>2 DEF Frame
<1>4. f.pc = "ref_child" /\ obj[f.at].ref_cnt # 0 /\ FrameOK(f)
  BY Zenon, <1>1, TopOK DEF Sane
<1>5. PICK x \in Obj : x = f.at
  BY Zenon, <1>4 DEF FrameOK
<1>6. PICK g \in Frame : g = Destroying(x, FALSE)
  BY Zenon DEF Frame, Destroying, Pc, DestroyPc
<1>7. g.pc = "mark" /\ g.obj = x
  BY Zenon, <1>6 DEF Destroying
<1>8. stack' = [stack EXCEPT ![t] = <<g, h>> \o Tail(stack[t])]
  BY <1>1, <1>2, <1>5, <1>6, Zenon DEF RefChild, Top
<1>9. PICK a, b : Push(a, b, f, h, g)
  BY <1>1, <1>8, Pushed, Zenon
<1>10. Ref(x) /\ UNCHANGED <<hdl_vector, queue>> /\ Calm /\ obj[x].ref_cnt # 0
  BY <1>1, <1>4, <1>5, Zenon DEF RefChild, Ref
<1>11. \A o \in Obj : obj'[o].state = obj[o].state
  BY <1>10, RefKeeps
<1>12. f.obj \in Obj /\ obj[f.obj].state = "DESTROYING" /\ obj[x].state # "NONE"
  BY <1>4, <1>10, Zenon DEF FrameOK, Frame, Destroyer, Building, Looping, IInv, Counted
<1>13. FrameOK(h)' /\ FrameOK(g)'
  BY <1>3, <1>7, <1>11, <1>12 DEF FrameOK, Making, CreatePc, Attaching, Destroyer, Building, Looping
<1>14. Follows(f, h)
  BY Zenon, <1>3, <1>4 DEF Follows, Making, CreatePc, Destroyer, Building, Looping
<1>15. OwnCalls(a, b)
  BY <1>7, <1>9, <1>13, <1>14, PushOwn
<1>16. ASSUME NEW o \in Obj
       PROVE  /\ Busy(a, o, Attaching)' <=> Busy(a, o, Attaching)
              /\ Busy(a, o, Looping) => Busy(a, o, Looping)'
              /\ Has(a, o) + One(o = x) = Has(a, o)' + Has(b, o)'
  <2>1. /\ a \in DOMAIN Frames /\ Frames[a] = f /\ a \in DOMAIN Frames' /\ Frames'[a] = h
        /\ b \in DOMAIN Frames' /\ Frames'[b] = g
    BY Zenon, <1>9 DEF Push, Own
  <2>2. (Freed(h.obj)' <=> Freed(h.obj)) /\ (Freed(g.obj)' <=> Freed(g.obj))
    BY Zenon, <1>3, <1>7, <1>11, <1>12 DEF Freed
  <2>3. Has(a, o) = FrameRefs(f, o) /\ Has(a, o)' = FrameRefs(h, o) /\ Has(b, o)' = FrameRefs(g, o)
    BY Zenon, <2>1, <2>2, HasFrame
  <2>4. /\ FrameRefs(f, o) = One(f.obj = o) /\ FrameRefs(h, o) = One(f.obj = o)
        /\ FrameRefs(g, o) = One(o = x)
    BY <1>3, <1>4, <1>7, RefsOf DEF Building, Looping, One
  <2> QED
    BY <1>3, <1>4, <2>1, <2>3, <2>4 DEF Busy, Attaching, Looping
<1>17. stack' \in [Thr -> Seq(Frame)]
  BY Zenon, <1>9 DEF Push, Own
<1> QED
  BY <1>10, <1>15, <1>16, <1>17, RefTaken

(* The end of attach_al_obj: the child counts from now on.                 *)
LEMMA RefParentStep ==
  ASSUME IInv, NEW t \in Thr, RefParent(t)
  PROVE  IInv'
<1>1. PICK a, b, f, h : /\ Move(a, b, f, h) /\ Sane(f, "ref_parent") /\ h.pc = "allocate" /\ f = Top(t)
                        /\ h.obj = f.obj /\ h.at = f.at /\ h.sync = f.sync
  BY GoneTo DEF RefParent, Pc, CreatePc
<1>2. /\ FrameOK(f) /\ f.pc = "ref_parent" /\ f.obj \in Obj /\ ~Freed(f.obj)
      /\ Differ(a, b) /\ a \in DOMAIN Frames /\ Frames[a] = f
      /\ a \in DOMAIN Frames' /\ Frames'[a] = h /\ b \notin DOMAIN Frames'
  BY Zenon, <1>1 DEF Move, Own, Sane
<1>3. PICK x \in Obj : x = f.at
  BY Zenon, <1>2 DEF FrameOK, CreatePc
<1>4. f.obj # x /\ obj[f.obj].p_parent_obj = x /\ obj[f.obj].state # "NONE"
  BY Zenon, <1>2, <1>3 DEF FrameOK, Making, CreatePc, Attaching
<1>5. Ref(x) /\ queue' = queue /\ hdl_vector' = hdl_vector /\ Calm
  BY <1>1, <1>3, Zenon DEF RefParent, Ref
<1>6. /\ obj' \in [Obj -> AlObj] /\ obj'[x].ref_cnt = obj[x].ref_cnt + 1
      /\ \A o \in Obj : o # x => obj'[o] = obj[o]
      /\ \A o \in Obj : /\ obj'[o].state = obj[o].state /\ obj'[o].p_parent_obj = obj[o].p_parent_obj
                         /\ obj'[o].user_destroy_cb = obj[o].user_destroy_cb
                         /\ obj'[o].obj_list = obj[o].obj_list /\ obj'[o].event = obj[o].event
  BY Zenon, <1>5, RefKeeps
<1>7. expired' = expired /\ Typed' /\ OwnQueue(a)
  BY <1>1, <1>5, <1>6, Zenon DEF Calm, IInv, Typed, Move, Own, OwnQueue
<1>8. FrameOK(h)'
  BY <1>1, <1>2, <1>3, <1>4, <1>6, Zenon DEF FrameOK, Making, CreatePc, Attaching, Destroyer, Building, Looping
<1>9. Follows(f, h)
  BY Zenon, <1>1, <1>2 DEF Follows, Making, CreatePc, Destroyer, Building, Looping
<1>10. OwnCalls(a, b)
  BY <1>1, <1>8, <1>9, MoveOwn, Zenon
<1>11. \A o \in Obj : /\ a \in Holders(o) <=> o \in {f.obj, x}
                      /\ a \in Holders(o)' <=> o \in {f.obj, x}
                      /\ b \notin Holders(o)' /\ ~Busy(a, o, Building) /\ ~Busy(a, o, Building)'
                      /\ ~Busy(a, o, Looping)
  BY <1>1, <1>2, <1>3, Zenon
  DEF Holders, Holds, Abandoned, Busy, Making, CreatePc, Attaching, Building, Looping
<1>12. x \notin expired => obj[x].ref_cnt # 0
  BY <1>11, HeldCounted
<1>13. ASSUME NEW o \in Obj PROVE OwnObject(a, o)
  BY Zenon, <1>6, <1>11, <1>12, ObjectKept
<1>14. \A c \in Obj : c # f.obj => ((\E k : Busy(k, c, Attaching)') <=> (\E k : Busy(k, c, Attaching)))
  BY Zenon, <1>1, <1>2 DEF Differ, Busy
<1>15. Busy(a, f.obj, Attaching) /\ ~\E k : Busy(k, f.obj, Attaching)'
  <2>1. Busy(a, f.obj, Attaching) /\ Busy(a, f.obj, Making) /\ ~Busy(a, f.obj, Attaching)'
    BY Zenon, <1>1, <1>2 DEF Busy, Attaching, Making, CreatePc
  <2>2. ASSUME NEW k, Busy(k, f.obj, Attaching)' PROVE FALSE
    <3>1. k # a /\ k # b /\ Busy(k, f.obj, Attaching)
      BY Zenon, <1>2, <2>1, <2>2 DEF Differ, Busy
    <3>2. Busy(k, f.obj, Making)
      BY <3>1 DEF Busy, Attaching, Making, CreatePc
    <3> QED
      BY <1>2, <2>1, <3>1, <3>2 DEF IInv, OneEach
  <2> QED
    BY Zenon, <2>1, <2>2
<1>16. ASSUME NEW o \in Obj
       PROVE  Kids(o)' = IF o = x THEN Kids(o) \cup {f.obj} ELSE Kids(o)
  <2>1. ASSUME NEW c \in Obj
        PROVE  (obj'[c].p_parent_obj = o /\ ~\E k : Busy(k, c, Attaching)')
                 <=> \/ obj[c].p_parent_obj = o /\ ~\E k : Busy(k, c, Attaching)
                     \/ o = x /\ c = f.obj
    BY <1>4, <1>6, <1>14, <1>15
  <2> QED
    BY <1>2, <2>1, ZenonT(30) DEF Kids
<1>17. f.obj \notin Kids(x)
  BY Zenon, <1>15 DEF Kids
<1>18. ASSUME NEW o \in Obj PROVE Balance(a, b, o)
  <2>1. IsFiniteSet(Kids(o)) /\ Cardinality(Kids(o)) \in Nat
    BY Zenon, FS_CardinalityType DEF IInv
  <2>2. IsFiniteSet(Kids(o)') /\ Cardinality(Kids(o)') = Cardinality(Kids(o)) + One(o = x)
    BY <1>16, <1>17, <2>1, FS_AddElement DEF One
  <2>3. obj'[o].ref_cnt = obj[o].ref_cnt + One(o = x) /\ obj[o].ref_cnt \in Int
    BY <1>6 DEF One, IInv, Typed, AlObj
  <2>4. /\ One(Busy(a, o, Building)) = 0 /\ One(Busy(a, o, Building)') = 0
        /\ One(a \in Holders(o)) = One(a \in Holders(o)') /\ One(b \in Holders(o)') = 0
        /\ One(a \in Holders(o)') \in Int /\ One(o = x) \in Int
    BY <1>11 DEF One
  <2>5. PICK i \in Int, j \in Int : i = One(o = x) /\ j = One(a \in Holders(o)')
    BY Zenon, <2>4
  <2> QED
    BY <2>1, <2>2, <2>3, <2>4, <2>5 DEF Balance
<1> QED
  BY Zenon, <1>7, <1>10, <1>13, <1>18, Conserved

-----------------------------------------------------------------------------
(* The theorems *)

(* The invariant holds of the access layer before any call.                *)
LEMMA InitInv == Init => IInv
<1> SUFFICES ASSUME Init PROVE IInv
  BY Zenon
<1>1. DOMAIN Frames = {} /\ stack \in [Thr -> Seq(Frame)]
  <2>1. stack = [t \in Thr |-> <<>>]
    BY Zenon DEF Init, Thr
  <2>2. Calls = {}
    BY <2>1 DEF Calls
  <2> QED
    BY <2>1, <2>2 DEF Frames
<1>2. ASSUME NEW o \in Obj
      PROVE  /\ obj[o] \in AlObj /\ obj[o].p_parent_obj = NoObj /\ obj[o].obj_list = <<>>
             /\ \/ o = Root /\ obj[o].state = "INITIALIZED" /\ obj[o].ref_cnt = 1
                \/ obj[o].state = "NONE" /\ obj[o].ref_cnt = 0
             /\ ~obj[o].event
  <2>1. NewObj \in AlObj /\ 0 \in Int /\ 1 \in Int
    BY ObjAssumption DEF NewObj, AlObj
  <2>2. CASE o = Root
    <3>1. obj[o] = [NewObj EXCEPT !.ref_cnt = 1, !.hdl_valid = TRUE]
      BY Zenon, <2>2 DEF Init
    <3>2. obj[o] \in AlObj
      BY <2>1, <3>1, Zenon DEF AlObj
    <3> QED
      BY Zenon, <2>2, <3>1, <3>2 DEF NewObj
  <2>3. CASE o # Root
    <3>1. obj[o] = [NewObj EXCEPT !.state = "NONE", !.ref_cnt = 0]
      BY Zenon, <2>3 DEF Init
    <3>2. obj[o] \in AlObj
      BY <2>1, <3>1, Zenon DEF AlObj
    <3> QED
      BY Zenon, <3>1, <3>2 DEF NewObj
  <2> QED
    BY Zenon, <2>2, <2>3
<1>3. Typed
  <2>1. obj \in [Obj -> AlObj]
    BY Zenon, <1>2 DEF Init
  <2>2. queue \in Seq(Obj)
    BY DEF Init
  <2> QED
    BY <1>1, <2>1, <2>2, ObjAssumption, Zenon DEF Init, Typed
<1>4. \A k, o, pcs : ~Busy(k, o, pcs)
  BY Zenon, <1>1 DEF Busy
<1>5. ASSUME NEW o \in Obj PROVE Kids(o) = {} /\ Holders(o) = {}
  BY <1>1, <1>2, ObjAssumption DEF Kids, Holders
<1>6. ASSUME NEW o \in Obj PROVE Counted(o) /\ GivenUp(o) /\ ListOK(o)
  <2>1. Count(o) = One(obj[o].state = "INITIALIZED")
    BY <1>4, <1>5, FS_EmptySet DEF Count, Built, One
  <2>2. Counted(o)
    BY Zenon, <1>2, <2>1 DEF Counted, One, Freed, Init
  <2>3. GivenUp(o) /\ ListOK(o)
    BY Zenon, <1>2 DEF GivenUp, ListOK, Freed, Init
  <2> QED
    BY Zenon, <2>2, <2>3
<1>7. IsFiniteSet(DOMAIN Frames) /\ \A o \in Obj : IsFiniteSet(Kids(o))
  BY Zenon, <1>1, <1>5, FS_EmptySet
<1>8. QueueOK
  BY DEF Init, QueueOK
<1> QED
  BY Zenon, <1>1, <1>3, <1>4, <1>6, <1>7, <1>8 DEF IInv, OneEach

(* The invariant does not speak of bugcheck.                               *)
LEMMA Stutters ==
  ASSUME IInv, UNCHANGED <<obj, hdl_vector, stack, queue, expired>>, bugcheck' \in BOOLEAN
  PROVE  IInv'
<1>1. Frames' = Frames
  BY Zenon DEF Frames, Calls, Call
<1>2. Typed'
  BY Zenon DEF IInv, Typed
<1>3. \A o, k, pcs : Busy(k, o, pcs)' <=> Busy(k, o, pcs)
  BY Zenon, <1>1 DEF Busy
<1>4. \A o : (Freed(o)' <=> Freed(o)) /\ (ByEvent(o)' <=> ByEvent(o))
  BY Zenon DEF Freed, ByEvent
<1>5. ASSUME NEW o PROVE Holders(o)' = Holders(o) /\ Kids(o)' = Kids(o) /\ (Built(o)' <=> Built(o))
  <2>1. Holders(o)' = Holders(o)
    BY Zenon, <1>1, <1>4 DEF Holders, Holds, Abandoned
  <2>2. Kids(o)' = Kids(o)
    BY Zenon, <1>3 DEF Kids
  <2>3. Built(o)' <=> Built(o)
    BY Zenon, <1>3 DEF Built
  <2> QED
    BY Zenon, <2>1, <2>2, <2>3
<1>6. \A o : Count(o)' = Count(o)
  BY Zenon, <1>5 DEF Count, One
<1>7. ASSUME NEW o \in Obj PROVE Counted(o)' /\ GivenUp(o)' /\ ListOK(o)'
  <2>1. Counted(o) /\ GivenUp(o) /\ ListOK(o)
    BY Zenon DEF IInv
  <2>2. Counted(o)'
    BY Zenon, <1>4, <1>6, <2>1 DEF Counted
  <2>3. GivenUp(o)' /\ ListOK(o)'
    BY <1>3, <1>4, <2>1 DEF GivenUp, ListOK
  <2> QED
    BY Zenon, <2>2, <2>3
<1>8. ASSUME NEW k \in DOMAIN Frames' PROVE FrameOK(Frames[k])'
  <2>1. PICK f : f = Frames[k] /\ f = Frames'[k] /\ FrameOK(f)
    BY <1>1 DEF IInv
  <2>2. FrameOK(f)'
    BY Zenon, <1>4, <2>1 DEF FrameOK
  <2> QED
    BY Zenon, <2>1, <2>2
<1>9. OneEach(Making)' /\ OneEach(Destroyer)'
  BY <1>3 DEF IInv, OneEach
<1>10. QueueOK'
  <2>1. ASSUME NEW o PROVE Queued(o) => Queued(o)'
    BY Zenon, <1>3, <1>4 DEF Queued
  <2>2. QueueOK /\ queue' = queue
    BY Zenon DEF IInv
  <2> QED
    BY Zenon, <2>1, <2>2 DEF QueueOK
<1>11. IsFiniteSet(DOMAIN Frames') /\ \A o \in Obj : IsFiniteSet(Kids(o)')
  BY <1>1, <1>5 DEF IInv
<1> QED
  BY Zenon, <1>2, <1>7, <1>8, <1>9, <1>10, <1>11 DEF IInv

(* al_hdl_ref, in each of the IOCTLs that begin with it.                   *)
LEMMA HdlRefInv ==
  ASSUME IInv, NEW t \in Thread, NEW o \in Obj, UseCall(t, o) \/ CreateCall(t, o) \/ DestroyCall(t, o)
  PROVE  IInv'
<1>1. PICK g : /\ g \in Frame /\ HdlRef(t, o, g) /\ g.obj = o
               /\ \/ g.pc \in {"deref", "construct"} /\ g.at = o
                  \/ g.pc = "mark"
  <2>1. CASE UseCall(t, o)
    <3>1. PICK g : g = [pc |-> "deref", obj |-> o, at |-> o, sync |-> FALSE]
      BY Zenon
    <3>2. g \in Frame
      BY <3>1, Zenon DEF Frame, Pc
    <3> QED
      BY <2>1, <3>1, <3>2 DEF UseCall
  <2>2. CASE CreateCall(t, o)
    <3>1. PICK g : g = [pc |-> "construct", obj |-> o, at |-> o, sync |-> FALSE]
      BY Zenon
    <3>2. g \in Frame
      BY <3>1, Zenon DEF Frame, Pc, CreatePc
    <3> QED
      BY <2>2, <3>1, <3>2 DEF CreateCall
  <2>3. CASE DestroyCall(t, o)
    <3>1. PICK sync \in BOOLEAN : HdlRef(t, o, Destroying(o, sync))
      BY Zenon, <2>3 DEF DestroyCall
    <3>2. PICK g : g = Destroying(o, sync)
      BY Zenon
    <3>3. g \in Frame
      BY <3>2, Zenon DEF Destroying, Frame, Pc, DestroyPc
    <3>4. g.obj = o /\ g.pc = "mark"
      BY Zenon, <3>2 DEF Destroying
    <3> QED
      BY Zenon, <3>1, <3>2, <3>3, <3>4
  <2> QED
    BY <2>1, <2>2, <2>3
<1>2. CASE BugCheck
  BY <1>2, Stutters DEF BugCheck
<1>3. CASE ~BugCheck
  <2>1. /\ stack[t] = <<>> /\ obj[o].ref_cnt # 0 /\ Ref(o) /\ stack' = [stack EXCEPT ![t] = <<g>>]
        /\ UNCHANGED <<hdl_vector, queue>> /\ Calm
    BY <1>1, <1>3, Zenon DEF HdlRef, Ref
  <2>2. t \in Thr
    BY Zenon DEF Thr
  <2> QED
    BY <1>1, <2>1, <2>2, HdlRefStep, Zenon
<1> QED
  BY Zenon, <1>2, <1>3

(* The steps of a creation keep the invariant.                             *)
LEMMA CreateInv ==
  ASSUME IInv, NEW t \in Thr,
         Construct(t) \/ Attach(t) \/ HdlInsert(t) \/ RefParent(t) \/ Allocate(t) \/ Valid(t) \/ DropInit(t)
  PROVE  IInv'
<1>1. CASE Construct(t)
  <2>1. At(t, "construct") /\ UNCHANGED <<hdl_vector, queue>> /\ Calm
    BY Zenon, <1>1 DEF Construct
  <2>2. CASE Goto(t, "deref") /\ UNCHANGED obj
    BY <2>1, <2>2, NoMemoryStep
  <2>3. CASE ~(Goto(t, "deref") /\ UNCHANGED obj)
    <3>1. PICK o \in Obj : obj[o].state = "NONE" /\ Constructs(t, o)
      BY <1>1, <2>3, ZenonT(30) DEF Construct, Constructs
    <3> QED
      BY Zenon, <2>1, <3>1, ConstructStep
  <2> QED
    BY Zenon, <2>2, <2>3
<1>2. CASE Attach(t)
  <2>1. CASE obj[Top(t).at].state = "INITIALIZED"
    BY <1>2, <2>1, AttachStep
  <2>2. CASE obj[Top(t).at].state # "INITIALIZED"
    <3>1. At(t, "attach") /\ Undo(t) /\ UNCHANGED <<obj, hdl_vector, queue>> /\ Calm
      BY <1>2, <2>2, Zenon DEF Attach
    <3> QED
      BY Zenon, <3>1, UndoStep
  <2> QED
    BY Zenon, <2>1, <2>2
<1>3. CASE HdlInsert(t)
  <2>1. At(t, "insert")
    BY <1>3 DEF HdlInsert
  <2>2. CASE /\ hdl_vector' = hdl_vector \cup {Top(t).obj}
             /\ Goto(t, "ref_parent") /\ UNCHANGED <<obj, queue>> /\ Calm
    BY Zenon, <2>1, <2>2, HdlInsertStep
  <2>3. CASE /\ On(obj[Top(t).at].obj_list, Top(t).obj) /\ TakenBack(Top(t))
             /\ Undo(t) /\ UNCHANGED <<hdl_vector, queue>> /\ Calm
    BY <2>1, <2>3, InsertUndoStep
  <2>4. CASE BugCheck
    BY Zenon, <2>4, Stutters DEF BugCheck
  <2> QED
    BY <1>3, <2>2, <2>3, <2>4, Zenon DEF HdlInsert, TakenBack
<1>4. CASE RefParent(t)
  BY Zenon, <1>4, RefParentStep
<1>5. CASE Allocate(t)
  <2>1. At(t, "allocate") /\ UNCHANGED <<obj, hdl_vector, queue>> /\ Calm /\ (Goto(t, "valid") \/ Undo(t))
    BY Zenon, <1>5 DEF Allocate
  <2> QED
    BY Zenon, <2>1, AllocateStep, UndoStep
<1>6. CASE Valid(t)
  BY Zenon, <1>6, ValidStep
<1>7. CASE DropInit(t)
  BY <1>7, DropInitStep
<1> QED
  BY <1>1, <1>2, <1>3, <1>4, <1>5, <1>6, <1>7

(* Every step keeps it,                                                    *)
LEMMA NextInv == IInv /\ [Next]_vars => IInv'
<1> SUFFICES ASSUME IInv, [Next]_vars PROVE IInv'
  BY Zenon
<1>1. CASE \E t \in Thread, o \in Obj : UseCall(t, o) \/ CreateCall(t, o) \/ DestroyCall(t, o)
  BY Zenon, <1>1, HdlRefInv
<1>2. CASE \E t \in Thread : Expire(t)
  BY <1>2, ExpireStep DEF Thr
<1>3. ASSUME NEW t \in Thr, Step(t) PROVE IInv'
  <2>1. CASE Construct(t) \/ Attach(t) \/ HdlInsert(t) \/ RefParent(t) \/ Allocate(t) \/ Valid(t) \/ DropInit(t)
    BY <2>1, CreateInv
  <2>2. CASE Mark(t)
    <3>1. CASE obj[Top(t).obj].state = "DESTROYING"
      <4>1. At(t, "mark") /\ Goto(t, "again") /\ UNCHANGED <<obj, hdl_vector, queue>> /\ Calm
        BY <2>2, <3>1, Zenon DEF Mark
      <4> QED
        BY <4>1, MarkedStep
    <3>2. CASE obj[Top(t).obj].state # "DESTROYING"
      BY <2>2, <3>2, MarkStep
    <3> QED
      BY Zenon, <3>1, <3>2
  <2>3. CASE Again(t)
    BY Zenon, <2>3, AgainStep
  <2>4. CASE Drop(t)
    BY <2>4, DropStep
  <2>5. CASE FreeHdl(t)
    BY <2>5, FreeHdlStep
  <2>6. CASE ReadParent(t)
    BY <2>6, ReadParentStep
  <2>7. CASE Detach(t)
    BY <2>7, DetachStep
  <2>8. CASE Children(t)
    BY <2>8, ChildrenStep
  <2>9. CASE RefChild(t)
    BY <2>9, RefChildStep
  <2>10. CASE Settle(t)
    BY <2>10, SettleStep
  <2>11. CASE LastReference(t)
    BY <2>11, LastReferenceStep
  <2>12. CASE Wait(t)
    BY <2>12, WaitStep
  <2>13. CASE Cleanup(t)
    BY <2>13, CleanupStep
  <2>14. CASE LastDeref(t)
    BY <2>14, LastDerefStep
  <2>15. CASE Fault(t)
    BY <2>15, Stutters DEF Fault, BugCheck
  <2> QED
    BY Zenon, <1>3, <2>1, <2>2, <2>3, <2>4, <2>5, <2>6, <2>7, <2>8, <2>9, <2>10, <2>11, <2>12, <2>13, <2>14, <2>15
    DEF Step
<1>4. CASE AsyncTake
  BY Zenon, <1>4, AsyncTakeStep
<1>5. CASE UNCHANGED vars
  <2>1. bugcheck \in BOOLEAN
    BY Zenon DEF IInv, Typed
  <2> QED
    BY <1>5, <2>1, Stutters DEF vars
<1> QED
  BY Zenon, <1>1, <1>2, <1>3, <1>4, <1>5 DEF Next, Thr

(* so it is one.                                                           *)
LEMMA Invariance == Spec => []IInv
BY InitInv, NextInv, PTL DEF Spec

(* Types; and a reference count is never negative, unless a wait for       *)
(* references has expired, for any tree of objects and any number of       *)
(* IOCTLs that create, use and destroy them at the same time.              *)
THEOREM TypeCorrect == Spec => []TypeOK
<1>1. IInv => TypeOK
  <2> SUFFICES ASSUME IInv PROVE TypeOK
    BY Zenon
  <2>1. ASSUME expired = {}, NEW o \in Obj PROVE obj[o].ref_cnt >= 0
    <3>1. /\ obj[o].state \in {"NONE", "INITIALIZED", "DESTROYING", "DESTROYED"}
          /\ obj[o].ref_cnt \in Int
      BY DEF IInv, Typed, AlObj
    <3>2. Count(o) \in Int /\ Count(o) >= 0
      BY Cards DEF Count, One
    <3> QED
      BY <2>1, <3>1, <3>2 DEF IInv, Counted, Freed
  <2> QED
    BY Zenon, <2>1 DEF IInv, Typed, TypeOK, Thr
<1> QED
  BY <1>1, Invariance, PTL

(* Every reference on an object is counted, and only those: ref_al_obj and *)
(* deref_al_obj balance on every path through creation, the IOCTLs,        *)
(* destroy_obj and the asynchronous processor, as long as sync_destroy_obj *)
(* has not given up waiting.  Nobody holds a reference on a freed object.  *)
THEOREM ReferencesCounted == Spec => []RefCountExact
<1>1. IInv => RefCountExact
  <2> SUFFICES ASSUME IInv, expired = {}, NEW o \in Obj
               PROVE  /\ obj[o].state \in {"INITIALIZED", "DESTROYING"} => obj[o].ref_cnt = Refs(o)
                      /\ Freed(o) => Refs(o) = 0
    BY Zenon DEF RefCountExact
  <2>1. \A k \in Calls : k \in DOMAIN Frames /\ Frames[k] = Call(k) /\ Call(k).obj \in Obj
    BY FramesTyped, Zenon DEF Frames, IInv, Typed, Frame
  <2>2. DOMAIN Frames = Calls
    BY Zenon DEF Frames
  <2>3. ASSUME NEW k \in Calls PROVE ~Abandoned(Call(k))
    <3> SUFFICES ASSUME Call(k).pc \in Attaching, Freed(Call(k).obj) PROVE FALSE
      BY Zenon DEF Abandoned
    <3>1. PICK c \in Obj : c = Call(k).obj
      BY Zenon, <2>1
    <3>2. k \in Holders(c) /\ Freed(c)
      BY <2>1, <3>1 DEF Holders, Holds, Making, CreatePc, Attaching
    <3> QED
      BY Zenon, <3>2, HeldCounted DEF Freed
  <2>4. Holders(o) = HeldBy(o)
    BY Zenon, <2>1, <2>2, <2>3 DEF Holders, Holds, HeldBy, Making
  <2>5. \A c, pcs : (\E k : Busy(k, c, pcs)) <=> \E k \in Calls : Call(k).obj = c /\ Call(k).pc \in pcs
    BY <2>1, <2>2 DEF Busy
  <2>6. Kids(o) = Attached(o)
    BY Zenon, <2>5 DEF Kids, Attached, Attaching
  <2>7. Built(o) <=> Constructed(o)
    BY <2>5 DEF Built, Constructed, Building, Looping
  <2>8. Count(o) = Refs(o)
    BY Zenon, <2>4, <2>6, <2>7 DEF Count, Refs, One
  <2> QED
    BY Zenon, <2>8 DEF IInv, Counted
<1> QED
  BY <1>1, Invariance, PTL

(* A set without two different members has at most one.                    *)
LEMMA AtMostOne ==
  ASSUME NEW S, \A j, k \in S : j = k
  PROVE  Cardinality(S) \in Nat /\ Cardinality(S) <= 1 /\ (S = {} => Cardinality(S) = 0)
<1>1. CASE S = {}
  BY <1>1, FS_EmptySet
<1>2. CASE S # {}
  <2>1. PICK c : S = {c}
    BY <1>2
  <2> QED
    BY <1>2, <2>1, FS_Singleton
<1> QED
  BY Zenon, <1>1, <1>2

(* An object is given to async_destroy_cb once, by the asynchronous        *)
(* processor or by a thread in sync_destroy_obj, whoever else destroys it, *)
(* and even when the wait for its references has expired.                  *)
THEOREM CleanupOnce == Spec => []CleanedUpOnce
<1>1. IInv => CleanedUpOnce
  <2> SUFFICES ASSUME IInv, NEW o \in Obj
               PROVE  Cardinality({k \in Calls : Call(k).obj = o /\ Call(k).pc = "cleanup"})
                        + Cardinality({i \in DOMAIN queue : queue[i] = o})
                      <= IF Freed(o) THEN 0 ELSE 1
    BY Zenon DEF CleanedUpOnce
  <2>1. PICK S : S = {k \in Calls : Call(k).obj = o /\ Call(k).pc = "cleanup"}
    BY Zenon
  <2>2. PICK Q : Q = {i \in DOMAIN queue : queue[i] = o}
    BY Zenon
  <2>3. \A k \in S : Busy(k, o, Destroyer)
    BY Zenon, <2>1 DEF Busy, Frames, Destroyer
  <2>4. \A j, k \in S : j = k
    BY <2>3 DEF IInv, OneEach
  <2>5. ASSUME NEW i \in Q PROVE Queued(o) /\ \A j \in Q : j = i
    <3>1. QueueOK /\ Q = {j \in 1 .. Len(queue) : queue[j] = o}
      BY <2>2 DEF IInv, Typed
    <3> QED
      BY Zenon, <3>1 DEF QueueOK
  <2>6. S = {} \/ Q = {}
    BY Zenon, <2>3, <2>5 DEF Queued
  <2>7. Freed(o) => S = {} /\ Q = {}
    <3>1. \A k : Busy(k, o, Destroyer) => obj[o].state = "DESTROYING"
      BY Zenon DEF IInv, Busy, FrameOK
    <3> QED
      BY Zenon, <2>3, <2>5, <3>1 DEF Queued, Freed
  <2>8. /\ Cardinality(S) \in Nat /\ Cardinality(S) <= 1 /\ (S = {} => Cardinality(S) = 0)
        /\ Cardinality(Q) \in Nat /\ Cardinality(Q) <= 1 /\ (Q = {} => Cardinality(Q) = 0)
    BY Zenon, <2>4, <2>5, AtMostOne
  <2>9. Cardinality(S) + Cardinality(Q) <= IF Freed(o) THEN 0 ELSE 1
    BY <2>6, <2>7, <2>8
  <2> QED
    BY Zenon, <2>1, <2>2, <2>9
<1> QED
  BY <1>1, Invariance, PTL

(* A freed object leaves no child on its list: what attach_al_obj lets in  *)
(* after the object is marked is none, and the loop of destroy_obj ends    *)
(* only when all others are gone.                                          *)
THEOREM ChildrenGone == Spec => []NoChildLeft
<1>1. IInv => NoChildLeft
  BY Zenon DEF IInv, ListOK, NoChildLeft
<1> QED
  BY <1>1, Invariance, PTL

=============================================================================
