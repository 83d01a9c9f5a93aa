------------------------------- MODULE AlObj -------------------------------
(***************************************************************************)
(* The life of the access layer's objects (core/al/al_common.c): every     *)
(* resource of a process - its channel adapter, protection domains, queue  *)
(* pairs - is an al_obj_t in a tree, counted by references, named by a     *)
(* handle and destroyed together with its descendants.                     *)
(*                                                                         *)
(* The threads are the IOCTLs of one process (core/al/kernel/al_proxy*.c)  *)
(* and the one thread of the asynchronous processor that frees objects.    *)
(* Each runs the source line by line between two accesses of shared        *)
(* memory; destroy_obj calls itself for the children, so that a thread has *)
(* a stack of calls.  Touching the memory of a freed object stops the      *)
(* machine, and so does the assertion that a reference count never comes   *)
(* back from zero.  The length of a wait is left out (timeout_ms,          *)
(* desc_cnt): a wait ends when the event is signalled or, MaxExpired       *)
(* times, too early.                                                       *)
(***************************************************************************)
EXTENDS Integers, Sequences, FiniteSets

CONSTANTS
    Obj,         \* objects, each a piece of memory that is used once
    Root,        \* the channel adapter, there from the start
    Parent,      \* the object another is created under
    SyncObj,     \* objects that init_al_obj gives sync_destroy_obj
    Thread,      \* the IOCTLs that can run at a time
    Async,       \* the thread of gp_async_obj_mgr
    MaxExpired,  \* bound: the waits of sync_destroy_obj that expire
    NoObj        \* NULL

ASSUME ObjAssumption ==
    /\ Root \in Obj /\ NoObj \notin Obj /\ SyncObj \subseteq Obj
    /\ Parent \in [Obj \ {Root} -> Obj]
    /\ Async \notin Thread
    /\ MaxExpired \in Nat

VARIABLES
    obj,         \* the objects
    hdl_vector,  \* the objects that have a handle
    stack,       \* the calls of each thread, the innermost first
    queue,       \* the items of gp_async_obj_mgr
    expired,     \* the objects destroyed although still referenced
    bugcheck     \* a thread has touched a freed object

vars == <<obj, hdl_vector, stack, queue, expired, bugcheck>>

(* al_obj_t.                                                               *)
AlObj == [state : {"NONE", "INITIALIZED", "DESTROYING", "DESTROYED"},
          ref_cnt : Int, obj_list : Seq(Obj), p_parent_obj : Obj \cup {NoObj},
          hdl_valid : BOOLEAN, user_destroy_cb : {"NULL", "sync"}, event : BOOLEAN]

(* An object after construct_al_obj and init_al_obj: the second reference  *)
(* is the creator's.                                                       *)
NewObj == [state |-> "INITIALIZED", ref_cnt |-> 2, obj_list |-> <<>>,
           p_parent_obj |-> NoObj, hdl_valid |-> FALSE,
           user_destroy_cb |-> "NULL", event |-> FALSE]

(* Where a call stands.                                                    *)
CreatePc == {"construct", "attach", "insert", "ref_parent", "allocate", "valid", "drop_init"}
DestroyPc == {"mark", "again", "drop", "free_hdl", "detach", "unlink", "children",
              "ref_child", "settle", "last", "wait", "cleanup"}
Pc == CreatePc \cup DestroyPc \cup {"deref"}

(* A call: the object it works on, another one that it holds or has read,  *)
(* and whether its caller passed ib_sync_destroy.                          *)
Frame == [pc : Pc, obj : Obj, at : Obj \cup {NoObj}, sync : BOOLEAN]

Destroying(o, sync) == [pc |-> "mark", obj |-> o, at |-> NoObj, sync |-> sync]

Init ==
    /\ obj = [o \in Obj |-> IF o = Root THEN [NewObj EXCEPT !.ref_cnt = 1, !.hdl_valid = TRUE]
                                        ELSE [NewObj EXCEPT !.state = "NONE", !.ref_cnt = 0]]
    /\ hdl_vector = {Root}
    /\ stack = [t \in Thread \cup {Async} |-> <<>>]
    /\ queue = <<>>
    /\ expired = {}
    /\ bugcheck = FALSE

(* An object on a list of children, and cl_qlist_remove_item.              *)
On(list, o) == \E i \in 1 .. Len(list) : list[i] = o
Unlink(list, o) ==
    LET i == CHOOSE i \in 1 .. Len(list) : list[i] = o
    IN  [j \in 1 .. Len(list) - 1 |-> list[IF j < i THEN j ELSE j + 1]]

Freed(o) == obj[o].state = "DESTROYED"
Top(t) == Head(stack[t])

(* The next access of thread t is to freed memory, takes an item off a     *)
(* list that it is not on, or references an object that has no reference.  *)
Stray(t) ==
    LET f == Top(t) IN
    \/ f.pc \notin {"construct", "deref"} /\ Freed(f.obj)
    \/ f.pc \in {"attach", "insert", "ref_parent", "unlink", "ref_child", "deref"} /\ Freed(f.at)
    \/ f.pc = "unlink" /\ ~On(obj[f.at].obj_list, f.obj)
    \/ f.pc = "ref_child" /\ obj[f.at].ref_cnt = 0

(* Thread t is at pc in its innermost call.                                *)
At(t, pc) == ~bugcheck /\ stack[t] # <<>> /\ ~Stray(t) /\ Top(t).pc = pc
Goto(t, pc) == stack' = [stack EXCEPT ![t][1].pc = pc]
Return(t) == stack' = [stack EXCEPT ![t] = Tail(@)]

BugCheck == bugcheck' = TRUE /\ UNCHANGED <<obj, hdl_vector, stack, queue, expired>>
Calm == UNCHANGED <<expired, bugcheck>>

Fault(t) == ~bugcheck /\ stack[t] # <<>> /\ Stray(t) /\ BugCheck

(* What the last reference does: the asynchronous processor frees the      *)
(* object, or the thread that waits in sync_destroy_obj.                   *)
ByEvent(o) == o \in SyncObj \/ obj[o].user_destroy_cb = "sync"

(* Mutant: the last reference wakes nobody up.                             *)
Deref_NoSignal(o) ==
    /\ obj' = [obj EXCEPT ![o].ref_cnt = @ - 1]
    /\ queue' = IF obj[o].ref_cnt = 1 /\ ~ByEvent(o) THEN Append(queue, o) ELSE queue

(* deref_al_obj_inner.                                                     *)
Deref(o) ==
    LET zero == obj[o].ref_cnt = 1 IN
    /\ obj' = [obj EXCEPT ![o].ref_cnt = @ - 1,
                          ![o].event = @ \/ (zero /\ ByEvent(o))]
    /\ queue' = IF zero /\ ~ByEvent(o) THEN Append(queue, o) ELSE queue

-----------------------------------------------------------------------------
(* Looking up a handle *)

(* al_hdl_ref: an IOCTL starts with a reference on the object its handle   *)
(* names, and goes on with call f.  It reads hdl_valid from the object.    *)
HdlRef(t, o, f) ==
    /\ ~bugcheck /\ stack[t] = <<>> /\ o \in hdl_vector
    /\ \/ (Freed(o) \/ (obj[o].hdl_valid /\ obj[o].ref_cnt = 0)) /\ BugCheck
       \/ /\ ~Freed(o) /\ obj[o].hdl_valid /\ obj[o].ref_cnt # 0
          /\ obj' = [obj EXCEPT ![o].ref_cnt = @ + 1]
          /\ stack' = [stack EXCEPT ![t] = <<f>>]
          /\ UNCHANGED <<hdl_vector, queue>> /\ Calm

(* An IOCTL that works on an object, one that creates a child of it, and   *)
(* one that destroys it.                                                   *)
UseCall(t, o) == HdlRef(t, o, [pc |-> "deref", obj |-> o, at |-> o, sync |-> FALSE])
CreateCall(t, o) == HdlRef(t, o, [pc |-> "construct", obj |-> o, at |-> o, sync |-> FALSE])
DestroyCall(t, o) == \E sync \in BOOLEAN : HdlRef(t, o, Destroying(o, sync))

(* The last act of a call: the reference it was given, or the one of a     *)
(* freed child on its parent, is dropped.                                  *)
LastDeref(t) ==
    /\ At(t, "deref")
    /\ Deref(Top(t).at) /\ Return(t)
    /\ UNCHANGED hdl_vector /\ Calm

-----------------------------------------------------------------------------
(* Creating an object *)

(* The memory of a child, construct_al_obj and init_al_obj; without memory *)
(* the IOCTL fails.                                                        *)
Construct(t) ==
    /\ At(t, "construct")
    /\ \/ \E o \in Obj \ {Root} :
            /\ Parent[o] = Top(t).at /\ obj[o].state = "NONE"
            /\ obj' = [obj EXCEPT ![o] = NewObj]
            /\ stack' = [stack EXCEPT ![t][1].obj = o, ![t][1].pc = "attach"]
       \/ Goto(t, "deref") /\ UNCHANGED obj
    /\ UNCHANGED <<hdl_vector, queue>> /\ Calm

(* A creation that fails destroys the object with its own reference.       *)
Undo(t) == stack' = [stack EXCEPT ![t] =
    <<Destroying(Top(t).obj, FALSE), [Top(t) EXCEPT !.pc = "deref"]>> \o Tail(@)]

(* Mutant: children attach to an object that is being destroyed.           *)
Attach_AnyState(t) ==
    /\ At(t, "attach")
    /\ obj' = [obj EXCEPT ![Top(t).at].obj_list = Append(@, Top(t).obj),
                          ![Top(t).obj].p_parent_obj = Top(t).at]
    /\ Goto(t, "insert")
    /\ UNCHANGED <<hdl_vector, queue>> /\ Calm

(* attach_al_obj, under the lock of the parent.                            *)
Attach(t) ==
    LET f == Top(t) IN
    /\ At(t, "attach")
    /\ IF obj[f.at].state = "INITIALIZED"
       THEN /\ obj' = [obj EXCEPT ![f.at].obj_list = Append(@, f.obj),
                                  ![f.obj].p_parent_obj = f.at]
            /\ Goto(t, "insert")
       ELSE Undo(t) /\ UNCHANGED obj
    /\ UNCHANGED <<hdl_vector, queue>> /\ Calm

(* al_hdl_insert_obj; when the vector cannot grow the child leaves the     *)
(* parent's list again.                                                    *)
HdlInsert(t) ==
    LET f == Top(t) IN
    /\ At(t, "insert")
    /\ \/ /\ hdl_vector' = hdl_vector \cup {f.obj}
          /\ Goto(t, "ref_parent") /\ UNCHANGED <<obj, queue>> /\ Calm
       \/ /\ On(obj[f.at].obj_list, f.obj)
          /\ obj' = [obj EXCEPT ![f.at].obj_list = Unlink(@, f.obj),
                                ![f.obj].p_parent_obj = NoObj]
          /\ Undo(t) /\ UNCHANGED <<hdl_vector, queue>> /\ Calm
       \/ ~On(obj[f.at].obj_list, f.obj) /\ BugCheck

(* The end of attach_al_obj.                                               *)
RefParent(t) ==
    /\ At(t, "ref_parent")
    /\ obj' = [obj EXCEPT ![Top(t).at].ref_cnt = @ + 1]
    /\ Goto(t, "allocate")
    /\ UNCHANGED <<hdl_vector, queue>> /\ Calm

(* The hardware resource is allocated, and its description copied out, or  *)
(* the object is destroyed.                                                *)
Allocate(t) ==
    /\ At(t, "allocate")
    /\ Goto(t, "valid") \/ Undo(t)
    /\ UNCHANGED <<obj, hdl_vector, queue>> /\ Calm

(* The IOCTL lets user mode have the handle,                               *)
Valid(t) ==
    /\ At(t, "valid")
    /\ obj' = [obj EXCEPT ![Top(t).obj].hdl_valid = TRUE]
    /\ Goto(t, "drop_init")
    /\ UNCHANGED <<hdl_vector, queue>> /\ Calm

(* and drops the reference of init_al_obj.                                 *)
DropInit(t) ==
    /\ At(t, "drop_init")
    /\ Deref(Top(t).obj) /\ Goto(t, "deref")
    /\ UNCHANGED hdl_vector /\ Calm

-----------------------------------------------------------------------------
(* Destroying an object *)

(* Mutant: every caller destroys the object.                               *)
Mark_Always(t) ==
    /\ At(t, "mark")
    /\ obj' = [obj EXCEPT ![Top(t).obj].state = "DESTROYING"] /\ Goto(t, "drop")
    /\ UNCHANGED <<hdl_vector, queue>> /\ Calm

(* destroy_obj: the first caller marks the object, under its lock.         *)
Mark(t) ==
    LET o == Top(t).obj IN
    /\ At(t, "mark")
    /\ IF obj[o].state = "DESTROYING"
       THEN Goto(t, "again") /\ UNCHANGED obj
       ELSE obj' = [obj EXCEPT ![o].state = "DESTROYING"] /\ Goto(t, "drop")
    /\ UNCHANGED <<hdl_vector, queue>> /\ Calm

(* Mutant: a second caller keeps its reference.                            *)
Again_Kept(t) ==
    /\ At(t, "again") /\ Return(t)
    /\ UNCHANGED <<obj, hdl_vector, queue>> /\ Calm

(* A second caller only drops its reference.                               *)
Again(t) ==
    /\ At(t, "again")
    /\ Deref(Top(t).obj) /\ Return(t)
    /\ UNCHANGED hdl_vector /\ Calm

(* The first one drops the reference of its caller and goes on with the    *)
(* reference of construct_al_obj.                                          *)
Drop(t) ==
    /\ At(t, "drop")
    /\ Deref(Top(t).obj) /\ Goto(t, "free_hdl")
    /\ UNCHANGED hdl_vector /\ Calm

(* al_hdl_free_obj, when there is a handle.                                *)
FreeHdl(t) ==
    LET o == Top(t).obj IN
    /\ At(t, "free_hdl")
    /\ hdl_vector' = hdl_vector \ {o}
    /\ obj' = [obj EXCEPT ![o].hdl_valid = @ /\ o \notin hdl_vector]
    /\ Goto(t, "detach")
    /\ UNCHANGED queue /\ Calm

(* The parent is read, without a lock, before detach_al_obj takes the      *)
(* parent's lock.                                                          *)
ReadParent(t) ==
    LET p == obj[Top(t).obj].p_parent_obj IN
    /\ At(t, "detach")
    /\ stack' = [stack EXCEPT ![t][1].at = p,
                              ![t][1].pc = IF p = NoObj THEN "children" ELSE "unlink"]
    /\ UNCHANGED <<obj, hdl_vector, queue>> /\ Calm

(* detach_al_obj.                                                          *)
Detach(t) ==
    LET f == Top(t) IN
    /\ At(t, "unlink")
    /\ obj' = [obj EXCEPT ![f.at].obj_list = Unlink(@, f.obj)]
    /\ Goto(t, "children")
    /\ UNCHANGED <<hdl_vector, queue>> /\ Calm

(* The head of the loop over the children reads the tail of the list       *)
(* without a lock ("No need to lock during destruction.").                 *)
Children(t) ==
    LET list == obj[Top(t).obj].obj_list IN
    /\ At(t, "children")
    /\ IF list = <<>>
       THEN Goto(t, "settle")
       ELSE stack' = [stack EXCEPT ![t][1].at = list[Len(list)], ![t][1].pc = "ref_child"]
    /\ UNCHANGED <<obj, hdl_vector, queue>> /\ Calm

(* The body of the loop: the child is referenced and destroyed.            *)
RefChild(t) ==
    LET c == Top(t).at IN
    /\ At(t, "ref_child")
    /\ obj' = [obj EXCEPT ![c].ref_cnt = @ + 1]
    /\ stack' = [stack EXCEPT ![t] =
            <<Destroying(c, FALSE), [Head(@) EXCEPT !.pc = "children"]>> \o Tail(@)]
    /\ UNCHANGED <<hdl_vector, queue>> /\ Calm

(* The end of destroy_obj: from now on the last reference knows whom to    *)
(* tell.                                                                   *)
Settle(t) ==
    LET f == Top(t) IN
    /\ At(t, "settle")
    /\ obj' = [obj EXCEPT ![f.obj].user_destroy_cb = IF f.sync THEN "sync" ELSE "NULL"]
    /\ Goto(t, "last")
    /\ UNCHANGED <<hdl_vector, queue>> /\ Calm

(* Mutant: sync_destroy_obj does not wait.                                 *)
LastReference_NoWait(t) ==
    LET f == Top(t) IN
    /\ At(t, "last")
    /\ Deref(f.obj)
    /\ IF f.sync \/ f.obj \in SyncObj THEN Goto(t, "cleanup") ELSE Return(t)
    /\ UNCHANGED hdl_vector /\ Calm

(* async_destroy_obj and sync_destroy_obj drop the reference of            *)
(* construct_al_obj; the second one frees the object itself, at once or    *)
(* after a wait.                                                           *)
LastReference(t) ==
    LET f == Top(t) IN
    /\ At(t, "last")
    /\ Deref(f.obj)
    /\ IF f.sync \/ f.obj \in SyncObj
       THEN Goto(t, IF obj[f.obj].ref_cnt = 1 THEN "cleanup" ELSE "wait")
       ELSE Return(t)
    /\ UNCHANGED hdl_vector /\ Calm

(* The wait for the other references ends,                                 *)
Wait(t) ==
    /\ At(t, "wait") /\ obj[Top(t).obj].event
    /\ obj' = [obj EXCEPT ![Top(t).obj].event = FALSE]
    /\ Goto(t, "cleanup")
    /\ UNCHANGED <<hdl_vector, queue>> /\ Calm

(* or expires: the object is destroyed all the same.                       *)
Expire(t) ==
    LET o == Top(t).obj IN
    /\ At(t, "wait") /\ ~obj[o].event
    /\ Cardinality(expired) < MaxExpired
    /\ expired' = expired \cup {o}
    /\ obj' = [obj EXCEPT ![o].ref_cnt = 0]
    /\ Goto(t, "cleanup")
    /\ UNCHANGED <<hdl_vector, queue, bugcheck>>

(* async_destroy_cb: the hardware resource and the memory are released,    *)
(* and then the reference on the parent.                                   *)
Cleanup(t) ==
    LET o == Top(t).obj  p == obj[o].p_parent_obj IN
    /\ At(t, "cleanup")
    /\ obj' = [obj EXCEPT ![o].state = "DESTROYED", ![o].p_parent_obj = NoObj]
    /\ IF p = NoObj THEN Return(t)
       ELSE stack' = [stack EXCEPT ![t][1].pc = "deref", ![t][1].at = p]
    /\ UNCHANGED <<hdl_vector, queue>> /\ Calm

(* The thread of the asynchronous processor takes the next item.           *)
AsyncTake ==
    /\ ~bugcheck /\ stack[Async] = <<>> /\ queue # <<>>
    /\ stack' = [stack EXCEPT ![Async] = <<[Destroying(Head(queue), FALSE) EXCEPT !.pc = "cleanup"]>>]
    /\ queue' = Tail(queue)
    /\ UNCHANGED <<obj, hdl_vector>> /\ Calm

-----------------------------------------------------------------------------
Step(t) ==
    \/ Construct(t) \/ Attach(t) \/ HdlInsert(t) \/ RefParent(t) \/ Allocate(t) \/ Valid(t)
    \/ DropInit(t) \/ Mark(t) \/ Again(t) \/ Drop(t) \/ FreeHdl(t) \/ ReadParent(t)
    \/ Detach(t) \/ Children(t) \/ RefChild(t) \/ Settle(t) \/ LastReference(t) \/ Wait(t)
    \/ Cleanup(t) \/ LastDeref(t) \/ Fault(t)

Next ==
    \/ \E t \in Thread, o \in Obj : UseCall(t, o) \/ CreateCall(t, o) \/ DestroyCall(t, o)
    \/ \E t \in Thread : Expire(t)
    \/ \E t \in Thread \cup {Async} : Step(t)
    \/ AsyncTake

Spec == Init /\ [][Next]_vars

(* Threads run; nobody has to call, and a wait need not expire.            *)
Fairness == WF_vars(AsyncTake) /\ \A t \in Thread \cup {Async} : WF_vars(Step(t))

-----------------------------------------------------------------------------
(* Properties *)

(* Types; and a reference count is never negative, unless a wait for       *)
(* references has expired ("CL_ASSERT( p_obj->ref_cnt > 0 )" in            *)
(* deref_al_obj_inner).                                                    *)
TypeOK ==
    /\ obj \in [Obj -> AlObj]
    /\ expired = {} => \A o \in Obj : obj[o].ref_cnt >= 0
    /\ hdl_vector \subseteq Obj
    /\ stack \in [Thread \cup {Async} -> Seq(Frame)]
    /\ queue \in Seq(Obj)
    /\ expired \subseteq Obj
    /\ bugcheck \in BOOLEAN

(* The calls in progress, by thread and depth, the outermost first: a call *)
(* keeps its name while those it makes come and go.                        *)
Calls == UNION {{t} \X (1 .. Len(stack[t])) : t \in DOMAIN stack}
Call(k) == stack[k[1]][Len(stack[k[1]]) + 1 - k[2]]

(* The references on an object: the one of construct_al_obj, until the     *)
(* call that marked the object drops it; those of the calls that were      *)
(* given one or have taken it; and those of the children.                  *)
Constructed(o) ==
    \/ obj[o].state = "INITIALIZED"
    \/ \E k \in Calls : Call(k).obj = o /\ Call(k).pc \in
            {"drop", "free_hdl", "detach", "unlink", "children", "ref_child", "settle", "last"}

HeldBy(o) == {k \in Calls :
    \/ Call(k).obj = o /\ Call(k).pc \in {"mark", "again", "drop"} \cup
                                           (CreatePc \ {"construct"})
    \/ Call(k).at = o /\ Call(k).pc \in CreatePc \cup {"deref"}}

Attached(o) == {c \in Obj : obj[c].p_parent_obj = o /\
    ~\E k \in Calls : Call(k).obj = c /\ Call(k).pc \in {"insert", "ref_parent"}}

Refs(o) == (IF Constructed(o) THEN 1 ELSE 0) + Cardinality(HeldBy(o)) + Cardinality(Attached(o))

(* Every reference on an object is counted, and only those, whatever       *)
(* creates, uses and destroys it and its parent at the same time, as long  *)
(* as sync_destroy_obj has not given up waiting.  In particular nobody, no *)
(* call and no child, holds a reference on a freed object.                 *)
RefCountExact ==
    expired = {} => \A o \in Obj :
        /\ obj[o].state \in {"INITIALIZED", "DESTROYING"} => obj[o].ref_cnt = Refs(o)
        /\ Freed(o) => Refs(o) = 0

(* An object is given to async_destroy_cb once, by the asynchronous        *)
(* processor or by a thread in sync_destroy_obj, even when it was          *)
(* destroyed by two callers or the wait for its references expired.        *)
CleanedUpOnce ==
    \A o \in Obj :
        Cardinality({k \in Calls : Call(k).obj = o /\ Call(k).pc = "cleanup"})
            + Cardinality({i \in DOMAIN queue : queue[i] = o})
        <= IF Freed(o) THEN 0 ELSE 1

(* An object leaves no child behind: what attaches itself to an object     *)
(* that is being destroyed is either refused or found by the loop over the *)
(* children ("CL_ASSERT( cl_is_qlist_empty( &p_obj->obj_list ) )" in       *)
(* destroy_al_obj).                                                        *)
NoChildLeft == \A o \in Obj : Freed(o) => obj[o].obj_list = <<>>

(* Every IOCTL returns: no wait in sync_destroy_obj has to expire, and the *)
(* loop over the children ends although others destroy them as well.       *)
CallsReturn == \A t \in Thread : stack[t] # <<>> ~> (stack[t] = <<>> \/ bugcheck)

(* An object is in the handle vector although its handle was released.     *)
Resurfaced ==
    \E o \in hdl_vector :
        /\ obj[o].state # "INITIALIZED"
        /\ ~\E k \in Calls : Call(k).obj = o /\ Call(k).pc \in {"drop", "free_hdl"}

(* An object that is being destroyed is freed, by async_destroy_cb, unless *)
(* a destroyed object is found in the handle vector again (HandlesLive     *)
(* says that it should not be), where new calls can reference it for ever. *)
DestroyEnds ==
    \A o \in Obj : obj[o].state = "DESTROYING" ~> (Freed(o) \/ bugcheck \/ Resurfaced)

(* destroy_obj takes no reference on a child that is gone or about to be   *)
(* freed: the count never comes back from zero ("CL_ASSERT( ref_cnt != 1   *)
(* || ... )" in ref_al_obj_inner).                                         *)
ChildIsThere ==
    \A t \in Thread : (stack[t] # <<>> /\ Top(t).pc = "ref_child") => obj[Top(t).at].ref_cnt > 0

(* The handle of an object is released before the object is, "so that any  *)
(* IOCTLs referencing this object will fail" (destroy_obj).                *)
HandlesLive == \A o \in hdl_vector : ~Freed(o)
=============================================================================
