---------------------------- MODULE AlObjLemmas -----------------------------
(***************************************************************************)
(* The inductive invariant of the access layer's objects, how the calls in *)
(* progress change when a thread makes one, goes on in one or returns from *)
(* one, and what such a step must respect to keep the invariant.           *)
(***************************************************************************)
EXTENDS AlObj, FiniteSetTheorems, TLAPS

Thr == Thread \cup {Async}

(* The calls in progress as a function.                                    *)
Frames == [k \in Calls |-> Call(k)]

One(b) == IF b THEN 1 ELSE 0

(* The calls of two sets that agree but for a and b.                       *)
LEMMA TwoDiffer ==
  ASSUME NEW S, NEW T, NEW a, NEW b, IsFiniteSet(S), a # b,
         \A k : k # a /\ k # b => (k \in S <=> k \in T)
  PROVE  /\ IsFiniteSet(T) /\ Cardinality(S) \in Nat /\ Cardinality(T) \in Nat
         /\ Cardinality(T) + One(a \in S) + One(b \in S)
              = Cardinality(S) + One(a \in T) + One(b \in T)
<1> DEFINE Q == (S \ {a}) \ {b}
           P == IF a \in T THEN Q \cup {a} ELSE Q
<1>1. IsFiniteSet(S \ {a}) /\ Cardinality(S) \in Nat
      /\ Cardinality(S \ {a}) = Cardinality(S) - One(a \in S)
  BY FS_RemoveElement, FS_CardinalityType DEF One
<1>2. IsFiniteSet(Q) /\ Cardinality(Q) = Cardinality(S) - One(a \in S) - One(b \in S)
  <2>1. /\ IsFiniteSet(Q)
        /\ Cardinality(Q) = IF b \in S \ {a} THEN Cardinality(S \ {a}) - 1 ELSE Cardinality(S \ {a})
    BY <1>1, FS_RemoveElement, Zenon
  <2>2. b \in S \ {a} <=> b \in S
    OBVIOUS
  <2> QED
    BY SMT, <1>1, <2>1, <2>2 DEF One
<1>3. Cardinality(Q) \in Nat
  BY <1>2, FS_CardinalityType
<1>4. IsFiniteSet(P) /\ Cardinality(P) = Cardinality(Q) + One(a \in T)
  BY <1>2, <1>3, FS_AddElement DEF One
<1>5. T = IF b \in T THEN P \cup {b} ELSE P
  OBVIOUS
<1>6. IsFiniteSet(T) /\ Cardinality(T) = Cardinality(P) + One(b \in T)
  <2>1. b \notin P
    OBVIOUS
  <2>2. IsFiniteSet(P \cup {b}) /\ Cardinality(P \cup {b}) = Cardinality(P) + 1
    BY <1>4, <2>1, FS_AddElement
  <2> QED
    BY <1>4, <1>3, <1>5, <2>2 DEF One
<1> QED
  <2>1. Cardinality(T) \in Nat
    BY <1>6, FS_CardinalityType
  <2> HIDE DEF P, Q
  <2>2. One(a \in S) \in Int /\ One(b \in S) \in Int /\ One(a \in T) \in Int /\ One(b \in T) \in Int
    BY DEF One
  <2> QED
    BY <1>1, <1>2, <1>3, <1>4, <1>6, <2>1, <2>2

(* The innermost call of a thread, and the one it may make.                *)
Inner(t) == <<t, Len(stack[t])>>
Callee(t) == <<t, Len(stack[t]) + 1>>

(* Every call but a and b stays as it is.                                  *)
Differ(a, b) ==
    /\ a # b /\ b \notin DOMAIN Frames
    /\ \A k : k # a /\ k # b =>
         /\ k \in DOMAIN Frames' <=> k \in DOMAIN Frames
         /\ k \in DOMAIN Frames => Frames'[k] = Frames[k]

(* Thread t goes on with calls s: at most the innermost one differs, has   *)
(* returned, or has made another.                                          *)
GoesOn(t, s) ==
    /\ s \in Seq(Frame) /\ stack' = [stack EXCEPT ![t] = s]
    /\ Len(s) >= Len(stack[t]) - 1 /\ Len(s) <= Len(stack[t]) + 1
    /\ \A i \in 1 .. Len(stack[t]) - 1 : s[Len(s) + 1 - i] = stack[t][Len(stack[t]) + 1 - i]

(* The frames after a step that replaces the innermost calls of a thread.  *)
LEMMA FramesChange ==
  ASSUME stack \in [Thr -> Seq(Frame)], NEW t \in Thr, NEW s, GoesOn(t, s)
  PROVE  /\ Differ(Inner(t), Callee(t)) /\ stack' \in [Thr -> Seq(Frame)]
         /\ Inner(t) \in DOMAIN Frames <=> Len(stack[t]) > 0
         /\ Len(stack[t]) > 0 => Frames[Inner(t)] = stack[t][1]
         /\ Inner(t) \in DOMAIN Frames' <=> Len(stack[t]) > 0 /\ Len(s) >= Len(stack[t])
         /\ Len(stack[t]) > 0 /\ Len(s) >= Len(stack[t])
              => Frames'[Inner(t)] = s[Len(s) + 1 - Len(stack[t])]
         /\ Callee(t) \in DOMAIN Frames' <=> Len(s) = Len(stack[t]) + 1
         /\ Len(s) = Len(stack[t]) + 1 => Frames'[Callee(t)] = s[1]
<1> DEFINE n == Len(stack[t])
           a == <<t, n>>
           b == <<t, n + 1>>
<1>1. /\ stack[t] \in Seq(Frame) /\ n \in Nat /\ Len(s) \in Nat
      /\ stack' \in [Thr -> Seq(Frame)] /\ stack'[t] = s
      /\ \A u \in Thr : u # t => stack'[u] = stack[u]
  BY DEF GoesOn
<1>0. /\ Len(s) >= n - 1 /\ Len(s) <= n + 1
      /\ \A i \in 1 .. n - 1 : s[Len(s) + 1 - i] = stack[t][n + 1 - i]
  BY DEF GoesOn
<1>2. \A k : k \in Calls <=> \E u \in Thr : \E i \in 1 .. Len(stack[u]) : k = <<u, i>>
  BY DEF Calls
<1>3. \A k : k \in Calls' <=> \E u \in Thr : \E i \in 1 .. Len(stack'[u]) : k = <<u, i>>
  BY <1>1 DEF Calls
<1>4. \A u \in Thr, i \in Nat : /\ <<u, i>> \in Calls <=> i \in 1 .. Len(stack[u])
                                /\ <<u, i>> \in Calls' <=> i \in 1 .. Len(stack'[u])
  BY <1>2, <1>3
<1>5. /\ DOMAIN Frames = Calls /\ DOMAIN Frames' = Calls'
      /\ \A u \in Thr, i \in Nat : <<u, i>> \in Calls
           => Frames[<<u, i>>] = stack[u][Len(stack[u]) + 1 - i]
      /\ \A u \in Thr, i \in Nat : <<u, i>> \in Calls'
           => Frames'[<<u, i>>] = stack'[u][Len(stack'[u]) + 1 - i]
  BY DEF Frames, Call
<1>6. ASSUME NEW k, k # a, k # b
      PROVE  /\ k \in DOMAIN Frames' <=> k \in DOMAIN Frames
             /\ k \in DOMAIN Frames => Frames'[k] = Frames[k]
  <2>1. CASE \E i \in Nat : k = <<t, i>>
    <3>1. PICK i \in Nat : k = <<t, i>>
      BY <2>1
    <3>2. i # n /\ i # n + 1
      BY <1>6, <3>1
    <3>3. i \in 1 .. n <=> i \in 1 .. Len(s)
      BY <1>0, <1>1, <3>2
    <3>4. i \in 1 .. n => i \in 1 .. n - 1
      BY <1>1, <3>2
    <3>5. i \in 1 .. n => s[Len(s) + 1 - i] = stack[t][n + 1 - i]
      BY <1>0, <3>4
    <3>6. k \in Calls <=> i \in 1 .. n
      BY <1>4, <3>1
    <3>7. k \in Calls' <=> i \in 1 .. Len(s)
      BY <1>1, <1>4, <3>1
    <3> QED
      BY <1>1, <1>5, <3>1, <3>3, <3>5, <3>6, <3>7
  <2>2. CASE ~\E i \in Nat : k = <<t, i>>
    <3>1. ASSUME NEW u \in Thr, NEW i \in 1 .. Len(stack[u]), k = <<u, i>>
          PROVE  k \in Calls' /\ Frames'[k] = Frames[k]
      <4>1. i \in Nat /\ u # t
        BY <1>1, <2>2, <3>1
      <4>2. k \in Calls /\ k \in Calls' /\ stack'[u] = stack[u]
        BY <1>1, <1>4, <3>1, <4>1
      <4> QED
        BY <1>5, <3>1, <4>1, <4>2
    <3>2. ASSUME NEW u \in Thr, NEW i \in 1 .. Len(stack'[u]), k = <<u, i>>
          PROVE  k \in Calls
      <4>1. i \in Nat /\ u # t
        BY <1>1, <2>2, <3>2
      <4> QED
        BY <1>1, <1>4, <3>2, <4>1
    <3> QED
      BY <1>2, <1>3, <1>5, <3>1, <3>2
  <2> QED
    BY <2>1, <2>2
<1>7. /\ a \in DOMAIN Frames <=> n > 0
      /\ n > 0 => Frames[a] = stack[t][1]
      /\ b \notin DOMAIN Frames
  BY <1>1, <1>4, <1>5
<1>8. /\ a \in DOMAIN Frames' <=> n > 0 /\ Len(s) >= n
      /\ n > 0 /\ Len(s) >= n => Frames'[a] = s[Len(s) + 1 - n]
      /\ b \in DOMAIN Frames' <=> Len(s) = n + 1
      /\ Len(s) = n + 1 => Frames'[b] = s[1]
  BY <1>0, <1>1, <1>4, <1>5
<1>9. a # b
  BY <1>1
<1> QED
  BY <1>1, <1>6, <1>7, <1>8, <1>9 DEF Differ, Inner, Callee

(* The innermost call goes on as f,                                        *)
LEMMA Moves ==
  ASSUME stack \in [Thr -> Seq(Frame)], NEW t \in Thr, stack[t] # <<>>, NEW f \in Frame,
         stack' = [stack EXCEPT ![t] = [stack[t] EXCEPT ![1] = f]]
  PROVE  /\ Differ(Inner(t), Callee(t)) /\ stack' \in [Thr -> Seq(Frame)]
         /\ Inner(t) \in DOMAIN Frames /\ Frames[Inner(t)] = Top(t)
         /\ Inner(t) \in DOMAIN Frames' /\ Frames'[Inner(t)] = f
         /\ Callee(t) \notin DOMAIN Frames'
<1> DEFINE s == [stack[t] EXCEPT ![1] = f]
           n == Len(stack[t])
<1>1. stack[t] \in Seq(Frame) /\ n \in Nat /\ n > 0 /\ stack[t][1] = Top(t)
  BY DEF Top
<1>2. s \in Seq(Frame) /\ Len(s) = n /\ s[1] = f /\ \A i \in 2 .. n : s[i] = stack[t][i]
  BY <1>1
<1> HIDE DEF s
<1>3. \A i \in 1 .. n - 1 : s[Len(s) + 1 - i] = stack[t][n + 1 - i]
  BY <1>1, <1>2
<1>4. GoesOn(t, s)
  BY <1>1, <1>2, <1>3 DEF s, GoesOn
<1> QED
  BY <1>1, <1>2, <1>4, FramesChange

(* returns,                                                                *)
LEMMA Pops ==
  ASSUME stack \in [Thr -> Seq(Frame)], NEW t \in Thr, stack[t] # <<>>,
         stack' = [stack EXCEPT ![t] = Tail(stack[t])]
  PROVE  /\ Differ(Inner(t), Callee(t)) /\ stack' \in [Thr -> Seq(Frame)]
         /\ Inner(t) \in DOMAIN Frames /\ Frames[Inner(t)] = Top(t)
         /\ Inner(t) \notin DOMAIN Frames' /\ Callee(t) \notin DOMAIN Frames'
<1> DEFINE s == Tail(stack[t])
           n == Len(stack[t])
<1>1. stack[t] \in Seq(Frame) /\ n \in Nat /\ n > 0 /\ stack[t][1] = Top(t)
  BY DEF Top
<1>2. s \in Seq(Frame) /\ Len(s) = n - 1 /\ \A i \in 1 .. n - 1 : s[i] = stack[t][i + 1]
  BY <1>1
<1> HIDE DEF s
<1>3. \A i \in 1 .. n - 1 : s[Len(s) + 1 - i] = stack[t][n + 1 - i]
  BY <1>1, <1>2
<1>4. GoesOn(t, s)
  BY <1>1, <1>2, <1>3 DEF s, GoesOn
<1> QED
  BY <1>1, <1>2, <1>4, FramesChange

(* or calls g and will go on as f.                                         *)
LEMMA Pushes ==
  ASSUME stack \in [Thr -> Seq(Frame)], NEW t \in Thr, stack[t] # <<>>,
         NEW f \in Frame, NEW g \in Frame,
         stack' = [stack EXCEPT ![t] = <<g, f>> \o Tail(stack[t])]
  PROVE  /\ Differ(Inner(t), Callee(t)) /\ stack' \in [Thr -> Seq(Frame)]
         /\ Inner(t) \in DOMAIN Frames /\ Frames[Inner(t)] = Top(t)
         /\ Inner(t) \in DOMAIN Frames' /\ Frames'[Inner(t)] = f
         /\ Callee(t) \in DOMAIN Frames' /\ Frames'[Callee(t)] = g
<1> DEFINE r == Tail(stack[t])
           s == <<g, f>> \o r
           n == Len(stack[t])
<1>1. stack[t] \in Seq(Frame) /\ n \in Nat /\ n > 0 /\ stack[t][1] = Top(t)
  BY DEF Top
<1>2. r \in Seq(Frame) /\ Len(r) = n - 1 /\ \A i \in 1 .. n - 1 : r[i] = stack[t][i + 1]
  BY <1>1
<1> HIDE DEF r
<1>3. s \in Seq(Frame) /\ Len(s) = n + 1 /\ s[1] = g /\ s[2] = f
      /\ \A i \in 3 .. n + 1 : s[i] = r[i - 2]
  BY <1>1, <1>2
<1>4. stack' = [stack EXCEPT ![t] = s]
  BY DEF r
<1> HIDE DEF s
<1>5. \A i \in 1 .. n - 1 : s[Len(s) + 1 - i] = stack[t][n + 1 - i]
  <2> TAKE i \in 1 .. n - 1
  <2>1. n + 2 - i \in 3 .. n + 1 /\ n + 2 - i - 2 = n - i /\ n - i \in 1 .. n - 1
        /\ n - i + 1 = n + 1 - i /\ Len(s) + 1 - i = n + 2 - i
    BY <1>1, <1>3
  <2>2. s[n + 2 - i] = r[n + 2 - i - 2]
    BY <1>3, <2>1
  <2>3. r[n - i] = stack[t][n - i + 1]
    BY <1>2, <2>1, Zenon
  <2> QED
    BY <2>1, <2>2, <2>3, Zenon
<1>6. Len(s) + 1 - n = 2 /\ Len(s) >= n - 1 /\ Len(s) <= n + 1 /\ Len(s) >= n
  BY <1>1, <1>3
<1>7. GoesOn(t, s)
  BY <1>3, <1>4, <1>5, <1>6, Zenon DEF GoesOn
<1> QED
  BY <1>1, <1>3, <1>6, <1>7, FramesChange

(* A thread without a call begins one.                                     *)
LEMMA Enters ==
  ASSUME stack \in [Thr -> Seq(Frame)], NEW t \in Thr, stack[t] = <<>>, NEW f \in Frame,
         stack' = [stack EXCEPT ![t] = <<f>>]
  PROVE  /\ Differ(Inner(t), Callee(t)) /\ stack' \in [Thr -> Seq(Frame)]
         /\ Inner(t) \notin DOMAIN Frames /\ Inner(t) \notin DOMAIN Frames'
         /\ Callee(t) \in DOMAIN Frames' /\ Frames'[Callee(t)] = f
<1> DEFINE s == <<f>>
<1>1. s \in Seq(Frame) /\ Len(s) = 1 /\ Len(stack[t]) = 0 /\ s[1] = f
  OBVIOUS
<1>2. GoesOn(t, s) /\ Len(s) = Len(stack[t]) + 1 /\ ~(Len(stack[t]) > 0)
  BY <1>1 DEF GoesOn
<1> HIDE DEF s
<1> QED
  BY <1>1, <1>2, FramesChange, Zenon

-----------------------------------------------------------------------------
(* The inductive invariant *)

(* Where a call creates an object, has attached it without the reference   *)
(* on the parent, still loops over the children, still has the reference   *)
(* of construct_al_obj, or destroys the object.                            *)
Making == CreatePc \ {"construct"}
Attaching == {"insert", "ref_parent"}
Looping == {"drop", "free_hdl", "detach", "unlink", "children", "ref_child"}
Building == Looping \cup {"settle", "last"}
Destroyer == Building \cup {"wait", "cleanup"}

(* A call at pcs for object o.                                             *)
Busy(k, o, pcs) == k \in DOMAIN Frames /\ Frames[k].obj = o /\ Frames[k].pc \in pcs

(* Who holds a reference.  The creator of an object that was freed without *)
(* its reference, after a wait that expired, has lost the one on the       *)
(* parent.                                                                 *)
Abandoned(f) == f.pc \in Attaching /\ Freed(f.obj)

Holds(f, o) ==
    \/ f.obj = o /\ f.pc \in {"mark", "again", "drop"} \cup Making
    \/ f.at = o /\ f.pc \in CreatePc \cup {"deref"} /\ ~Abandoned(f)

Holders(o) == {k \in DOMAIN Frames : Holds(Frames[k], o)}
Kids(o) == {c \in Obj : obj[c].p_parent_obj = o /\ ~\E k : Busy(k, c, Attaching)}
Built(o) == obj[o].state = "INITIALIZED" \/ \E k : Busy(k, o, Building)
Count(o) == One(Built(o)) + Cardinality(Holders(o)) + Cardinality(Kids(o))

(* What a call relies on.                                                  *)
FrameOK(f) ==
    /\ obj[f.obj].state # "NONE"
    /\ f.pc \in CreatePc \cup {"deref", "unlink", "ref_child"} => f.at \in Obj
    /\ f.pc \in Making => f.obj # f.at
    /\ f.pc \in Destroyer => obj[f.obj].state = "DESTROYING"
    /\ f.pc = "attach" => obj[f.obj].p_parent_obj = NoObj
    /\ f.pc \in Attaching /\ ~Freed(f.obj) => obj[f.obj].p_parent_obj = f.at
    /\ f.pc = "last" => (ByEvent(f.obj) <=> f.sync \/ f.obj \in SyncObj)
    /\ f.pc = "wait" => ByEvent(f.obj) /\ f.obj \notin expired
    /\ f.pc = "cleanup" /\ f.obj \notin expired => obj[f.obj].ref_cnt = 0

(* An object has one call at pcs.                                          *)
OneEach(pcs) == \A o \in Obj : \A j, k : Busy(j, o, pcs) /\ Busy(k, o, pcs) => j = k

(* References are counted exactly, but for objects a wait gave up on.      *)
Counted(o) ==
    /\ obj[o].state = "NONE" => obj[o].ref_cnt = 0 /\ Count(o) = 0 /\ o \notin expired
    /\ o \notin expired =>
         /\ obj[o].state \in {"INITIALIZED", "DESTROYING"} => obj[o].ref_cnt = Count(o)
         /\ Freed(o) => obj[o].ref_cnt = 0 /\ Count(o) = 0
         /\ obj[o].event => obj[o].ref_cnt = 0

GivenUp(o) ==
    o \in expired => ByEvent(o) /\ (Freed(o) \/ \E k : Busy(k, o, {"cleanup"}))

ListOK(o) ==
    /\ obj[o].state = "DESTROYING" => obj[o].obj_list = <<>> \/ \E k : Busy(k, o, Looping)
    /\ Freed(o) => obj[o].obj_list = <<>>
    /\ obj[o].state = "NONE" => obj[o].p_parent_obj = NoObj

(* What waits for the asynchronous processor has no other destroyer.       *)
Queued(o) ==
    /\ obj[o].state = "DESTROYING" /\ ~ByEvent(o) /\ o \notin expired
    /\ obj[o].ref_cnt = 0 /\ ~\E k : Busy(k, o, Destroyer)

QueueOK ==
    \A i \in 1 .. Len(queue) :
        Queued(queue[i]) /\ \A j \in 1 .. Len(queue) : queue[j] = queue[i] => j = i

Typed ==
    /\ obj \in [Obj -> AlObj] /\ hdl_vector \subseteq Obj /\ stack \in [Thr -> Seq(Frame)]
    /\ queue \in Seq(Obj) /\ expired \subseteq Obj /\ bugcheck \in BOOLEAN

IInv ==
    /\ Typed
    /\ IsFiniteSet(DOMAIN Frames) /\ \A o \in Obj : IsFiniteSet(Kids(o))
    /\ \A k \in DOMAIN Frames : FrameOK(Frames[k])
    /\ OneEach(Making) /\ OneEach(Destroyer)
    /\ \A o \in Obj : Counted(o) /\ GivenUp(o) /\ ListOK(o)
    /\ QueueOK

(* A call in progress is a frame.                                          *)
LEMMA FramesTyped ==
  ASSUME stack \in [Thr -> Seq(Frame)]
  PROVE  \A k \in DOMAIN Frames : Frames[k] \in Frame
<1> SUFFICES ASSUME NEW k \in Calls PROVE Call(k) \in Frame
  BY DEF Frames
<1>1. PICK t \in Thr : k \in {t} \X (1 .. Len(stack[t]))
  BY DEF Calls
<1>2. k[1] = t /\ k[2] \in 1 .. Len(stack[t]) /\ stack[t] \in Seq(Frame) /\ Len(stack[t]) \in Nat
  BY <1>1
<1>3. Len(stack[t]) + 1 - k[2] \in 1 .. Len(stack[t])
  BY <1>2
<1> QED
  BY <1>2, <1>3 DEF Call

-----------------------------------------------------------------------------
(* Steps that conserve references *)

(* What a step does to its own calls a and b, where b is one it makes.     *)
OwnCalls(a, b) ==
    /\ Differ(a, b)
    /\ a \in DOMAIN Frames => Frames[a].pc # "cleanup"
    /\ a \in DOMAIN Frames' =>
         /\ a \in DOMAIN Frames /\ Frames'[a].obj = Frames[a].obj
         /\ Frames'[a].pc \in Making => Frames[a].pc \in Making
         /\ Frames'[a].pc \in Building => Frames[a].pc \in Building
         /\ Frames'[a].pc \in Destroyer => Frames[a].pc \in Destroyer
         /\ FrameOK(Frames[a])'
    /\ b \in DOMAIN Frames' => Frames'[b].pc \in {"mark", "deref", "construct"} /\ FrameOK(Frames[b])'

(* To object o.                                                            *)
OwnObject(a, o) ==
    /\ obj'[o].state = obj[o].state
    /\ obj'[o].p_parent_obj = obj[o].p_parent_obj \/ Busy(a, o, Making)
    /\ obj'[o].user_destroy_cb = obj[o].user_destroy_cb \/ Busy(a, o, Looping \cup {"settle"})
    /\ o \notin expired => /\ obj[o].ref_cnt = 0 => obj'[o].ref_cnt = 0
                           /\ obj'[o].event => obj[o].event \/ obj'[o].ref_cnt = 0
    /\ obj[o].state \in {"DESTROYING", "DESTROYED"} /\ obj[o].obj_list = <<>> => obj'[o].obj_list = <<>>
    /\ Busy(a, o, Looping) => Busy(a, o, Looping)' \/ obj'[o].obj_list = <<>>

(* To the references on o.                                                 *)
Balance(a, b, o) ==
    /\ IsFiniteSet(Kids(o)')
    /\ o \notin expired =>
         obj'[o].ref_cnt + One(Busy(a, o, Building)) + One(a \in Holders(o)) + Cardinality(Kids(o))
           = obj[o].ref_cnt + One(Busy(a, o, Building)') + One(a \in Holders(o)')
               + One(b \in Holders(o)') + Cardinality(Kids(o)')

(* To the queue.                                                           *)
OwnQueue(a) ==
    \/ queue' = queue
    \/ \E x \in Obj :
         /\ queue' = Append(queue, x) /\ obj[x].ref_cnt = 1 /\ obj'[x].ref_cnt = 0 /\ ~ByEvent(x)
         /\ a \in Holders(x) \/ (Busy(a, x, {"last"}) /\ a \notin DOMAIN Frames')

(* The calls in progress stay finitely many.                               *)
LEMMA FiniteFrames ==
  ASSUME NEW a, NEW b, Differ(a, b), IsFiniteSet(DOMAIN Frames)
  PROVE  IsFiniteSet(DOMAIN Frames')
<1>1. PICK S : S = DOMAIN Frames
  OBVIOUS
<1>2. PICK T : T = DOMAIN Frames'
  OBVIOUS
<1>3. IsFiniteSet(S) /\ a # b
  BY <1>1 DEF Differ
<1>4. ASSUME NEW k, k # a, k # b PROVE k \in S <=> k \in T
  BY <1>1, <1>2, <1>4 DEF Differ
<1>5. /\ IsFiniteSet(T)
      /\ Cardinality(T) + One(a \in S) + One(b \in S) = Cardinality(S) + One(a \in T) + One(b \in T)
  BY <1>3, <1>4, TwoDiffer
<1> QED
  BY <1>2, <1>5

(* Only calls a and b may enter or leave the holders of an object.         *)
LEMMA HoldersStep ==
  ASSUME NEW a, NEW b, NEW o, Differ(a, b), IsFiniteSet(DOMAIN Frames),
         \A k \in DOMAIN Frames : Frames[k].obj \in Obj,
         \A c \in Obj : Freed(c)' <=> Freed(c)
  PROVE  /\ IsFiniteSet(Holders(o)) /\ IsFiniteSet(Holders(o)')
         /\ Cardinality(Holders(o)) \in Nat /\ Cardinality(Holders(o)') \in Nat
         /\ Cardinality(Holders(o)') + One(a \in Holders(o))
              = Cardinality(Holders(o)) + One(a \in Holders(o)') + One(b \in Holders(o)')
<1>1. ASSUME NEW k, k # a, k # b
      PROVE  k \in Holders(o) <=> k \in Holders(o)'
  <2>1. /\ k \in DOMAIN Frames' <=> k \in DOMAIN Frames
        /\ k \in DOMAIN Frames => Frames'[k] = Frames[k]
    BY <1>1 DEF Differ
  <2>2. k \in DOMAIN Frames => (Freed(Frames[k].obj)' <=> Freed(Frames[k].obj))
    BY <2>1
  <2> QED
    BY <2>1, <2>2 DEF Holders, Holds, Abandoned
<1>2. IsFiniteSet(Holders(o)) /\ b \notin Holders(o)
  BY FS_Subset DEF Holders, Differ
<1>3. a # b
  BY DEF Differ
<1>4. /\ IsFiniteSet(Holders(o)') /\ Cardinality(Holders(o)) \in Nat /\ Cardinality(Holders(o)') \in Nat
      /\ Cardinality(Holders(o)') + One(a \in Holders(o)) + One(b \in Holders(o))
           = Cardinality(Holders(o)) + One(a \in Holders(o)') + One(b \in Holders(o)')
  BY <1>1, <1>2, <1>3, TwoDiffer
<1> QED
  BY <1>2, <1>4 DEF One

(* The reference of construct_al_obj.                                      *)
LEMMA BuiltStep ==
  ASSUME IInv, NEW a, NEW b, OwnCalls(a, b), NEW o \in Obj, obj'[o].state = obj[o].state
  PROVE  One(Built(o)') + One(Busy(a, o, Building)) = One(Built(o)) + One(Busy(a, o, Building)')
<1>1. \A k : k # a => (Busy(k, o, Building)' <=> Busy(k, o, Building))
  BY DEF OwnCalls, Differ, Busy, Building, Looping
<1>2. \A k : Busy(k, o, Building) => Busy(k, o, Destroyer) /\ obj[o].state = "DESTROYING"
  BY DEF IInv, Busy, FrameOK, Destroyer
<1>3. Busy(a, o, Building)' => Busy(a, o, Building) 
  BY DEF OwnCalls, Busy
<1>4. CASE obj[o].state = "INITIALIZED"
  BY <1>2, <1>3, <1>4 DEF Built, One
<1>5. CASE obj[o].state # "INITIALIZED" /\ Busy(a, o, Building)
  <2>1. \A k : k # a => ~Busy(k, o, Building)
    BY <1>2, <1>5 DEF IInv, OneEach
  <2>2. Built(o) /\ (Built(o)' <=> Busy(a, o, Building)')
    BY <1>1, <1>5, <2>1 DEF Built
  <2> QED
    BY <1>5, <2>2 DEF One
<1>6. CASE obj[o].state # "INITIALIZED" /\ ~Busy(a, o, Building)
  <2>1. Built(o)' <=> Built(o)
    BY <1>1, <1>3, <1>6 DEF Built
  <2> QED
    BY <1>3, <1>6, <2>1 DEF One
<1> QED
  BY <1>4, <1>5, <1>6

(* The calls other than a and b stay where they are, and a and b come to   *)
(* no object that they were not at.                                        *)
LEMMA Others ==
  ASSUME NEW a, NEW b, OwnCalls(a, b), NEW o
  PROVE  /\ \A k, pcs : k # a /\ Busy(k, o, pcs) => Busy(k, o, pcs)'
         /\ \A k : Busy(k, o, Making)' => Busy(k, o, Making)
         /\ \A k : Busy(k, o, Destroyer)' => Busy(k, o, Destroyer)
<1>1. \A k, pcs : k # a /\ Busy(k, o, pcs) => Busy(k, o, pcs)'
  BY DEF OwnCalls, Differ, Busy
<1>2. \A pcs : \A k : k # a /\ k # b /\ Busy(k, o, pcs)' => Busy(k, o, pcs)
  BY DEF OwnCalls, Differ, Busy
<1>3. ~Busy(b, o, Making)' /\ ~Busy(b, o, Destroyer)'
  BY DEF OwnCalls, Busy, Making, CreatePc, Destroyer, Building, Looping
<1>4. /\ Busy(a, o, Making)' => Busy(a, o, Making)
      /\ Busy(a, o, Destroyer)' => Busy(a, o, Destroyer)
  BY DEF OwnCalls, Busy
<1> QED
  BY <1>1, <1>2, <1>3, <1>4

(* A call that does not move stays sound when its object keeps what the    *)
(* call relies on.                                                         *)
LEMMA FrameKept ==
  ASSUME NEW f \in Frame, FrameOK(f), expired' = expired,
         obj'[f.obj].state = obj[f.obj].state,
         f.pc \in Making => obj'[f.obj].p_parent_obj = obj[f.obj].p_parent_obj,
         f.obj \notin expired /\ obj[f.obj].ref_cnt = 0 => obj'[f.obj].ref_cnt = 0,
         f.pc \in Destroyer => (ByEvent(f.obj)' <=> ByEvent(f.obj))
  PROVE  FrameOK(f)'
<1>1. f.pc \in {"attach"} \cup Attaching => f.pc \in Making
  BY Zenon DEF Making, CreatePc, Attaching
<1>2. f.pc \in {"last", "wait", "cleanup"} => f.pc \in Destroyer
  BY Zenon DEF Destroyer, Building
<1> QED
  BY Zenon, <1>1, <1>2 DEF FrameOK, Freed

(* A step of call a, which may make call b, keeps the invariant when it    *)
(* respects the object and the queue and the count changes by what a and b *)
(* come to hold.                                                           *)
LEMMA Conserved ==
  ASSUME IInv, Typed', NEW a, NEW b, OwnCalls(a, b), expired' = expired,
         \A o \in Obj : OwnObject(a, o) /\ Balance(a, b, o), OwnQueue(a)
  PROVE  IInv'
<1>1. \A k \in DOMAIN Frames : Frames[k] \in Frame /\ Frames[k].obj \in Obj /\ FrameOK(Frames[k])
  BY FramesTyped, Zenon DEF IInv, Typed, Frame
<1>2. IsFiniteSet(DOMAIN Frames')
  BY Zenon, FiniteFrames DEF IInv, OwnCalls
<1>3. \A o \in Obj : IsFiniteSet(Kids(o)')
  BY Zenon DEF Balance
<1>4. \A o \in Obj : (ByEvent(o)' <=> ByEvent(o)) \/ Busy(a, o, Looping \cup {"settle"})
  BY Zenon DEF OwnObject, ByEvent
<1>5. ASSUME NEW k \in DOMAIN Frames' PROVE FrameOK(Frames[k])'
  <2>1. CASE k = a \/ k = b
    BY Zenon, <1>5, <2>1 DEF OwnCalls
  <2>2. CASE k # a /\ k # b
    <3>1. PICK f : f = Frames[k]
      BY Zenon
    <3>2. PICK o : o = f.obj
      BY Zenon
    <3>3. k \in DOMAIN Frames /\ Frames'[k] = f /\ f \in Frame /\ o \in Obj /\ FrameOK(f)
      BY Zenon, <1>1, <1>5, <2>2, <3>1, <3>2 DEF OwnCalls, Differ
    <3>4. f.pc \in Making => ~Busy(a, o, Making)
      BY Zenon, <2>2, <3>1, <3>2, <3>3 DEF IInv, OneEach, Busy
    <3>5. f.pc \in Destroyer => ~Busy(a, o, Looping \cup {"settle"})
      BY Zenon, <2>2, <3>1, <3>2, <3>3 DEF IInv, OneEach, Busy, Destroyer, Building
    <3>6. /\ obj'[o].state = obj[o].state
          /\ f.pc \in Making => obj'[o].p_parent_obj = obj[o].p_parent_obj
          /\ o \notin expired /\ obj[o].ref_cnt = 0 => obj'[o].ref_cnt = 0
          /\ f.pc \in Destroyer => (ByEvent(o)' <=> ByEvent(o))
      BY <1>4, <3>3, <3>4, <3>5, Zenon DEF OwnObject
    <3>7. FrameOK(f)'
      BY Zenon, <3>2, <3>3, <3>6, FrameKept
    <3> QED
      BY Zenon, <3>3, <3>7
  <2> QED
    BY Zenon, <2>1, <2>2
<1>6. OneEach(Making)' /\ OneEach(Destroyer)'
  BY Others, Zenon DEF IInv, OneEach
<1>7. ASSUME NEW o \in Obj PROVE Counted(o)'
  <2>1. One(Built(o)') + One(Busy(a, o, Building)) = One(Built(o)) + One(Busy(a, o, Building)')
    BY Zenon, BuiltStep DEF OwnObject
  <2>2. /\ Cardinality(Holders(o)) \in Nat /\ Cardinality(Holders(o)') \in Nat
        /\ Cardinality(Holders(o)') + One(a \in Holders(o))
             = Cardinality(Holders(o)) + One(a \in Holders(o)') + One(b \in Holders(o)')
    BY <1>1, HoldersStep DEF IInv, OwnCalls, OwnObject, Freed
  <2>3. Cardinality(Kids(o)) \in Nat /\ Cardinality(Kids(o)') \in Nat
    BY Zenon, <1>3, FS_CardinalityType DEF IInv
  <2>4. /\ One(Built(o)') \in Int /\ One(Built(o)) \in Int
        /\ One(Busy(a, o, Building)) \in Int /\ One(Busy(a, o, Building)') \in Int
        /\ One(a \in Holders(o)) \in Int /\ One(a \in Holders(o)') \in Int
        /\ One(b \in Holders(o)') \in Int
    BY DEF One
  <2>5. obj[o].ref_cnt \in Int /\ obj'[o].ref_cnt \in Int
    BY Zenon DEF IInv, Typed, AlObj
  <2>6. o \notin expired => Count(o)' - Count(o) = obj'[o].ref_cnt - obj[o].ref_cnt
    <3> SUFFICES ASSUME o \notin expired
                 PROVE  Count(o)' - Count(o) = obj'[o].ref_cnt - obj[o].ref_cnt
      BY Zenon
    <3>1. obj'[o].ref_cnt + One(Busy(a, o, Building)) + One(a \in Holders(o)) + Cardinality(Kids(o))
           = obj[o].ref_cnt + One(Busy(a, o, Building)') + One(a \in Holders(o)')
               + One(b \in Holders(o)') + Cardinality(Kids(o)')
      BY Zenon DEF Balance
    <3>2. /\ Count(o) = One(Built(o)) + Cardinality(Holders(o)) + Cardinality(Kids(o))
          /\ Count(o)' = One(Built(o)') + Cardinality(Holders(o)') + Cardinality(Kids(o)')
      BY Zenon DEF Count
    <3>3. PICK ba \in Int, ba1 \in Int, ha \in Int, ha1 \in Int, hb1 \in Int :
            /\ ba = One(Busy(a, o, Building)) /\ ba1 = One(Busy(a, o, Building)')
            /\ ha = One(a \in Holders(o)) /\ ha1 = One(a \in Holders(o)') /\ hb1 = One(b \in Holders(o)')
      BY Zenon, <2>4
    <3>4. PICK b0 \in Int, b1 \in Int : b0 = One(Built(o)) /\ b1 = One(Built(o)')
      BY Zenon, <2>4
    <3>5. PICK h \in Int, h1 \in Int, c \in Int, c1 \in Int :
            /\ h = Cardinality(Holders(o)) /\ h1 = Cardinality(Holders(o)')
            /\ c = Cardinality(Kids(o)) /\ c1 = Cardinality(Kids(o)')
      BY <2>2, <2>3
    <3>6. /\ b1 + ba = b0 + ba1 /\ h1 + ha = h + ha1 + hb1
          /\ obj'[o].ref_cnt + ba + ha + c = obj[o].ref_cnt + ba1 + ha1 + hb1 + c1
          /\ Count(o) = b0 + h + c /\ Count(o)' = b1 + h1 + c1
      BY Zenon, <2>1, <2>2, <3>1, <3>2, <3>3, <3>4, <3>5
    <3> QED
      BY <2>5, <3>6
  <2>7. Count(o) \in Int /\ Count(o)' \in Int
    BY <2>2, <2>3, <2>4 DEF Count
  <2>8. OwnObject(a, o) /\ Counted(o)
    BY Zenon DEF IInv
  <2>9. expired' = expired
    BY Zenon
  <2> QED
    BY <2>5, <2>6, <2>7, <2>8, <2>9 DEF Counted, OwnObject, Freed
<1>8. ASSUME NEW o \in Obj PROVE GivenUp(o)'
  <2> SUFFICES ASSUME o \in expired
               PROVE  ByEvent(o)' /\ (Freed(o)' \/ \E k : Busy(k, o, {"cleanup"})')
    BY Zenon DEF GivenUp
  <2>1. ByEvent(o) /\ (Freed(o) \/ \E k : Busy(k, o, {"cleanup"}))
    BY Zenon DEF IInv, GivenUp
  <2>2. ~Busy(a, o, Looping \cup {"settle"})
    <3>1. CASE Freed(o)
      BY Zenon, <1>1, <3>1 DEF Busy, FrameOK, Freed, Destroyer, Building
    <3>2. CASE \E k : Busy(k, o, {"cleanup"})
      <4>1. PICK k : Busy(k, o, {"cleanup"})
        BY Zenon, <3>2
      <4>2. k # a
        BY Zenon, <4>1 DEF OwnCalls, Busy
      <4> QED
        BY Zenon, <4>1, <4>2 DEF IInv, OneEach, Busy, Destroyer, Building
    <3> QED
      BY Zenon, <2>1, <3>1, <3>2
  <2>3. \A k : Busy(k, o, {"cleanup"}) => Busy(k, o, {"cleanup"})'
    <3> SUFFICES ASSUME NEW k, Busy(k, o, {"cleanup"}) PROVE Busy(k, o, {"cleanup"})'
      BY Zenon
    <3>1. k # a
      BY Zenon DEF OwnCalls, Busy
    <3> QED
      BY <3>1, Others
  <2>4. Freed(o) => Freed(o)'
    BY Zenon DEF OwnObject, Freed
  <2> QED
    BY <1>4, <2>1, <2>2, <2>3, <2>4, Zenon
<1>9. ASSUME NEW o \in Obj PROVE ListOK(o)'
  <2>1. \A k : Busy(k, o, Looping) => Busy(k, o, Looping)' \/ obj'[o].obj_list = <<>>
    BY Others, Zenon DEF OwnObject
  <2>2. ListOK(o) /\ OwnObject(a, o)
    BY Zenon DEF IInv
  <2>3. Busy(a, o, Making) => obj[o].state # "NONE"
    BY Zenon, <1>1 DEF Busy, FrameOK
  <2> QED
    BY Zenon, <2>1, <2>2, <2>3 DEF ListOK, OwnObject, Freed
<1>10. \A o \in Obj : Queued(o) => Queued(o)'
  <2> SUFFICES ASSUME NEW o \in Obj, Queued(o) PROVE Queued(o)'
    BY Zenon
  <2>1. ~Busy(a, o, Looping \cup {"settle"})
    BY Zenon DEF Queued, Busy, Destroyer, Building
  <2> QED
    BY <1>4, <2>1, Others, Zenon DEF Queued, OwnObject
<1>11. QueueOK'
  <2>1. CASE queue' = queue
    <3>1. queue \in Seq(Obj) /\ QueueOK
      BY Zenon DEF IInv, Typed
    <3> QED
      BY <1>10, <2>1, <3>1 DEF QueueOK
  <2>2. CASE queue' # queue
    <3>1. PICK x \in Obj :
            /\ queue' = Append(queue, x) /\ obj[x].ref_cnt = 1 /\ obj'[x].ref_cnt = 0 /\ ~ByEvent(x)
            /\ a \in Holders(x) \/ (Busy(a, x, {"last"}) /\ a \notin DOMAIN Frames')
      BY Zenon, <2>2 DEF OwnQueue
    <3>2. x \notin expired /\ OwnObject(a, x)
      BY Zenon, <3>1 DEF IInv, GivenUp
    <3>3. \A k : ~Busy(k, x, {"wait", "cleanup"})
      <4> SUFFICES ASSUME NEW k, Busy(k, x, {"wait", "cleanup"}) PROVE FALSE
        BY Zenon
      <4>1. FrameOK(Frames[k]) /\ Frames[k].obj = x /\ Frames[k].pc \in {"wait", "cleanup"}
        BY Zenon, <1>1 DEF Busy
      <4> QED
        BY <3>1, <3>2, <4>1 DEF FrameOK
    <3>4. /\ obj[x].state = "DESTROYING" /\ ~\E k : Busy(k, x, Destroyer)'
          /\ ~Busy(a, x, Looping \cup {"settle"})
      <4>1. CASE a \in Holders(x)
        <5>1. Cardinality(Holders(x)) \in Nat /\ Cardinality(Holders(x)) # 0 /\ Cardinality(Kids(x)) \in Nat
          <6>1. IsFiniteSet(Holders(x)) /\ IsFiniteSet(Kids(x))
            BY Zenon, FS_Subset DEF IInv, Holders
          <6> QED
            BY Zenon, <4>1, <6>1, FS_CardinalityType, FS_EmptySet
        <5>2. Count(x) >= 1 /\ (Built(x) => Count(x) >= 2)
          BY <5>1 DEF Count, One
        <5>3. Counted(x) /\ obj[x].state \in {"NONE", "INITIALIZED", "DESTROYING", "DESTROYED"}
          BY Zenon DEF IInv, Typed, AlObj
        <5>4. ~Built(x) /\ obj[x].state = "DESTROYING"
          BY <3>1, <3>2, <5>2, <5>3 DEF Counted, Freed, Built
        <5>5. \A k : ~Busy(k, x, Destroyer)
          BY Zenon, <3>3, <5>4 DEF Built, Busy, Destroyer
        <5> QED
          BY Zenon, <5>4, <5>5, Others DEF Busy, Destroyer, Building
      <4>2. CASE Busy(a, x, {"last"}) /\ a \notin DOMAIN Frames'
        <5>1. obj[x].state = "DESTROYING" /\ Busy(a, x, Destroyer)
          BY Zenon, <1>1, <4>2 DEF Busy, FrameOK, Destroyer, Building
        <5>2. \A k : Busy(k, x, Destroyer)' => k # a /\ Busy(k, x, Destroyer)
          BY Zenon, <4>2, Others DEF Busy
        <5> QED
          BY Zenon, <4>2, <5>1, <5>2 DEF IInv, OneEach, Busy, Looping
      <4> QED
        BY Zenon, <3>1, <4>1, <4>2
    <3>5. Queued(x)'
      BY <1>4, <3>1, <3>2, <3>4, Zenon DEF Queued, OwnObject
    <3>6. queue \in Seq(Obj) /\ QueueOK
      BY Zenon DEF IInv, Typed
    <3>7. /\ 1 .. Len(queue') = (1 .. Len(queue)) \cup {Len(queue) + 1}
          /\ Len(queue) \in Nat /\ queue'[Len(queue) + 1] = x
          /\ \A i \in 1 .. Len(queue) : queue'[i] = queue[i]
      BY <3>1, <3>6
    <3>8. ASSUME NEW i \in 1 .. Len(queue) PROVE queue[i] # x /\ Queued(queue[i])'
      <4>1. PICK c \in Obj : c = queue[i]
        BY <3>6
      <4>2. Queued(c) /\ queue'[i] = c
        BY Zenon, <3>6, <3>7, <4>1 DEF QueueOK
      <4> QED
        BY <1>10, <3>1, <4>1, <4>2 DEF Queued
    <3>9. \A i \in 1 .. Len(queue') : Queued(queue[i])'
      BY Zenon, <3>5, <3>7, <3>8
    <3>10. \A i, j \in 1 .. Len(queue') : queue'[j] = queue'[i] => j = i
      BY Zenon, <3>6, <3>7, <3>8 DEF QueueOK
    <3> QED
      BY Zenon, <3>9, <3>10 DEF QueueOK
  <2> QED
    BY Zenon, <2>1, <2>2
<1> QED
  BY Zenon, <1>2, <1>3, <1>5, <1>6, <1>7, <1>8, <1>9, <1>11 DEF IInv

(* The references that a call has on o.                                    *)
FrameRefs(f, o) == One(f.obj = o /\ f.pc \in Building) + One(Holds(f, o))
Has(k, o) == IF k \in DOMAIN Frames THEN FrameRefs(Frames[k], o) ELSE 0

(* Object c stays attached, or becomes what is not attached yet or no      *)
(* longer.                                                                 *)
KidKept(a, c) ==
    \/ /\ obj'[c].p_parent_obj = obj[c].p_parent_obj
       /\ Busy(a, c, Attaching)' <=> Busy(a, c, Attaching)
    \/ /\ Busy(a, c, Attaching) \/ obj[c].p_parent_obj = NoObj
       /\ Busy(a, c, Attaching)' \/ obj'[c].p_parent_obj = NoObj

(* What a call holds, read from its frame before and after the step.       *)
LEMMA HasFrame ==
  ASSUME NEW k, NEW o, NEW f
  PROVE  /\ k \in DOMAIN Frames /\ Frames[k] = f => Has(k, o) = FrameRefs(f, o)
         /\ k \notin DOMAIN Frames => Has(k, o) = 0
         /\ k \in DOMAIN Frames' /\ Frames'[k] = f /\ (Freed(f.obj)' <=> Freed(f.obj))
              => Has(k, o)' = FrameRefs(f, o)
         /\ k \notin DOMAIN Frames' => Has(k, o)' = 0
<1>1. (Freed(f.obj)' <=> Freed(f.obj)) => (Holds(f, o)' <=> Holds(f, o))
  BY Zenon DEF Holds, Abandoned
<1>2. k \in DOMAIN Frames /\ Frames[k] = f => Has(k, o) = FrameRefs(f, o)
  BY Zenon DEF Has
<1>3. k \notin DOMAIN Frames => Has(k, o) = 0
  BY Zenon DEF Has
<1>4. k \notin DOMAIN Frames' => Has(k, o)' = 0
  BY Zenon DEF Has
<1>5. k \in DOMAIN Frames' /\ Frames'[k] = f => Has(k, o)' = FrameRefs(f, o)'
  BY Zenon DEF Has
<1>6. (Freed(f.obj)' <=> Freed(f.obj)) => FrameRefs(f, o)' = FrameRefs(f, o)
  BY Zenon, <1>1 DEF FrameRefs, One
<1> QED
  BY Zenon, <1>2, <1>3, <1>4, <1>5, <1>6

(* The case of Conserved in which no object gains or loses a child.        *)
LEMMA Steady ==
  ASSUME IInv, Typed', NEW a, NEW b, OwnCalls(a, b), expired' = expired, OwnQueue(a),
         \A o \in Obj : /\ OwnObject(a, o) /\ KidKept(a, o)
                        /\ o \notin expired =>
                             obj'[o].ref_cnt + Has(a, o) = obj[o].ref_cnt + Has(a, o)' + Has(b, o)'
  PROVE  IInv'
<1>1. \A c : Busy(b, c, Attaching)' <=> FALSE
  BY Zenon DEF OwnCalls, Busy, Attaching
<1>2. \A c : \A k : k # a /\ k # b => (Busy(k, c, Attaching)' <=> Busy(k, c, Attaching))
  BY Zenon DEF OwnCalls, Differ, Busy
<1>3. \A c : ~Busy(b, c, Attaching)
  BY Zenon DEF OwnCalls, Differ, Busy
<1>4. ASSUME NEW o \in Obj PROVE Kids(o)' = Kids(o)
  <2>1. NoObj # o
    BY Zenon, ObjAssumption
  <2>2. ASSUME NEW c \in Obj
        PROVE  (obj'[c].p_parent_obj = o /\ ~\E k : Busy(k, c, Attaching)')
                 <=> (obj[c].p_parent_obj = o /\ ~\E k : Busy(k, c, Attaching))
    BY <1>1, <1>2, <1>3, <2>1 DEF KidKept
  <2> QED
    BY <2>2, Zenon DEF Kids
<1>5. ASSUME NEW o \in Obj PROVE Balance(a, b, o)
  <2>1. IsFiniteSet(Kids(o)') /\ Cardinality(Kids(o)) \in Nat /\ Cardinality(Kids(o)') = Cardinality(Kids(o))
    BY <1>4, FS_CardinalityType, Zenon DEF IInv
  <2>2. /\ Has(a, o) = One(Busy(a, o, Building)) + One(a \in Holders(o))
        /\ Has(a, o)' = One(Busy(a, o, Building)') + One(a \in Holders(o)')
    BY DEF Has, FrameRefs, Busy, Holders, One
  <2>3. Has(b, o)' = One(b \in Holders(o)')
    BY DEF Has, FrameRefs, Holders, One, OwnCalls, Building, Looping
  <2>4. obj[o].ref_cnt \in Int /\ obj'[o].ref_cnt \in Int
    BY Zenon DEF IInv, Typed, AlObj
  <2>5. /\ One(Busy(a, o, Building)) \in Int /\ One(Busy(a, o, Building)') \in Int
        /\ One(a \in Holders(o)) \in Int /\ One(a \in Holders(o)') \in Int
        /\ One(b \in Holders(o)') \in Int
    BY DEF One
  <2> QED
    BY <2>1, <2>2, <2>3, <2>4, <2>5 DEF Balance
<1> QED
  BY Zenon, <1>5, Conserved

(* Who has a reference finds it counted, but for an object that a wait     *)
(* gave up on.                                                             *)
LEMMA HeldCounted ==
  ASSUME IInv, NEW o \in Obj, o \notin expired, NEW k, k \in Holders(o) \/ Busy(k, o, Building)
  PROVE  /\ obj[o].ref_cnt \in Int /\ obj[o].ref_cnt >= 1
         /\ obj[o].state \in {"INITIALIZED", "DESTROYING"}
         /\ k \in Holders(o) /\ Built(o) => obj[o].ref_cnt >= 2
<1>1. IsFiniteSet(Holders(o)) /\ IsFiniteSet(Kids(o))
  BY Zenon, FS_Subset DEF IInv, Holders
<1>2. /\ Cardinality(Holders(o)) \in Nat /\ Cardinality(Kids(o)) \in Nat
      /\ k \in Holders(o) => Cardinality(Holders(o)) # 0
  BY Zenon, <1>1, FS_CardinalityType, FS_EmptySet
<1>3. Busy(k, o, Building) => Built(o)
  BY Zenon DEF Built
<1>4. Count(o) \in Int /\ Count(o) >= 1 /\ (k \in Holders(o) /\ Built(o) => Count(o) >= 2)
  BY <1>2, <1>3 DEF Count, One
<1>5. Counted(o) /\ obj[o].state \in {"NONE", "INITIALIZED", "DESTROYING", "DESTROYED"}
  BY Zenon DEF IInv, Typed, AlObj
<1> QED
  BY <1>4, <1>5 DEF Counted, Freed

(* An object that keeps its state, its parent and its callback is          *)
(* respected.                                                              *)
LEMMA ObjectKept ==
  ASSUME NEW a, NEW o,
         obj'[o].state = obj[o].state, obj'[o].p_parent_obj = obj[o].p_parent_obj,
         obj'[o].user_destroy_cb = obj[o].user_destroy_cb,
         o \notin expired => /\ obj[o].ref_cnt = 0 => obj'[o].ref_cnt = 0
                             /\ obj'[o].event => obj[o].event \/ obj'[o].ref_cnt = 0,
         obj[o].obj_list = <<>> => obj'[o].obj_list = <<>>,
         Busy(a, o, Looping) => Busy(a, o, Looping)'
  PROVE  OwnObject(a, o)
BY Zenon DEF OwnObject

(* A call drops one reference that it has.                                 *)
LEMMA Derefs ==
  ASSUME IInv, NEW a, NEW b, OwnCalls(a, b), b \notin DOMAIN Frames', NEW x \in Obj, Deref(x),
         UNCHANGED hdl_vector, Calm, stack' \in [Thr -> Seq(Frame)],
         \A o \in Obj : /\ Busy(a, o, Attaching)' <=> Busy(a, o, Attaching)
                        /\ Busy(a, o, Looping) => Busy(a, o, Looping)'
                        /\ Has(a, o) = Has(a, o)' + One(o = x),
         a \in Holders(x) \/ (Busy(a, x, {"last"}) /\ (ByEvent(x) \/ a \notin DOMAIN Frames'))
  PROVE  IInv'
<1>1. /\ obj' = [obj EXCEPT ![x] = [obj[x] EXCEPT !.ref_cnt = obj[x].ref_cnt - 1,
                                    !.event = obj[x].event \/ (obj[x].ref_cnt = 1 /\ ByEvent(x))]]
      /\ queue' = IF obj[x].ref_cnt = 1 /\ ~ByEvent(x) THEN Append(queue, x) ELSE queue
      /\ expired' = expired /\ bugcheck' = bugcheck
  BY Zenon DEF Deref, Calm
<1>2. obj \in [Obj -> AlObj] /\ queue \in Seq(Obj) /\ obj[x] \in AlObj
  BY Zenon DEF IInv, Typed
<1>3. Typed'
  <2>1. (obj[x].event \/ (obj[x].ref_cnt = 1 /\ ByEvent(x))) \in BOOLEAN
    BY Zenon
  <2>2. obj[x].ref_cnt - 1 \in Int
    BY <1>2 DEF AlObj
  <2>3. PICK e, r : /\ e = (obj[x].event \/ (obj[x].ref_cnt = 1 /\ ByEvent(x)))
                    /\ r = obj[x].ref_cnt - 1
    BY Zenon
  <2>4. [obj[x] EXCEPT !.ref_cnt = r, !.event = e] \in AlObj
    BY <1>2, <2>1, <2>2, <2>3, Zenon DEF AlObj
  <2>5. obj' = [obj EXCEPT ![x] = [obj[x] EXCEPT !.ref_cnt = r, !.event = e]]
    BY <1>1, <2>3, Zenon
  <2>6. obj' \in [Obj -> AlObj]
    BY Zenon, <1>2, <2>4, <2>5
  <2>7. queue' \in Seq(Obj)
    BY <1>1, <1>2
  <2> QED
    BY Zenon, <1>1, <2>6, <2>7 DEF IInv, Typed
<1>4. x \notin expired => obj[x].ref_cnt >= 1
  BY Zenon, HeldCounted DEF Busy, Building
<1>5. /\ obj'[x].ref_cnt = obj[x].ref_cnt - 1 /\ obj[x].ref_cnt \in Int
      /\ obj'[x].event => obj[x].event \/ obj[x].ref_cnt = 1
      /\ \A o \in Obj : o # x => obj'[o] = obj[o]
      /\ \A o \in Obj : /\ obj'[o].state = obj[o].state /\ obj'[o].p_parent_obj = obj[o].p_parent_obj
                         /\ obj'[o].user_destroy_cb = obj[o].user_destroy_cb
                         /\ obj'[o].obj_list = obj[o].obj_list
  BY Zenon, <1>1, <1>2 DEF AlObj
<1>6. OwnQueue(a)
  BY <1>1, <1>5 DEF OwnQueue
<1>7. ASSUME NEW o \in Obj
      PROVE  /\ OwnObject(a, o) /\ KidKept(a, o)
             /\ obj'[o].ref_cnt + Has(a, o) = obj[o].ref_cnt + Has(a, o)' + Has(b, o)'
  <2>1. OwnObject(a, o)
    <3>1. o \notin expired => /\ obj[o].ref_cnt = 0 => obj'[o].ref_cnt = 0
                              /\ obj'[o].event => obj[o].event \/ obj'[o].ref_cnt = 0
      <4>1. CASE o = x
        BY <1>4, <1>5, <4>1
      <4>2. CASE o # x
        BY <1>5, <4>2, Zenon
      <4> QED
        BY Zenon, <4>1, <4>2
    <3>2. /\ obj'[o].state = obj[o].state /\ obj'[o].p_parent_obj = obj[o].p_parent_obj
          /\ obj'[o].user_destroy_cb = obj[o].user_destroy_cb
          /\ obj[o].obj_list = <<>> => obj'[o].obj_list = <<>>
      BY Zenon, <1>5
    <3>3. Busy(a, o, Looping) => Busy(a, o, Looping)'
      BY Zenon
    <3> QED
      BY Zenon, <3>1, <3>2, <3>3, ObjectKept
  <2>2. KidKept(a, o)
    BY Zenon, <1>5 DEF KidKept
  <2>3. Has(b, o)' = 0 /\ Has(a, o)' \in Int
    BY DEF Has, FrameRefs, One
  <2>4. obj'[o].ref_cnt + One(o = x) = obj[o].ref_cnt /\ obj[o].ref_cnt \in Int /\ obj'[o].ref_cnt \in Int
    BY <1>2, <1>3, <1>5 DEF One, Typed, AlObj
  <2>5. One(o = x) \in Int /\ Has(a, o) = Has(a, o)' + One(o = x)
    BY DEF One
  <2> QED
    BY <2>1, <2>2, <2>3, <2>4, <2>5
<1> QED
  BY Zenon, <1>1, <1>3, <1>6, <1>7, Steady

-----------------------------------------------------------------------------
(* The calls of a step: f is the innermost call a of thread t, which goes  *)
(* on as h and may make the call b, which is g.                            *)
Own(a, b, f) ==
    /\ Differ(a, b) /\ a \in DOMAIN Frames /\ Frames[a] = f /\ f \in Frame /\ FrameOK(f)
    /\ f.obj \in Obj /\ stack' \in [Thr -> Seq(Frame)]
Move(a, b, f, h) == Own(a, b, f) /\ a \in DOMAIN Frames' /\ Frames'[a] = h /\ b \notin DOMAIN Frames'
Push(a, b, f, h, g) ==
    Own(a, b, f) /\ a \in DOMAIN Frames' /\ Frames'[a] = h /\ b \in DOMAIN Frames' /\ Frames'[b] = g
Pop(a, b, f) == Own(a, b, f) /\ a \notin DOMAIN Frames' /\ b \notin DOMAIN Frames'

(* Replacing the innermost frame is a Move of that call.                   *)
LEMMA Moved ==
  ASSUME IInv, NEW t \in Thr, stack[t] # <<>>, NEW f, f = Top(t), NEW h \in Frame,
         stack' = [stack EXCEPT ![t] = [stack[t] EXCEPT ![1] = h]]
  PROVE  \E a, b : Move(a, b, f, h)
<1>1. stack \in [Thr -> Seq(Frame)] /\ \A k \in DOMAIN Frames : Frames[k] \in Frame /\ FrameOK(Frames[k])
  BY Zenon, FramesTyped DEF IInv, Typed
<1>2. /\ Differ(Inner(t), Callee(t)) /\ stack' \in [Thr -> Seq(Frame)]
      /\ Inner(t) \in DOMAIN Frames /\ Frames[Inner(t)] = Top(t)
      /\ Inner(t) \in DOMAIN Frames' /\ Frames'[Inner(t)] = h
      /\ Callee(t) \notin DOMAIN Frames'
  BY <1>1, Moves, Zenon
<1>3. f \in Frame /\ FrameOK(f) /\ f.obj \in Obj
  BY <1>1, <1>2, Zenon DEF Frame
<1>4. Move(Inner(t), Callee(t), f, h)
  BY Zenon, <1>2, <1>3 DEF Move, Own
<1> QED
  BY Zenon, <1>4

(* Replacing the innermost frame and calling is a Push.                    *)
LEMMA Pushed ==
  ASSUME IInv, NEW t \in Thr, stack[t] # <<>>, NEW f, f = Top(t), NEW h \in Frame, NEW g \in Frame,
         stack' = [stack EXCEPT ![t] = <<g, h>> \o Tail(stack[t])]
  PROVE  \E a, b : Push(a, b, f, h, g)
<1>1. stack \in [Thr -> Seq(Frame)] /\ \A k \in DOMAIN Frames : Frames[k] \in Frame /\ FrameOK(Frames[k])
  BY Zenon, FramesTyped DEF IInv, Typed
<1>2. /\ Differ(Inner(t), Callee(t)) /\ stack' \in [Thr -> Seq(Frame)]
      /\ Inner(t) \in DOMAIN Frames /\ Frames[Inner(t)] = Top(t)
      /\ Inner(t) \in DOMAIN Frames' /\ Frames'[Inner(t)] = h
      /\ Callee(t) \in DOMAIN Frames' /\ Frames'[Callee(t)] = g
  BY <1>1, Pushes, Zenon
<1>3. f \in Frame /\ FrameOK(f) /\ f.obj \in Obj
  BY <1>1, <1>2, Zenon DEF Frame
<1>4. Push(Inner(t), Callee(t), f, h, g)
  BY Zenon, <1>2, <1>3 DEF Push, Own
<1> QED
  BY Zenon, <1>4

(* Returning is a Pop.                                                     *)
LEMMA Popped ==
  ASSUME IInv, NEW t \in Thr, stack[t] # <<>>, NEW f, f = Top(t), Return(t)
  PROVE  \E a, b : Pop(a, b, f)
<1>1. stack \in [Thr -> Seq(Frame)] /\ \A k \in DOMAIN Frames : Frames[k] \in Frame /\ FrameOK(Frames[k])
  BY Zenon, FramesTyped DEF IInv, Typed
<1>2. /\ Differ(Inner(t), Callee(t)) /\ stack' \in [Thr -> Seq(Frame)]
      /\ Inner(t) \in DOMAIN Frames /\ Frames[Inner(t)] = Top(t)
      /\ Inner(t) \notin DOMAIN Frames' /\ Callee(t) \notin DOMAIN Frames'
  BY <1>1, Pops, Zenon DEF Return
<1>3. f \in Frame /\ FrameOK(f) /\ f.obj \in Obj
  BY <1>1, <1>2, Zenon DEF Frame
<1>4. Pop(Inner(t), Callee(t), f)
  BY Zenon, <1>2, <1>3 DEF Pop, Own
<1> QED
  BY Zenon, <1>4

(* The references of a call, by where it stands.                           *)
LEMMA RefsOf ==
  ASSUME NEW f, NEW o
  PROVE  /\ f.pc \in Making /\ ~Abandoned(f) => FrameRefs(f, o) = One(f.obj = o \/ f.at = o)
         /\ f.pc \in Building \ {"drop"} => FrameRefs(f, o) = One(f.obj = o)
         /\ f.pc = "drop" => FrameRefs(f, o) = One(f.obj = o) + One(f.obj = o)
         /\ f.pc \in {"mark", "again"} => FrameRefs(f, o) = One(f.obj = o)
         /\ f.pc \in {"construct", "deref"} => FrameRefs(f, o) = One(f.at = o)
         /\ f.pc \in {"wait", "cleanup"} => FrameRefs(f, o) = 0
BY DEF FrameRefs, Holds, Abandoned, One, Making, CreatePc, Attaching, Building, Looping

(* They stay the same when call f goes on as h among places that hold the *)
(* same.                                                                   *)
Alike(f, h) ==
    /\ h.obj = f.obj
    /\ \/ f.pc \in Making /\ h.pc \in Making /\ ~Abandoned(f) /\ ~Abandoned(h) /\ h.at = f.at
       \/ f.pc \in Building \ {"drop"} /\ h.pc \in Building \ {"drop"}
       \/ f.pc \in {"mark", "again"} /\ h.pc \in {"mark", "again"}
       \/ f.pc \in {"construct", "deref"} /\ h.pc \in {"construct", "deref"} /\ h.at = f.at
       \/ f.pc \in {"wait", "cleanup"} /\ h.pc \in {"wait", "cleanup"}

(* Frames that are alike hold the same references.                         *)
LEMMA SameRefs ==
  ASSUME NEW f, NEW h, Alike(f, h)
  PROVE  \A o \in Obj : FrameRefs(f, o) = FrameRefs(h, o)
BY RefsOf DEF Alike

(* Call f may go on as h.                                                  *)
Follows(f, h) ==
    /\ f.pc # "cleanup" /\ h.obj = f.obj
    /\ h.pc \in Making => f.pc \in Making
    /\ h.pc \in Building => f.pc \in Building
    /\ h.pc \in Destroyer => f.pc \in Destroyer

(* A call that goes on to a program point that may follow owns its step.   *)
LEMMA MoveOwn ==
  ASSUME NEW a, NEW b, NEW f, NEW h, Move(a, b, f, h), Follows(f, h), FrameOK(h)'
  PROVE  OwnCalls(a, b)
BY Zenon DEF Move, Own, Follows, OwnCalls

(* So does one that calls,                                                 *)
LEMMA PushOwn ==
  ASSUME NEW a, NEW b, NEW f, NEW h, NEW g, Push(a, b, f, h, g), Follows(f, h),
         FrameOK(h)', FrameOK(g)', g.pc \in {"mark", "deref", "construct"}
  PROVE  OwnCalls(a, b)
BY Zenon DEF Push, Own, Follows, OwnCalls

(* and one that returns, unless it is the one that frees the object.       *)
LEMMA PopOwn ==
  ASSUME NEW a, NEW b, NEW f, Pop(a, b, f), f.pc # "cleanup"
  PROVE  OwnCalls(a, b)
BY Zenon DEF Pop, Own, OwnCalls

(* A step of call f that leaves the count of object o alone.               *)
Quiet(f, h, o) ==
    /\ obj'[o].state = obj[o].state /\ obj'[o].ref_cnt = obj[o].ref_cnt
    /\ obj'[o].event => obj[o].event
    /\ obj'[o].user_destroy_cb = obj[o].user_destroy_cb \/ (f.obj = o /\ f.pc \in Looping \cup {"settle"})
    /\ obj[o].state \in {"DESTROYING", "DESTROYED"} /\ obj[o].obj_list = <<>> => obj'[o].obj_list = <<>>
    /\ f.obj = o /\ f.pc \in Looping => h.pc \in Looping \/ obj'[o].obj_list = <<>>
    /\ \/ /\ obj'[o].p_parent_obj = obj[o].p_parent_obj
          /\ f.obj = o => (h.pc \in Attaching <=> f.pc \in Attaching)
       \/ /\ f.obj = o /\ f.pc \in Making
          /\ f.pc \in Attaching \/ obj[o].p_parent_obj = NoObj
          /\ h.pc \in Attaching \/ obj'[o].p_parent_obj = NoObj

(* A quiet step respects the object and its children.                      *)
LEMMA QuietObject ==
  ASSUME NEW a, NEW b, NEW f, NEW h, NEW o, Own(a, b, f), a \in DOMAIN Frames', Frames'[a] = h,
         h.obj = f.obj, Quiet(f, h, o)
  PROVE  OwnObject(a, o) /\ KidKept(a, o)
<1>1. \A pcs : /\ Busy(a, o, pcs) <=> f.obj = o /\ f.pc \in pcs
               /\ Busy(a, o, pcs)' <=> f.obj = o /\ h.pc \in pcs
  BY Zenon DEF Own, Busy
<1>2. OwnObject(a, o)
  BY Zenon, <1>1 DEF Quiet, OwnObject
<1>3. KidKept(a, o)
  BY Zenon, <1>1 DEF Quiet, KidKept
<1> QED
  BY Zenon, <1>2, <1>3

(* A quiet step in which the call holds what it held keeps the invariant.  *)
LEMMA QuietMove ==
  ASSUME IInv, Typed', NEW a, NEW b, NEW f, NEW h, Move(a, b, f, h), Follows(f, h), FrameOK(h)',
         expired' = expired, queue' = queue,
         \A o \in Obj : Quiet(f, h, o) /\ FrameRefs(f, o) = FrameRefs(h, o)
  PROVE  IInv'
<1>1. OwnCalls(a, b)
  BY Zenon, MoveOwn
<1>2. OwnQueue(a)
  BY Zenon DEF OwnQueue
<1>3. ASSUME NEW o \in Obj PROVE OwnObject(a, o) /\ KidKept(a, o)
  BY Zenon, QuietObject DEF Move, Follows
<1>4. ASSUME NEW o \in Obj
      PROVE  obj'[o].ref_cnt + Has(a, o) = obj[o].ref_cnt + Has(a, o)' + Has(b, o)'
  <2>1. Freed(h.obj)' <=> Freed(h.obj)
    BY Zenon DEF Quiet, Follows, Move, Own, Freed
  <2>2. Has(a, o) = FrameRefs(f, o) /\ Has(a, o)' = FrameRefs(h, o) /\ Has(b, o)' = 0
    BY Zenon, <2>1, HasFrame DEF Move, Own
  <2>3. obj[o].ref_cnt \in Int /\ FrameRefs(h, o) \in Int
    BY DEF IInv, Typed, AlObj, FrameRefs, One
  <2> QED
    BY <2>2, <2>3 DEF Quiet
<1> QED
  BY Zenon, <1>1, <1>2, <1>3, <1>4, Steady

(* A quiet call of destroy, to which the caller hands the references it    *)
(* gives up, keeps the invariant.                                          *)
LEMMA QuietPush ==
  ASSUME IInv, Typed', NEW a, NEW b, NEW f, NEW h, NEW g, Push(a, b, f, h, g), Follows(f, h),
         FrameOK(h)', FrameOK(g)', g.pc = "mark", g.obj \in Obj,
         expired' = expired, queue' = queue,
         \A o \in Obj : Quiet(f, h, o) /\ FrameRefs(f, o) = FrameRefs(h, o) + FrameRefs(g, o)
  PROVE  IInv'
<1>1. OwnCalls(a, b)
  BY Zenon, PushOwn
<1>2. OwnQueue(a)
  BY Zenon DEF OwnQueue
<1>3. ASSUME NEW o \in Obj PROVE OwnObject(a, o) /\ KidKept(a, o)
  BY Zenon, QuietObject DEF Push, Follows
<1>4. ASSUME NEW o \in Obj
      PROVE  obj'[o].ref_cnt + Has(a, o) = obj[o].ref_cnt + Has(a, o)' + Has(b, o)'
  <2>1. (Freed(h.obj)' <=> Freed(h.obj)) /\ (Freed(g.obj)' <=> Freed(g.obj))
    BY Zenon DEF Quiet, Follows, Push, Own, Freed
  <2>2. Has(a, o) = FrameRefs(f, o) /\ Has(a, o)' = FrameRefs(h, o) /\ Has(b, o)' = FrameRefs(g, o)
    <3>1. a \in DOMAIN Frames /\ Frames[a] = f /\ b \notin DOMAIN Frames
      BY Zenon DEF Push, Own, Differ
    <3>2. a \in DOMAIN Frames' /\ Frames'[a] = h /\ b \in DOMAIN Frames' /\ Frames'[b] = g
      BY Zenon DEF Push
    <3>3. Has(a, o) = FrameRefs(f, o)
      BY Zenon, <3>1, HasFrame
    <3>4. Has(a, o)' = FrameRefs(h, o)
      BY <2>1, <3>2, HasFrame
    <3>5. Has(b, o)' = FrameRefs(g, o)
      BY Zenon, <2>1, <3>2, HasFrame
    <3> QED
      BY Zenon, <3>3, <3>4, <3>5
  <2>3. obj[o].ref_cnt \in Int /\ FrameRefs(h, o) \in Int /\ FrameRefs(g, o) \in Int
    BY DEF IInv, Typed, AlObj, FrameRefs, One
  <2> QED
    BY <2>2, <2>3 DEF Quiet
<1> QED
  BY Zenon, <1>1, <1>2, <1>3, <1>4, Steady

-----------------------------------------------------------------------------
(* The steps, one lemma each *)

(* What the innermost call of a thread at pc finds.                        *)
Sane(f, pc) ==
    /\ f.pc = pc
    /\ pc \notin {"construct", "deref"} => ~Freed(f.obj)
    /\ pc \in {"attach", "insert", "ref_parent", "unlink", "ref_child", "deref"} => ~Freed(f.at)
    /\ pc = "unlink" => On(obj[f.at].obj_list, f.obj)
    /\ pc = "ref_child" => obj[f.at].ref_cnt # 0

(* What the invariant says of a call at pc.                                *)
LEMMA AtTop ==
  ASSUME IInv, NEW t \in Thr, NEW pc, At(t, pc)
  PROVE  stack[t] # <<>> /\ Top(t) \in Frame /\ Top(t) = stack[t][1] /\ Sane(Top(t), pc)
<1>1. stack[t] \in Seq(Frame) /\ stack[t] # <<>>
  BY Zenon DEF IInv, Typed, At
<1>2. Sane(Top(t), pc)
  BY Zenon DEF At, Stray, Sane
<1> QED
  BY <1>1, <1>2 DEF Top

(* Goto moves the innermost call to pc1,                                   *)
LEMMA GoneTo ==
  ASSUME IInv, NEW t \in Thr, NEW pc, At(t, pc), NEW pc1 \in Pc, Goto(t, pc1)
  PROVE  \E a, b, f, h : /\ Move(a, b, f, h) /\ f = Top(t) /\ Sane(f, pc) /\ h = [f EXCEPT !.pc = pc1]
                         /\ h.pc = pc1 /\ h.obj = f.obj /\ h.at = f.at /\ h.sync = f.sync
<1>1. PICK f \in Frame : f = Top(t) /\ f = stack[t][1] /\ Sane(f, pc) /\ stack[t] # <<>>
  BY Zenon, AtTop
<1>2. PICK h \in Frame : /\ h = [f EXCEPT !.pc = pc1]
                         /\ h.pc = pc1 /\ h.obj = f.obj /\ h.at = f.at /\ h.sync = f.sync
  <2>1. [f EXCEPT !.pc = pc1] \in Frame
    BY Zenon, <1>1 DEF Frame
  <2>2. LET h == [f EXCEPT !.pc = pc1]
        IN  h.pc = pc1 /\ h.obj = f.obj /\ h.at = f.at /\ h.sync = f.sync
    BY Zenon, <1>1 DEF Frame
  <2> QED
    BY <2>1, <2>2, Zenon
<1>3. stack' = [stack EXCEPT ![t] = [stack[t] EXCEPT ![1] = h]]
  BY <1>1, <1>2, Zenon DEF Goto
<1> QED
  BY <1>1, <1>2, <1>3, Moved, ZenonT(30)

(* A step that leaves the objects alone.                                   *)
LEMMA IdleMove ==
  ASSUME IInv, NEW a, NEW b, NEW f, NEW h, Move(a, b, f, h), Follows(f, h), FrameOK(h),
         obj' = obj, queue' = queue, Calm, hdl_vector' \subseteq Obj,
         h.pc \in Attaching <=> f.pc \in Attaching,
         f.pc \in Looping => h.pc \in Looping \/ obj[f.obj].obj_list = <<>>,
         \A o \in Obj : FrameRefs(f, o) = FrameRefs(h, o)
  PROVE  IInv'
<1>1. expired' = expired /\ bugcheck' = bugcheck
  BY Zenon DEF Calm
<1>2. Typed'
  BY Zenon, <1>1 DEF IInv, Typed, Move, Own
<1>3. FrameOK(h)'
  BY <1>1, ZenonT(30) DEF FrameOK, Freed, ByEvent
<1>4. ASSUME NEW o \in Obj PROVE Quiet(f, h, o)
  BY Zenon DEF Quiet
<1> QED
  BY Zenon, <1>1, <1>2, <1>3, <1>4, QuietMove

(* Goto with another object at hand.                                       *)
GotoWith(t, p, pc) == stack' = [stack EXCEPT ![t][1].at = p, ![t][1].pc = pc]

(* and GotoWith does it with another operand.                              *)
LEMMA GoneOn ==
  ASSUME IInv, NEW t \in Thr, NEW pc, At(t, pc), NEW pc1 \in Pc, NEW p \in Obj \cup {NoObj},
         GotoWith(t, p, pc1)
  PROVE  \E a, b, f, h : /\ Move(a, b, f, h) /\ f = Top(t) /\ Sane(f, pc)
                         /\ h.pc = pc1 /\ h.obj = f.obj /\ h.at = p /\ h.sync = f.sync
<1>1. PICK f \in Frame : f = Top(t) /\ f = stack[t][1] /\ Sane(f, pc) /\ stack[t] # <<>>
  BY Zenon, AtTop
<1>2. PICK h \in Frame : h = [f EXCEPT !.at = p, !.pc = pc1]
  BY <1>1, Zenon DEF Frame
<1>3. h.pc = pc1 /\ h.obj = f.obj /\ h.at = p /\ h.sync = f.sync
  BY Zenon, <1>1, <1>2 DEF Frame
<1>4. stack' = [stack EXCEPT ![t] = [stack[t] EXCEPT ![1] = h]]
  <2>1. stack \in [Thr -> Seq(Frame)] /\ stack[t] \in Seq(Frame) /\ 1 \in DOMAIN stack[t]
    BY <1>1 DEF IInv, Typed
  <2> QED
    BY <1>1, <1>2, <2>1, Zenon DEF GotoWith
<1> QED
  BY <1>1, <1>3, <1>4, Moved, ZenonT(30)

(* An object is written.                                                   *)
LEMMA Written ==
  ASSUME IInv, NEW x \in Obj, NEW r \in AlObj, obj' = [obj EXCEPT ![x] = r]
  PROVE  obj' \in [Obj -> AlObj] /\ obj'[x] = r /\ \A o \in Obj : o # x => obj'[o] = obj[o]
BY Zenon DEF IInv, Typed

(* Allocate: the hardware resource is there, and the creation goes on.     *)
LEMMA AllocateStep ==
  ASSUME IInv, NEW t \in Thr, At(t, "allocate"), Goto(t, "valid"),
         UNCHANGED <<obj, hdl_vector, queue>>, Calm
  PROVE  IInv'
<1>1. PICK a, b, f, h : /\ Move(a, b, f, h) /\ Sane(f, "allocate") /\ h.pc = "valid"
                        /\ h.obj = f.obj /\ h.at = f.at /\ h.sync = f.sync
  BY GoneTo DEF Pc, CreatePc
<1>2. FrameOK(f) /\ f.pc = "allocate" /\ hdl_vector' \subseteq Obj
  BY Zenon, <1>1 DEF Move, Own, Sane, IInv, Typed
<1>3. FrameOK(h)
  BY Zenon, <1>1, <1>2 DEF FrameOK, Making, CreatePc, Attaching, Destroyer, Building, Looping
<1>4. Follows(f, h)
  BY Zenon, <1>1, <1>2 DEF Follows, Making, CreatePc, Destroyer, Building, Looping
<1>5. \A o \in Obj : FrameRefs(f, o) = FrameRefs(h, o)
  <2>1. Alike(f, h)
    BY Zenon, <1>1, <1>2 DEF Alike, Abandoned, Attaching, Making, CreatePc
  <2> QED
    BY Zenon, <2>1, SameRefs
<1> QED
  BY Zenon, <1>1, <1>2, <1>3, <1>4, <1>5, IdleMove DEF Attaching, Looping

(* al_hdl_insert_obj: the object has a handle.                             *)
LEMMA HdlInsertStep ==
  ASSUME IInv, NEW t \in Thr, At(t, "insert"), Goto(t, "ref_parent"),
         hdl_vector' = hdl_vector \cup {Top(t).obj}, UNCHANGED <<obj, queue>>, Calm
  PROVE  IInv'
<1>1. PICK a, b, f, h : /\ Move(a, b, f, h) /\ Sane(f, "insert") /\ h.pc = "ref_parent" /\ f = Top(t)
                        /\ h.obj = f.obj /\ h.at = f.at /\ h.sync = f.sync
  BY GoneTo DEF Pc, CreatePc
<1>2. FrameOK(f) /\ f.pc = "insert" /\ ~Freed(f.obj) /\ hdl_vector' \subseteq Obj
  BY <1>1, Zenon DEF Move, Own, Sane, IInv, Typed
<1>3. FrameOK(h)
  BY Zenon, <1>1, <1>2 DEF FrameOK, Making, CreatePc, Attaching, Destroyer, Building, Looping
<1>4. Follows(f, h)
  BY <1>1, <1>2, Zenon DEF Follows, Making, CreatePc, Destroyer, Building, Looping
<1>5. \A o \in Obj : FrameRefs(f, o) = FrameRefs(h, o)
  <2>1. Alike(f, h)
    BY Zenon, <1>1, <1>2 DEF Alike, Abandoned, Attaching, Making, CreatePc
  <2> QED
    BY Zenon, <2>1, SameRefs
<1> QED
  BY Zenon, <1>1, <1>2, <1>3, <1>4, <1>5, IdleMove DEF Attaching, Looping

(* Construct without memory.                                               *)
LEMMA NoMemoryStep ==
  ASSUME IInv, NEW t \in Thr, At(t, "construct"), Goto(t, "deref"),
         UNCHANGED <<obj, hdl_vector, queue>>, Calm
  PROVE  IInv'
<1>1. PICK a, b, f, h : /\ Move(a, b, f, h) /\ Sane(f, "construct") /\ h.pc = "deref"
                        /\ h.obj = f.obj /\ h.at = f.at /\ h.sync = f.sync
  BY GoneTo DEF Pc
<1>2. FrameOK(f) /\ f.pc = "construct" /\ hdl_vector' \subseteq Obj
  BY Zenon, <1>1 DEF Move, Own, Sane, IInv, Typed
<1>3. FrameOK(h)
  BY Zenon, <1>1, <1>2 DEF FrameOK, Making, CreatePc, Attaching, Destroyer, Building, Looping
<1>4. Follows(f, h)
  BY Zenon, <1>1, <1>2 DEF Follows, Making, CreatePc, Destroyer, Building, Looping
<1>5. \A o \in Obj : FrameRefs(f, o) = FrameRefs(h, o)
  <2>1. Alike(f, h)
    BY Zenon, <1>1, <1>2 DEF Alike
  <2> QED
    BY Zenon, <2>1, SameRefs
<1> QED
  BY Zenon, <1>1, <1>2, <1>3, <1>4, <1>5, IdleMove DEF Attaching, Looping

(* Mark by a second caller.                                                *)
LEMMA MarkedStep ==
  ASSUME IInv, NEW t \in Thr, At(t, "mark"), Goto(t, "again"),
         UNCHANGED <<obj, hdl_vector, queue>>, Calm
  PROVE  IInv'
<1>1. PICK a, b, f, h : /\ Move(a, b, f, h) /\ Sane(f, "mark") /\ h.pc = "again"
                        /\ h.obj = f.obj /\ h.at = f.at /\ h.sync = f.sync
  BY GoneTo DEF Pc, DestroyPc
<1>2. FrameOK(f) /\ f.pc = "mark" /\ hdl_vector' \subseteq Obj
  BY <1>1, Zenon DEF Move, Own, Sane, IInv, Typed
<1>3. FrameOK(h)
  BY Zenon, <1>1, <1>2 DEF FrameOK, Making, CreatePc, Attaching, Destroyer, Building, Looping
<1>4. Follows(f, h)
  BY Zenon, <1>1, <1>2 DEF Follows, Making, CreatePc, Destroyer, Building, Looping
<1>5. \A o \in Obj : FrameRefs(f, o) = FrameRefs(h, o)
  <2>1. Alike(f, h)
    BY Zenon, <1>1, <1>2 DEF Alike
  <2> QED
    BY Zenon, <2>1, SameRefs
<1> QED
  BY <1>1, <1>2, <1>3, <1>4, <1>5, IdleMove, Zenon DEF Attaching, Looping

(* destroy_obj reads the parent without a lock.                            *)
LEMMA ReadParentStep ==
  ASSUME IInv, NEW t \in Thr, ReadParent(t)
  PROVE  IInv'
<1>1. PICK p, x : /\ p \in Obj \cup {NoObj} /\ x = (IF p = NoObj THEN "children" ELSE "unlink")
                  /\ GotoWith(t, p, x)
  <2>1. Top(t).obj \in Obj
    BY Zenon, AtTop DEF ReadParent, Frame
  <2>2. obj[Top(t).obj].p_parent_obj \in Obj \cup {NoObj}
    BY Zenon, <2>1 DEF IInv, Typed, AlObj
  <2> QED
    BY <2>2, Zenon DEF ReadParent, GotoWith
<1>2. At(t, "detach") /\ obj' = obj /\ queue' = queue /\ hdl_vector' \subseteq Obj /\ Calm
  BY Zenon DEF ReadParent, IInv, Typed
<1>3. x \in Pc
  BY Zenon, <1>1 DEF Pc, DestroyPc
<1>4. PICK a, b, f, h : /\ Move(a, b, f, h) /\ Sane(f, "detach") /\ h.pc = x
                        /\ h.obj = f.obj /\ h.at = p /\ h.sync = f.sync
  BY <1>1, <1>2, <1>3, GoneOn
<1>5. FrameOK(f) /\ f.pc = "detach"
  BY Zenon, <1>4 DEF Move, Own, Sane
<1>6. FrameOK(h)
  BY Zenon, <1>1, <1>4, <1>5 DEF FrameOK, Making, CreatePc, Attaching, Destroyer, Building, Looping
<1>7. Follows(f, h)
  BY Zenon, <1>1, <1>4, <1>5 DEF Follows, Making, CreatePc, Destroyer, Building, Looping
<1>8. \A o \in Obj : FrameRefs(f, o) = FrameRefs(h, o)
  <2>1. Alike(f, h)
    BY Zenon, <1>1, <1>4, <1>5 DEF Alike, Building, Looping
  <2> QED
    BY Zenon, <2>1, SameRefs
<1> QED
  BY <1>1, <1>2, <1>4, <1>5, <1>6, <1>7, <1>8, IdleMove, Zenon DEF Attaching, Looping

(* The head of the loop over the children.                                 *)
LEMMA ChildrenStep ==
  ASSUME IInv, NEW t \in Thr, Children(t)
  PROVE  IInv'
<1>1. At(t, "children") /\ obj' = obj /\ queue' = queue /\ hdl_vector' \subseteq Obj /\ Calm
  BY Zenon DEF Children, IInv, Typed
<1>2. PICK list : list = obj[Top(t).obj].obj_list
  BY Zenon
<1>3. list \in Seq(Obj)
  BY <1>1, <1>2, AtTop, Zenon DEF IInv, Typed, AlObj, Frame
<1>4. PICK a, b, f, h : /\ Move(a, b, f, h) /\ Sane(f, "children") /\ f = Top(t) /\ h.obj = f.obj
                        /\ \/ h.pc = "settle" /\ list = <<>>
                           \/ h.pc = "ref_child" /\ h.at \in Obj
  <2>1. CASE list = <<>>
    <3>1. Goto(t, "settle")
      BY Zenon, <1>2, <2>1 DEF Children
    <3> QED
      BY <1>1, <2>1, <3>1, GoneTo DEF Pc, DestroyPc
  <2>2. CASE list # <<>>
    <3>1. PICK c \in Obj : c = list[Len(list)]
      BY <1>3, <2>2
    <3>2. GotoWith(t, c, "ref_child")
      BY Zenon, <1>2, <2>2, <3>1 DEF Children, GotoWith
    <3>3. "ref_child" \in Pc
      BY Zenon DEF Pc, DestroyPc
    <3> QED
      BY <1>1, <3>1, <3>2, <3>3, GoneOn
  <2> QED
    BY Zenon, <2>1, <2>2
<1>5. FrameOK(f) /\ f.pc = "children"
  BY Zenon, <1>4 DEF Move, Own, Sane
<1>6. FrameOK(h)
  BY Zenon, <1>4, <1>5 DEF FrameOK, Making, CreatePc, Attaching, Destroyer, Building, Looping
<1>7. Follows(f, h)
  BY Zenon, <1>4, <1>5 DEF Follows, Making, CreatePc, Destroyer, Building, Looping
<1>8. \A o \in Obj : FrameRefs(f, o) = FrameRefs(h, o)
  <2>1. Alike(f, h)
    BY Zenon, <1>4, <1>5 DEF Alike, Building, Looping
  <2> QED
    BY <2>1, SameRefs
<1>9. h.pc \in Looping \/ obj[f.obj].obj_list = <<>>
  BY Zenon, <1>2, <1>4 DEF Looping
<1>10. h.pc \in Attaching <=> f.pc \in Attaching
  BY Zenon, <1>4, <1>5 DEF Attaching
<1> QED
  BY Zenon, <1>1, <1>4, <1>6, <1>7, <1>8, <1>9, <1>10, IdleMove

(* But for a part that the invariant does not speak of.                    *)
Same(o) ==
    /\ obj'[o].state = obj[o].state /\ obj'[o].ref_cnt = obj[o].ref_cnt
    /\ obj'[o].obj_list = obj[o].obj_list /\ obj'[o].p_parent_obj = obj[o].p_parent_obj
    /\ obj'[o].user_destroy_cb = obj[o].user_destroy_cb /\ obj'[o].event = obj[o].event

(* A call that only goes on, while objects stay the same.                  *)
LEMMA PlainMove ==
  ASSUME IInv, Typed', NEW a, NEW b, NEW f, NEW h, Move(a, b, f, h), Follows(f, h), FrameOK(h),
         \A o \in Obj : Same(o), queue' = queue, expired' = expired,
         h.pc \in Attaching <=> f.pc \in Attaching,
         f.pc \in Looping => h.pc \in Looping,
         \A o \in Obj : FrameRefs(f, o) = FrameRefs(h, o)
  PROVE  IInv'
<1>1. Same(h.obj)
  BY Zenon DEF Move, Own, Follows
<1>2. FrameOK(h)'
  BY <1>1, Zenon DEF FrameOK, Freed, ByEvent, Same
<1>3. ASSUME NEW o \in Obj PROVE Quiet(f, h, o)
  <2>1. Same(o)
    BY Zenon
  <2> QED
    BY Zenon, <2>1 DEF Quiet, Same
<1> QED
  BY Zenon, <1>2, <1>3, QuietMove

(* User mode may have the handle.                                          *)
LEMMA ValidStep ==
  ASSUME IInv, NEW t \in Thr, Valid(t)
  PROVE  IInv'
<1>1. PICK a, b, f, h : /\ Move(a, b, f, h) /\ Sane(f, "valid") /\ h.pc = "drop_init" /\ f = Top(t)
                        /\ h.obj = f.obj /\ h.at = f.at /\ h.sync = f.sync
  BY GoneTo DEF Valid, Pc, CreatePc
<1>2. FrameOK(f) /\ f.pc = "valid" /\ f.obj \in Obj /\ obj[f.obj] \in AlObj
  BY <1>1, Zenon DEF Move, Own, Sane, IInv, Typed
<1>3. PICK r \in AlObj : /\ r = [obj[f.obj] EXCEPT !.hdl_valid = TRUE]
                         /\ obj' = [obj EXCEPT ![f.obj] = r]
  BY <1>1, <1>2, Zenon DEF Valid, AlObj
<1>4. \A o \in Obj : Same(o)
  BY Zenon, <1>2, <1>3, Written DEF Same, AlObj
<1>5. queue' = queue /\ expired' = expired /\ Typed'
  BY Zenon, <1>1, <1>2, <1>3, Written DEF Valid, Calm, IInv, Typed, Move, Own
<1>6. FrameOK(h)
  BY Zenon, <1>1, <1>2 DEF FrameOK, Making, CreatePc, Attaching, Destroyer, Building, Looping
<1>7. Follows(f, h)
  BY <1>1, <1>2, Zenon DEF Follows, Making, CreatePc, Destroyer, Building, Looping
<1>8. \A o \in Obj : FrameRefs(f, o) = FrameRefs(h, o)
  <2>1. Alike(f, h)
    BY Zenon, <1>1, <1>2 DEF Alike, Abandoned, Attaching, Making, CreatePc
  <2> QED
    BY Zenon, <2>1, SameRefs
<1>9. (h.pc \in Attaching <=> f.pc \in Attaching) /\ (f.pc \in Looping => h.pc \in Looping)
  BY Zenon, <1>1, <1>2 DEF Attaching, Looping
<1> QED
  BY Zenon, <1>1, <1>4, <1>5, <1>6, <1>7, <1>8, <1>9, PlainMove

(* al_hdl_free_obj.                                                        *)
LEMMA FreeHdlStep ==
  ASSUME IInv, NEW t \in Thr, FreeHdl(t)
  PROVE  IInv'
<1>1. PICK a, b, f, h : /\ Move(a, b, f, h) /\ Sane(f, "free_hdl") /\ h.pc = "detach" /\ f = Top(t)
                        /\ h.obj = f.obj /\ h.at = f.at /\ h.sync = f.sync
  BY GoneTo DEF FreeHdl, Pc, DestroyPc
<1>2. FrameOK(f) /\ f.pc = "free_hdl" /\ f.obj \in Obj /\ obj[f.obj] \in AlObj
  BY <1>1, Zenon DEF Move, Own, Sane, IInv, Typed
<1>3. PICK v \in BOOLEAN : v = (obj[f.obj].hdl_valid /\ f.obj \notin hdl_vector)
  BY Zenon
<1>4. PICK r \in AlObj : /\ r = [obj[f.obj] EXCEPT !.hdl_valid = v]
                         /\ obj' = [obj EXCEPT ![f.obj] = r]
  <2>1. [obj[f.obj] EXCEPT !.hdl_valid = v] \in AlObj
    BY <1>2, <1>3, Zenon DEF AlObj
  <2>2. obj' = [obj EXCEPT ![f.obj] = [obj[f.obj] EXCEPT !.hdl_valid = v]]
    BY <1>1, <1>3, Zenon DEF FreeHdl
  <2> QED
    BY <2>1, <2>2, Zenon
<1>5. \A o \in Obj : Same(o)
  BY Zenon, <1>2, <1>4, Written DEF Same, AlObj
<1>6. queue' = queue /\ expired' = expired /\ Typed'
  BY Zenon, <1>1, <1>2, <1>4, Written DEF FreeHdl, Calm, IInv, Typed, Move, Own
<1>7. FrameOK(h)
  BY Zenon, <1>1, <1>2 DEF FrameOK, Making, CreatePc, Attaching, Destroyer, Building, Looping
<1>8. Follows(f, h)
  BY Zenon, <1>1, <1>2 DEF Follows, Making, CreatePc, Destroyer, Building, Looping
<1>9. \A o \in Obj : FrameRefs(f, o) = FrameRefs(h, o)
  <2>1. Alike(f, h)
    BY Zenon, <1>1, <1>2 DEF Alike, Building, Looping
  <2> QED
    BY Zenon, <2>1, SameRefs
<1>10. (h.pc \in Attaching <=> f.pc \in Attaching) /\ (f.pc \in Looping => h.pc \in Looping)
  BY Zenon, <1>1, <1>2 DEF Attaching, Looping
<1> QED
  BY Zenon, <1>1, <1>5, <1>6, <1>7, <1>8, <1>9, <1>10, PlainMove

(* destroy_obj settles whom the last reference tells.                      *)
LEMMA SettleStep ==
  ASSUME IInv, NEW t \in Thr, Settle(t)
  PROVE  IInv'
<1>1. PICK a, b, f, h : /\ Move(a, b, f, h) /\ Sane(f, "settle") /\ h.pc = "last" /\ f = Top(t)
                        /\ h.obj = f.obj /\ h.at = f.at /\ h.sync = f.sync
  BY GoneTo DEF Settle, Pc, DestroyPc
<1>2. FrameOK(f) /\ f.pc = "settle" /\ f.obj \in Obj /\ obj[f.obj] \in AlObj
  BY <1>1, Zenon DEF Move, Own, Sane, IInv, Typed
<1>3. PICK r \in AlObj : /\ r = [obj[f.obj] EXCEPT !.user_destroy_cb = IF f.sync THEN "sync" ELSE "NULL"]
                         /\ obj' = [obj EXCEPT ![f.obj] = r]
  BY <1>1, <1>2, Zenon DEF Settle, AlObj
<1>4. /\ r.user_destroy_cb = IF f.sync THEN "sync" ELSE "NULL"
      /\ r.state = obj[f.obj].state /\ r.ref_cnt = obj[f.obj].ref_cnt /\ r.event = obj[f.obj].event
      /\ r.obj_list = obj[f.obj].obj_list /\ r.p_parent_obj = obj[f.obj].p_parent_obj
  BY Zenon, <1>2, <1>3 DEF AlObj
<1>5. /\ obj' \in [Obj -> AlObj] /\ obj'[f.obj] = r
      /\ \A o \in Obj : o # f.obj => obj'[o] = obj[o]
  BY <1>2, <1>3, Written, Zenon
<1>6. queue' = queue /\ expired' = expired /\ Typed'
  BY Zenon, <1>1, <1>5 DEF Settle, Calm, IInv, Typed, Move, Own
<1>7. FrameOK(h)'
  BY <1>1, <1>2, <1>4, <1>5, Zenon
  DEF FrameOK, ByEvent, Making, CreatePc, Attaching, Destroyer, Building, Looping
<1>8. Follows(f, h)
  BY <1>1, <1>2, Zenon DEF Follows, Making, CreatePc, Destroyer, Building, Looping
<1>9. ASSUME NEW o \in Obj PROVE Quiet(f, h, o)
  BY <1>1, <1>2, <1>4, <1>5, Zenon DEF Quiet, Attaching, Looping
<1>10. \A o \in Obj : FrameRefs(f, o) = FrameRefs(h, o)
  <2>1. Alike(f, h)
    BY Zenon, <1>1, <1>2 DEF Alike, Building, Looping
  <2> QED
    BY <2>1, SameRefs
<1> QED
  BY Zenon, <1>1, <1>6, <1>7, <1>8, <1>9, <1>10, QuietMove

(* The wait for the other references ends.                                 *)
LEMMA WaitStep ==
  ASSUME IInv, NEW t \in Thr, Wait(t)
  PROVE  IInv'
<1>1. PICK a, b, f, h : /\ Move(a, b, f, h) /\ Sane(f, "wait") /\ h.pc = "cleanup" /\ f = Top(t)
                        /\ h.obj = f.obj /\ h.at = f.at /\ h.sync = f.sync
  BY GoneTo DEF Wait, Pc, DestroyPc
<1>2. FrameOK(f) /\ f.pc = "wait" /\ f.obj \in Obj /\ obj[f.obj] \in AlObj
  BY <1>1, Zenon DEF Move, Own, Sane, IInv, Typed
<1>3. PICK r \in AlObj : /\ r = [obj[f.obj] EXCEPT !.event = FALSE]
                         /\ obj' = [obj EXCEPT ![f.obj] = r]
  BY <1>1, <1>2, Zenon DEF Wait, AlObj
<1>4. /\ r.user_destroy_cb = obj[f.obj].user_destroy_cb
      /\ r.state = obj[f.obj].state /\ r.ref_cnt = obj[f.obj].ref_cnt /\ r.event = FALSE
      /\ r.obj_list = obj[f.obj].obj_list /\ r.p_parent_obj = obj[f.obj].p_parent_obj
  BY Zenon, <1>2, <1>3 DEF AlObj
<1>5. /\ obj' \in [Obj -> AlObj] /\ obj'[f.obj] = r
      /\ \A o \in Obj : o # f.obj => obj'[o] = obj[o]
  BY <1>2, <1>3, Written, Zenon
<1>6. queue' = queue /\ expired' = expired /\ Typed'
  BY Zenon, <1>1, <1>5 DEF Wait, Calm, IInv, Typed, Move, Own
<1>7. FrameOK(h)'
  <2>1. f.obj \notin expired /\ obj[f.obj].event /\ Counted(f.obj)
    BY Zenon, <1>1, <1>2 DEF FrameOK, Wait, IInv
  <2>2. r.ref_cnt = 0
    BY Zenon, <1>4, <2>1 DEF Counted
  <2> QED
    BY <1>1, <1>2, <1>4, <1>5, <2>2, Zenon
    DEF FrameOK, Making, CreatePc, Attaching, Destroyer, Building, Looping
<1>8. Follows(f, h)
  BY Zenon, <1>1, <1>2 DEF Follows, Making, CreatePc, Destroyer, Building, Looping
<1>9. ASSUME NEW o \in Obj PROVE Quiet(f, h, o)
  BY <1>1, <1>2, <1>4, <1>5, Zenon DEF Quiet, Attaching, Looping
<1>10. \A o \in Obj : FrameRefs(f, o) = FrameRefs(h, o)
  <2>1. Alike(f, h)
    BY Zenon, <1>1, <1>2 DEF Alike
  <2> QED
    BY <2>1, SameRefs
<1> QED
  BY Zenon, <1>1, <1>6, <1>7, <1>8, <1>9, <1>10, QuietMove

=============================================================================
