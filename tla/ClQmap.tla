------------------------------- MODULE ClQmap -------------------------------
(***************************************************************************)
(* The ordered map of core/complib/cl_map.c: a red-black tree whose items  *)
(* are also linked in a list in the order of their keys.  cl_qmap is       *)
(* translated; cl_fmap and cl_rbmap in the same file repeat its rotations  *)
(* and its two loops of rebalancing for other key types.                   *)
(*                                                                         *)
(* An item is its key.  Top is the sentinel above the root of the tree,   *)
(* Nil the one leaf, whose p_up the code uses while it rebalances.  The    *)
(* code's left and right branches mirror each other, and are one operator  *)
(* here with the side as a parameter.                                      *)
(***************************************************************************)
EXTENDS Integers, Sequences, FiniteSets

CONSTANTS
    MapKey,
    MapSource       \* bound: the keys of the maps that are merged and compared

ASSUME MapKeyAssumption == MapKey \subseteq Nat \ {0} /\ MapSource \subseteq SUBSET MapKey

VARIABLES
    qmap,       \* the nodes of the map and its list
    keys,       \* the reference: the keys the map should have
    agrees      \* the last merge or delta left what it should

mapvars == <<qmap, keys, agrees>>

Top == 0
Nil == -1

Opp(side) == IF side = "left" THEN "right" ELSE "left"

Alone(x) == [p_up |-> x, left |-> Nil, right |-> Nil, red |-> FALSE]

EmptyMap == [node |-> [x \in MapKey \cup {Top, Nil} |-> Alone(x)], list |-> <<>>]

(* __cl_map_is_left_child, __cl_map_get_parent_ptr_to_item.                *)
SideOf(t, x) == IF t[t[x].p_up].left = x THEN "left" ELSE "right"

Paint(t, x, red) == [t EXCEPT ![x].red = red]

(* __cl_map_rot_left, __cl_map_rot_right.                                  *)
Rotate(t, x, side) ==
    LET c == t[x][Opp(side)]  b == t[c][side]  r == t[x].p_up IN
    [t EXCEPT ![r][SideOf(t, x)] = c, ![c].p_up = r, ![x][Opp(side)] = b,
              ![b].p_up = IF b = Nil THEN @ ELSE x,
              ![c][side] = x, ![x].p_up = c]

(* The descent of cl_qmap_get and cl_qmap_insert: the last item before Nil *)
(* or the item with the key.                                               *)
RECURSIVE Descend(_, _, _, _)
Descend(t, at, x, k) ==
    IF x = Nil \/ at = k THEN at
    ELSE Descend(t, x, IF k < x THEN t[x].left ELSE t[x].right, k)

Locate(m, k) == Descend(m.node, Top, m.node[Top].left, k)
GetItem(m, k) == IF Locate(m, k) = k THEN k ELSE Nil

-----------------------------------------------------------------------------
(* cl_qmap_insert *)

(* __cl_map_ins_bal: the grandparent of x, whose uncle is black, goes down.*)
LowerGrandparent(t, x, s) ==
    LET p == t[x].p_up  g == t[p].p_up IN
    Rotate(Paint(Paint(t, p, FALSE), g, TRUE), g, Opp(s))

RECURSIVE InsBal(_, _)
InsBal(t, x) ==
    LET p == t[x].p_up  g == t[p].p_up  s == SideOf(t, p)  u == t[g][Opp(s)] IN
    CASE ~t[p].red -> t
      [] t[p].red /\ t[u].red ->
             InsBal(Paint(Paint(Paint(t, u, FALSE), p, FALSE), g, TRUE), g)
      [] t[p].red /\ ~t[u].red /\ SideOf(t, x) # s ->
             InsBal(LowerGrandparent(Rotate(t, p, s), p, s), p)
      [] OTHER -> InsBal(LowerGrandparent(t, x, s), x)

RootBlack(t) == Paint(t, t[Top].left, FALSE)

(* __cl_primitive_insert of k in front of item x.                          *)
InFrontOf(list, x, k) ==
    LET n == CHOOSE i \in 1..(Len(list) + 1) : IF x = Nil THEN i = Len(list) + 1 ELSE list[i] = x
    IN SubSeq(list, 1, n - 1) \o <<k>> \o SubSeq(list, n, Len(list))

NextItem(list, x) ==
    LET i == CHOOSE j \in 1..Len(list) : list[j] = x
    IN IF i = Len(list) THEN Nil ELSE list[i + 1]

InsertItem(m, k) ==
    LET at == Locate(m, k)
        side == IF at = Top \/ k < at THEN "left" ELSE "right"
        t == [m.node EXCEPT ![at][side] = k,
                 ![k] = [p_up |-> at, left |-> Nil, right |-> Nil, red |-> TRUE]] IN
    IF at = k THEN m
    ELSE [node |-> RootBlack(InsBal(t, k)),
          list |-> InFrontOf(m.list, IF at = Top THEN Nil ELSE IF side = "left" THEN at
                                     ELSE NextItem(m.list, at), k)]

-----------------------------------------------------------------------------
(* cl_qmap_remove_item *)

(* __cl_map_del_bal.  A red uncle is lowered, so that x has a black one.   *)
(* Mutant: a red uncle is taken for a black one.                           *)
BlackUncle_Red(t, x, s) == t

BlackUncle(t, x, s) ==
    LET p == t[x].p_up  u == t[p][Opp(s)] IN
    IF t[u].red THEN Rotate(Paint(Paint(t, u, FALSE), p, TRUE), p, s) ELSE t

(* The outer child of uncle u is red, if need be after a rotation.         *)
OuterRed(t, u, s) ==
    IF t[t[u][Opp(s)]].red THEN t
    ELSE Rotate(Paint(Paint(t, t[u][s], FALSE), u, TRUE), u, Opp(s))

(* The last rotation, and x black.                                         *)
LowerParent(t, x, s) ==
    LET p == t[x].p_up  u == t[p][Opp(s)] IN
    Paint(Rotate([t EXCEPT ![u].red = t[p].red, ![p].red = FALSE, ![t[u][Opp(s)]].red = FALSE],
                 p, s), x, FALSE)

RECURSIVE DelBal(_, _), DelBelow(_, _, _)
DelBal(t, x) ==
    IF t[x].red \/ t[x].p_up = Top THEN Paint(t, x, FALSE)
    ELSE DelBelow(BlackUncle(t, x, SideOf(t, x)), x, SideOf(t, x))

DelBelow(t, x, s) ==
    LET p == t[x].p_up  u == t[p][Opp(s)] IN
    IF ~t[t[u].left].red /\ ~t[t[u].right].red
    THEN DelBal(Paint(t, u, TRUE), p)
    ELSE LowerParent(OuterRed(t, u, s), x, s)

(* cl_qmap_remove_item: d is spliced out of the tree ...                   *)
Splice(t, d) ==
    LET child == IF t[d].left # Nil THEN t[d].left ELSE t[d].right
        t1 == [t EXCEPT ![child].p_up = t[d].p_up, ![t[d].p_up][SideOf(t, d)] = child] IN
    IF t[d].red THEN t1 ELSE DelBal(t1, child)

(* ... and takes the place of item x, at which nobody looks again.         *)
Exchange(t, x, d) ==
    IF d = x THEN [t EXCEPT ![x] = Alone(x)]
    ELSE [t EXCEPT ![d] = t[x], ![t[x].p_up][SideOf(t, x)] = d,
                   ![t[x].right].p_up = d, ![t[x].left].p_up = d, ![x] = Alone(x)]

(* d is the item, or the next one if the item has two children.            *)
SpliceOut(m, x) ==
    LET d == IF m.node[x].right = Nil \/ m.node[x].left = Nil THEN x ELSE NextItem(m.list, x) IN
    [node |-> Exchange(Splice(m.node, d), x, d),
     list |-> SelectSeq(m.list, LAMBDA y : y # x)]

RemoveItem(m, x) == IF x = Nil THEN m ELSE SpliceOut(m, x)

-----------------------------------------------------------------------------
(* cl_qmap_merge: what the source shares with the destination goes back.   *)
RECURSIVE MergeMaps(_, _, _)
MergeMaps(dst, src, x) ==
    IF x = Nil THEN <<dst, src>>
    ELSE LET next == NextItem(src.list, x)  less == RemoveItem(src, x) IN
         IF GetItem(dst, x) = Nil THEN MergeMaps(InsertItem(dst, x), less, next)
                              ELSE MergeMaps(dst, InsertItem(less, x), next)

FirstItem(m) == IF m.list = <<>> THEN Nil ELSE Head(m.list)

(* cl_qmap_delta: the two are walked together, and what only one has is    *)
(* moved out of it.                                                        *)
RECURSIVE DeltaMaps(_, _, _, _, _, _)
DeltaMaps(m1, m2, new, old, x, y) ==
    CASE x # Nil /\ (y = Nil \/ x < y) ->
             DeltaMaps(RemoveItem(m1, x), m2, new, InsertItem(old, x), NextItem(m1.list, x), y)
      [] y # Nil /\ (x = Nil \/ y < x) ->
             DeltaMaps(m1, RemoveItem(m2, y), InsertItem(new, y), old, x, NextItem(m2.list, y))
      [] x # Nil /\ x = y ->
             DeltaMaps(m1, m2, new, old, NextItem(m1.list, x), NextItem(m2.list, y))
      [] OTHER -> <<m1, m2, new, old>>

(* A second map, with the keys of S inserted in ascending order.           *)
RECURSIVE BuildMap(_, _)
BuildMap(m, S) ==
    IF S = {} THEN m
    ELSE LET k == CHOOSE x \in S : \A y \in S : x <= y IN BuildMap(InsertItem(m, k), S \ {k})

-----------------------------------------------------------------------------
InTree(m) == {k \in MapKey : GetItem(m, k) = k}

(* A red item has no red child, and all ways down have as many blacks.     *)
RECURSIVE BlackHeight(_, _)
BlackHeight(t, x) ==        \* -1: not the same everywhere below x
    IF x = Nil THEN 1
    ELSE LET l == BlackHeight(t, t[x].left)  r == BlackHeight(t, t[x].right) IN
         IF l = r /\ l # -1 THEN l + IF t[x].red THEN 0 ELSE 1 ELSE -1

RedBlack(m) ==
    LET t == m.node IN
    /\ ~t[t[Top].left].red /\ BlackHeight(t, t[Top].left) # -1
    /\ \A k \in InTree(m) : t[k].red => ~t[t[k].left].red /\ ~t[t[k].right].red

InOrder(m) ==
    /\ \A i, j \in 1..Len(m.list) : i < j => m.list[i] < m.list[j]
    /\ {m.list[i] : i \in 1..Len(m.list)} = InTree(m)

(* A well-formed map of the keys in S.                                     *)
IsMapOf(m, S) == InTree(m) = S /\ RedBlack(m) /\ InOrder(m)

-----------------------------------------------------------------------------
MapInit == qmap = EmptyMap /\ keys = {} /\ agrees = TRUE

MapInsert(k) ==
    /\ qmap' = InsertItem(qmap, k) /\ keys' = keys \cup {k} /\ agrees' = TRUE

(* cl_qmap_remove, also of a key that is not there.                        *)
MapRemove(k) ==
    /\ qmap' = RemoveItem(qmap, GetItem(qmap, k)) /\ keys' = keys \ {k} /\ agrees' = TRUE

MapMerge(S) ==
    LET src == BuildMap(EmptyMap, S) IN
    \E res \in {MergeMaps(qmap, src, FirstItem(src))} :
        /\ qmap' = res[1] /\ keys' = keys \cup S
        /\ agrees' = IsMapOf(res[2], S \cap keys)

MapDelta(S) ==
    LET other == BuildMap(EmptyMap, S) IN
    \E res \in {DeltaMaps(qmap, other, EmptyMap, EmptyMap, FirstItem(qmap), FirstItem(other))} :
        /\ qmap' = res[1] /\ keys' = keys \cap S
        /\ agrees' = /\ IsMapOf(res[2], keys \cap S)
                     /\ IsMapOf(res[3], S \ keys) /\ IsMapOf(res[4], keys \ S)

MapNext ==
    \/ \E k \in MapKey : MapInsert(k) \/ MapRemove(k)
    \/ \E S \in MapSource : MapMerge(S) \/ MapDelta(S)

-----------------------------------------------------------------------------
(* Properties *)

(* After any sequence of calls cl_qmap_get finds the keys that are in the  *)
(* map and no others, the list has them in ascending order, and the tree   *)
(* is a red-black tree, so that searches stay logarithmic.  Every item is  *)
(* a child of its p_up, which the removal of an item relies on; Nil is     *)
(* black and the sentinel's parent is itself, as the assertions of         *)
(* cl_qmap_insert and cl_qmap_remove_item say.  The maps that a merge or a *)
(* delta leaves beside this one are sound as well, with the keys that      *)
(* set operations give.                                                    *)
MapIsSound ==
    /\ IsMapOf(qmap, keys) /\ agrees
    /\ \A k \in keys : k \in {qmap.node[qmap.node[k].p_up].left, qmap.node[qmap.node[k].p_up].right}
    /\ ~qmap.node[Nil].red /\ ~qmap.node[Top].red /\ qmap.node[Top].p_up = Top
=============================================================================
