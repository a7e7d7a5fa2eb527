------------------------------- MODULE ObjTree -------------------------------
(***************************************************************************)
(* A process's object registry, proc->obj_tree: a red-black tree of        *)
(* struct binder_obj ordered by obj_id_cmp on the (owner, binder) pair.     *)
(* _binder_find_obj descends it under obj_lock; the callers that intern an  *)
(* object (bcmd_write_flat_obj for a BINDER, bcmd_read_flat_obj for a       *)
(* HANDLE) look it up and, on a miss, call _binder_new_obj, which descends  *)
(* again under the lock, returns an object another thread linked in the     *)
(* meantime, or links a new red node and rebalances (rb_insert_color).      *)
(*                                                                         *)
(* A tree is a record of functions over the node slots 1..MaxObjs, 0 being  *)
(* the NULL rb_node: key, left, right, parent, red; root and size.  Slots   *)
(* are used in allocation order.                                            *)
(***************************************************************************)
EXTENDS Integers, Functions

CONSTANTS
    Threads,    \* threads of the process interning objects
    Owners,     \* owner queue addresses, as small integers
    Binders,    \* binder pointers (0 is the NULL of the context manager)
    MaxObjs,    \* bound on the nodes of the tree
    Width       \* bits of size_t

Keys  == Owners \X Binders
Slots == 1..MaxObjs
Nil   == 0

VARIABLES
    tree,   \* proc->obj_tree
    pc,     \* "idle", or "new" between the lookup and _binder_new_obj
    want    \* the obj_id the thread is interning

vars == <<tree, pc, want>>

(* obj_id_cmp as written: the difference of two pointers is stored in a    *)
(* size_t, so "sign > 0" holds for every non-zero difference.               *)
ObjIdCmp(a, b) ==
    LET SizeT(x) == x % (2 ^ Width)
        owner  == SizeT(a[1] - b[1])
        binder == SizeT(a[2] - b[2])
    IN  IF owner # 0 THEN (IF owner > 0 THEN 1 ELSE -1)
        ELSE IF binder # 0 THEN (IF binder > 0 THEN 1 ELSE -1)
        ELSE 0

Other(d) == IF d = "left" THEN "right" ELSE "left"
IsRed(T, n) == n # Nil /\ T.red[n]

(* The descent shared by _binder_find_obj and _binder_new_obj: the node    *)
(* whose id compares equal, or Nil with the parent and side to link at.    *)
RECURSIVE Walk(_, _, _, _, _)
Walk(T, k, n, parent, side) ==
    IF n = Nil THEN [found |-> Nil, parent |-> parent, side |-> side]
    ELSE LET r == ObjIdCmp(k, T.key[n])
         IN  IF r < 0 THEN Walk(T, k, T.left[n], n, "left")
             ELSE IF r > 0 THEN Walk(T, k, T.right[n], n, "right")
             ELSE [found |-> n, parent |-> parent, side |-> side]

(* _binder_find_obj: the object with id k, or Nil.                          *)
FindObj(T, k) == Walk(T, k, T.root, Nil, "left").found

(* y takes x's place under x's parent (__rb_change_child).                  *)
ChangeChild(T, x, y) ==
    LET p == T.parent[x]
    IN  IF p = Nil THEN [T EXCEPT !.root = y]
        ELSE IF T.left[p] = x THEN [T EXCEPT !.left[p] = y]
        ELSE [T EXCEPT !.right[p] = y]

(* A rotation that moves x down on side d and its other child y up.        *)
Rotate(T, x, d) ==
    LET y  == T[Other(d)][x]
        b  == T[d][y]
        T1 == [T EXCEPT ![Other(d)][x] = b]
        T2 == IF b = Nil THEN T1 ELSE [T1 EXCEPT !.parent[b] = x]
        T3 == ChangeChild(T2, x, y)
    IN  [T3 EXCEPT ![d][y] = x, !.parent[y] = T.parent[x], !.parent[x] = y]

(* rb_insert_color: restore the red-black rules above the red node n.      *)
RECURSIVE InsertColor(_, _)
InsertColor(T, n) ==
    LET p == T.parent[n]
    IN  IF p = Nil THEN [T EXCEPT !.red[n] = FALSE]
        ELSE IF ~T.red[p] THEN T
        ELSE LET g     == T.parent[p]
                 d     == IF T.left[g] = p THEN "left" ELSE "right"
                 u     == T[Other(d)][g]
                 inner == n = T[Other(d)][p]
                 T1    == IF inner THEN Rotate(T, p, d) ELSE T
                 top   == IF inner THEN n ELSE p
                 T2    == Rotate(T1, g, Other(d))
             IN  IF IsRed(T, u)
                 THEN InsertColor([T EXCEPT !.red[p] = FALSE, !.red[u] = FALSE,
                                            !.red[g] = TRUE], g)
                 ELSE [T2 EXCEPT !.red[top] = FALSE, !.red[g] = TRUE]

(* _binder_new_obj: the object with id k if the descent meets one ("other  *)
(* thread has created an object before we do"), else a new node linked at  *)
(* the end of the descent (rb_link_node) and rebalanced.                   *)
NewObj(T, k) ==
    LET w  == Walk(T, k, T.root, Nil, "left")
        n  == T.size + 1
        T1 == [T EXCEPT !.size = n, !.key[n] = k, !.red[n] = TRUE,
                        !.parent[n] = w.parent]
        T2 == IF w.parent = Nil THEN [T1 EXCEPT !.root = n]
              ELSE [T1 EXCEPT ![w.side][w.parent] = n]
    IN  IF w.found # Nil THEN T ELSE InsertColor(T2, n)

(* The ids the tree holds.                                                  *)
Stored(T) == Range(Restrict(T.key, 1..T.size))

(* binder_proc_init: proc->obj_tree.rb_node = NULL.                         *)
EmptyTree ==
    [key |-> [s \in Slots |-> <<Nil, Nil>>],
     left |-> [s \in Slots |-> Nil], right |-> [s \in Slots |-> Nil],
     parent |-> [s \in Slots |-> Nil], red |-> [s \in Slots |-> FALSE],
     root |-> Nil, size |-> 0]

Init ==
    /\ tree = EmptyTree
    /\ pc = [t \in Threads |-> "idle"]
    /\ want = [t \in Threads |-> <<Nil, Nil>>]

(* The lookup of bcmd_write_flat_obj (BINDER) or bcmd_read_flat_obj        *)
(* (HANDLE): a hit ends the translation of this descriptor, a miss goes on *)
(* to _binder_new_obj after obj_lock is dropped.                            *)
Lookup(t) ==
    /\ pc[t] = "idle"
    /\ \E k \in Keys :
          /\ pc' = [pc EXCEPT ![t] = IF FindObj(tree, k) = Nil THEN "new" ELSE "idle"]
          /\ want' = [want EXCEPT ![t] = k]
    /\ UNCHANGED tree

(* _binder_new_obj, under obj_lock again.                                   *)
Insert(t) ==
    /\ pc[t] = "new"
    /\ tree.size < MaxObjs
    /\ tree' = NewObj(tree, want[t])
    /\ pc' = [pc EXCEPT ![t] = "idle"]
    /\ UNCHANGED want

Next == \E t \in Threads : Lookup(t) \/ Insert(t)

Spec == Init /\ [][Next]_vars

TypeOK ==
    /\ tree.size \in 0..MaxObjs
    /\ tree.root \in 0..MaxObjs
    /\ pc \in [Threads -> {"idle", "new"}]
    /\ want \in [Threads -> Keys \cup {<<Nil, Nil>>}]

(* RegistryIsAMap: proc->obj_tree holds each id at most once, even when   *)
(* two threads intern the same id with obj_lock dropped between lookup and *)
(* insert, and _binder_find_obj finds exactly the ids it holds.  So a      *)
(* BINDER written twice or a HANDLE read twice resolves to the object made *)
(* the first time, and a HANDLE a process was given is accepted when it    *)
(* writes it back.                                                          *)
RegistryIsAMap ==
    /\ IsInjective(Restrict(tree.key, 1..tree.size))
    /\ \A k \in Keys : (FindObj(tree, k) # Nil) = (k \in Stored(tree))
=============================================================================
