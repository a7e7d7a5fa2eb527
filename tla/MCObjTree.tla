------------------------------ MODULE MCObjTree ------------------------------
EXTENDS ObjTree, TLC

CONSTANTS t1, t2

(* obj_id_cmp with the difference kept signed, as the "sign > 0" test      *)
(* means it: the order of (owner, binder) pairs.                            *)
SignedObjIdCmp(a, b) ==
    IF a[1] # b[1] THEN (IF a[1] > b[1] THEN 1 ELSE -1)
    ELSE IF a[2] # b[2] THEN (IF a[2] > b[2] THEN 1 ELSE -1)
    ELSE 0

ThreadSymmetry == Permutations({t1, t2})
=============================================================================
