------------------------------ MODULE MCBinder ------------------------------
(* Binder instantiated for TLC: two processes A (one thread) and B (two     *)
(* threads), one binder pointer, one cookie.                                *)
EXTENDS Binder, TLC

CONSTANTS A, B, a1, a2, b1, b2, ptr1, cookie1

MCProcOf == [t \in Threads |-> IF t = a1 THEN A ELSE B]

(* Every thread in process A. *)
OneProcOf == [t \in Threads |-> A]

(* a1 and a2 in process A, every other thread in B. *)
TwoInAProcOf == [t \in Threads |-> IF t \in {a1, a2} THEN A ELSE B]

(* No data; data without offsets; a BINDER; HANDLEs naming an object of    *)
(* A, of B and of no live queue.                                            *)
MCPayloads ==
    {NoData, Plain, Desc("BINDER", ptr1, cookie1), Desc("HANDLE", ptr1, A),
     Desc("HANDLE", ptr1, B), Desc("HANDLE", ptr1, Foreign)}

(* No data, or a HANDLE naming an object of B: enough for B's registry to *)
(* hold an object its threads can ask death notifications for.            *)
SmallPayloads == {NoData, Desc("HANDLE", ptr1, B)}

(* No data, or a HANDLE naming an object of A or of B: a read that        *)
(* succeeds, one that fails with EFAULT and one that loops.                *)
HandlePayloads == {NoData, Desc("HANDLE", ptr1, A), Desc("HANDLE", ptr1, B)}

(* Messages without data only. *)
NoDataPayloads == {NoData}

(* Every value an uninitialised thread->state can hold. *)
AnyState == 0..3

(* B's two threads are interchangeable. *)
ThreadSymmetry == Permutations({b1, b2})
=============================================================================
