------------------------------ MODULE MCXLAutoPtr ------------------------------
(* XLAutoPtr for TLC: threads, pointers, objects and counters are alike.      *)
EXTENDS XLAutoPtr, TLC

Symmetry == Permutations(Threads) \cup Permutations(Ptrs)
            \cup Permutations(Objects) \cup Permutations(Counters)
================================================================================
