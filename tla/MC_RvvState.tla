----------------------------- MODULE MC_RvvState -----------------------------
(* Model-checking instance of RvvState: two context slots, two threads.   *)
EXTENDS RvvState, TLC

CONSTANTS c1, c2, t1, t2

MC_Ctx == {c1, c2}
MC_Thr == {t1, t2}

MC_Symmetry == Permutations(MC_Ctx) \cup Permutations(MC_Thr)
=============================================================================
