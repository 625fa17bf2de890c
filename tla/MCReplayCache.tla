---------------------------- MODULE MCReplayCache ----------------------------
(* ReplayCache on a small instance: three keys, a limit of two, and two     *)
(* fibers whose clock readings can reach the cache in either order.         *)
EXTENDS ReplayCache, TLC

CONSTANTS k1, k2, k3, f1, f2

MCKeys == {k1, k2, k3}
MCFibers == {f1, f2}
\* Keys are interchangeable, and so are fibers.
Symmetry == Permutations(MCKeys) \cup Permutations(MCFibers)
=============================================================================
