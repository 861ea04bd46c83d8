--------------------------- MODULE MCBufferCache ---------------------------
(* Small instances of BufferCache. *)
EXTENDS BufferCache, TLC

CONSTANTS t1, t2, t3

TwoThreads   == {t1, t2}
ThreeThreads == {t1, t2, t3}

\* Every thread works on every sector.
AllShare == [t \in Thread |-> Sector]

TwoSymmetry == Permutations(TwoThreads)
ThreeSymmetry == Permutations(ThreeThreads)
=============================================================================
