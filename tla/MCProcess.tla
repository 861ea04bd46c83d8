----------------------------- MODULE MCProcess -----------------------------
(* Small instances of Process. *)
EXTENDS Process, TLC

CONSTANTS init, p1, p2, p3

ThreeProcs == {init, p1, p2}
FourProcs  == {init, p1, p2, p3}
Children   == Permutations(Proc \ {init})
=============================================================================
