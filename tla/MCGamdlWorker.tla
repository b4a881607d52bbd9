---------------------------- MODULE MCGamdlWorker ----------------------------
(* GamdlWorker with pipes that hold one line, so that every write may block. *)
EXTENDS GamdlWorker, TLC

CONSTANTS g1, g2, g3

MCCallers == {g1, g2, g3}
MCTwoCallers == {g1, g2}
MCSymmetry == Permutations(MCCallers)
=============================================================================
