--------------------------- MODULE MCGraphicsLoop ---------------------------
(* GraphicsLoop on a small VI counter.                                     *)
EXTENDS GraphicsLoop, TLC

SlowRates == {2, 3}
OneRate == {2}
OneScene == {1}
TwoScenes == {1, 2}
PoolSymmetry == Permutations(Pool)
=============================================================================
