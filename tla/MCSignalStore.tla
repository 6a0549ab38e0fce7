---------------------------- MODULE MCSignalStore ----------------------------
(* TLC instance of SignalStore: model values are interchangeable.          *)
EXTENDS SignalStore, TLC

Symmetry == Permutations(Batches)
=============================================================================
