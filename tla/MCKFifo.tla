------------------------------- MODULE MCKFifo -------------------------------
(* Model-checking instances of KFifo. *)
EXTENDS KFifo, TLC

\* Only the contents of the bytes are interchangeable.
ValueSymmetry == Permutations(Values)
=============================================================================
