----------------------------- MODULE MCWorkqueue -----------------------------
(* Model-checking instances of Workqueue. *)
EXTENDS Workqueue, TLC

\* Tasks and works are interchangeable among themselves.
WorkqueueSymmetry == Permutations(Tasks) \cup Permutations(Works)
=============================================================================
