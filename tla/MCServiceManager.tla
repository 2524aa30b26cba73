-------------------------- MODULE MCServiceManager --------------------------
(* Model checking of ServiceManager: its requests are interchangeable. *)
EXTENDS ServiceManager, TLC

Symmetry == Permutations(Requests)
=============================================================================
