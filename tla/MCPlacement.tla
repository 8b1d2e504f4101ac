----------------------------- MODULE MCPlacement -----------------------------
(* Constants and symmetry for the model-checking runs of Placement. *)
EXTENDS Placement, AtomicPlacement, TLC

\* Ids and calls are interchangeable; nothing chooses among them.
Interchangeable == Permutations(Entry) \cup Permutations(Draw) \cup Permutations(Call)
==============================================================================
