----------------------------- MODULE MCBlockVhd -----------------------------
(* Small instances of BlockVhd for TLC.                                     *)
EXTENDS BlockVhd, TLC

CONSTANTS w1, w2, w3, w4

(* Requests differ only in their names.                                     *)
Symm == Permutations(Reqs)

=============================================================================
