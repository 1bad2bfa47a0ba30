------------------------------- MODULE MCVbd -------------------------------
(* Small instances of Vbd for TLC.                                          *)
EXTENDS Vbd, TLC

CONSTANTS r1, r2, r3

(* Requests differ only in their names.                                     *)
Symm == Permutations(Reqs)

=============================================================================
