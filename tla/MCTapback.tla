----------------------------- MODULE MCTapback -----------------------------
EXTENDS Tapback
=============================================================================
