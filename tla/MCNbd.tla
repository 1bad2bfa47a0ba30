------------------------------- MODULE MCNbd -------------------------------
EXTENDS Nbd
=============================================================================
