----------------------------- MODULE MCXenBlkif -----------------------------
(* Instances of XenBlkif for TLC.                                           *)
EXTENDS XenBlkif, TLC

CONSTANTS r1, w1, w2, b1, f1
=============================================================================
