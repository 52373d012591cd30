------------------------------ MODULE MCCmpHash ------------------------------
(* CmpHash with counters of three bits: contents that fit, and contents    *)
(* that make the counters wrap.                                            *)
EXTENDS CmpHash
=============================================================================
