----------------------------- MODULE MCServerLogger -----------------------------
(* Two threads, a buffer in which two records fit, and enough refused writes to    *)
(* fill it.                                                                        *)
EXTENDS ServerLogger, TLC

WorkerSymmetry == Permutations(Workers)
================================================================================
