---------------------------- MODULE MCTokenBucket ----------------------------
(* Two callers that ask for one token, or for more than the bucket holds.    *)
EXTENDS TokenBucket, TLC

Symmetry == Permutations(Callers)
==============================================================================
