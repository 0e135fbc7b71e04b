------------------------------ MODULE MCRegistry ------------------------------
(* A small registry: more usernames than USER_IDs, so that capacity, reuse   *)
(* and refusal of a held name all happen.                                    *)
EXTENDS Registry, TLC

UsernameSymmetry == Permutations(Usernames)
===============================================================================
