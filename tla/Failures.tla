-------------------------------- MODULE Failures --------------------------------
(***************************************************************************)
(* What failures of the surroundings leave behind: of a file that was not  *)
(* synced when the machine died, and of a channel whose other end died.    *)
(***************************************************************************)
EXTENDS Integers, Sequences

CONSTANT Hole      \* a block whose write never reached the disk

\* Blocks written last may be missing, at the end or in between.
Torn(content) ==
  UNION {{SubSeq(content, 1, n),
          [i \in DOMAIN content |-> IF i <= n THEN content[i] ELSE Hole]} :
           n \in 0..Len(content)}

\* The frames, or blocks, beyond the first n are lost.
PrefixesFrom(n, q) == {SubSeq(q, 1, m) : m \in n..Len(q)}
Prefixes(q) == PrefixesFrom(0, q)
================================================================================
