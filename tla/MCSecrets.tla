------------------------------ MODULE MCSecrets ------------------------------
(***************************************************************************)
(* Model values for Secrets: two rows, keys, orchestrators and tags, so     *)
(* that each can disagree with another.                                    *)
(***************************************************************************)
EXTENDS Secrets, TLC

CONSTANTS r1, r2

Symmetry == Permutations(Secret) \cup Permutations(Key) \cup Permutations(Node)
                \cup Permutations(Tag)
=============================================================================
