----------------------------- MODULE MerkleTerms -----------------------------
(***************************************************************************)
(* Hashes of core/mmr.rs as terms: a hash is what it was computed from, so *)
(* equal hashes mean equal inputs.                                         *)
(***************************************************************************)
EXTENDS Integers, Sequences, SequencesExt

hash_node(l, r, mode) == <<IF mode THEN "v2" ELSE "v1", l, r>>
Leaf(n) == <<"leaf", n, n>>
Zero == Leaf(0)

Element(h, right) == [hash |-> h, is_right |-> right]
\* A leaf and the siblings above it, the lowest first.
Reconstruct(leaf, siblings, mode) ==
    FoldLeft(LAMBDA cur, e : IF e.is_right THEN hash_node(cur, e.hash, mode)
                             ELSE hash_node(e.hash, cur, mode),
             leaf, siblings)
=============================================================================
