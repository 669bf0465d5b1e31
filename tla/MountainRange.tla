---------------------------- MODULE MountainRange ----------------------------
(***************************************************************************)
(* The Merkle mountain range of core/mmr.rs: an append-only list of block  *)
(* hashes whose nodes are stored in post-order, positions from 0.  Every   *)
(* block appends its hash in the hashing mode of its height; blocks after  *)
(* the activation height use the second mode.                              *)
(***************************************************************************)
EXTENDS MerkleTerms, FiniteSets

CONSTANT MaxLeaves     \* bound: leaves appended

VARIABLES
    range, leafCount,  \* MerkleMountainRange: nodes, leaf_count
    v2                 \* the hashing mode in force

vars == <<range, leafCount, v2>>

RECURSIVE Descend(_, _), Carve(_, _), Merge(_, _, _, _), Climb(_, _, _, _, _)

\* The smallest height whose perfect tree holds the position.
Tall(pos) == CHOOSE h \in 0..pos : pos < 2^(h + 1) - 1 /\ (h = 0 \/ 2^h - 1 <= pos)
Descend(pos, h) ==
    IF pos = 2^(h + 1) - 2 THEN h
    ELSE Descend(IF pos >= 2^h - 1 THEN pos - (2^h - 1) ELSE pos, h - 1)
pos_height(pos) == Descend(pos, Tall(pos))

popcount(n) == Cardinality({i \in 0..n : (n \div 2^i) % 2 = 1})
mmr_size(n) == 2 * n - popcount(n)

\* The largest perfect tree that fits: 2^h - 1 nodes.
Fit(remaining) == CHOOSE h \in 1..remaining : 2^h - 1 <= remaining /\ remaining < 2^(h + 1) - 1
Carve(remaining, offset) ==
    IF remaining = 0 THEN <<>>
    ELSE LET tree == 2^Fit(remaining) - 1
         IN <<offset + tree - 1>> \o Carve(remaining - tree, offset + tree)
peaks(size) == Carve(size, 0)

At(nodes, pos) == nodes[pos + 1]

SiblingDistance(h) == 2^(h + 1) - 1

\* While the last node has a left sibling of its height, their parent follows.
Merge(nodes, pos, h, mode) ==
    LET left == pos - SiblingDistance(h) IN
    IF left < 0 \/ pos_height(left) # h THEN nodes
    ELSE Merge(Append(nodes, hash_node(At(nodes, left), At(nodes, pos), mode)), Len(nodes), h + 1, mode)
append(nodes, leaf, mode) == Merge(Append(nodes, leaf), Len(nodes), 0, mode)

\* The peaks are bagged from the right.
Bag(hashes, mode) ==
    FoldRight(LAMBDA peak, acc : hash_node(peak, acc, mode), Front(hashes), Last(hashes))
PeakHashes(nodes) == [i \in DOMAIN peaks(Len(nodes)) |-> At(nodes, peaks(Len(nodes))[i])]
mmr_root(nodes, mode) == IF nodes = <<>> THEN Zero ELSE Bag(PeakHashes(nodes), mode)

\* From a node to its peak, collecting siblings.
Climb(nodes, tops, pos, h, found) ==
    IF pos \in tops THEN [at |-> pos, siblings |-> found]
    ELSE LET right == pos + SiblingDistance(h) IN
         IF right < Len(nodes) /\ pos_height(right) = h
         THEN Climb(nodes, tops, right + 1, h + 1, Append(found, Element(At(nodes, right), TRUE)))
         ELSE Climb(nodes, tops, pos + 1, h + 1,
                    Append(found, Element(At(nodes, pos - SiblingDistance(h)), FALSE)))
prove(nodes, pos) ==
    LET up == Climb(nodes, Range(peaks(Len(nodes))), pos, 0, <<>>)
    IN [siblings |-> up.siblings, peak_hashes |-> PeakHashes(nodes),
        peak_index |-> CHOOSE i \in DOMAIN peaks(Len(nodes)) : peaks(Len(nodes))[i] = up.at]

verify_mmr_proof(leaf, proof, root, mode) ==
    /\ proof.peak_hashes # <<>> /\ proof.peak_index <= Len(proof.peak_hashes)
    /\ Reconstruct(leaf, proof.siblings, mode) = proof.peak_hashes[proof.peak_index]
    /\ Bag(proof.peak_hashes, mode) = root

-----------------------------------------------------------------------------

Init == range = <<>> /\ leafCount = 0 /\ v2 \in BOOLEAN

\* apply_batch appends the block's hash.
AppendBlock ==
    /\ leafCount < MaxLeaves
    /\ range' = append(range, Leaf(leafCount + 1), v2)
    /\ leafCount' = leafCount + 1
    /\ UNCHANGED v2

\* The activation height is reached; the range keeps the nodes it has.
Activate == ~v2 /\ v2' = TRUE /\ UNCHANGED <<range, leafCount>>

Next == AppendBlock \/ Activate
Spec == Init /\ [][Next]_vars

-----------------------------------------------------------------------------
(* Reference: a forest of perfect trees over the leaves *)

RECURSIVE Perfect(_, _)
\* Post-order heights of the perfect tree of height h over leaves from k.
Perfect(h, k) ==
    IF h = 0 THEN <<[height |-> 0, leaves |-> {k}]>>
    ELSE Perfect(h - 1, k) \o Perfect(h - 1, k + 2^(h - 1))
         \o <<[height |-> h, leaves |-> k..(k + 2^h - 1)]>>
\* The forest of n leaves: one perfect tree per bit of n, the largest first.
Bits(n) == SetToSortSeq({i \in 0..n : (n \div 2^i) % 2 = 1}, LAMBDA a, b : a > b)
Starts(n) == [i \in DOMAIN Bits(n) |-> 1 + FoldLeft(LAMBDA s, b : s + 2^b, 0, SubSeq(Bits(n), 1, i - 1))]
Forest(n) == FlattenSeq([i \in DOMAIN Bits(n) |-> Perfect(Bits(n)[i], Starts(n)[i])])

-----------------------------------------------------------------------------
(* Properties *)

\* The range holds one hash per node of the leaves appended so far.
TypeOK ==
    /\ leafCount \in 0..MaxLeaves /\ v2 \in BOOLEAN
    /\ \A i \in DOMAIN range : range[i][1] \in {"leaf", "v1", "v2"}

\* The range is the post-order walk of the forest that the bits of the leaf
\* count describe: size, heights by position and peaks all agree with it, and
\* every inner node hashes exactly the two nodes below it, so that a position
\* always names the same node while the range grows.
RangeIsForest ==
    LET forest == Forest(leafCount)
        Lower(i) == {j \in DOMAIN forest : forest[j].height = forest[i].height - 1
                                           /\ forest[j].leaves \subseteq forest[i].leaves}
    IN /\ Len(range) = Len(forest) /\ Len(range) = mmr_size(leafCount)
       /\ \A i \in DOMAIN forest : pos_height(i - 1) = forest[i].height
       /\ {i \in DOMAIN forest : ~\E j \in DOMAIN forest : j # i /\ forest[i].leaves \subseteq forest[j].leaves}
              = {p + 1 : p \in Range(peaks(Len(range)))}
       /\ \A i \in DOMAIN forest :
             IF forest[i].height = 0 THEN {range[i]} = {Leaf(k) : k \in forest[i].leaves}
             ELSE {range[i][2], range[i][3]} = {range[j] : j \in Lower(i)}

\* A leaf's proof stands for that leaf alone; it verifies exactly when the
\* nodes above the leaf were hashed in the verifier's mode.
RangeProofs ==
    LET forest == Forest(leafCount)
        PosOf(k) == CHOOSE i \in DOMAIN forest : forest[i].leaves = {k} /\ forest[i].height = 0
        Above(k) == {i \in DOMAIN forest : k \in forest[i].leaves /\ forest[i].height > 0}
    IN \A mode \in BOOLEAN : \A k, l \in 1..leafCount :
          verify_mmr_proof(Leaf(l), prove(range, PosOf(k) - 1), mmr_root(range, mode), mode)
          <=> k = l /\ \A i \in Above(k) : range[i][1] = (IF mode THEN "v2" ELSE "v1")
=============================================================================
