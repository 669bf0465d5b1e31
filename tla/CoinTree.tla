------------------------------ MODULE CoinTree ------------------------------
(***************************************************************************)
(* The sparse Merkle tree over coins of core/mmr.rs (UtxoAccumulator): the *)
(* set of coins, a bucket of coins per prefix, and a cache of the nodes    *)
(* above the buckets.  A coin is a number of SmtHeight bits.               *)
(***************************************************************************)
EXTENDS MerkleTerms, FiniteSets, Functions

CONSTANTS
    SmtHeight, CacheMin,   \* SMT_HEIGHT, CACHE_MIN_HEIGHT
    CoinIds                \* the coins followed, numbers below 2^SmtHeight

VARIABLES
    coins, cache, buckets, \* UtxoAccumulator: coins, nodes, buckets
    v2                     \* the hashing mode in force

vars == <<coins, cache, buckets, v2>>

get_bit(n, i) == (n \div 2^i) % 2
flip_bit(n, i) == IF get_bit(n, i) = 0 THEN n + 2^i ELSE n - 2^i
mask_lower_bits(n, h) == n - (n % 2^h)

\* init_empty_hashes, both tables
EmptyTable(mode) ==
    LET table[h \in 0..SmtHeight] ==
            IF h = 0 THEN Zero ELSE hash_node(table[h - 1], table[h - 1], mode)
    IN table
EmptyHashes == [mode \in BOOLEAN |-> EmptyTable(mode)]
get_empty_hash(h, mode) == EmptyHashes[mode][h]

RECURSIVE compute_sparse_subtree(_, _, _), extract_path_siblings(_, _, _, _), Ripple(_, _, _, _, _)

Half(cs, i, bit) == {c \in cs : get_bit(c, i) = bit}
compute_sparse_subtree(h, cs, mode) ==
    IF cs = {} THEN get_empty_hash(h, mode)
    ELSE IF h = 0 THEN Leaf(CHOOSE c \in cs : TRUE)
    ELSE hash_node(compute_sparse_subtree(h - 1, Half(cs, h - 1, 0), mode),
                   compute_sparse_subtree(h - 1, Half(cs, h - 1, 1), mode), mode)

\* Siblings of the path to a coin, the lowest first.
extract_path_siblings(h, cs, target, mode) ==
    IF h = 0 THEN <<>>
    ELSE LET bit == get_bit(target, h - 1) IN
         Append(extract_path_siblings(h - 1, Half(cs, h - 1, bit), target, mode),
                Element(compute_sparse_subtree(h - 1, Half(cs, h - 1, 1 - bit), mode), bit = 0))

Prefix(c) == c \div 2^CacheMin
PathOf(prefix) == prefix * 2^CacheMin
cache_key(h, path) == <<h, Prefix(path)>>

get_node(nodes, h, path, mode) ==
    IF cache_key(h, path) \in DOMAIN nodes THEN nodes[cache_key(h, path)] ELSE get_empty_hash(h, mode)

\* Mutant: an entry that became empty stays in the cache.
Stored_sticky(nodes, h, path, hash, mode) ==
    IF hash = get_empty_hash(h, mode) THEN nodes ELSE (cache_key(h, path) :> hash) @@ nodes
\* An entry equal to the empty hash of its height is evicted.
Stored(nodes, h, path, hash, mode) ==
    IF hash = get_empty_hash(h, mode)
    THEN Restrict(nodes, DOMAIN nodes \ {cache_key(h, path)})
    ELSE (cache_key(h, path) :> hash) @@ nodes

Ripple(nodes, h, path, hash, mode) ==
    IF h = SmtHeight THEN nodes
    ELSE LET sibling == get_node(nodes, h, flip_bit(path, h), mode)
             parent == IF get_bit(path, h) = 0 THEN hash_node(hash, sibling, mode)
                       ELSE hash_node(sibling, hash, mode)
             up == mask_lower_bits(path, h + 1)
         IN Ripple(Stored(nodes, h + 1, up, parent, mode), h + 1, up, parent, mode)
update_cache_for_bucket(nodes, prefix, bucket, mode) ==
    LET hash == compute_sparse_subtree(CacheMin, bucket, mode)
    IN Ripple(Stored(nodes, CacheMin, PathOf(prefix), hash, mode), CacheMin, PathOf(prefix), hash, mode)

Bucket(prefix) == IF prefix \in DOMAIN buckets THEN buckets[prefix] ELSE {}

insert(c, mode) ==
    LET bucket == Bucket(Prefix(c)) \cup {c} IN
    /\ coins' = coins \cup {c}
    /\ buckets' = (Prefix(c) :> bucket) @@ buckets
    /\ cache' = update_cache_for_bucket(cache, Prefix(c), bucket, mode)

\* An empty bucket leaves the map.
Left(prefix, bucket) ==
    IF bucket = {} THEN Restrict(buckets, DOMAIN buckets \ {prefix}) ELSE (prefix :> bucket) @@ buckets
remove(c, mode) ==
    LET bucket == Bucket(Prefix(c)) \ {c} IN
    /\ coins' = coins \ {c}
    /\ buckets' = Left(Prefix(c), bucket)
    /\ cache' = update_cache_for_bucket(cache, Prefix(c), bucket, mode)

\* Cache and buckets from the coins alone, bucket after bucket.
Grouped == [p \in {Prefix(c) : c \in coins} |-> {c \in coins : Prefix(c) = p}]
Rebuilt(mode) ==
    FoldSet(LAMBDA p, nodes : update_cache_for_bucket(nodes, p, Grouped[p], mode), <<>>, DOMAIN Grouped)

smt_root == get_node(cache, SmtHeight, 0, v2)
\* The path of a coin's ancestor at a cached height.
PathAt(c, h) == mask_lower_bits(PathOf(Prefix(c)), h)
smt_prove(c) ==
    extract_path_siblings(CacheMin, Bucket(Prefix(c)), c, v2)
    \o [i \in 1..(SmtHeight - CacheMin) |->
           LET h == CacheMin + i - 1
           IN Element(get_node(cache, h, flip_bit(PathAt(c, h), h), v2), get_bit(c, h) = 0)]
verify_utxo_proof(c, siblings, root, mode) ==
    /\ Len(siblings) = SmtHeight
    /\ \A i \in 1..SmtHeight : siblings[i].is_right = (get_bit(c, i - 1) = 0)
    /\ Reconstruct(Leaf(c), siblings, mode) = root

-----------------------------------------------------------------------------

Init == coins = {} /\ cache = <<>> /\ buckets = <<>> /\ v2 \in BOOLEAN

Create(c) == c \notin coins /\ insert(c, v2) /\ UNCHANGED v2
Spend(c) == c \in coins /\ remove(c, v2) /\ UNCHANGED v2

rebuild_tree(mode) ==
    /\ buckets' = Grouped
    /\ cache' = Rebuilt(mode)
    /\ UNCHANGED coins
\* The activation height is reached.
Activate == ~v2 /\ v2' = TRUE /\ rebuild_tree(TRUE)
\* Caches are not stored: a loaded state starts from its coins.
Load == coins # {} /\ rebuild_tree(v2) /\ UNCHANGED v2

Next == (\E c \in CoinIds : Create(c) \/ Spend(c)) \/ Activate \/ Load
Spec == Init /\ [][Next]_vars

-----------------------------------------------------------------------------
(* Reference: the tree over every position *)

RECURSIVE Full(_, _)
Full(h, path) ==
    IF h = 0 THEN (IF path \in coins THEN Leaf(path) ELSE Zero)
    ELSE hash_node(Full(h - 1, path), Full(h - 1, path + 2^(h - 1)), v2)

-----------------------------------------------------------------------------
(* Properties *)

\* The buckets split the coins by prefix and none is empty; only the levels
\* above them are cached.
TypeOK ==
    /\ coins \subseteq CoinIds /\ v2 \in BOOLEAN
    /\ buckets = Grouped
    /\ \A k \in DOMAIN cache : k[1] \in CacheMin..SmtHeight

\* However coins came and went, and whenever the tree was rebuilt, the cache
\* holds the tree of the coins in the mode in force: every cached level, the
\* root, and no entry for an empty subtree.
CacheIsTree ==
    /\ \A h \in CacheMin..SmtHeight : \A p \in 0..(2^(SmtHeight - h) - 1) :
          get_node(cache, h, p * 2^h, v2) = Full(h, p * 2^h)
    /\ \A k \in DOMAIN cache : cache[k] # get_empty_hash(k[1], v2)

\* A proof of membership verifies for its coin, for no other coin and not in
\* the other mode.
CoinProofs ==
    \A c \in coins : \A d \in CoinIds : \A mode \in BOOLEAN :
        verify_utxo_proof(d, smt_prove(c), smt_root, mode) <=> d = c /\ mode = v2
=============================================================================
