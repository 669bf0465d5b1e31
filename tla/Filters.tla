------------------------------- MODULE Filters -------------------------------
(***************************************************************************)
(* Compact block filters of core/filter.rs: the items of a block are       *)
(* hashed into a range, sorted, and their differences written as           *)
(* Golomb-Rice bits; a light wallet reads the bits back while it walks its *)
(* own hashed items beside them.  An item is a number; RawHash gives its   *)
(* 64-bit hash under the block's key.                                      *)
(***************************************************************************)
EXTENDS Integers, Sequences, SequencesExt, FiniteSets, FiniteSetsExt

CONSTANTS
    P, FprInverse,       \* P, FPR_INVERSE
    ByteBits,            \* bits in a byte of the filter (8)
    RawHashes,           \* functions from items to hashes
    Batches, Wallets     \* blocks filtered; sets of items a wallet looks for

None == 0 - 1            \* a coin id an output does not have

VARIABLES
    batch, raw, wanted,  \* the block, its hash function and the query
    data,                \* CompactFilter.data, as bits
    read, cumulative, qi, found    \* match_any: bits read, ..., its result

vars == <<batch, raw, wanted, data, read, cumulative, qi, found>>

-----------------------------------------------------------------------------

\* What an output adds: its coin, if it makes one, and its address.
Touched(b) == {o.coin : o \in b.outputs} \cup {o.address : o \in b.outputs}
items_in(b) ==
    (b.commits \cup UNION {{i.coin, i.address} : i \in b.inputs} \cup Touched(b)
        \cup UNION {{c.coin, c.address} : c \in b.coinbase}) \ {None}

Hashed(items, n, h) == LET xs == SetToSeq(items) IN [i \in DOMAIN xs |-> h[xs[i]] % (n * FprInverse)]
Sorted(xs) == SortSeq(xs, <)

encode_golomb(v) ==
    [i \in 1..(v \div 2^P) |-> 1] \o <<0>> \o [i \in 1..P |-> (v \div 2^(P - i)) % 2]
\* BitWriter::into_bytes fills the last byte with zeros.
into_bytes(bits) == bits \o [i \in 1..((ByteBits - (Len(bits) % ByteBits)) % ByteBits) |-> 0]

\* Mutant: every value is written whole instead of as a difference.
Deltas_whole(hs) == hs
Deltas(hs) == [i \in DOMAIN hs |-> IF i = 1 THEN hs[1] ELSE hs[i] - hs[i - 1]]
build(b, h) ==
    LET items == items_in(b)
        deltas == Deltas(Sorted(Hashed(items, Cardinality(items), h)))
    IN into_bytes(FlattenSeq([i \in DOMAIN deltas |-> encode_golomb(deltas[i])]))

\* The value at a position and the position after it; the end of the bits is no value.
decode_golomb(bits, from) ==
    LET zeros == {j \in from..Len(bits) : bits[j] = 0} IN
    IF zeros = {} \/ Min(zeros) + P > Len(bits) THEN [ok |-> FALSE, value |-> 0, next |-> from]
    ELSE LET z == Min(zeros)
             rest == FoldLeft(LAMBDA acc, bit : 2 * acc + bit, 0, SubSeq(bits, z + 1, z + P))
         IN [ok |-> TRUE, value |-> (z - from) * 2^P + rest, next |-> z + P + 1]

-----------------------------------------------------------------------------

Elements == Cardinality(items_in(batch))       \* n, sent beside the filter
Query == SetToSortSeq(Range(Hashed(wanted, Elements, raw)), <)
Scanning == found = "scanning"

Init ==
    /\ batch \in Batches /\ raw \in RawHashes /\ wanted \in Wallets
    /\ data = build(batch, raw)
    /\ read = <<0, 1>> /\ cumulative = 0 /\ qi = 1      \* elements read, next bit
    /\ found = IF data = <<>> \/ wanted = {} THEN "miss" ELSE "scanning"

\* One element is decoded and the query walked up to it.
Decode ==
    /\ Scanning /\ read[1] < Elements /\ qi <= Len(Query)
    /\ LET d == decode_golomb(data, read[2])
           at == cumulative + d.value
           reach == {i \in qi..Len(Query) : Query[i] >= at}
       IN IF ~d.ok THEN found' = "miss" /\ UNCHANGED <<read, cumulative, qi>>
          ELSE /\ read' = <<read[1] + 1, d.next>>
               /\ cumulative' = at
               /\ qi' = IF reach = {} THEN Len(Query) + 1 ELSE Min(reach)
               /\ found' = IF reach # {} /\ Query[Min(reach)] = at THEN "hit" ELSE "scanning"
    /\ UNCHANGED <<batch, raw, wanted, data>>

\* Nothing is left on one of the two sides.
GiveUp ==
    /\ Scanning /\ (read[1] = Elements \/ qi > Len(Query))
    /\ found' = "miss"
    /\ UNCHANGED <<batch, raw, wanted, data, read, cumulative, qi>>

Next == Decode \/ GiveUp
Spec == Init /\ [][Next]_vars

-----------------------------------------------------------------------------
(* Properties *)

\* The filter is whole bytes and the reader stays inside it.
TypeOK ==
    /\ Len(data) % ByteBits = 0 /\ \A i \in DOMAIN data : data[i] \in {0, 1}
    /\ read[1] \in 0..Elements /\ read[2] \in 1..(Len(data) + 1)
    /\ found \in {"scanning", "hit", "miss"}

\* A block that pays, spends or commits anything the wallet looks for is never
\* passed over, and a block is only fetched in vain when two hashes collide.
Concerns(b, w) ==
    \/ b.commits \cap w # {}
    \/ \E x \in b.inputs \cup b.outputs \cup b.coinbase : x.coin \in w \/ x.address \in w
FilterFindsBlocks ==
    /\ found = "miss" => ~Concerns(batch, wanted)
    /\ found = "hit" => Range(Query) \cap Range(Hashed(items_in(batch), Elements, raw)) # {}
=============================================================================
