---------------------------- MODULE ChainProofs -----------------------------
(***************************************************************************)
(* NodeChain's InStep, HeaviestAccepted and StoredBacked, proved for every *)
(* tree of blocks, every interval, cache size and number of snapshots, and *)
(* any number of saves and crashes.  The first two rest on one fact about  *)
(* the tree: a heavier chain is not a shorter one.  perform_reorg removes  *)
(* no batch above the new tip, so after a reorg to fewer blocks the health *)
(* check would find the batches of the old branch and roll back.           *)
(***************************************************************************)
EXTENDS NodeChain, SumProofs, SequenceTheorems

HeavierIsNotShorter == \A p, q \in Tree : Depth(p) > Depth(q) => Len(p) >= Len(q)

\* The entries of todo.
Stored == {"batch", "state", "snapshot", "burn"}

Entry ==
    ((Stored \cup {"extend"}) \X Tree) \cup ({"unburn"} \X State)
        \cup ({"drop", "truncate", "check"} \X Nat)

\* Types, for runs with crashes too: the State a restart loads is one of the
\* tree, and the loop over synced blocks runs on from the State in memory.
Typed ==
    /\ TypeOK
    /\ disk.current \in Tree
    /\ todo \in Seq(Entry)
    /\ \A i \in DOMAIN todo : todo[i][1] = "extend" =>
            /\ i = Len(todo)
            /\ Len(mem) < Len(todo[i][2]) /\ IsPrefix(mem, todo[i][2])

Pending(w) == \E i \in DOMAIN todo : todo[i] = w

\* What is to be stored belongs to the chain in memory, nothing is truncated
\* and the health check comes last.
Orderly ==
    \A i \in DOMAIN todo :
        /\ todo[i][1] \in Stored => IsPrefix(todo[i][2], mem)
        /\ todo[i][1] # "truncate"
        /\ todo[i][1] = "check" => i = Len(todo)

\* The batches of the chain are on disk or about to be, and no others.
BatchesKept ==
    \A h \in Height :
        IF h < Len(mem)
        THEN disk.batches[h] = BlockAt(mem, h) \/ Pending(Write("batch", BlockAt(mem, h)))
        ELSE disk.batches[h] = NoBlock

\* A snapshot of another branch is about to be dropped.
SnapshotsKept ==
    \A q \in disk.snapshots :
        \/ IsPrefix(q, mem)
        \/ \E i \in DOMAIN todo : todo[i][1] = "drop" /\ todo[i][2] <= Len(q)

\* A key that only another branch spends is about to be withdrawn.
KeysKept ==
    \A k \in disk.spent :
        \/ k \in KeysOn(mem)
        \/ \E i \in DOMAIN todo :
                /\ todo[i][1] = "unburn" /\ todo[i][2] # NoBlock
                /\ k \in KeysOf(todo[i][2])

\* The cache holds ancestors of the State in memory, in the order of height.
CacheKept ==
    /\ \A i \in DOMAIN cache : IsPrefix(cache[i], mem)
    /\ \A i, j \in DOMAIN cache : i < j => Len(cache[i]) < Len(cache[j])

\* The inductive invariant of the first two theorems.
ChainInv ==
    /\ Typed
    /\ crashes = 0 => Orderly /\ BatchesKept /\ SnapshotsKept /\ KeysKept /\ CacheKept

\* Nothing has been replaced: a handler stores the State in memory, its batch
\* first; the disk lacks at most that batch, and what is stored or handed to a
\* save is an ancestor of the State in memory with all its batches on disk.
Unbroken ==
    /\ \A i \in DOMAIN todo :
            /\ todo[i][1] \in Stored \cup {"check", "extend"}
            /\ todo[i][1] \in Stored => todo[i][2] = mem
            /\ todo[i][1] = "batch" => i = 1
    /\ \A h \in 0..(Len(mem) - 1) :
            \/ disk.batches[h] = BlockAt(mem, h)
            \/ h = Len(mem) - 1 /\ Pending(Write("batch", mem))
    /\ \A q \in saves \cup {disk.current} : IsPrefix(q, mem) /\ Backed(q)

\* The inductive invariant of the third, with crashes at any time.
LineInv == Typed /\ (~replaced => Unbroken)
-----------------------------------------------------------------------------
(***************************************************************************)
(* Heights and paths.                                                      *)
(***************************************************************************)
LEMMA Heights ==
    /\ Height \subseteq Nat /\ 0 \in Height
    /\ \A p \in State : p \in Seq(Nat) /\ Len(p) \in Nat /\ Len(p) \in Height
    /\ \A p \in Tree : Len(p) > 0 /\ Len(p) - 1 \in Height
    /\ \A k \in Height : \A n \in Nat : n <= k => n \in Height
    /\ IsFiniteSet(Height)
<1> DEFINE L == {Len(p) : p \in Tree}
<1>1. \A p \in Tree : p \in Seq(Nat) /\ Len(p) \in Nat /\ p # <<>>
  BY TreeAssumption
<1>2. L \in SUBSET Int /\ L # {}
  <2>1. PICK p \in Tree : TRUE
    BY TreeAssumption
  <2>2. Len(p) \in L
    OBVIOUS
  <2>3. \A n \in L : n \in Int
    BY <1>1
  <2> HIDE DEF L
  <2>4. QED BY <2>2, <2>3
<1>3. IsFiniteSet(L)
  <2> DEFINE f == [p \in Tree |-> Len(p)]
  <2>1. f \in Surjection(Tree, L)
    <3>1. f \in [Tree -> L]
      OBVIOUS
    <3>2. \A n \in L : \E p \in Tree : f[p] = n
      OBVIOUS
    <3> HIDE DEF f, L
    <3>3. QED BY <3>1, <3>2 DEF Surjection
  <2> HIDE DEF f, L
  <2>2. QED BY <2>1, TreeAssumption, FS_Surjection
<1>4. Max(L) \in L /\ \A y \in L : Max(L) >= y
  <2> HIDE DEF L
  <2>1. QED BY <1>2, <1>3, MaxOf
<1>5. Max(L) \in Nat
  BY <1>1, <1>4
<1>6. \A p \in Tree : Len(p) <= Max(L)
  <2>1. ASSUME NEW p \in Tree PROVE Len(p) <= Max(L)
    <3>1. Len(p) \in L
      OBVIOUS
    <3> HIDE DEF L
    <3>2. QED BY <1>1, <1>4, <1>5, <3>1
  <2>2. QED BY <2>1
<1>7. Height = 0..Max(L)
  BY DEF Height
<1> HIDE DEF L
<1>8. \A p \in Tree : Len(p) > 0 /\ Len(p) \in Height /\ Len(p) - 1 \in Height
  <2>1. ASSUME NEW p \in Tree PROVE Len(p) > 0
    BY <1>1
  <2>2. QED BY <1>1, <1>5, <1>6, <1>7, <2>1
<1>9. \A p \in State : p \in Seq(Nat) /\ Len(p) \in Nat /\ Len(p) \in Height
  <2>1. ASSUME NEW p \in State PROVE p \in Seq(Nat) /\ Len(p) \in Nat /\ Len(p) \in Height
    <3>1. CASE p \in Tree
      BY <1>1, <1>8, <3>1
    <3>2. CASE p = <<>>
      <4>1. p \in Seq(Nat) /\ Len(p) = 0
        BY <3>2
      <4>2. QED BY <1>5, <1>7, <4>1
    <3>3. QED BY <3>1, <3>2 DEF State
  <2>2. QED BY <2>1
<1>10. IsFiniteSet(Height)
  BY <1>5, <1>7, FS_Interval
<1>11. QED BY <1>5, <1>7, <1>8, <1>9, <1>10

LEMMA TreeIsState == Tree \subseteq State /\ NoBlock \in State /\ NoBlock \notin Tree
BY TreeAssumption DEF State, NoBlock

LEMMA GenesisInTree == Genesis \in Tree /\ Len(Genesis) = 1
<1>1. \E p \in Tree : Len(p) = 1
  BY TreeAssumption
<1>2. QED BY <1>1 DEF Genesis

\* An ancestor of a State is a State, of the height asked for.
LEMMA PrefixState ==
    ASSUME NEW p \in State, NEW n \in Nat, n <= Len(p)
    PROVE  /\ StateAt(p, n) \in State /\ Len(StateAt(p, n)) = n
           /\ n > 0 => StateAt(p, n) \in Tree
           /\ n = 0 => StateAt(p, n) = <<>>
<1>1. p \in Seq(Nat) /\ Len(p) \in Nat
  BY Heights
<1>2. Len(StateAt(p, n)) = n
  BY <1>1 DEF StateAt
<1>3. ASSUME n = 0 PROVE StateAt(p, n) = <<>>
  BY <1>1, <1>3 DEF StateAt
<1>4. ASSUME n > 0 PROVE StateAt(p, n) \in Tree
  <2>1. p # <<>>
    BY <1>1, <1>4
  <2>2. p \in Tree
    BY <2>1 DEF State
  <2>3. QED BY <1>1, <1>4, <2>2, TreeAssumption DEF StateAt
<1>5. n = 0 \/ n > 0
  OBVIOUS
<1>6. QED BY <1>2, <1>3, <1>4, <1>5 DEF State

LEMMA WholePath == ASSUME NEW p \in State PROVE StateAt(p, Len(p)) = p
BY Heights, SubSeqFull DEF StateAt

LEMMA PrefixPrefix ==
    ASSUME NEW p \in State, NEW n \in Nat, NEW k \in Nat, k <= n, n <= Len(p)
    PROVE  StateAt(StateAt(p, n), k) = StateAt(p, k)
<1>1. p \in Seq(Nat) /\ Len(p) \in Nat
  BY Heights
<1>2. CASE k = 0
  BY <1>2, SubSeqEmpty DEF StateAt
<1>3. CASE k > 0
  <2>1. 1 \in 1..Len(p) /\ n \in 1..Len(p) /\ 1 \in 1..(n - 1 + 1) /\ k \in 1..(n - 1 + 1)
    BY <1>1, <1>3
  <2>2. SubSeq(SubSeq(p, 1, n), 1, k) = SubSeq(p, 1 + 1 - 1, 1 + k - 1)
    BY <1>1, <2>1, SubSeqOfSubSeq
  <2>3. 1 + 1 - 1 = 1 /\ 1 + k - 1 = k
    OBVIOUS
  <2>4. QED BY <2>2, <2>3 DEF StateAt
<1>4. QED BY <1>2, <1>3

LEMMA BlockIsState ==
    ASSUME NEW p, NEW h \in Nat
    PROVE  BlockAt(p, h) = StateAt(p, h + 1)
BY DEF BlockAt, StateAt

\* The block of p at a height below its own.
LEMMA BlockInTree ==
    ASSUME NEW p \in State, NEW h \in Nat, h < Len(p)
    PROVE  BlockAt(p, h) \in Tree /\ Len(BlockAt(p, h)) = h + 1
<1>1. h + 1 \in Nat /\ h + 1 <= Len(p) /\ h + 1 > 0
  BY Heights
<1>2. QED BY <1>1, BlockIsState, PrefixState

LEMMA PrefixRefl == ASSUME NEW p \in State PROVE IsPrefix(p, p)
<1>1. Len(p) \in Nat
  BY Heights
<1>2. QED BY <1>1, WholePath DEF IsPrefix

LEMMA PrefixTrans ==
    ASSUME NEW p \in State, NEW q \in State, NEW r \in State, IsPrefix(p, q), IsPrefix(q, r)
    PROVE  IsPrefix(p, r)
<1>1. Len(p) \in Nat /\ Len(q) \in Nat /\ Len(r) \in Nat
  BY Heights
<1>2. Len(p) <= Len(q) /\ Len(q) <= Len(r) /\ StateAt(q, Len(p)) = p /\ StateAt(r, Len(q)) = q
  BY DEF IsPrefix
<1>3. StateAt(StateAt(r, Len(q)), Len(p)) = StateAt(r, Len(p))
  BY <1>1, <1>2, PrefixPrefix
<1>4. StateAt(r, Len(p)) = p
  BY <1>2, <1>3
<1>5. Len(p) <= Len(r)
  BY <1>1, <1>2
<1>6. QED BY <1>4, <1>5 DEF IsPrefix

LEMMA AncestorIsPrefix ==
    ASSUME NEW p \in State, NEW n \in Nat, n <= Len(p)
    PROVE  IsPrefix(StateAt(p, n), p)
BY PrefixState DEF IsPrefix

\* Two States with the same ancestor at a height share what is below it.
LEMMA SharedBelow ==
    ASSUME NEW p \in State, NEW q \in State, NEW n \in Nat, n <= Len(p), n <= Len(q),
           StateAt(p, n) = StateAt(q, n)
    PROVE  /\ \A k \in Nat : k <= n => StateAt(p, k) = StateAt(q, k)
           /\ \A h \in Nat : h < n => BlockAt(p, h) = BlockAt(q, h)
           /\ \A r \in State : IsPrefix(r, p) /\ Len(r) <= n => IsPrefix(r, q)
<1>1. Len(p) \in Nat /\ Len(q) \in Nat
  BY Heights
<1>2. ASSUME NEW k \in Nat, k <= n PROVE StateAt(p, k) = StateAt(q, k)
  BY <1>2, PrefixPrefix
<1>3. ASSUME NEW h \in Nat, h < n PROVE BlockAt(p, h) = BlockAt(q, h)
  <2>1. h + 1 \in Nat /\ h + 1 <= n
    BY <1>3
  <2>2. QED BY <1>2, <2>1, BlockIsState
<1>4. ASSUME NEW r \in State, IsPrefix(r, p), Len(r) <= n PROVE IsPrefix(r, q)
  <2>1. Len(r) \in Nat /\ Len(r) <= Len(q)
    BY <1>1, <1>4, Heights
  <2>2. StateAt(p, Len(r)) = r
    BY <1>4 DEF IsPrefix
  <2>3. QED BY <1>2, <1>4, <2>1, <2>2 DEF IsPrefix
<1>5. QED BY <1>2, <1>3, <1>4

\* A State shares all it has with the ones that extend it.
LEMMA PrefixShares ==
    ASSUME NEW p \in State, NEW q \in State, IsPrefix(p, q)
    PROVE  \A h \in Nat : h < Len(p) => BlockAt(p, h) = BlockAt(q, h)
<1>1. Len(p) \in Nat /\ Len(q) \in Nat /\ Len(p) <= Len(q) /\ StateAt(q, Len(p)) = p
  BY Heights DEF IsPrefix
<1>2. StateAt(p, Len(p)) = StateAt(q, Len(p))
  BY <1>1, WholePath
<1>3. QED BY <1>1, <1>2, SharedBelow

\* The keys of a block of the chain are keys of the chain.
LEMMA KeysOfPrefix ==
    ASSUME NEW p \in Tree, NEW q \in State, IsPrefix(p, q)
    PROVE  KeysOf(p) \subseteq KeysOn(q)
<1>1. Len(p) \in Nat /\ Len(q) \in Nat /\ Len(p) > 0 /\ Len(p) <= Len(q)
  BY Heights, TreeIsState DEF IsPrefix
<1>2. Len(p) \in 1..Len(q) /\ KeysOf(StateAt(q, Len(p))) = KeysOf(p)
  BY <1>1 DEF IsPrefix
<1>3. QED BY <1>2 DEF KeysOn

LEMMA KeysGrow ==
    ASSUME NEW p \in State, NEW q \in State, NEW n \in Nat, n <= Len(p), n <= Len(q),
           StateAt(p, n) = StateAt(q, n), NEW k \in KeysOn(p)
    PROVE  k \in KeysOn(q) \/ \E h \in n..(Len(p) - 1) : k \in KeysOf(BlockAt(p, h))
<1>1. Len(p) \in Nat /\ Len(q) \in Nat
  BY Heights
<1>2. PICK i \in 1..Len(p) : k \in KeysOf(StateAt(p, i))
  BY DEF KeysOn
<1>3. CASE i <= n
  <2>1. i \in Nat /\ i \in 1..Len(q)
    BY <1>1, <1>3
  <2>2. StateAt(p, i) = StateAt(q, i)
    BY <1>3, <2>1, SharedBelow
  <2>3. k \in KeysOf(StateAt(q, i))
    BY <1>2, <2>2
  <2>4. QED BY <2>1, <2>3 DEF KeysOn
<1>4. CASE i > n
  <2>1. i - 1 \in Nat /\ i - 1 \in n..(Len(p) - 1) /\ (i - 1) + 1 = i
    BY <1>1, <1>4
  <2>2. BlockAt(p, i - 1) = StateAt(p, i)
    BY <2>1, BlockIsState
  <2>3. k \in KeysOf(BlockAt(p, i - 1))
    BY <1>2, <2>2
  <2>4. QED BY <2>1, <2>3
<1>5. QED BY <1>1, <1>3, <1>4

\* Work adds up along a path.
LEMMA WorkOfBlocks ==
    ASSUME NEW p \in State, NEW n \in Nat, n <= Len(p)
    PROVE  /\ Depth(p) \in Nat /\ AltWork(p, n) \in Nat
           /\ Depth(p) = Depth(StateAt(p, n)) + AltWork(p, n)
           /\ Depth(StateAt(p, n)) \in Nat
<1> DEFINE q == StateAt(p, n)
           A == 0..(n - 1)
           B == n..(Len(p) - 1)
           f == [h \in 0..(Len(p) - 1) |-> Work(BlockAt(p, h))]
           g == [h \in 0..(Len(q) - 1) |-> Work(BlockAt(q, h))]
           k == [h \in n..(Len(p) - 1) |-> Work(BlockAt(p, h))]
<1>1. Len(p) \in Nat /\ q \in State /\ Len(q) = n
  BY Heights, PrefixState
<1>2. A \cup B = 0..(Len(p) - 1) /\ A \cap B = {}
  BY <1>1
<1>3. IsFiniteSet(A) /\ IsFiniteSet(B)
  <2>1. 0 \in Int /\ n - 1 \in Int /\ n \in Int /\ Len(p) - 1 \in Int
    BY <1>1
  <2>2. QED BY <2>1, FS_Interval
<1>4. \A h \in A \cup B : f[h] \in Nat
  <2>1. ASSUME NEW h \in A \cup B PROVE f[h] \in Nat
    <3>1. h \in Nat /\ h < Len(p) /\ h \in 0..(Len(p) - 1)
      BY <1>1
    <3>2. BlockAt(p, h) \in Tree
      BY <3>1, BlockInTree
    <3>3. QED BY <3>1, <3>2, TreeAssumption
  <2>2. QED BY <2>1
<1>5. \A h \in A : g[h] = f[h]
  <2>1. StateAt(q, n) = StateAt(p, n)
    BY <1>1, WholePath
  <2>2. ASSUME NEW h \in A PROVE g[h] = f[h]
    <3>1. h \in Nat /\ h < n /\ h \in 0..(Len(p) - 1) /\ h \in 0..(Len(q) - 1)
      BY <1>1
    <3>2. BlockAt(q, h) = BlockAt(p, h)
      BY <1>1, <2>1, <3>1, SharedBelow
    <3>3. QED BY <3>1, <3>2
  <2>3. QED BY <2>2
<1>6. \A h \in B : k[h] = f[h]
  BY <1>1
<1>7. /\ Depth(p) = SumOf(f, A \cup B) /\ Depth(q) = SumOf(g, A)
      /\ AltWork(p, n) = SumOf(k, B)
  BY <1>1, <1>2 DEF Depth, AltWork
<1> HIDE DEF f, g, k, A, B
<1>8. SumOf(g, A) = SumOf(f, A) /\ SumOf(k, B) = SumOf(f, B)
  BY <1>3, <1>5, <1>6, SumCongruence
<1>9. SumOf(f, A \cup B) = SumOf(f, A) + SumOf(f, B)
  <2>1. \A h \in A \cup B : f[h] \in Int
    BY <1>4
  <2>2. QED BY <1>2, <1>3, <2>1, SumUnion
<1>10. SumOf(f, A) \in Nat /\ SumOf(f, B) \in Nat
  BY <1>3, <1>4, SumNat
<1> HIDE DEF q
<1>11. Depth(p) = Depth(q) + AltWork(p, n) /\ Depth(q) \in Nat /\ AltWork(p, n) \in Nat
  BY <1>7, <1>8, <1>9, <1>10
<1>12. Depth(p) \in Nat
  BY <1>11
<1>13. QED BY <1>11, <1>12 DEF q

\* The hypothesis holds while all blocks weigh the same.
LEMMA EqualWorkSuffices ==
    ASSUME \A p, q \in Tree : Work(p) = Work(q)
    PROVE  HeavierIsNotShorter
<1> SUFFICES ASSUME NEW p \in Tree, NEW q \in Tree, Depth(p) > Depth(q), ~(Len(p) >= Len(q))
             PROVE  FALSE
  BY DEF HeavierIsNotShorter
<1> DEFINE n == Len(p)
           r == StateAt(q, n)
           f == [h \in 0..(Len(p) - 1) |-> Work(BlockAt(p, h))]
           g == [h \in 0..(Len(r) - 1) |-> Work(BlockAt(r, h))]
           A == 0..(n - 1)
<1>1. p \in State /\ q \in State /\ n \in Nat /\ Len(q) \in Nat /\ n <= Len(q) /\ n > 0
  BY Heights, TreeIsState
<1>2. r \in State /\ Len(r) = n
  BY <1>1, PrefixState
<1>3. \A h \in A : f[h] = g[h]
  <2>1. ASSUME NEW h \in A PROVE f[h] = g[h]
    <3>1. h \in Nat /\ h < Len(p) /\ h < Len(r) /\ h \in 0..(Len(p) - 1) /\ h \in 0..(Len(r) - 1)
      BY <1>1, <1>2
    <3>2. BlockAt(p, h) \in Tree /\ BlockAt(r, h) \in Tree
      BY <1>1, <1>2, <3>1, BlockInTree
    <3>3. QED BY <3>1, <3>2
  <2>2. QED BY <2>1
<1>4. Depth(p) = SumOf(f, A) /\ Depth(r) = SumOf(g, A)
  BY <1>2 DEF Depth
<1>5. IsFiniteSet(A)
  BY <1>1, FS_Interval
<1>6. Depth(p) = Depth(r)
  <2> HIDE DEF f, g, A, r
  <2>1. SumOf(f, A) = SumOf(g, A)
    BY <1>3, <1>5, SumCongruence
  <2>2. QED BY <1>4, <2>1
<1>7. Depth(q) = Depth(r) + AltWork(q, n) /\ AltWork(q, n) \in Nat /\ Depth(r) \in Nat
  BY <1>1, WorkOfBlocks
<1> HIDE DEF r
<1>8. QED BY <1>6, <1>7
-----------------------------------------------------------------------------
(***************************************************************************)
(* The disk.                                                               *)
(***************************************************************************)
LEMMA EntryParts ==
    ASSUME NEW w \in Entry
    PROVE  /\ w = Write(w[1], w[2])
           /\ w[1] \in Stored \cup {"extend", "unburn", "drop", "truncate", "check"}
           /\ w[1] \in Stored \cup {"extend"} => w[2] \in Tree
           /\ w[1] = "unburn" => w[2] \in State
           /\ w[1] \in {"drop", "truncate"} => w[2] \in Nat
BY DEF Entry, Stored, Write

LEMMA PerformIs ==
    ASSUME NEW d, NEW w
    PROVE  /\ w[1] = "batch" => Perform(d, w) = save_batch(d, w[2])
           /\ w[1] = "state" => Perform(d, w) = save_state(d, w[2])
           /\ w[1] = "snapshot" => Perform(d, w) = save_state_snapshot(d, w[2])
           /\ w[1] = "drop" => Perform(d, w) = delete_snapshots_above(d, w[2])
           /\ w[1] = "truncate" => Perform(d, w) = truncate(d, w[2])
           /\ w[1] = "burn" => Perform(d, w) = burn_batch_addresses(d, w[2])
           /\ w[1] = "unburn" => Perform(d, w) = unburn_batch_addresses(d, w[2])
BY DEF Perform

\* What each write does to the tables.
LEMMA BatchWrite ==
    ASSUME NEW d \in Disk, NEW p \in Tree
    PROVE  /\ save_batch(d, p) \in Disk
           /\ save_batch(d, p).batches[Len(p) - 1] = p
           /\ \A h \in Height : h # Len(p) - 1 => save_batch(d, p).batches[h] = d.batches[h]
           /\ save_batch(d, p).current = d.current
           /\ save_batch(d, p).snapshots = d.snapshots
           /\ save_batch(d, p).spent = d.spent
<1>1. Len(p) - 1 \in Height
  BY Heights
<1>2. QED BY <1>1 DEF Disk, save_batch

LEMMA StateWrite ==
    ASSUME NEW d \in Disk, NEW p \in Tree
    PROVE  /\ save_state(d, p) \in Disk /\ save_state(d, p).current = p
           /\ save_state(d, p).batches = d.batches
           /\ save_state(d, p).snapshots = d.snapshots
           /\ save_state(d, p).spent = d.spent
BY TreeIsState DEF Disk, save_state

LEMMA SnapshotWrite ==
    ASSUME NEW d \in Disk, NEW p \in Tree
    PROVE  /\ save_state_snapshot(d, p) \in Disk
           /\ save_state_snapshot(d, p).snapshots \subseteq d.snapshots \cup {p}
           /\ save_state_snapshot(d, p).current = d.current
           /\ save_state_snapshot(d, p).batches = d.batches
           /\ save_state_snapshot(d, p).spent = d.spent
BY DEF Disk, save_state_snapshot

LEMMA DropWrite ==
    ASSUME NEW d \in Disk, NEW n \in Nat
    PROVE  /\ delete_snapshots_above(d, n) \in Disk
           /\ delete_snapshots_above(d, n).snapshots = {q \in d.snapshots : Len(q) < n}
           /\ delete_snapshots_above(d, n).current = d.current
           /\ delete_snapshots_above(d, n).batches = d.batches
           /\ delete_snapshots_above(d, n).spent = d.spent
BY DEF Disk, delete_snapshots_above

LEMMA TruncateWrite ==
    ASSUME NEW d \in Disk, NEW n \in Nat
    PROVE  truncate(d, n) \in Disk /\ truncate(d, n).current = d.current
<1>1. CASE n >= highest(d)
  BY <1>1 DEF truncate
<1>2. CASE ~(n >= highest(d))
  <2> DEFINE b == [h \in Height |-> IF h >= n THEN NoBlock ELSE d.batches[h]]
  <2>1. b \in [Height -> Tree \cup {NoBlock}]
    BY DEF Disk
  <2>2. truncate(d, n) = [d EXCEPT !.batches = b]
    BY <1>2 DEF truncate
  <2> HIDE DEF b
  <2>3. QED BY <2>1, <2>2 DEF Disk
<1>3. QED BY <1>1, <1>2

LEMMA BurnWrite ==
    ASSUME NEW d \in Disk, NEW p \in Tree
    PROVE  /\ burn_batch_addresses(d, p) \in Disk
           /\ burn_batch_addresses(d, p).spent = d.spent \cup KeysOf(p)
           /\ burn_batch_addresses(d, p).current = d.current
           /\ burn_batch_addresses(d, p).batches = d.batches
           /\ burn_batch_addresses(d, p).snapshots = d.snapshots
BY TreeAssumption DEF Disk, burn_batch_addresses

LEMMA UnburnWrite ==
    ASSUME NEW d \in Disk, NEW p \in State
    PROVE  /\ unburn_batch_addresses(d, p) \in Disk
           /\ unburn_batch_addresses(d, p).spent =
                  IF p = NoBlock THEN d.spent ELSE d.spent \ KeysOf(p)
           /\ unburn_batch_addresses(d, p).current = d.current
           /\ unburn_batch_addresses(d, p).batches = d.batches
           /\ unburn_batch_addresses(d, p).snapshots = d.snapshots
BY DEF Disk, unburn_batch_addresses

LEMMA WriteTyped ==
    ASSUME NEW d \in Disk, d.current \in Tree, NEW w \in Entry, w[1] \notin {"check", "extend"}
    PROVE  Perform(d, w) \in Disk /\ Perform(d, w).current \in Tree
<1>1. w[1] \in Stored \cup {"unburn", "drop", "truncate"}
  BY EntryParts
<1>2. CASE w[1] = "batch"
  <2>1. w[2] \in Tree /\ Perform(d, w) = save_batch(d, w[2])
    BY <1>2, EntryParts, PerformIs DEF Stored
  <2>2. QED BY <2>1, BatchWrite
<1>3. CASE w[1] = "state"
  <2>1. w[2] \in Tree /\ Perform(d, w) = save_state(d, w[2])
    BY <1>3, EntryParts, PerformIs DEF Stored
  <2>2. QED BY <2>1, StateWrite
<1>4. CASE w[1] = "snapshot"
  <2>1. w[2] \in Tree /\ Perform(d, w) = save_state_snapshot(d, w[2])
    BY <1>4, EntryParts, PerformIs DEF Stored
  <2>2. QED BY <2>1, SnapshotWrite
<1>5. CASE w[1] = "burn"
  <2>1. w[2] \in Tree /\ Perform(d, w) = burn_batch_addresses(d, w[2])
    BY <1>5, EntryParts, PerformIs DEF Stored
  <2>2. QED BY <2>1, BurnWrite
<1>6. CASE w[1] = "unburn"
  <2>1. w[2] \in State /\ Perform(d, w) = unburn_batch_addresses(d, w[2])
    BY <1>6, EntryParts, PerformIs
  <2>2. QED BY <2>1, UnburnWrite
<1>7. CASE w[1] = "drop"
  <2>1. w[2] \in Nat /\ Perform(d, w) = delete_snapshots_above(d, w[2])
    BY <1>7, EntryParts, PerformIs
  <2>2. QED BY <2>1, DropWrite
<1>8. CASE w[1] = "truncate"
  <2>1. w[2] \in Nat /\ Perform(d, w) = truncate(d, w[2])
    BY <1>8, EntryParts, PerformIs
  <2>2. QED BY <2>1, TruncateWrite
<1>9. QED BY <1>1, <1>2, <1>3, <1>4, <1>5, <1>6, <1>7, <1>8 DEF Stored

\* Exactly the batches of m on disk: the health check is satisfied.
LEMMA HealthyWhenKept ==
    ASSUME NEW d \in Disk, NEW m \in Tree,
           \A h \in Height : d.batches[h] = IF h < Len(m) THEN BlockAt(m, h) ELSE NoBlock
    PROVE  Healthy(d, m)
<1> DEFINE n == Len(m) - 1
           stored == {h \in Height : d.batches[h] # NoBlock}
<1>1. Len(m) \in Nat /\ Len(m) > 0 /\ n \in Nat /\ n \in Height /\ n < Len(m) /\ m \in State
  BY Heights, TreeIsState
<1>2. BlockAt(m, n) = m
  BY <1>1, BlockIsState, WholePath
<1>3. d.batches[n] = m
  BY <1>1, <1>2
<1>4. n \in stored
  BY <1>1, <1>3, TreeIsState
<1>5. \A h \in stored : h <= n
  BY <1>1, Heights
<1>6. stored \in SUBSET Int /\ IsFiniteSet(stored)
  <2>1. stored \in SUBSET Height /\ Height \subseteq Int /\ IsFiniteSet(Height)
    BY Heights
  <2> HIDE DEF stored
  <2>2. QED BY <2>1, FS_Subset
<1>7. Max(stored) \in stored /\ Max(stored) >= n
  <2> HIDE DEF stored, n
  <2>1. QED BY <1>4, <1>6, MaxOf
<1>8. highest(d) = Max(stored)
  BY <1>4 DEF highest
<1> HIDE DEF stored
<1>9. Max(stored) <= n /\ Max(stored) \in Int
  BY <1>5, <1>6, <1>7
<1>10. highest(d) + 1 = Len(m)
  BY <1>1, <1>7, <1>8, <1>9
<1>11. QED BY <1>3, <1>10 DEF Healthy
-----------------------------------------------------------------------------
(***************************************************************************)
(* The ring buffer and the States rebuilt with it.                         *)
(***************************************************************************)
LEMMA CacheTyped ==
    ASSUME NEW c \in Seq(Tree), Len(c) <= STATE_CACHE_SIZE, NEW p \in Tree
    PROVE  /\ cache_current_state(c, p) \in Seq(Tree)
           /\ Len(cache_current_state(c, p)) <= STATE_CACHE_SIZE
<1> DEFINE kept == IF c # <<>> /\ Len(c[Len(c)]) = Len(p) THEN SubSeq(c, 1, Len(c) - 1) ELSE c
           all == Append(kept, p)
<1>1. STATE_CACHE_SIZE \in Nat \ {0} /\ Len(c) \in Nat
  BY SizeAssumption
<1>2. kept \in Seq(Tree) /\ Len(kept) <= Len(c) /\ Len(kept) \in Nat
  <2>1. ASSUME c # <<>> PROVE SubSeq(c, 1, Len(c) - 1) \in Seq(Tree) /\ Len(SubSeq(c, 1, Len(c) - 1)) = Len(c) - 1
    BY <2>1
  <2>2. QED BY <1>1, <2>1
<1> HIDE DEF kept
<1>3. all \in Seq(Tree) /\ Len(all) = Len(kept) + 1
  BY <1>2
<1>4. cache_current_state(c, p) = IF Len(all) > STATE_CACHE_SIZE THEN Tail(all) ELSE all
  BY DEF cache_current_state, kept
<1> HIDE DEF all
<1>5. all # <<>>
  BY <1>2, <1>3
<1>6. Tail(all) \in Seq(Tree) /\ Len(Tail(all)) = Len(all) - 1
  BY <1>3, <1>5
<1>7. QED BY <1>1, <1>2, <1>3, <1>4, <1>6

\* Ancestors of p below it, in the order of height.
Ancestors(c, p) ==
    /\ \A i \in DOMAIN c : IsPrefix(c[i], p) /\ Len(c[i]) < Len(p)
    /\ \A i, j \in DOMAIN c : i < j => Len(c[i]) < Len(c[j])

LEMMA CacheGrows ==
    ASSUME NEW c \in Seq(Tree), NEW p \in Tree, Ancestors(c, p)
    PROVE  LET r == cache_current_state(c, p)
           IN  /\ \A i \in DOMAIN r : IsPrefix(r[i], p)
               /\ \A i, j \in DOMAIN r : i < j => Len(r[i]) < Len(r[j])
<1> DEFINE r == cache_current_state(c, p)
           all == Append(c, p)
           kept == IF c # <<>> /\ Len(c[Len(c)]) = Len(p) THEN SubSeq(c, 1, Len(c) - 1) ELSE c
<1>1. Len(c) \in Nat /\ DOMAIN c = 1..Len(c) /\ p \in State
  BY TreeIsState
<1>2. kept = c
  <2>1. ASSUME c # <<>> PROVE Len(c[Len(c)]) # Len(p)
    <3>1. Len(c) \in DOMAIN c
      BY <2>1, <1>1
    <3>2. c[Len(c)] \in Tree
      BY <3>1
    <3>3. Len(c[Len(c)]) < Len(p) /\ Len(c[Len(c)]) \in Nat /\ Len(p) \in Nat
      BY <3>1, <3>2, Heights, TreeIsState DEF Ancestors
    <3>4. QED BY <3>3
  <2>2. QED BY <2>1
<1>3. r = IF Len(all) > STATE_CACHE_SIZE THEN Tail(all) ELSE all
  BY <1>2 DEF cache_current_state
<1>4. all \in Seq(Tree) /\ Len(all) = Len(c) + 1 /\ all # <<>> /\ DOMAIN all = 1..(Len(c) + 1)
  BY <1>1
<1>5. \A i \in 1..Len(c) : all[i] = c[i]
  BY <1>1
<1>6. all[Len(c) + 1] = p
  BY <1>1
<1> HIDE DEF all
<1>7. \A i \in DOMAIN all : IsPrefix(all[i], p)
  <2>1. IsPrefix(p, p)
    BY <1>1, PrefixRefl
  <2>2. ASSUME NEW i \in 1..(Len(c) + 1) PROVE IsPrefix(all[i], p)
    <3>1. i \in 1..Len(c) \/ i = Len(c) + 1
      BY <1>1
    <3>2. QED BY <1>1, <1>5, <1>6, <2>1, <3>1 DEF Ancestors
  <2>3. QED BY <1>4, <2>2
<1>8. \A i, j \in DOMAIN all : i < j => Len(all[i]) < Len(all[j])
  <2>1. ASSUME NEW i \in 1..(Len(c) + 1), NEW j \in 1..(Len(c) + 1), i < j
        PROVE  Len(all[i]) < Len(all[j])
    <3>1. i \in 1..Len(c) /\ (j \in 1..Len(c) \/ j = Len(c) + 1)
      BY <1>1, <2>1
    <3>2. QED BY <1>1, <1>5, <1>6, <2>1, <3>1 DEF Ancestors
  <2>2. QED BY <1>4, <2>1
<1>9. CASE r = all
  BY <1>7, <1>8, <1>9
<1>10. CASE r = Tail(all)
  <2>1. DOMAIN r = 1..Len(c) /\ \A i \in 1..Len(c) : r[i] = all[i + 1]
    BY <1>1, <1>4, <1>10
  <2>2. \A i \in 1..Len(c) : i + 1 \in DOMAIN all
    BY <1>1, <1>4
  <2>3. ASSUME NEW i \in DOMAIN r PROVE IsPrefix(r[i], p)
    BY <1>7, <2>1, <2>2
  <2>4. ASSUME NEW i \in DOMAIN r, NEW j \in DOMAIN r, i < j PROVE Len(r[i]) < Len(r[j])
    <3>1. i + 1 < j + 1
      BY <1>1, <2>1, <2>4
    <3>2. QED BY <1>8, <2>1, <2>2, <3>1
  <2>5. QED BY <2>3, <2>4
<1>11. QED BY <1>3, <1>9, <1>10

LEMMA TrimTyped ==
    ASSUME NEW c \in Seq(Tree), NEW n \in Nat
    PROVE  /\ trim_cache_above(c, n) \in Seq(Tree)
           /\ Len(trim_cache_above(c, n)) <= Len(c)
           /\ \A i \in DOMAIN trim_cache_above(c, n) : i \in DOMAIN c /\ trim_cache_above(c, n)[i] = c[i]
           /\ (\A i, j \in DOMAIN c : i < j => Len(c[i]) < Len(c[j])) =>
                  \A i \in DOMAIN trim_cache_above(c, n) : Len(c[i]) < n
<1> DEFINE low == {i \in DOMAIN c : Len(c[i]) < n}
           k == Max(low)
           r == trim_cache_above(c, n)
<1>1. Len(c) \in Nat /\ DOMAIN c = 1..Len(c)
  OBVIOUS
<1>2. CASE low = {}
  <2>1. r = <<>>
    BY <1>2 DEF trim_cache_above
  <2>2. QED BY <1>1, <2>1
<1>3. CASE low # {}
  <2>1. r = SubSeq(c, 1, k)
    BY <1>3 DEF trim_cache_above
  <2>2. k \in low
    <3>1. low \in SUBSET (1..Len(c)) /\ 1 \in Int /\ Len(c) \in Int
      BY <1>1
    <3> HIDE DEF low
    <3>2. QED BY <1>3, <3>1, IntervalSubset, MaxOf
  <2>3. k \in 1..Len(c) /\ Len(c[k]) < n /\ Len(c[k]) \in Nat
    <3>1. k \in 1..Len(c) /\ Len(c[k]) < n
      BY <1>1, <2>2
    <3>2. c[k] \in Tree
      BY <3>1
    <3>3. QED BY <3>1, <3>2, Heights, TreeIsState
  <2> HIDE DEF low, k
  <2>4. r \in Seq(Tree) /\ Len(r) = k /\ DOMAIN r = 1..k /\ \A i \in 1..k : r[i] = c[i]
    BY <1>1, <2>1, <2>3
  <2>5. \A i \in 1..k : i \in DOMAIN c
    BY <1>1, <2>3
  <2>6. ASSUME \A i, j \in DOMAIN c : i < j => Len(c[i]) < Len(c[j]), NEW i \in 1..k
        PROVE  Len(c[i]) < n
    <3>1. i \in DOMAIN c /\ k \in DOMAIN c /\ (i < k \/ i = k)
      BY <1>1, <2>3, <2>5
    <3>2. Len(c[i]) \in Nat
      BY <3>1, Heights, TreeIsState
    <3>3. CASE i = k
      BY <2>3, <3>3
    <3>4. CASE i < k
      <4>1. Len(c[i]) < Len(c[k])
        BY <2>6, <3>1, <3>4
      <4>2. QED BY <2>3, <3>2, <4>1
    <3>5. QED BY <3>1, <3>3, <3>4
  <2>7. Len(r) <= Len(c)
    BY <1>1, <2>3, <2>4
  <2>8. QED BY <2>4, <2>5, <2>6, <2>7
<1>4. QED BY <1>2, <1>3

LEMMA HighestOf ==
    ASSUME NEW S \in SUBSET Tree, S # {}
    PROVE  Highest(S) \in S
<1> DEFINE L == {Len(p) : p \in S}
<1>1. L \in SUBSET Height /\ L # {}
  <2>1. \A p \in S : Len(p) \in Height
    BY Heights, TreeIsState
  <2>2. QED BY <2>1
<1>2. L \in SUBSET Int /\ IsFiniteSet(L)
  <2> HIDE DEF L
  <2>1. Height \subseteq Int /\ IsFiniteSet(Height)
    BY Heights
  <2>2. QED BY <1>1, <2>1, FS_Subset
<1>3. Max(L) \in L /\ \A n \in L : Max(L) >= n
  <2> HIDE DEF L
  <2>1. QED BY <1>1, <1>2, MaxOf
<1>4. PICK p \in S : Len(p) = Max(L)
  BY <1>3
<1>5. \A q \in S : Len(q) \in L
  OBVIOUS
<1> HIDE DEF L
<1>6. \A q \in S : Len(q) <= Len(p)
  <2>1. ASSUME NEW q \in S PROVE Len(q) <= Len(p)
    <3>1. Len(q) \in L /\ Len(q) \in Int /\ Max(L) \in Int
      BY <1>2, <1>3, <1>5
    <3>2. QED BY <1>3, <1>4, <3>1
  <2>2. QED BY <2>1
<1>7. QED BY <1>6 DEF Highest

\* What the invariant says when no handler is running.
Kept(d, c, m) ==
    /\ d \in Disk /\ c \in Seq(Tree) /\ m \in Tree
    /\ \A h \in Height : d.batches[h] = IF h < Len(m) THEN BlockAt(m, h) ELSE NoBlock
    /\ \A q \in d.snapshots : IsPrefix(q, m)
    /\ \A i \in DOMAIN c : IsPrefix(c[i], m)

\* A rebuild starts from a State of the chain that is not too high.
LEMMA RebuildFromChain ==
    ASSUME NEW d, NEW c, NEW m, Kept(d, c, m), NEW n \in Nat
    PROVE  /\ RebuildFrom(d, c, n) \in State /\ IsPrefix(RebuildFrom(d, c, n), m)
           /\ Len(RebuildFrom(d, c, n)) <= n
<1> DEFINE hits == {i \in DOMAIN c : Len(c[i]) <= n}
           snaps == {p \in TrustedSnapshots(d) : Len(p) <= n}
           lens == {Len(c[i]) : i \in hits}
           top == Max(lens)
           best == {i \in hits : Len(c[i]) = top}
           from == RebuildFrom(d, c, n)
<1>1. c \in Seq(Tree) /\ m \in Tree /\ m \in State
  BY TreeIsState DEF Kept
<1>2. Len(c) \in Nat /\ DOMAIN c = 1..Len(c)
  BY <1>1
<1>3. CASE hits # {}
  <2>1. lens \in SUBSET (0..n) /\ lens # {}
    <3>1. ASSUME NEW i \in hits PROVE Len(c[i]) \in 0..n
      <4>1. i \in DOMAIN c /\ Len(c[i]) <= n
        OBVIOUS
      <4>2. c[i] \in State
        BY <1>1, <4>1, TreeIsState
      <4>3. Len(c[i]) \in Nat
        BY <4>2, Heights
      <4>4. QED BY <4>1, <4>3
    <3>2. QED BY <1>3, <3>1
  <2>2. top \in lens
    <3> HIDE DEF lens
    <3>1. 0 \in Int /\ n \in Int
      OBVIOUS
    <3>2. QED BY <2>1, <3>1, IntervalSubset, MaxOf
  <2>3. best # {}
    BY <2>2
  <2>4. best \in SUBSET (1..Len(c))
    BY <1>2
  <2>5. Max(best) \in best
    <3> HIDE DEF best
    <3>1. 1 \in Int /\ Len(c) \in Int
      BY <1>2
    <3>2. QED BY <2>3, <2>4, <3>1, IntervalSubset, MaxOf
  <2>6. from = c[Max(best)]
    BY <1>3 DEF RebuildFrom
  <2>7. Max(best) \in DOMAIN c /\ Len(c[Max(best)]) <= n
    BY <2>5
  <2> HIDE DEF best, hits, from
  <2>8. from \in State
    BY <1>1, <2>6, <2>7, TreeIsState
  <2>9. IsPrefix(from, m)
    BY <2>6, <2>7 DEF Kept
  <2>10. QED BY <2>6, <2>7, <2>8, <2>9 DEF from
<1>4. CASE hits = {} /\ snaps # {}
  <2>1. from = Highest(snaps)
    BY <1>4 DEF RebuildFrom
  <2>2. TrustedSnapshots(d) \subseteq d.snapshots /\ d.snapshots \subseteq Tree
    BY DEF TrustedSnapshots, Kept, Disk
  <2>3. snaps \in SUBSET Tree /\ \A p \in snaps : p \in d.snapshots /\ Len(p) <= n
    BY <2>2
  <2> HIDE DEF snaps
  <2>4. Highest(snaps) \in snaps
    BY <1>4, <2>3, HighestOf
  <2> HIDE DEF from
  <2>5. from \in Tree /\ from \in d.snapshots /\ Len(from) <= n
    BY <2>1, <2>3, <2>4
  <2>6. IsPrefix(from, m)
    BY <2>5 DEF Kept
  <2>7. QED BY <2>5, <2>6, TreeIsState DEF from
<1>5. CASE hits = {} /\ snaps = {}
  <2>1. from = <<>>
    BY <1>5 DEF RebuildFrom
  <2>2. Len(m) \in Nat
    BY <1>1, Heights
  <2>3. StateAt(m, 0) = <<>> /\ 0 <= Len(m) /\ Len(from) = 0 /\ 0 \in Nat
    BY <1>1, <2>1, <2>2, PrefixState
  <2> HIDE DEF from
  <2>4. IsPrefix(from, m)
    BY <2>1, <2>2, <2>3 DEF IsPrefix
  <2>5. QED BY <2>1, <2>3, <2>4 DEF State, from
<1>6. QED BY <1>3, <1>4, <1>5

\* The State at any height of the chain can be rebuilt, and above it none.
LEMMA RebuildsChain ==
    ASSUME NEW d, NEW c, NEW m, Kept(d, c, m), NEW n \in Height, n > 0
    PROVE  rebuild_state_from_disk(d, c, n) = IF n <= Len(m) THEN {StateAt(m, n)} ELSE {}
<1> DEFINE from == RebuildFrom(d, c, n)
           end == IF n = Len(from) THEN from ELSE d.batches[n - 1]
           Good(p) == /\ Len(p) = n /\ IsPrefix(from, p)
                      /\ \A h \in Len(from)..(n - 1) : d.batches[h] = BlockAt(p, h)
<1>1. m \in State /\ Len(m) \in Nat /\ Len(m) \in Height /\ n \in Nat
  BY TreeIsState, Heights DEF Kept
<1>2. from \in State /\ IsPrefix(from, m) /\ Len(from) <= n /\ Len(from) \in Nat
  BY <1>1, RebuildFromChain, Heights
<1>3. rebuild_state_from_disk(d, c, n) = {p \in {end} : Good(p)}
  BY DEF rebuild_state_from_disk
<1> HIDE DEF from
<1>4. Len(from) <= Len(m) /\ StateAt(m, Len(from)) = from
  BY <1>2 DEF IsPrefix
<1>5. CASE n <= Len(m)
  <2> DEFINE r == StateAt(m, n)
  <2>1. r \in State /\ Len(r) = n /\ r \in Tree
    BY <1>1, <1>5, PrefixState
  <2>2. n - 1 \in Nat /\ n - 1 < Len(m) /\ n - 1 \in Height /\ (n - 1) + 1 = n
    BY <1>1, <1>5, Heights
  <2>3. d.batches[n - 1] = r
    <3>1. d.batches[n - 1] = BlockAt(m, n - 1)
      BY <2>2 DEF Kept
    <3>2. BlockAt(m, n - 1) = r
      BY <2>2, BlockIsState
    <3>3. QED BY <3>1, <3>2
  <2>4. end = r
    BY <1>4, <2>3
  <2>5. StateAt(m, n) = StateAt(r, n)
    BY <2>1, WholePath
  <2>6. IsPrefix(from, r)
    BY <1>1, <1>2, <1>5, <2>1, <2>5, SharedBelow
  <2>7. \A h \in Len(from)..(n - 1) : d.batches[h] = BlockAt(r, h)
    <3>1. ASSUME NEW h \in Len(from)..(n - 1) PROVE d.batches[h] = BlockAt(r, h)
      <4>1. h \in Nat /\ h < n /\ h < Len(m) /\ h \in Height
        BY <1>1, <1>2, <1>5, Heights
      <4>2. d.batches[h] = BlockAt(m, h)
        BY <4>1 DEF Kept
      <4>3. BlockAt(m, h) = BlockAt(r, h)
        BY <1>1, <1>5, <2>1, <2>5, <4>1, SharedBelow
      <4>4. QED BY <4>2, <4>3
    <3>2. QED BY <3>1
  <2>8. Good(r)
    BY <2>1, <2>6, <2>7
  <2> HIDE DEF r, Good, end
  <2>9. QED BY <1>3, <1>5, <2>4, <2>8 DEF r
<1>6. CASE n > Len(m)
  <2>1. n # Len(from) /\ n - 1 \in Height /\ ~(n - 1 < Len(m))
    BY <1>1, <1>2, <1>4, <1>6, Heights
  <2>2. end = NoBlock
    BY <2>1 DEF Kept
  <2>3. ~Good(end)
    BY <2>2 DEF NoBlock
  <2> HIDE DEF end, Good
  <2>4. QED BY <1>1, <1>3, <1>6, <2>3
<1>7. QED BY <1>1, <1>5, <1>6

LEMMA ForkPoint ==
    ASSUME NEW d, NEW p \in Tree, NEW s \in Nat, NEW fork \in find_fork_point(d, p, s)
    PROVE  /\ fork \in Nat /\ fork \in Height /\ s <= fork /\ fork < Len(p)
           /\ \A h \in s..(fork - 1) : d.batches[h] = BlockAt(p, h)
<1>1. Len(p) \in Nat /\ Len(p) \in Height
  BY Heights, TreeIsState
<1>2. fork \in s..(Len(p) - 1)
  BY DEF find_fork_point
<1>3. fork \in Nat /\ s <= fork /\ fork < Len(p)
  BY <1>1, <1>2
<1>4. fork \in Height
  BY <1>1, <1>3, Heights
<1>5. ASSUME NEW h \in s..(fork - 1) PROVE d.batches[h] = BlockAt(p, h)
  <2>1. h \in s..(Len(p) - 1) /\ ~(fork <= h)
    BY <1>1, <1>3
  <2>2. QED BY <2>1 DEF find_fork_point
<1>6. QED BY <1>3, <1>4, <1>5

\* A chain is adopted from a fork both chains reach by the same blocks.
LEMMA ForkIsShared ==
    ASSUME NEW d, NEW c, NEW m, Kept(d, c, m), NEW p \in Tree, NEW s \in Nat,
           NEW fork \in evaluate_alternative_chain(d, c, m, p, s)
    PROVE  /\ fork \in Nat /\ fork < Len(p) /\ fork <= Len(m)
           /\ StateAt(p, fork) = StateAt(m, fork)
           /\ Depth(p) > Depth(m)
<1>1. /\ fork \in find_fork_point(d, p, s) /\ Depth(p) > Depth(m)
      /\ StateAt(p, fork) \in fork_state(d, c, m, p, fork)
  BY DEF evaluate_alternative_chain
<1>2. fork \in Nat /\ fork \in Height /\ fork < Len(p)
  BY <1>1, ForkPoint
<1>3. m \in State /\ p \in State /\ Len(m) \in Nat /\ Len(p) \in Nat
  BY TreeIsState, Heights DEF Kept
<1>4. fork <= Len(m) /\ StateAt(p, fork) = StateAt(m, fork)
  <2>1. CASE fork = Len(m)
    <3>1. StateAt(p, fork) = m
      BY <1>1, <2>1 DEF fork_state
    <3>2. QED BY <1>3, <2>1, <3>1, WholePath
  <2>2. CASE fork # Len(m) /\ fork = 0
    <3>1. StateAt(p, 0) = <<>> /\ StateAt(m, 0) = <<>>
      BY <1>3, PrefixState
    <3>2. QED BY <1>3, <2>2, <3>1
  <2>3. CASE fork # Len(m) /\ fork # 0
    <3>1. StateAt(p, fork) \in rebuild_state_from_disk(d, c, fork)
      BY <1>1, <2>3 DEF fork_state
    <3>2. fork > 0
      BY <1>2, <2>3
    <3>3. rebuild_state_from_disk(d, c, fork) = IF fork <= Len(m) THEN {StateAt(m, fork)} ELSE {}
      BY <1>2, <3>2, RebuildsChain
    <3>4. QED BY <3>1, <3>3
  <2>4. QED BY <2>1, <2>2, <2>3
<1>5. QED BY <1>1, <1>2, <1>4

\* Below its fork point an offered chain is ours, if it is where it starts.
LEMMA ForkFound ==
    ASSUME NEW d, NEW c, NEW m, Kept(d, c, m), NEW p \in Tree, Len(m) <= Len(p),
           ~IsPrefix(m, p), NEW s \in 0..(Len(p) - 1), IsPrefix(StateAt(p, s), m)
    PROVE  \E fork \in find_fork_point(d, p, s) :
               fork \in Nat /\ fork < Len(m) /\ StateAt(p, fork) = StateAt(m, fork)
<1> DEFINE differ == {h \in s..(Len(p) - 1) : d.batches[h] # BlockAt(p, h)}
           tip == Len(m) - 1
           fork == Min(differ)
<1>1. /\ m \in Tree /\ m \in State /\ p \in State /\ Len(m) \in Nat /\ Len(p) \in Nat
      /\ Len(m) > 0 /\ s \in Nat /\ s <= Len(p)
  BY TreeIsState, Heights DEF Kept
<1>2. Len(StateAt(p, s)) = s
  BY <1>1, PrefixState
<1>3. s <= Len(m) /\ StateAt(m, s) = StateAt(p, s)
  BY <1>2 DEF IsPrefix
<1>4. s # Len(m)
  <2>1. ASSUME s = Len(m) PROVE StateAt(p, Len(m)) = m
    BY <1>1, <1>3, <2>1, WholePath
  <2>2. QED BY <2>1 DEF IsPrefix
<1>5. tip \in Nat /\ tip \in s..(Len(p) - 1) /\ tip \in Height /\ tip < Len(m) /\ tip + 1 = Len(m)
  BY <1>1, <1>3, <1>4, Heights
<1>6. d.batches[tip] = m /\ BlockAt(p, tip) # m
  <2>1. BlockAt(m, tip) = m
    BY <1>1, <1>5, BlockIsState, WholePath
  <2>2. BlockAt(p, tip) = StateAt(p, Len(m))
    BY <1>5, BlockIsState
  <2>3. StateAt(p, Len(m)) # m
    BY DEF IsPrefix
  <2>4. d.batches[tip] = BlockAt(m, tip)
    BY <1>5 DEF Kept
  <2>5. QED BY <2>1, <2>2, <2>3, <2>4
<1>7. tip \in differ
  BY <1>5, <1>6
<1>8. differ \in SUBSET Nat
  BY <1>1
<1>9. fork \in differ /\ \A g \in differ : fork <= g
  <2> HIDE DEF differ
  <2>1. QED BY <1>7, <1>8, MinOf
<1>10. fork \in find_fork_point(d, p, s)
  BY <1>9 DEF find_fork_point
<1> HIDE DEF differ, fork
<1>11. fork \in Nat /\ fork < Len(m) /\ s <= fork /\ \A h \in s..(fork - 1) : d.batches[h] = BlockAt(p, h)
  <2>1. fork <= tip
    BY <1>7, <1>9
  <2>2. fork \in Nat
    BY <1>8, <1>9
  <2>3. s \in Nat
    BY <1>1
  <2>4. s <= fork /\ \A h \in s..(fork - 1) : d.batches[h] = BlockAt(p, h)
    BY <1>10, <2>3, ForkPoint
  <2>5. QED BY <1>1, <1>5, <2>1, <2>2, <2>4
<1>12. StateAt(p, fork) = StateAt(m, fork)
  <2>1. CASE fork = s
    BY <1>3, <2>1
  <2>2. CASE fork > s
    <3> DEFINE h == fork - 1
    <3>1. h \in Nat /\ h \in s..(fork - 1) /\ h < Len(m) /\ h + 1 = fork
      BY <1>1, <1>11, <2>2
    <3>2. h \in Height
      BY <1>1, <3>1, Heights
    <3>3. d.batches[h] = BlockAt(p, h) /\ d.batches[h] = BlockAt(m, h)
      BY <1>11, <3>1, <3>2 DEF Kept
    <3>4. BlockAt(p, h) = StateAt(p, fork) /\ BlockAt(m, h) = StateAt(m, fork)
      BY <3>1, BlockIsState
    <3>5. QED BY <3>3, <3>4
  <2>3. QED BY <1>1, <1>11, <2>1, <2>2
<1>13. QED BY <1>10, <1>11, <1>12

\* Our work since the fork, read from the disk.
LEMMA OurWork ==
    ASSUME NEW d, NEW c, NEW m, Kept(d, c, m), NEW fork \in Nat
    PROVE  OurWorkSince(d, Len(m), fork) = AltWork(m, fork)
<1> DEFINE D == fork..(Len(m) - 1)
           f == [h \in fork..(Len(m) - 1) |-> IF d.batches[h] = NoBlock THEN 0 ELSE Work(d.batches[h])]
           g == [h \in fork..(Len(m) - 1) |-> Work(BlockAt(m, h))]
<1>1. m \in Tree /\ m \in State /\ Len(m) \in Nat /\ Len(m) \in Height
  BY TreeIsState, Heights DEF Kept
<1>2. IsFiniteSet(D)
  <2>1. fork \in Int /\ Len(m) - 1 \in Int
    BY <1>1
  <2>2. QED BY <2>1, FS_Interval
<1>3. \A h \in D : f[h] = g[h]
  <2>1. ASSUME NEW h \in D PROVE f[h] = g[h]
    <3>1. h \in Nat /\ h < Len(m) /\ h \in Height
      BY <1>1, Heights
    <3>2. d.batches[h] = BlockAt(m, h)
      BY <3>1 DEF Kept
    <3>3. BlockAt(m, h) # NoBlock
      BY <1>1, <3>1, BlockInTree, TreeIsState
    <3>4. QED BY <3>2, <3>3
  <2>2. QED BY <2>1
<1>4. OurWorkSince(d, Len(m), fork) = SumOf(f, D) /\ AltWork(m, fork) = SumOf(g, D)
  BY DEF OurWorkSince, AltWork
<1> HIDE DEF f, g, D
<1>5. QED BY <1>2, <1>3, <1>4, SumCongruence

\* A heavier chain passes every test of evaluate_alternative_chain.
LEMMA HeavierAdopted ==
    ASSUME NEW d, NEW c, NEW m, Kept(d, c, m), NEW p \in Tree, Depth(p) > Depth(m),
           Len(m) <= Len(p), ~IsPrefix(m, p), NEW s \in 0..(Len(p) - 1),
           IsPrefix(StateAt(p, s), m)
    PROVE  evaluate_alternative_chain(d, c, m, p, s) # {}
<1>1. /\ m \in Tree /\ m \in State /\ p \in State /\ Len(m) \in Nat /\ Len(p) \in Nat /\ s \in Nat
  BY TreeIsState, Heights DEF Kept
<1>2. PICK fork \in find_fork_point(d, p, s) :
          fork \in Nat /\ fork < Len(m) /\ StateAt(p, fork) = StateAt(m, fork)
  BY ForkFound
<1>3. fork < Len(p) /\ fork <= Len(p) /\ fork \in Height
  <2>1. fork < Len(p) /\ fork \in Height
    BY <1>1, ForkPoint
  <2>2. QED BY <1>1, <1>2, <2>1
<1>4. AltWork(p, fork) > OurWorkSince(d, Len(m), fork)
  <2>1. OurWorkSince(d, Len(m), fork) = AltWork(m, fork)
    BY <1>2, OurWork
  <2>2. Depth(p) = Depth(StateAt(p, fork)) + AltWork(p, fork)
        /\ AltWork(p, fork) \in Nat /\ Depth(StateAt(p, fork)) \in Nat
    BY <1>1, <1>2, <1>3, WorkOfBlocks
  <2>3. Depth(m) = Depth(StateAt(m, fork)) + AltWork(m, fork) /\ AltWork(m, fork) \in Nat
    <3>1. fork <= Len(m)
      BY <1>1, <1>2
    <3>2. QED BY <1>1, <1>2, <3>1, WorkOfBlocks
  <2>4. Depth(StateAt(p, fork)) = Depth(StateAt(m, fork))
    BY <1>2
  <2>5. AltWork(p, fork) > AltWork(m, fork)
    BY <2>2, <2>3, <2>4
  <2>6. QED BY <2>1, <2>5
<1>5. StateAt(p, fork) \in fork_state(d, c, m, p, fork)
  <2>1. CASE fork = 0
    <3>1. StateAt(p, fork) = <<>>
      BY <1>1, <1>2, <2>1, PrefixState
    <3>2. fork # Len(m)
      BY <1>1, <1>2
    <3>3. QED BY <2>1, <3>1, <3>2 DEF fork_state
  <2>2. CASE fork # 0
    <3>1. fork > 0 /\ fork # Len(m) /\ fork <= Len(m)
      BY <1>1, <1>2, <2>2
    <3>2. rebuild_state_from_disk(d, c, fork) = {StateAt(m, fork)}
      BY <1>3, <3>1, RebuildsChain
    <3>3. ~(AltWork(p, fork) <= OurWorkSince(d, Len(m), fork))
      <4>1. OurWorkSince(d, Len(m), fork) = AltWork(m, fork)
        BY <1>2, OurWork
      <4>2. AltWork(p, fork) \in Nat /\ AltWork(m, fork) \in Nat
        BY <1>1, <1>2, <1>3, <3>1, WorkOfBlocks
      <4>3. QED BY <1>4, <4>1, <4>2
    <3>4. QED BY <1>2, <2>2, <3>1, <3>2, <3>3 DEF fork_state
  <2>3. QED BY <2>1, <2>2
<1>6. QED BY <1>2, <1>5 DEF evaluate_alternative_chain
-----------------------------------------------------------------------------
(***************************************************************************)
(* The writes of the handlers.                                             *)
(***************************************************************************)
LEMMA ConcatEntries ==
    ASSUME NEW S, NEW s \in Seq(S), NEW t \in Seq(S)
    PROVE  /\ s \o t \in Seq(S) /\ Len(s \o t) = Len(s) + Len(t)
           /\ \A j \in DOMAIN s : j \in DOMAIN (s \o t) /\ (s \o t)[j] = s[j]
           /\ \A j \in DOMAIN t : Len(s) + j \in DOMAIN (s \o t) /\ (s \o t)[Len(s) + j] = t[j]
           /\ \A i \in DOMAIN (s \o t) :
                  \/ i \in DOMAIN s /\ (s \o t)[i] = s[i]
                  \/ \E j \in DOMAIN t : i = Len(s) + j /\ (s \o t)[i] = t[j]
<1>1. /\ s \o t \in Seq(S) /\ Len(s \o t) = Len(s) + Len(t)
      /\ \A i \in 1..(Len(s) + Len(t)) : (s \o t)[i] = IF i <= Len(s) THEN s[i] ELSE t[i - Len(s)]
  BY ConcatProperties
<1>2. Len(s) \in Nat /\ Len(t) \in Nat /\ DOMAIN s = 1..Len(s) /\ DOMAIN t = 1..Len(t)
  OBVIOUS
<1>3. DOMAIN (s \o t) = 1..(Len(s) + Len(t))
  BY <1>1
<1>4. ASSUME NEW j \in DOMAIN s PROVE j \in DOMAIN (s \o t) /\ (s \o t)[j] = s[j]
  BY <1>1, <1>2, <1>3
<1>5. ASSUME NEW j \in DOMAIN t
      PROVE  Len(s) + j \in DOMAIN (s \o t) /\ (s \o t)[Len(s) + j] = t[j]
  <2>1. Len(s) + j \in 1..(Len(s) + Len(t)) /\ ~(Len(s) + j <= Len(s)) /\ Len(s) + j - Len(s) = j
    BY <1>2
  <2>2. QED BY <1>1, <1>3, <2>1
<1>6. ASSUME NEW i \in DOMAIN (s \o t), i \notin DOMAIN s
      PROVE  \E j \in DOMAIN t : i = Len(s) + j /\ (s \o t)[i] = t[j]
  <2>1. i - Len(s) \in DOMAIN t /\ i = Len(s) + (i - Len(s))
    BY <1>2, <1>3, <1>6
  <2>2. QED BY <1>5, <2>1
<1>7. QED BY <1>1, <1>4, <1>5, <1>6

\* An entry a handler may leave after it moved memory to p.
FitsEntry(w, p) ==
    /\ w \in Entry
    /\ w[1] \in Stored \cup {"check", "extend"}
    /\ w[1] \in Stored => w[2] = p
    /\ w[1] = "extend" => Len(p) < Len(w[2]) /\ IsPrefix(p, w[2])

\* The writes of a handler that moves memory from p's parent to p.
Fits(s, p) ==
    /\ s \in Seq(Entry)
    /\ \A i \in DOMAIN s : FitsEntry(s[i], p)
    /\ \A i \in DOMAIN s : s[i][1] \in {"check", "extend"} => i = Len(s)
    /\ 1 \in DOMAIN s /\ s[1] = Write("batch", p)
    /\ \A i \in DOMAIN s : s[i][1] = "batch" => i = 1

Plain(s) == \A i \in DOMAIN s : s[i][1] \in Stored

LEMMA FitsAppend ==
    ASSUME NEW p, NEW s, Fits(s, p), Plain(s), NEW w, FitsEntry(w, p), w[1] # "batch"
    PROVE  Fits(s \o <<w>>, p) /\ (w[1] \in Stored => Plain(s \o <<w>>))
<1> DEFINE t == <<w>>
           r == s \o t
<1>1. s \in Seq(Entry) /\ t \in Seq(Entry) /\ Len(t) = 1 /\ DOMAIN t = {1} /\ t[1] = w
  BY DEF Fits, FitsEntry
<1> HIDE DEF t
<1>2. /\ r \in Seq(Entry) /\ Len(r) = Len(s) + 1
      /\ \A j \in DOMAIN s : j \in DOMAIN r /\ r[j] = s[j]
      /\ \A i \in DOMAIN r : (i \in DOMAIN s /\ r[i] = s[i]) \/ (i = Len(s) + 1 /\ r[i] = w)
  <2>1. /\ r \in Seq(Entry) /\ Len(r) = Len(s) + Len(t)
        /\ \A j \in DOMAIN s : j \in DOMAIN r /\ r[j] = s[j]
    BY <1>1, ConcatEntries
  <2>2. \A i \in DOMAIN r : (i \in DOMAIN s /\ r[i] = s[i])
                            \/ \E j \in DOMAIN t : i = Len(s) + j /\ r[i] = t[j]
    BY <1>1, ConcatEntries
  <2>3. QED BY <1>1, <2>1, <2>2
<1> HIDE DEF r
<1>3. \A i \in DOMAIN r : FitsEntry(r[i], p)
  BY <1>2 DEF Fits
<1>4. \A i \in DOMAIN r : r[i][1] \in {"check", "extend"} => i = Len(r)
  <2>1. ASSUME NEW i \in DOMAIN r, r[i][1] \in {"check", "extend"} PROVE i = Len(r)
    <3>1. ~(i \in DOMAIN s /\ r[i] = s[i])
      BY <2>1 DEF Plain, Stored
    <3>2. QED BY <1>2, <3>1
  <2>2. QED BY <2>1
<1>5. /\ 1 \in DOMAIN r /\ r[1] = Write("batch", p)
      /\ \A i \in DOMAIN r : r[i][1] = "batch" => i = 1
  BY <1>2 DEF Fits
<1>6. Fits(r, p)
  BY <1>2, <1>3, <1>4, <1>5 DEF Fits
<1>7. ASSUME w[1] \in Stored PROVE Plain(r)
  BY <1>2, <1>7 DEF Plain
<1>8. QED BY <1>6, <1>7 DEF r, t

\* Each of the loops below starts with plain writes of one block.
LEMMA FirstWrites ==
    ASSUME NEW p \in Tree
    PROVE  /\ Fits(<<Write("batch", p)>>, p) /\ Plain(<<Write("batch", p)>>)
           /\ Fits(BatchStateBurn(p), p) /\ Plain(BatchStateBurn(p))
<1>1. \A op \in Stored : Write(op, p) \in Entry /\ Write(op, p)[1] = op /\ Write(op, p)[2] = p
  BY DEF Entry, Write
<1>2. \A op \in Stored : FitsEntry(Write(op, p), p)
  <2>1. "extend" \notin Stored
    BY DEF Stored
  <2>2. QED BY <1>1, <2>1 DEF FitsEntry
<1> DEFINE b == Write("batch", p)
           t == Write("state", p)
           u == Write("burn", p)
<1>3. /\ FitsEntry(b, p) /\ FitsEntry(t, p) /\ FitsEntry(u, p)
      /\ b \in Entry /\ t \in Entry /\ u \in Entry
      /\ b[1] \in Stored /\ t[1] \in Stored /\ u[1] \in Stored
  BY <1>1, <1>2 DEF Stored
<1>4. \A op \in Stored : op \notin {"check", "extend"}
  BY DEF Stored
<1> HIDE DEF b, t, u
<1>5. Fits(<<b>>, p) /\ Plain(<<b>>)
  <2>1. <<b>> \in Seq(Entry) /\ DOMAIN <<b>> = {1} /\ <<b>>[1] = b
    BY <1>3
  <2>2. QED BY <1>3, <1>4, <2>1 DEF Fits, Plain, b
<1>6. Fits(<<b, t, u>>, p) /\ Plain(<<b, t, u>>)
  <2> DEFINE r == <<b, t, u>>
  <2>1. r \in Seq(Entry) /\ DOMAIN r = {1, 2, 3} /\ r[1] = b /\ r[2] = t /\ r[3] = u
    BY <1>3
  <2> HIDE DEF r
  <2>2. \A i \in DOMAIN r : FitsEntry(r[i], p) /\ r[i][1] \in Stored
    BY <1>3, <2>1
  <2>3. t[1] # "batch" /\ u[1] # "batch"
    BY <1>1 DEF t, u, Stored
  <2>4. \A i \in DOMAIN r : r[i][1] = "batch" => i = 1
    BY <2>1, <2>3
  <2>5. QED BY <1>4, <2>1, <2>2, <2>4 DEF Fits, Plain, b, r
<1>7. QED BY <1>5, <1>6 DEF BatchStateBurn, b, t, u

LEMMA SnapshotFits ==
    ASSUME NEW p \in Tree, NEW s, Fits(s, p), Plain(s)
    PROVE  Fits(s \o SnapshotIfDue(p), p) /\ Plain(s \o SnapshotIfDue(p))
<1>1. CASE SnapshotIfDue(p) = <<>>
  <2>1. s \o <<>> = s
    BY ConcatEmptySeq DEF Fits
  <2>2. QED BY <1>1, <2>1
<1>2. CASE SnapshotIfDue(p) = <<Write("snapshot", p)>>
  <2>1. /\ FitsEntry(Write("snapshot", p), p) /\ Write("snapshot", p)[1] \in Stored
        /\ Write("snapshot", p)[1] # "batch"
    BY DEF FitsEntry, Entry, Write, Stored
  <2>2. QED BY <1>2, <2>1, FitsAppend
<1>3. QED BY <1>1, <1>2 DEF SnapshotIfDue

LEMMA CheckFits ==
    ASSUME NEW p \in Tree, NEW s, Fits(s, p), Plain(s)
    PROVE  Fits(s \o CheckIfDue(p), p)
<1>1. CASE CheckIfDue(p) = <<>>
  <2>1. s \o <<>> = s
    BY ConcatEmptySeq DEF Fits
  <2>2. QED BY <1>1, <2>1
<1>2. CASE CheckIfDue(p) = <<Write("check", 0)>>
  <2>1. FitsEntry(Write("check", 0), p) /\ Write("check", 0)[1] # "batch"
    BY DEF FitsEntry, Entry, Write, Stored
  <2>2. QED BY <1>2, <2>1, FitsAppend
<1>3. QED BY <1>1, <1>2 DEF CheckIfDue
-----------------------------------------------------------------------------
(***************************************************************************)
(* The invariant, step by step.                                            *)
(***************************************************************************)
\* Nothing is about to be written: no handler is running, or one is between
\* two blocks.
Calm == \A i \in DOMAIN todo : todo[i][1] \in {"extend", "check"}

LEMMA CalmIsKept ==
    ASSUME ChainInv, Calm, crashes = 0
    PROVE  Kept(disk, cache, mem) /\ disk.spent \subseteq KeysOn(mem)
<1>1. disk \in Disk /\ cache \in Seq(Tree) /\ mem \in Tree
  BY DEF ChainInv, Typed, TypeOK
<1>2. \A h \in Height : disk.batches[h] = IF h < Len(mem) THEN BlockAt(mem, h) ELSE NoBlock
  <2>1. \A p : ~Pending(Write("batch", p))
    BY DEF Pending, Calm, Write
  <2>2. QED BY <2>1 DEF ChainInv, BatchesKept
<1>3. \A q \in disk.snapshots : IsPrefix(q, mem)
  BY DEF ChainInv, SnapshotsKept, Calm
<1>4. disk.spent \subseteq KeysOn(mem)
  BY DEF ChainInv, KeysKept, Calm
<1>5. \A i \in DOMAIN cache : IsPrefix(cache[i], mem)
  BY DEF ChainInv, CacheKept
<1>6. QED BY <1>1, <1>2, <1>3, <1>4, <1>5 DEF Kept

\* Memory moves to a child of the State.
Advance(p, w) ==
    /\ mem' = p /\ cache' = cache_current_state(cache, p) /\ todo' = w
    /\ UNCHANGED <<disk, saves, crashes, replaced>>

LEMMA AdvanceTyped ==
    ASSUME Typed, NEW p \in Tree, NEW w, Fits(w, p), Advance(p, w)
    PROVE  Typed'
<1>1. mem' \in Tree /\ disk' \in Disk /\ disk'.current \in Tree /\ saves' \subseteq Tree
      /\ crashes' \in 0..MaxCrashes
  BY DEF Typed, TypeOK, Advance
<1>2. cache' \in Seq(Tree) /\ Len(cache') <= STATE_CACHE_SIZE
  BY CacheTyped DEF Typed, TypeOK, Advance
<1>3. todo' \in Seq(Entry) /\ todo' = w /\ mem' = p
  BY DEF Advance, Fits
<1>4. \A i \in DOMAIN w : w[i][1] = "extend" =>
          i = Len(w) /\ Len(p) < Len(w[i][2]) /\ IsPrefix(p, w[i][2])
  BY DEF Fits, FitsEntry
<1>5. QED BY <1>1, <1>2, <1>3, <1>4 DEF Typed, TypeOK

LEMMA AdvanceStep ==
    ASSUME ChainInv, Calm, NEW p \in Tree, Len(p) = Len(mem) + 1, IsPrefix(mem, p),
           NEW w, Fits(w, p), Advance(p, w)
    PROVE  ChainInv'
<1>1. Typed'
  BY AdvanceTyped DEF ChainInv
<1>2. SUFFICES ASSUME crashes' = 0
               PROVE  Orderly' /\ BatchesKept' /\ SnapshotsKept' /\ KeysKept' /\ CacheKept'
  BY <1>1 DEF ChainInv
<1>3. crashes = 0 /\ mem' = p /\ todo' = w /\ disk' = disk /\ cache' = cache_current_state(cache, p)
  BY <1>2 DEF Advance
<1>4. Kept(disk, cache, mem) /\ disk.spent \subseteq KeysOn(mem)
  BY <1>3, CalmIsKept
<1>5. p \in State /\ mem \in Tree /\ mem \in State /\ Len(mem) \in Nat /\ Len(p) \in Nat
      /\ disk \in Disk /\ cache \in Seq(Tree)
  BY <1>4, TreeIsState, Heights DEF Kept
<1>6. StateAt(p, Len(mem)) = mem /\ StateAt(mem, Len(mem)) = mem /\ Len(mem) <= Len(p)
  BY <1>5, WholePath DEF IsPrefix
<1>7. Orderly'
  <2>1. IsPrefix(p, p)
    BY <1>5, PrefixRefl
  <2>2. \A i \in DOMAIN w : /\ w[i][1] \in Stored => IsPrefix(w[i][2], p)
                            /\ w[i][1] # "truncate"
                            /\ w[i][1] = "check" => i = Len(w)
    <3>1. "truncate" \notin Stored \cup {"check", "extend"}
      BY DEF Stored
    <3>2. QED BY <2>1, <3>1 DEF Fits, FitsEntry
  <2>3. QED BY <1>3, <2>2 DEF Orderly
<1>8. BatchesKept'
  <2>1. ASSUME NEW h \in Height
        PROVE  IF h < Len(p)
               THEN disk.batches[h] = BlockAt(p, h) \/ \E i \in DOMAIN w : w[i] = Write("batch", BlockAt(p, h))
               ELSE disk.batches[h] = NoBlock
    <3>1. h \in Nat
      BY Heights
    <3>2. CASE h < Len(mem)
      <4>1. BlockAt(p, h) = BlockAt(mem, h) /\ h < Len(p)
        BY <1>5, <3>1, <3>2, PrefixShares
      <4>2. QED BY <1>4, <3>2, <4>1 DEF Kept
    <3>3. CASE h = Len(mem)
      <4>1. BlockAt(p, h) = p
        BY <1>5, <3>1, <3>3, BlockIsState, WholePath
      <4>2. \E i \in DOMAIN w : w[i] = Write("batch", p)
        BY DEF Fits
      <4>3. h < Len(p)
        BY <1>5, <3>3
      <4>4. QED BY <4>1, <4>2, <4>3
    <3>4. CASE h > Len(mem)
      <4>1. ~(h < Len(p)) /\ ~(h < Len(mem))
        BY <1>5, <3>1, <3>4
      <4>2. QED BY <1>4, <4>1 DEF Kept
    <3>5. QED BY <1>5, <3>1, <3>2, <3>3, <3>4
  <2>2. QED BY <1>3, <2>1 DEF BatchesKept, Pending
<1>9. SnapshotsKept'
  <2>1. ASSUME NEW q \in disk.snapshots PROVE IsPrefix(q, p)
    <3>1. q \in State /\ IsPrefix(q, mem)
      BY <1>4, TreeIsState DEF Kept, Disk
    <3>2. QED BY <1>5, <3>1, PrefixTrans
  <2>2. QED BY <1>3, <2>1 DEF SnapshotsKept
<1>10. KeysKept'
  <2>1. ASSUME NEW k \in disk.spent PROVE k \in KeysOn(p)
    <3>1. k \in KeysOn(mem)
      BY <1>4
    <3>2. k \in KeysOn(p) \/ \E h \in Len(mem)..(Len(mem) - 1) : k \in KeysOf(BlockAt(mem, h))
      BY <1>5, <1>6, <3>1, KeysGrow
    <3>3. QED BY <1>5, <3>2
  <2>2. QED BY <1>3, <2>1 DEF KeysKept
<1>11. CacheKept'
  <2>1. Ancestors(cache, p)
    <3>1. ASSUME NEW i \in DOMAIN cache PROVE IsPrefix(cache[i], p) /\ Len(cache[i]) < Len(p)
      <4>0. cache[i] \in Tree
        BY <1>5
      <4>1. cache[i] \in State /\ Len(cache[i]) \in Nat
        BY <4>0, TreeIsState, Heights
      <4>2. IsPrefix(cache[i], mem)
        BY <1>4 DEF Kept
      <4>3. Len(cache[i]) <= Len(mem)
        BY <4>2 DEF IsPrefix
      <4>4. IsPrefix(cache[i], p)
        BY <1>5, <4>1, <4>2, PrefixTrans
      <4>5. QED BY <1>5, <4>1, <4>3, <4>4
    <3>2. \A i, j \in DOMAIN cache : i < j => Len(cache[i]) < Len(cache[j])
      BY <1>3 DEF ChainInv, CacheKept
    <3>3. QED BY <3>1, <3>2 DEF Ancestors
  <2>2. QED BY <1>3, <1>5, <2>1, CacheGrows DEF CacheKept
<1>12. QED BY <1>7, <1>8, <1>9, <1>10, <1>11

LEMMA ExtendStep ==
    ASSUME ChainInv, NEW p \in Tree, NEW w, Fits(w, p), Extend(p, w)
    PROVE  ChainInv'
<1>1. Len(p) = Len(mem) + 1 /\ IsPrefix(mem, p) /\ Advance(p, w)
  BY DEF Extend, Advance
<1>2. Calm
  BY DEF Extend, Quiet, Calm
<1>3. QED BY <1>1, <1>2, AdvanceStep

\* The three handlers of one block.
LEMMA BlockExtends ==
    ASSUME NEW p \in Tree, NewBatch(p) \/ MinedBatch(p) \/ ApplyOrphan(p)
    PROVE  \E w : Fits(w, p) /\ Extend(p, w)
<1>1. Fits(<<Write("batch", p)>> \o SnapshotIfDue(p), p)
  BY FirstWrites, SnapshotFits
<1>2. Fits(BatchStateBurn(p) \o SnapshotIfDue(p), p) /\ Plain(BatchStateBurn(p) \o SnapshotIfDue(p))
  BY FirstWrites, SnapshotFits
<1>3. Fits((BatchStateBurn(p) \o SnapshotIfDue(p)) \o CheckIfDue(p), p)
  BY <1>2, CheckFits
<1>4. CASE NewBatch(p)
  BY <1>1, <1>4 DEF NewBatch
<1>5. CASE MinedBatch(p)
  BY <1>3, <1>5 DEF MinedBatch
<1>6. CASE ApplyOrphan(p)
  BY <1>6, FirstWrites DEF ApplyOrphan
<1>7. QED BY <1>4, <1>5, <1>6

LEMMA BlockStep ==
    ASSUME ChainInv, NEW p \in Tree, NewBatch(p) \/ MinedBatch(p) \/ ApplyOrphan(p)
    PROVE  ChainInv'
BY BlockExtends, ExtendStep

LEMMA HeadOfTodo ==
    ASSUME Typed, ~Quiet
    PROVE  /\ 1 \in DOMAIN todo /\ Head(todo) = todo[1] /\ Head(todo) \in Entry
           /\ Tail(todo) \in Seq(Entry) /\ Len(Tail(todo)) = Len(todo) - 1
           /\ \A i \in DOMAIN Tail(todo) : i + 1 \in DOMAIN todo /\ Tail(todo)[i] = todo[i + 1]
           /\ \A i \in DOMAIN todo : i = 1 \/ (i - 1 \in DOMAIN Tail(todo) /\ Tail(todo)[i - 1] = todo[i])
           /\ Len(todo) \in Nat
<1>1. todo \in Seq(Entry) /\ todo # <<>>
  BY DEF Typed, Quiet
<1>2. Len(todo) \in Nat /\ Len(todo) > 0 /\ DOMAIN todo = 1..Len(todo)
  BY <1>1
<1>3. Tail(todo) \in Seq(Entry) /\ Len(Tail(todo)) = Len(todo) - 1
      /\ DOMAIN Tail(todo) = 1..(Len(todo) - 1)
      /\ \A i \in 1..(Len(todo) - 1) : Tail(todo)[i] = todo[i + 1]
  BY <1>1, <1>2
<1>4. 1 \in DOMAIN todo /\ Head(todo) = todo[1] /\ Head(todo) \in Entry
  BY <1>1, <1>2
<1>5. ASSUME NEW i \in DOMAIN todo, i # 1
      PROVE  i - 1 \in DOMAIN Tail(todo) /\ Tail(todo)[i - 1] = todo[i]
  <2>1. i - 1 \in 1..(Len(todo) - 1) /\ (i - 1) + 1 = i
    BY <1>2, <1>5
  <2>2. QED BY <1>3, <2>1
<1>6. \A i \in DOMAIN Tail(todo) : i + 1 \in DOMAIN todo
  BY <1>2, <1>3
<1>7. QED BY <1>2, <1>3, <1>4, <1>5, <1>6

\* The loop over synced blocks and the health check are alone in todo when it
\* is their turn.
LEMMA LastEntry ==
    ASSUME ChainInv, ~Quiet,
           Head(todo)[1] = "extend" \/ (crashes = 0 /\ Head(todo)[1] = "check")
    PROVE  Len(todo) = 1 /\ Calm /\ Tail(todo) = <<>>
<1>1. /\ 1 \in DOMAIN todo /\ Head(todo) = todo[1] /\ Tail(todo) \in Seq(Entry)
      /\ Len(Tail(todo)) = Len(todo) - 1
  BY HeadOfTodo DEF ChainInv
<1>2. Len(todo) = 1
  BY <1>1 DEF ChainInv, Typed, Orderly
<1>3. DOMAIN todo = {1}
  BY <1>2 DEF ChainInv, Typed
<1>4. Calm
  BY <1>1, <1>3 DEF Calm
<1>5. Tail(todo) = <<>>
  <2>1. Len(Tail(todo)) = 0
    BY <1>1, <1>2
  <2>2. QED BY <1>1, <2>1, EmptySeq
<1>6. QED BY <1>2, <1>4, <1>5

\* A turn of the loop over synced blocks is a step to the next of them.
LEMMA ApplyNextAdvances ==
    ASSUME Typed, ApplyNext
    PROVE  \E q \in Tree : /\ Len(q) = Len(mem) + 1 /\ IsPrefix(mem, q)
                           /\ \E w : Fits(w, q) /\ Advance(q, w)
<1> DEFINE p == Head(todo)[2]
           q == BlockAt(p, Len(mem))
           w0 == BatchStateBurn(q) \o SnapshotIfDue(q)
           w == w0 \o IF q = p THEN CheckIfDue(p) ELSE <<Write("extend", p)>>
<1>1. ~Quiet /\ Head(todo)[1] = "extend" /\ Advance(q, w)
  BY DEF ApplyNext, Advance
<1>3. 1 \in DOMAIN todo /\ Head(todo) = todo[1] /\ Head(todo) \in Entry
  BY <1>1, HeadOfTodo
<1>4. p \in Tree /\ p \in State /\ mem \in State /\ Len(p) \in Nat /\ Len(mem) \in Nat
  <2>1. p \in Tree /\ mem \in Tree
    BY <1>1, <1>3, EntryParts DEF Typed, TypeOK
  <2>2. QED BY <2>1, TreeIsState, Heights
<1>5. Len(mem) < Len(p) /\ IsPrefix(mem, p)
  BY <1>1, <1>3 DEF Typed
<1> HIDE DEF p
<1>6. q \in Tree /\ q \in State /\ Len(q) = Len(mem) + 1
  BY <1>4, <1>5, BlockInTree, TreeIsState
<1>7. Len(mem) + 1 \in Nat /\ Len(mem) + 1 <= Len(p) /\ Len(mem) <= Len(mem) + 1
  BY <1>4, <1>5
<1>8. q = StateAt(p, Len(mem) + 1) /\ StateAt(p, Len(mem) + 1) = StateAt(q, Len(mem) + 1)
  <2>1. q = StateAt(p, Len(mem) + 1)
    BY <1>4, BlockIsState
  <2>2. QED BY <1>6, <2>1, WholePath
<1>9. IsPrefix(q, p)
  BY <1>4, <1>7, <1>8, AncestorIsPrefix
<1> HIDE DEF q
<1>10. IsPrefix(mem, q)
  BY <1>4, <1>5, <1>6, <1>7, <1>8, SharedBelow
<1>11. Fits(w0, q) /\ Plain(w0)
  BY <1>6, FirstWrites, SnapshotFits
<1> HIDE DEF w0
<1>12. Fits(w, q)
  <2>1. CASE q = p
    BY <1>4, <1>11, <2>1, CheckFits
  <2>2. CASE q # p
    <3>1. Len(q) # Len(p)
      <4>1. ASSUME Len(q) = Len(p) PROVE FALSE
        <5>1. q = StateAt(p, Len(p))
          BY <1>6, <1>8, <4>1
        <5>2. QED BY <1>4, <2>2, <5>1, WholePath
      <4>2. QED BY <4>1
    <3>2. Len(q) < Len(p)
      BY <1>4, <1>6, <1>7, <3>1
    <3>3. FitsEntry(Write("extend", p), q) /\ Write("extend", p)[1] # "batch"
      BY <1>4, <1>9, <3>2 DEF FitsEntry, Entry, Write, Stored
    <3>4. Fits(w0 \o <<Write("extend", p)>>, q)
      BY <1>11, <3>3, FitsAppend
    <3>5. QED BY <2>2, <3>4
  <2>3. QED BY <2>1, <2>2
<1> HIDE DEF w
<1>13. QED BY <1>1, <1>6, <1>10, <1>12

LEMMA ApplyNextStep ==
    ASSUME ChainInv, ApplyNext
    PROVE  ChainInv'
<1>1. PICK q \in Tree : /\ Len(q) = Len(mem) + 1 /\ IsPrefix(mem, q)
                        /\ \E w : Fits(w, q) /\ Advance(q, w)
  BY ApplyNextAdvances DEF ChainInv
<1>2. Calm
  BY LastEntry DEF ApplyNext
<1>3. QED BY <1>1, <1>2, AdvanceStep

\* A handler starts or ends with nothing to write.
LEMMA TurnTyped ==
    ASSUME Typed, UNCHANGED <<mem, cache, disk, saves, crashes>>,
           todo' = <<>> \/ \E w \in Entry :
               /\ todo' = <<w>> /\ w[1] \in {"extend", "check"}
               /\ w[1] = "extend" => Len(mem) < Len(w[2]) /\ IsPrefix(mem, w[2])
    PROVE  /\ Typed'
           /\ \A i \in DOMAIN todo' : i = Len(todo') /\ todo'[i][1] \in {"extend", "check"}
<1>1. /\ todo' \in Seq(Entry)
      /\ \A i \in DOMAIN todo' :
             /\ i = Len(todo') /\ todo'[i][1] \in {"extend", "check"}
             /\ todo'[i][1] = "extend" => Len(mem) < Len(todo'[i][2]) /\ IsPrefix(mem, todo'[i][2])
  <2>1. CASE todo' = <<>>
    BY <2>1
  <2>2. ASSUME NEW w \in Entry, todo' = <<w>>, w[1] \in {"extend", "check"},
               w[1] = "extend" => Len(mem) < Len(w[2]) /\ IsPrefix(mem, w[2])
        PROVE  /\ todo' \in Seq(Entry)
               /\ \A i \in DOMAIN todo' :
                      /\ i = Len(todo') /\ todo'[i][1] \in {"extend", "check"}
                      /\ todo'[i][1] = "extend" => Len(mem) < Len(todo'[i][2]) /\ IsPrefix(mem, todo'[i][2])
    <3>1. todo' \in Seq(Entry) /\ Len(todo') = 1 /\ DOMAIN todo' = {1} /\ todo'[1] = w
      BY <2>2
    <3>2. QED BY <2>2, <3>1
  <2>3. QED BY <2>1, <2>2
<1>2. Typed'
  BY <1>1 DEF Typed, TypeOK
<1>3. QED BY <1>1, <1>2

LEMMA TurnStep ==
    ASSUME ChainInv, Calm, UNCHANGED <<mem, cache, disk, saves, crashes>>,
           todo' = <<>> \/ \E w \in Entry :
               /\ todo' = <<w>> /\ w[1] \in {"extend", "check"}
               /\ w[1] = "extend" => Len(mem) < Len(w[2]) /\ IsPrefix(mem, w[2])
    PROVE  ChainInv'
<1>1. \A i \in DOMAIN todo' : i = Len(todo') /\ todo'[i][1] \in {"extend", "check"}
  BY TurnTyped DEF ChainInv
<1>2. Typed'
  BY TurnTyped DEF ChainInv
<1>3. SUFFICES ASSUME crashes' = 0
               PROVE  Orderly' /\ BatchesKept' /\ SnapshotsKept' /\ KeysKept' /\ CacheKept'
  BY <1>2 DEF ChainInv
<1>4. Kept(disk, cache, mem) /\ disk.spent \subseteq KeysOn(mem)
  BY <1>3, CalmIsKept
<1>5. Orderly'
  BY <1>1 DEF Orderly, Stored
<1>6. BatchesKept'
  BY <1>4 DEF Kept, BatchesKept
<1>7. SnapshotsKept' /\ KeysKept'
  BY <1>4 DEF Kept, SnapshotsKept, KeysKept
<1>8. CacheKept'
  BY <1>3 DEF ChainInv, CacheKept
<1>9. QED BY <1>5, <1>6, <1>7, <1>8

LEMMA WriteKeepsTypes ==
    ASSUME Typed, PerformWrite
    PROVE  Typed'
<1> DEFINE w == Head(todo)
           t == Tail(todo)
<1>1. /\ ~Quiet /\ w[1] \notin {"check", "extend"} /\ disk' = Perform(disk, w) /\ todo' = t
      /\ mem' = mem /\ cache' = cache /\ saves' = saves /\ crashes' = crashes
  BY DEF PerformWrite
<1>2. /\ w \in Entry /\ t \in Seq(Entry) /\ Len(t) = Len(todo) - 1 /\ Len(todo) \in Nat
      /\ \A i \in DOMAIN t : i + 1 \in DOMAIN todo /\ t[i] = todo[i + 1]
  BY <1>1, HeadOfTodo
<1> HIDE DEF w, t
<1>3. disk' \in Disk /\ disk'.current \in Tree
  BY <1>1, <1>2, WriteTyped DEF Typed, TypeOK
<1>4. \A i \in DOMAIN t : i \in Nat /\ (i + 1 = Len(todo) => i = Len(t))
  BY <1>2
<1>5. \A i \in DOMAIN t : t[i][1] = "extend" =>
          i = Len(t) /\ Len(mem) < Len(t[i][2]) /\ IsPrefix(mem, t[i][2])
  BY <1>2, <1>4 DEF Typed
<1>6. QED BY <1>1, <1>2, <1>3, <1>5 DEF Typed, TypeOK

LEMMA WriteStep ==
    ASSUME ChainInv, PerformWrite
    PROVE  ChainInv'
<1> DEFINE w == Head(todo)
           t == Tail(todo)
<1>1. /\ ~Quiet /\ w[1] \notin {"check", "extend"} /\ disk' = Perform(disk, w) /\ todo' = t
      /\ mem' = mem /\ cache' = cache /\ saves' = saves /\ crashes' = crashes
  BY DEF PerformWrite
<1>2. /\ 1 \in DOMAIN todo /\ w = todo[1] /\ w \in Entry
      /\ t \in Seq(Entry) /\ Len(t) = Len(todo) - 1 /\ Len(todo) \in Nat
      /\ \A i \in DOMAIN t : i + 1 \in DOMAIN todo /\ t[i] = todo[i + 1]
      /\ \A i \in DOMAIN todo : i = 1 \/ (i - 1 \in DOMAIN t /\ t[i - 1] = todo[i])
  BY <1>1, HeadOfTodo DEF ChainInv
<1>3. disk \in Disk /\ disk.current \in Tree /\ mem \in Tree /\ mem \in State /\ Len(mem) \in Nat
  BY TreeIsState, Heights DEF ChainInv, Typed, TypeOK
<1> HIDE DEF w, t
<1>4. disk' \in Disk /\ disk'.current \in Tree
  BY <1>1, <1>2, <1>3, WriteTyped
<1>5. \A i \in DOMAIN t : i \in Nat /\ (i + 1 = Len(todo) => i = Len(t))
  BY <1>2
<1>6. Typed'
  BY WriteKeepsTypes DEF ChainInv
<1>7. SUFFICES ASSUME crashes' = 0
               PROVE  Orderly' /\ BatchesKept' /\ SnapshotsKept' /\ KeysKept' /\ CacheKept'
  BY <1>6 DEF ChainInv
<1>8. crashes = 0 /\ Orderly /\ BatchesKept /\ SnapshotsKept /\ KeysKept /\ CacheKept
  BY <1>1, <1>7 DEF ChainInv
<1>9. w[1] \in Stored \cup {"unburn", "drop"} /\ (w[1] \in Stored => w[2] \in Tree /\ IsPrefix(w[2], mem))
      /\ (w[1] = "unburn" => w[2] \in State) /\ (w[1] = "drop" => w[2] \in Nat)
  <2>1. w[1] # "truncate" /\ (w[1] \in Stored => IsPrefix(w[2], mem))
    BY <1>2, <1>8 DEF Orderly
  <2>2. QED BY <1>1, <1>2, <2>1, EntryParts
<1>10. Orderly'
  <2>1. \A i \in DOMAIN t :
            /\ t[i][1] \in Stored => IsPrefix(t[i][2], mem)
            /\ t[i][1] # "truncate"
            /\ t[i][1] = "check" => i = Len(t)
    BY <1>2, <1>5, <1>8 DEF Orderly
  <2>2. QED BY <1>1, <2>1 DEF Orderly
<1>11. CacheKept'
  BY <1>1, <1>8 DEF CacheKept
<1>12. /\ w[1] \in {"state", "snapshot", "burn", "unburn", "drop"} => disk'.batches = disk.batches
       /\ w[1] \in {"batch", "state", "burn", "unburn"} => disk'.snapshots = disk.snapshots
       /\ w[1] \in {"batch", "state", "snapshot", "drop"} => disk'.spent = disk.spent
  <2>1. CASE w[1] = "batch"
    <3>1. w[2] \in Tree /\ disk' = save_batch(disk, w[2])
      BY <1>1, <1>9, <2>1, PerformIs DEF Stored
    <3>2. disk'.snapshots = disk.snapshots /\ disk'.spent = disk.spent
      BY <1>3, <3>1, BatchWrite
    <3>3. QED BY <2>1, <3>2
  <2>2. CASE w[1] = "state"
    BY <1>1, <1>3, <1>9, <2>2, PerformIs, StateWrite DEF Stored
  <2>3. CASE w[1] = "snapshot"
    BY <1>1, <1>3, <1>9, <2>3, PerformIs, SnapshotWrite DEF Stored
  <2>4. CASE w[1] = "burn"
    BY <1>1, <1>3, <1>9, <2>4, PerformIs, BurnWrite DEF Stored
  <2>5. CASE w[1] = "unburn"
    <3>1. w[2] \in State /\ disk' = unburn_batch_addresses(disk, w[2])
      BY <1>1, <1>9, <2>5, PerformIs
    <3>2. disk'.batches = disk.batches /\ disk'.snapshots = disk.snapshots
      BY <1>3, <3>1, UnburnWrite
    <3>3. QED BY <2>5, <3>2
  <2>6. CASE w[1] = "drop"
    <3>1. w[2] \in Nat /\ disk' = delete_snapshots_above(disk, w[2])
      BY <1>1, <1>9, <2>6, PerformIs
    <3>2. disk'.batches = disk.batches /\ disk'.spent = disk.spent
      BY <1>3, <3>1, DropWrite
    <3>3. QED BY <2>6, <3>2
  <2>7. QED BY <1>9, <2>1, <2>2, <2>3, <2>4, <2>5, <2>6 DEF Stored
<1>13. BatchesKept'
  <2>1. ASSUME NEW h \in Height
        PROVE  IF h < Len(mem)
               THEN disk'.batches[h] = BlockAt(mem, h) \/ \E i \in DOMAIN t : t[i] = Write("batch", BlockAt(mem, h))
               ELSE disk'.batches[h] = NoBlock
    <3>0. h \in Nat
      BY Heights
    <3>1. IF h < Len(mem)
          THEN \/ disk.batches[h] = BlockAt(mem, h) \/ w = Write("batch", BlockAt(mem, h))
               \/ \E i \in DOMAIN t : t[i] = Write("batch", BlockAt(mem, h))
          ELSE disk.batches[h] = NoBlock
      <4> DEFINE b == Write("batch", BlockAt(mem, h))
      <4>1. IF h < Len(mem)
            THEN disk.batches[h] = BlockAt(mem, h) \/ \E i \in DOMAIN todo : todo[i] = b
            ELSE disk.batches[h] = NoBlock
        BY <1>8 DEF BatchesKept, Pending
      <4> HIDE DEF b
      <4>2. (\E i \in DOMAIN todo : todo[i] = b) => w = b \/ \E i \in DOMAIN t : t[i] = b
        BY <1>2
      <4>3. QED BY <4>1, <4>2 DEF b
    <3>2. CASE w[1] = "batch"
      <4> DEFINE p == w[2]
      <4>1. p \in Tree /\ IsPrefix(p, mem) /\ disk' = save_batch(disk, p)
        BY <1>1, <1>9, <3>2, PerformIs DEF Stored
      <4>2. disk'.batches[Len(p) - 1] = p /\ \A g \in Height : g # Len(p) - 1 => disk'.batches[g] = disk.batches[g]
        BY <1>3, <4>1, BatchWrite
      <4>3. p \in State /\ Len(p) \in Nat /\ Len(p) > 0 /\ Len(p) <= Len(mem) /\ StateAt(mem, Len(p)) = p
        BY <4>1, TreeIsState, Heights DEF IsPrefix
      <4> HIDE DEF p
      <4>4. CASE h = Len(p) - 1
        <5>1. h + 1 = Len(p) /\ h < Len(mem)
          BY <1>3, <3>0, <4>3, <4>4
        <5>2. BlockAt(mem, h) = p
          BY <3>0, <4>3, <5>1, BlockIsState
        <5>3. QED BY <4>2, <4>4, <5>1, <5>2
      <4>5. CASE h # Len(p) - 1
        <5>1. disk'.batches[h] = disk.batches[h]
          BY <4>2, <4>5
        <5>2. ASSUME h < Len(mem), w = Write("batch", BlockAt(mem, h)) PROVE FALSE
          <6>1. p = BlockAt(mem, h)
            BY <5>2 DEF Write, p
          <6>2. Len(p) = h + 1
            BY <1>3, <3>0, <5>2, <6>1, BlockInTree
          <6>3. QED BY <3>0, <4>5, <6>2
        <5>3. QED BY <3>1, <5>1, <5>2
      <4>6. QED BY <4>4, <4>5
    <3>3. CASE w[1] # "batch"
      <4>1. disk'.batches = disk.batches
        BY <1>9, <1>12, <3>3 DEF Stored
      <4>2. w # Write("batch", BlockAt(mem, h))
        BY <3>3 DEF Write
      <4>3. QED BY <3>1, <4>1, <4>2
    <3>4. QED BY <3>2, <3>3
  <2>2. QED BY <1>1, <2>1 DEF BatchesKept, Pending
<1>14. SnapshotsKept'
  <2>1. ASSUME NEW q \in disk'.snapshots
        PROVE  IsPrefix(q, mem) \/ \E i \in DOMAIN t : t[i][1] = "drop" /\ t[i][2] <= Len(q)
    <3>1. ASSUME q \in disk.snapshots
          PROVE  \/ IsPrefix(q, mem) \/ \E i \in DOMAIN t : t[i][1] = "drop" /\ t[i][2] <= Len(q)
                 \/ w[1] = "drop" /\ w[2] <= Len(q)
      BY <1>2, <1>8, <3>1 DEF SnapshotsKept
    <3>2. CASE w[1] = "snapshot"
      <4>1. w[2] \in Tree /\ IsPrefix(w[2], mem) /\ disk' = save_state_snapshot(disk, w[2])
        BY <1>1, <1>9, <3>2, PerformIs DEF Stored
      <4>2. q \in disk.snapshots \/ q = w[2]
        BY <1>3, <4>1, SnapshotWrite
      <4>3. QED BY <3>1, <3>2, <4>1, <4>2
    <3>3. CASE w[1] = "drop"
      <4>1. w[2] \in Nat /\ disk' = delete_snapshots_above(disk, w[2])
        BY <1>1, <1>9, <3>3, PerformIs
      <4>2. q \in disk.snapshots /\ Len(q) < w[2]
        BY <1>3, <4>1, DropWrite
      <4>3. q \in State
        BY <1>3, <4>2, TreeIsState DEF Disk
      <4>4. ~(w[2] <= Len(q))
        BY <4>1, <4>2, <4>3, Heights
      <4>5. QED BY <3>1, <4>2, <4>4
    <3>4. CASE w[1] \in {"batch", "state", "burn", "unburn"}
      BY <1>12, <3>1, <3>4
    <3>5. QED BY <1>9, <3>2, <3>3, <3>4 DEF Stored
  <2>2. QED BY <1>1, <2>1 DEF SnapshotsKept
<1>15. KeysKept'
  <2> DEFINE Leaves(e, k) == e[1] = "unburn" /\ e[2] # NoBlock /\ k \in KeysOf(e[2])
  <2>1. ASSUME NEW k \in disk'.spent
        PROVE  k \in KeysOn(mem) \/ \E i \in DOMAIN t : Leaves(t[i], k)
    <3>1. ASSUME k \in disk.spent
          PROVE  k \in KeysOn(mem) \/ (\E i \in DOMAIN t : Leaves(t[i], k)) \/ Leaves(w, k)
      <4>1. k \in KeysOn(mem) \/ \E i \in DOMAIN todo : Leaves(todo[i], k)
        BY <1>8, <3>1 DEF KeysKept
      <4> HIDE DEF Leaves
      <4>2. QED BY <1>2, <4>1
    <3> HIDE DEF Leaves
    <3>2. CASE w[1] = "burn"
      <4>1. w[2] \in Tree /\ IsPrefix(w[2], mem) /\ disk' = burn_batch_addresses(disk, w[2])
        BY <1>1, <1>9, <3>2, PerformIs DEF Stored
      <4>2. k \in disk.spent \/ k \in KeysOf(w[2])
        BY <1>3, <4>1, BurnWrite
      <4>3. k \in KeysOf(w[2]) => k \in KeysOn(mem)
        BY <1>3, <4>1, KeysOfPrefix
      <4>4. ~Leaves(w, k)
        BY <3>2 DEF Leaves
      <4>5. QED BY <3>1, <4>2, <4>3, <4>4
    <3>3. CASE w[1] = "unburn"
      <4>1. w[2] \in State /\ disk' = unburn_batch_addresses(disk, w[2])
        BY <1>1, <1>9, <3>3, PerformIs
      <4>2. k \in IF w[2] = NoBlock THEN disk.spent ELSE disk.spent \ KeysOf(w[2])
        BY <1>3, <4>1, UnburnWrite
      <4>3. k \in disk.spent /\ ~Leaves(w, k)
        BY <4>2 DEF Leaves
      <4>4. QED BY <3>1, <4>3
    <3>4. CASE w[1] \in {"batch", "state", "snapshot", "drop"}
      <4>1. ~Leaves(w, k)
        BY <3>4 DEF Leaves
      <4>2. QED BY <1>12, <3>1, <3>4, <4>1
    <3>5. QED BY <1>9, <3>2, <3>3, <3>4 DEF Stored
  <2>2. QED BY <1>1, <2>1 DEF KeysKept
<1>16. QED BY <1>10, <1>11, <1>13, <1>14, <1>15

LEMMA Tabulated ==
    ASSUME NEW S, NEW n \in Int, NEW f \in [1..n -> S]
    PROVE  f \in Seq(S)
<1>1. CASE n \in Nat
  BY <1>1, SeqDef
<1>2. CASE n < 0
  <2>1. 1..n = 1..0 /\ 0 \in Nat
    BY <1>2
  <2>2. f \in [1..0 -> S]
    BY <2>1
  <2>3. QED BY <2>1, <2>2, SeqDef
<1>3. QED BY <1>1, <1>2

LEMMA ForBlocksIs ==
    ASSUME NEW op \in {"batch", "burn"}, NEW p \in Tree, NEW fork \in Nat, fork <= Len(p)
    PROVE  /\ ForBlocks(op, p, fork, Len(p)) \in Seq(Entry)
           /\ \A e \in Range(ForBlocks(op, p, fork, Len(p))) : e[1] = op /\ IsPrefix(e[2], p)
           /\ \A h \in fork..(Len(p) - 1) :
                  Write(op, BlockAt(p, h)) \in Range(ForBlocks(op, p, fork, Len(p)))
<1> DEFINE n == Len(p) - fork
           f == ForBlocks(op, p, fork, Len(p))
<1>1. p \in State /\ Len(p) \in Nat /\ n \in Int
  BY TreeIsState, Heights
<1>2. DOMAIN f = 1..n /\ \A i \in 1..n : f[i] = Write(op, BlockAt(p, fork + i - 1))
  BY DEF ForBlocks
<1>3. ASSUME NEW i \in 1..n
      PROVE  /\ fork + i - 1 \in Nat /\ fork + i - 1 < Len(p)
             /\ BlockAt(p, fork + i - 1) \in Tree /\ IsPrefix(BlockAt(p, fork + i - 1), p)
  <2> DEFINE h == fork + i - 1
  <2>1. h \in Nat /\ h < Len(p) /\ h + 1 \in Nat /\ h + 1 <= Len(p)
    BY <1>1
  <2> HIDE DEF h
  <2>2. BlockAt(p, h) \in Tree /\ BlockAt(p, h) = StateAt(p, h + 1)
    BY <1>1, <2>1, BlockInTree, BlockIsState
  <2>3. IsPrefix(StateAt(p, h + 1), p)
    BY <1>1, <2>1, AncestorIsPrefix
  <2>4. QED BY <2>1, <2>2, <2>3 DEF h
<1>4. \A b \in Tree : Write(op, b) \in Entry /\ Write(op, b)[1] = op /\ Write(op, b)[2] = b
  BY DEF Entry, Stored, Write
<1>5. f \in [1..n -> Entry]
  <2>1. \A i \in 1..n : f[i] \in Entry
    BY <1>2, <1>3, <1>4
  <2>2. f = [i \in 1..n |-> f[i]]
    BY DEF ForBlocks
  <2> HIDE DEF f
  <2>3. QED BY <2>1, <2>2
<1>6. f \in Seq(Entry)
  BY <1>1, <1>5, Tabulated
<1> HIDE DEF f
<1>7. ASSUME NEW e \in Range(f) PROVE e[1] = op /\ IsPrefix(e[2], p)
  <2>1. PICK i \in 1..n : e = f[i]
    BY <1>2 DEF Range
  <2>2. e = Write(op, BlockAt(p, fork + i - 1))
    BY <1>2, <2>1
  <2>3. QED BY <1>3, <1>4, <2>2
<1>8. ASSUME NEW h \in fork..(Len(p) - 1) PROVE Write(op, BlockAt(p, h)) \in Range(f)
  <2>1. (h - fork) + 1 \in 1..n /\ fork + ((h - fork) + 1) - 1 = h
    BY <1>1
  <2>2. f[(h - fork) + 1] = Write(op, BlockAt(p, h))
    BY <1>2, <2>1
  <2>3. QED BY <1>2, <2>1, <2>2 DEF Range
<1>9. QED BY <1>6, <1>7, <1>8 DEF f

LEMMA AbandonedIs ==
    ASSUME Typed, NEW fork \in Nat
    PROVE  /\ Abandoned(fork) \in Seq(Entry)
           /\ \A e \in Range(Abandoned(fork)) : e[1] = "unburn"
           /\ \A h \in fork..(Len(mem) - 1) :
                  Write("unburn", disk.batches[h]) \in Range(Abandoned(fork))
<1> DEFINE n == Len(mem) - fork
           f == Abandoned(fork)
<1>1. mem \in Tree /\ mem \in State /\ Len(mem) \in Nat /\ n \in Int /\ Len(mem) \in Height /\ disk \in Disk
  BY TreeIsState, Heights DEF Typed, TypeOK
<1>2. DOMAIN f = 1..n /\ \A i \in 1..n : f[i] = Write("unburn", disk.batches[fork + i - 1])
  BY DEF Abandoned
<1>3. ASSUME NEW i \in 1..n PROVE disk.batches[fork + i - 1] \in State
  <2>1. fork + i - 1 \in Nat /\ fork + i - 1 <= Len(mem)
    BY <1>1
  <2>2. fork + i - 1 \in Height
    BY <1>1, <2>1, Heights
  <2>3. QED BY <1>1, <2>2 DEF Disk, State, NoBlock
<1>4. \A b \in State : Write("unburn", b) \in Entry /\ Write("unburn", b)[1] = "unburn"
  BY DEF Entry, Write
<1>5. f \in [1..n -> Entry]
  <2>1. \A i \in 1..n : f[i] \in Entry
    BY <1>2, <1>3, <1>4
  <2>2. f = [i \in 1..n |-> f[i]]
    BY DEF Abandoned
  <2> HIDE DEF f
  <2>3. QED BY <2>1, <2>2
<1>6. f \in Seq(Entry)
  BY <1>1, <1>5, Tabulated
<1> HIDE DEF f
<1>7. ASSUME NEW e \in Range(f) PROVE e[1] = "unburn"
  <2>1. PICK i \in 1..n : e = f[i]
    BY <1>2 DEF Range
  <2>2. e = Write("unburn", disk.batches[fork + i - 1])
    BY <1>2, <2>1
  <2>3. QED BY <1>3, <1>4, <2>2
<1>8. ASSUME NEW h \in fork..(Len(mem) - 1) PROVE Write("unburn", disk.batches[h]) \in Range(f)
  <2>1. (h - fork) + 1 \in 1..n /\ fork + ((h - fork) + 1) - 1 = h
    BY <1>1
  <2>2. f[(h - fork) + 1] = Write("unburn", disk.batches[h])
    BY <1>2, <2>1
  <2>3. QED BY <1>2, <2>1, <2>2 DEF Range
<1>9. QED BY <1>6, <1>7, <1>8 DEF f

LEMMA ReorgWrites ==
    ASSUME Typed, NEW p \in Tree, NEW fork \in Nat, fork < Len(p), Reorg(p, fork)
    PROVE  /\ todo' \in Seq(Entry)
           /\ Write("drop", fork) \in Range(todo')
           /\ \A h \in fork..(Len(mem) - 1) : Write("unburn", disk.batches[h]) \in Range(todo')
           /\ \A h \in fork..(Len(p) - 1) : Write("batch", BlockAt(p, h)) \in Range(todo')
           /\ \A e \in Range(todo') :
                  \/ e[1] \in {"drop", "unburn"}
                  \/ e[1] \in Stored /\ IsPrefix(e[2], p)
<1> DEFINE a1 == <<Write("drop", fork)>>
           a2 == Abandoned(fork)
           a3 == ForBlocks("batch", p, fork, Len(p))
           a4 == <<Write("state", p)>>
           a5 == ForBlocks("burn", p, fork, Len(p))
           a6 == SnapshotIfDue(p)
<1>1. p \in State /\ Len(p) \in Nat /\ fork <= Len(p) /\ IsPrefix(p, p)
  BY TreeIsState, Heights, PrefixRefl
<1>2. a1 \in Seq(Entry) /\ Range(a1) = {Write("drop", fork)}
  <2>1. Write("drop", fork) \in Entry
    BY DEF Entry, Write
  <2>2. QED BY <2>1 DEF Range
<1>3. a4 \in Seq(Entry) /\ Range(a4) = {Write("state", p)}
  <2>1. Write("state", p) \in Entry
    BY DEF Entry, Write, Stored
  <2>2. QED BY <2>1 DEF Range
<1>4. a6 \in Seq(Entry) /\ Range(a6) \subseteq {Write("snapshot", p)}
  <2>1. Write("snapshot", p) \in Entry
    BY DEF Entry, Write, Stored
  <2>2. CASE a6 = <<>>
    BY <2>2 DEF Range
  <2>3. CASE a6 = <<Write("snapshot", p)>>
    BY <2>1, <2>3 DEF Range
  <2>4. QED BY <2>2, <2>3 DEF SnapshotIfDue
<1>5. a2 \in Seq(Entry) /\ (\A e \in Range(a2) : e[1] = "unburn")
      /\ \A h \in fork..(Len(mem) - 1) : Write("unburn", disk.batches[h]) \in Range(a2)
  BY AbandonedIs
<1>6. a3 \in Seq(Entry) /\ (\A e \in Range(a3) : e[1] = "batch" /\ IsPrefix(e[2], p))
      /\ \A h \in fork..(Len(p) - 1) : Write("batch", BlockAt(p, h)) \in Range(a3)
  BY <1>1, ForBlocksIs
<1>7. a5 \in Seq(Entry) /\ \A e \in Range(a5) : e[1] = "burn" /\ IsPrefix(e[2], p)
  BY <1>1, ForBlocksIs
<1>8. todo' = a1 \o a2 \o a3 \o a4 \o a5 \o a6
  BY DEF Reorg
<1> HIDE DEF a1, a2, a3, a4, a5, a6
<1>9. todo' \in Seq(Entry)
      /\ Range(todo') = Range(a1) \cup Range(a2) \cup Range(a3) \cup Range(a4) \cup Range(a5) \cup Range(a6)
  <2> DEFINE b2 == a1 \o a2
             b3 == b2 \o a3
             b4 == b3 \o a4
             b5 == b4 \o a5
             b6 == b5 \o a6
  <2>1. b2 \in Seq(Entry) /\ Range(b2) = Range(a1) \cup Range(a2)
    BY <1>2, <1>5, RangeConcatenation, ConcatProperties
  <2> HIDE DEF b2
  <2>2. b3 \in Seq(Entry) /\ Range(b3) = Range(b2) \cup Range(a3)
    BY <1>6, <2>1, RangeConcatenation, ConcatProperties
  <2> HIDE DEF b3
  <2>3. b4 \in Seq(Entry) /\ Range(b4) = Range(b3) \cup Range(a4)
    BY <1>3, <2>2, RangeConcatenation, ConcatProperties
  <2> HIDE DEF b4
  <2>4. b5 \in Seq(Entry) /\ Range(b5) = Range(b4) \cup Range(a5)
    BY <1>7, <2>3, RangeConcatenation, ConcatProperties
  <2> HIDE DEF b5
  <2>5. b6 \in Seq(Entry) /\ Range(b6) = Range(b5) \cup Range(a6)
    BY <1>4, <2>4, RangeConcatenation, ConcatProperties
  <2>6. todo' = b6
    BY <1>8 DEF b2, b3, b4, b5
  <2> HIDE DEF b6
  <2>7. QED BY <2>1, <2>2, <2>3, <2>4, <2>5, <2>6
<1>10. /\ Write("drop", fork)[1] = "drop"
       /\ Write("state", p)[1] = "state" /\ Write("state", p)[2] = p
       /\ Write("snapshot", p)[1] = "snapshot" /\ Write("snapshot", p)[2] = p
  BY DEF Write
<1>11. ASSUME NEW e \in Range(todo')
       PROVE  e[1] \in {"drop", "unburn"} \/ (e[1] \in Stored /\ IsPrefix(e[2], p))
  <2>1. CASE e \in Range(a1) \cup Range(a2)
    BY <1>2, <1>5, <1>10, <2>1
  <2>2. CASE e \in Range(a3) \cup Range(a5)
    BY <1>6, <1>7, <2>2 DEF Stored
  <2>3. CASE e \in Range(a4) \cup Range(a6)
    BY <1>1, <1>3, <1>4, <1>10, <2>3 DEF Stored
  <2>4. QED BY <1>9, <2>1, <2>2, <2>3
<1>12. QED BY <1>2, <1>5, <1>6, <1>9, <1>11

LEMMA ReorgTyped ==
    ASSUME Typed, NEW p \in Tree, NEW fork \in Nat, fork < Len(p), Reorg(p, fork)
    PROVE  Typed'
<1>1. cache' \in Seq(Tree) /\ Len(cache') <= STATE_CACHE_SIZE
  <2> DEFINE c == trim_cache_above(cache, fork)
  <2>1. cache \in Seq(Tree) /\ Len(cache) <= STATE_CACHE_SIZE /\ Len(cache) \in Nat /\ STATE_CACHE_SIZE \in Nat
    BY SizeAssumption DEF Typed, TypeOK
  <2>2. c \in Seq(Tree) /\ Len(c) <= Len(cache)
    BY <2>1, TrimTyped
  <2>3. cache' = cache_current_state(c, p)
    BY DEF Reorg
  <2> HIDE DEF c
  <2>4. Len(c) <= STATE_CACHE_SIZE
    BY <2>1, <2>2
  <2>5. QED BY <2>2, <2>3, <2>4, CacheTyped
<1>2. todo' \in Seq(Entry)
  BY ReorgWrites
<1>3. ASSUME NEW i \in DOMAIN todo' PROVE todo'[i][1] # "extend"
  <2>1. todo'[i] \in Range(todo')
    BY DEF Range
  <2>2. todo'[i][1] \in {"drop", "unburn"} \cup Stored
    BY <2>1, ReorgWrites
  <2>3. QED BY <2>2 DEF Stored
<1>4. mem' = p /\ disk' = disk /\ saves' = saves /\ crashes' = crashes
  BY DEF Reorg
<1>5. QED BY <1>1, <1>2, <1>3, <1>4 DEF Typed, TypeOK

LEMMA ReorgStep ==
    ASSUME HeavierIsNotShorter, ChainInv, Quiet, NEW p \in Tree, NEW s \in Nat,
           NEW fork \in evaluate_alternative_chain(disk, cache, mem, p, s), Reorg(p, fork)
    PROVE  ChainInv'
<1>1. fork \in Nat /\ fork < Len(p)
  <2>1. fork \in find_fork_point(disk, p, s)
    BY DEF evaluate_alternative_chain
  <2>2. QED BY <2>1, ForkPoint
<1>2. Typed'
  BY <1>1, ReorgTyped DEF ChainInv
<1>3. SUFFICES ASSUME crashes' = 0
               PROVE  Orderly' /\ BatchesKept' /\ SnapshotsKept' /\ KeysKept' /\ CacheKept'
  BY <1>2 DEF ChainInv
<1>4. /\ crashes = 0 /\ mem' = p /\ disk' = disk
      /\ cache' = cache_current_state(trim_cache_above(cache, fork), p)
  BY <1>3 DEF Reorg
<1>5. Kept(disk, cache, mem) /\ disk.spent \subseteq KeysOn(mem)
  <2>1. Calm
    BY DEF Calm, Quiet
  <2>2. QED BY <1>4, <2>1, CalmIsKept
<1>6. fork <= Len(mem) /\ StateAt(p, fork) = StateAt(mem, fork) /\ Depth(p) > Depth(mem)
  BY <1>5, ForkIsShared
<1>7. /\ mem \in Tree /\ p \in State /\ mem \in State /\ Len(mem) \in Nat /\ Len(p) \in Nat
      /\ cache \in Seq(Tree) /\ disk \in Disk /\ Len(mem) \in Height
  BY <1>5, TreeIsState, Heights DEF Kept
<1>8. Len(mem) <= Len(p)
  BY <1>6, <1>7 DEF HeavierIsNotShorter
<1>9. /\ todo' \in Seq(Entry)
      /\ Write("drop", fork) \in Range(todo')
      /\ \A h \in fork..(Len(mem) - 1) : Write("unburn", disk.batches[h]) \in Range(todo')
      /\ \A h \in fork..(Len(p) - 1) : Write("batch", BlockAt(p, h)) \in Range(todo')
      /\ \A e \in Range(todo') : e[1] \in {"drop", "unburn"} \/ (e[1] \in Stored /\ IsPrefix(e[2], p))
  BY <1>1, ReorgWrites DEF ChainInv
<1>10. \A e \in Range(todo') : \E i \in DOMAIN todo' : todo'[i] = e
  BY DEF Range
<1>11. Orderly'
  <2>1. ASSUME NEW i \in DOMAIN todo'
        PROVE  /\ todo'[i][1] \in Stored => IsPrefix(todo'[i][2], p)
               /\ todo'[i][1] # "truncate" /\ todo'[i][1] # "check"
    <3>1. todo'[i] \in Range(todo')
      BY DEF Range
    <3> DEFINE e == todo'[i]
    <3>2. e[1] \in {"drop", "unburn"} \/ (e[1] \in Stored /\ IsPrefix(e[2], p))
      BY <1>9, <3>1
    <3> HIDE DEF e
    <3>3. (e[1] \in Stored => IsPrefix(e[2], p)) /\ e[1] # "truncate" /\ e[1] # "check"
      BY <3>2 DEF Stored
    <3>4. QED BY <3>3 DEF e
  <2>2. QED BY <1>4, <2>1 DEF Orderly
<1>12. BatchesKept'
  <2>1. ASSUME NEW h \in Height
        PROVE  IF h < Len(p)
               THEN \/ disk.batches[h] = BlockAt(p, h)
                    \/ \E i \in DOMAIN todo' : todo'[i] = Write("batch", BlockAt(p, h))
               ELSE disk.batches[h] = NoBlock
    <3>1. h \in Nat
      BY Heights
    <3>2. CASE h < fork
      <4>1. h < Len(p) /\ h < Len(mem)
        BY <1>1, <1>6, <1>7, <3>1, <3>2
      <4>2. BlockAt(p, h) = BlockAt(mem, h)
        BY <1>1, <1>6, <1>7, <1>8, <3>1, <3>2, SharedBelow
      <4>3. disk.batches[h] = BlockAt(mem, h)
        BY <1>5, <4>1 DEF Kept
      <4>4. QED BY <4>1, <4>2, <4>3
    <3>3. CASE h >= fork /\ h < Len(p)
      <4>1. h \in fork..(Len(p) - 1)
        BY <1>1, <1>7, <3>1, <3>3
      <4>2. QED BY <1>9, <1>10, <3>3, <4>1
    <3>4. CASE ~(h < Len(p))
      <4>1. ~(h < Len(mem))
        BY <1>7, <1>8, <3>1, <3>4
      <4>2. disk.batches[h] = NoBlock
        BY <1>5, <4>1 DEF Kept
      <4>3. QED BY <3>4, <4>2
    <3>5. QED BY <1>1, <3>1, <3>2, <3>3, <3>4
  <2>2. QED BY <1>4, <2>1 DEF BatchesKept, Pending
<1>13. SnapshotsKept'
  <2>1. ASSUME NEW q \in disk.snapshots
        PROVE  IsPrefix(q, p) \/ \E i \in DOMAIN todo' : todo'[i][1] = "drop" /\ todo'[i][2] <= Len(q)
    <3>1. q \in State /\ Len(q) \in Nat /\ IsPrefix(q, mem)
      BY <1>5, TreeIsState, Heights DEF Kept, Disk
    <3>2. CASE Len(q) <= fork
      BY <1>1, <1>6, <1>7, <3>1, <3>2, SharedBelow
    <3>3. CASE fork <= Len(q)
      <4>1. PICK i \in DOMAIN todo' : todo'[i] = Write("drop", fork)
        BY <1>9, <1>10
      <4>2. todo'[i][1] = "drop" /\ todo'[i][2] = fork
        BY <4>1 DEF Write
      <4>3. QED BY <3>3, <4>2
    <3>4. QED BY <1>1, <3>1, <3>2, <3>3
  <2>2. QED BY <1>4, <2>1 DEF SnapshotsKept
<1>14. KeysKept'
  <2>1. ASSUME NEW k \in disk.spent, k \notin KeysOn(p)
        PROVE  \E i \in DOMAIN todo' : /\ todo'[i][1] = "unburn" /\ todo'[i][2] # NoBlock
                                       /\ k \in KeysOf(todo'[i][2])
    <3>1. k \in KeysOn(mem)
      BY <1>5
    <3>2. PICK h \in fork..(Len(mem) - 1) : k \in KeysOf(BlockAt(mem, h))
      BY <1>1, <1>6, <1>7, <1>8, <2>1, <3>1, KeysGrow
    <3>3. h \in Nat /\ h < Len(mem) /\ h \in Height
      BY <1>1, <1>7, Heights
    <3>4. disk.batches[h] = BlockAt(mem, h) /\ BlockAt(mem, h) # NoBlock
      BY <1>5, <1>7, <3>3, BlockInTree, TreeIsState DEF Kept
    <3>5. PICK i \in DOMAIN todo' : todo'[i] = Write("unburn", disk.batches[h])
      BY <1>9, <1>10
    <3>6. todo'[i][1] = "unburn" /\ todo'[i][2] = BlockAt(mem, h)
      BY <3>4, <3>5 DEF Write
    <3>7. QED BY <3>2, <3>4, <3>6
  <2>2. QED BY <1>4, <2>1 DEF KeysKept
<1>15. CacheKept'
  <2> DEFINE c == trim_cache_above(cache, fork)
  <2>1. \A i, j \in DOMAIN cache : i < j => Len(cache[i]) < Len(cache[j])
    BY <1>4 DEF ChainInv, CacheKept
  <2>2. c \in Seq(Tree) /\ \A i \in DOMAIN c : i \in DOMAIN cache /\ c[i] = cache[i] /\ Len(cache[i]) < fork
    BY <1>1, <1>7, <2>1, TrimTyped
  <2> HIDE DEF c
  <2>3. ASSUME NEW i \in DOMAIN c PROVE IsPrefix(c[i], p) /\ Len(c[i]) < Len(p)
    <3>1. c[i] \in State /\ Len(c[i]) \in Nat /\ Len(c[i]) < fork /\ Len(c[i]) <= fork
      BY <1>1, <2>2, TreeIsState, Heights
    <3>2. IsPrefix(c[i], mem)
      BY <1>5, <2>2 DEF Kept
    <3>3. IsPrefix(c[i], p)
      BY <1>1, <1>6, <1>7, <3>1, <3>2, SharedBelow
    <3>4. QED BY <1>1, <1>7, <3>1, <3>3
  <2>4. Ancestors(c, p)
    BY <2>1, <2>2, <2>3 DEF Ancestors
  <2>5. cache' = cache_current_state(c, p)
    BY <1>4 DEF c
  <2>6. QED BY <1>4, <2>2, <2>4, <2>5, CacheGrows DEF CacheKept
<1>16. QED BY <1>11, <1>12, <1>13, <1>14, <1>15

LEMMA ResponseStep ==
    ASSUME HeavierIsNotShorter, ChainInv, NEW p \in Tree, NEW s \in Height, BatchesResponse(p, s)
    PROVE  ChainInv'
<1>1. Quiet /\ s \in Nat
  BY Heights DEF BatchesResponse
<1>2. CASE s <= Len(mem) /\ Len(mem) < Len(p) /\ IsPrefix(mem, p)
  <2>1. LinearExtension(p)
    BY <1>2 DEF BatchesResponse
  <2>2. /\ Write("extend", p) \in Entry /\ Write("extend", p)[1] = "extend"
        /\ Write("extend", p)[2] = p
    BY DEF Entry, Write
  <2>3. Calm
    BY <1>1 DEF Calm, Quiet
  <2>4. todo' = <<Write("extend", p)>> /\ UNCHANGED <<mem, cache, disk, saves, crashes>>
    BY <2>1 DEF LinearExtension
  <2>5. \E w \in Entry :
            /\ todo' = <<w>> /\ w[1] \in {"extend", "check"}
            /\ w[1] = "extend" => Len(mem) < Len(w[2]) /\ IsPrefix(mem, w[2])
    BY <1>2, <2>2, <2>4
  <2>6. QED BY <2>3, <2>4, <2>5, TurnStep
<1>3. CASE ~(s <= Len(mem) /\ Len(mem) < Len(p) /\ IsPrefix(mem, p))
  <2>1. PICK fork \in evaluate_alternative_chain(disk, cache, mem, p, s) : Reorg(p, fork)
    BY <1>3 DEF BatchesResponse
  <2>2. QED BY <1>1, <2>1, ReorgStep
<1>4. QED BY <1>2, <1>3

\* A handler goes on to its next entry.
LEMMA PopTyped ==
    ASSUME Typed, ~Quiet, todo' = Tail(todo), UNCHANGED <<mem, cache, disk, saves, crashes>>
    PROVE  Typed'
<1> DEFINE t == Tail(todo)
<1>1. /\ t \in Seq(Entry) /\ Len(t) = Len(todo) - 1 /\ Len(todo) \in Nat
      /\ \A i \in DOMAIN t : i + 1 \in DOMAIN todo /\ t[i] = todo[i + 1]
  BY HeadOfTodo
<1> HIDE DEF t
<1>2. \A i \in DOMAIN t : i \in Nat /\ (i + 1 = Len(todo) => i = Len(t))
  BY <1>1
<1>3. \A i \in DOMAIN t : t[i][1] = "extend" =>
          i = Len(t) /\ Len(mem) < Len(t[i][2]) /\ IsPrefix(mem, t[i][2])
  BY <1>1, <1>2 DEF Typed
<1>4. todo' = t
  BY DEF t
<1>5. QED BY <1>1, <1>3, <1>4 DEF Typed, TypeOK

LEMMA CheckStep ==
    ASSUME ChainInv, HealthCheckPasses
    PROVE  ChainInv'
<1>1. /\ ~Quiet /\ Head(todo)[1] = "check" /\ todo' = Tail(todo)
      /\ UNCHANGED <<mem, cache, disk, saves, crashes>>
  BY DEF HealthCheckPasses
<1>2. CASE crashes = 0
  <2>1. Calm /\ Tail(todo) = <<>>
    BY <1>1, <1>2, LastEntry
  <2>2. QED BY <1>1, <2>1, TurnStep
<1>3. CASE crashes # 0
  <2>1. Typed'
    BY <1>1, PopTyped DEF ChainInv
  <2>2. crashes' # 0
    BY <1>1, <1>3
  <2>3. QED BY <2>1, <2>2 DEF ChainInv
<1>4. QED BY <1>2, <1>3

\* A node that has not crashed never rolls back.
LEMMA NoRollback ==
    ASSUME ChainInv, SelfHeal
    PROVE  crashes # 0
<1>1. SUFFICES ASSUME crashes = 0 PROVE FALSE
  OBVIOUS
<1>2. ~Quiet /\ Head(todo)[1] = "check" /\ ~Healthy(disk, mem)
  BY DEF SelfHeal
<1>3. Calm
  BY <1>1, <1>2, LastEntry
<1>4. Kept(disk, cache, mem)
  BY <1>1, <1>3, CalmIsKept
<1>5. Healthy(disk, mem)
  BY <1>4, HealthyWhenKept DEF Kept
<1>6. QED BY <1>2, <1>5

LEMMA SelfHealTyped ==
    ASSUME Typed, SelfHeal
    PROVE  Typed' /\ (~replaced' => todo' = Tail(todo) /\ UNCHANGED <<mem, disk, saves, replaced>>)
<1> DEFINE usable == {q \in TrustedSnapshots(disk) : Len(q) < Len(mem)}
           p == Highest(usable)
<1>3. ~Quiet /\ UNCHANGED <<disk, saves, crashes>>
  BY DEF SelfHeal
<1>4. CASE usable = {}
  <2>1. todo' = Tail(todo) /\ UNCHANGED <<mem, cache, replaced>>
    BY <1>4 DEF SelfHeal
  <2>2. QED BY <1>3, <2>1, PopTyped
<1>5. CASE usable # {}
  <2>1. /\ mem' = p /\ cache' = cache_current_state(cache, p)
        /\ todo' = <<Write("state", p), Write("truncate", Len(p)), Write("drop", Len(p))>>
        /\ replaced' = TRUE
    BY <1>5 DEF SelfHeal
  <2>2. usable \in SUBSET Tree
    BY DEF TrustedSnapshots, Typed, TypeOK, Disk
  <2> HIDE DEF usable
  <2>3. p \in Tree
    BY <1>5, <2>2, HighestOf
  <2> HIDE DEF p
  <2>4. Len(p) \in Nat
    BY <2>3, Heights, TreeIsState
  <2>5. cache' \in Seq(Tree) /\ Len(cache') <= STATE_CACHE_SIZE
    BY <2>1, <2>3, CacheTyped DEF Typed, TypeOK
  <2> DEFINE a == Write("state", p)
             b == Write("truncate", Len(p))
             c == Write("drop", Len(p))
  <2>6. /\ a \in Entry /\ b \in Entry /\ c \in Entry
        /\ a[1] # "extend" /\ b[1] # "extend" /\ c[1] # "extend"
    BY <2>3, <2>4 DEF Entry, Write, Stored
  <2>7. todo' = <<a, b, c>>
    BY <2>1
  <2> HIDE DEF a, b, c
  <2>8. todo' \in Seq(Entry) /\ DOMAIN todo' = {1, 2, 3} /\ todo'[1] = a /\ todo'[2] = b /\ todo'[3] = c
    BY <2>6, <2>7
  <2>9. \A i \in DOMAIN todo' : todo'[i][1] # "extend"
    BY <2>6, <2>8
  <2>10. QED BY <1>3, <2>1, <2>3, <2>5, <2>8, <2>9 DEF Typed, TypeOK
<1>6. QED BY <1>4, <1>5

LEMMA SelfHealStep ==
    ASSUME ChainInv, SelfHeal
    PROVE  ChainInv'
<1>1. crashes' # 0
  BY NoRollback DEF SelfHeal
<1>2. QED BY <1>1, SelfHealTyped DEF ChainInv

LEMMA HealthTickStep ==
    ASSUME ChainInv, HealthTick
    PROVE  ChainInv'
<1>1. Calm /\ todo' = <<Write("check", 0)>> /\ UNCHANGED <<mem, cache, disk, saves, crashes>>
  BY DEF HealthTick, Calm, Quiet
<1>2. Write("check", 0) \in Entry /\ Write("check", 0)[1] = "check"
  BY DEF Entry, Write
<1>3. QED BY <1>1, <1>2, TurnStep

\* A step that leaves memory, cache, todo and the other tables alone.
LEMMA SameStep ==
    ASSUME ChainInv, UNCHANGED <<mem, cache, todo, crashes>>, saves' \subseteq Tree,
           disk' \in Disk, disk'.current \in Tree, disk'.batches = disk.batches,
           disk'.snapshots = disk.snapshots, disk'.spent = disk.spent
    PROVE  ChainInv'
<1>1. Typed'
  BY DEF ChainInv, Typed, TypeOK
<1>2. SUFFICES ASSUME crashes' = 0
               PROVE  Orderly' /\ BatchesKept' /\ SnapshotsKept' /\ KeysKept' /\ CacheKept'
  BY <1>1 DEF ChainInv
<1>3. crashes = 0 /\ Orderly /\ BatchesKept /\ SnapshotsKept /\ KeysKept /\ CacheKept
  BY <1>2 DEF ChainInv
<1>4. Orderly' /\ CacheKept'
  BY <1>3 DEF Orderly, CacheKept
<1>5. BatchesKept'
  BY <1>3 DEF BatchesKept, Pending
<1>6. SnapshotsKept'
  BY <1>3 DEF SnapshotsKept
<1>7. KeysKept'
  BY <1>3 DEF KeysKept
<1>8. QED BY <1>4, <1>5, <1>6, <1>7

LEMMA SaveStep ==
    ASSUME ChainInv, SaveTick \/ \E p \in saves : SaveLands(p)
    PROVE  ChainInv'
<1>1. saves \subseteq Tree /\ mem \in Tree /\ disk \in Disk /\ disk.current \in Tree
  BY DEF ChainInv, Typed, TypeOK
<1>2. CASE SaveTick
  <2>1. UNCHANGED <<mem, cache, disk, todo, crashes>> /\ saves' = saves \cup {mem}
    BY <1>2 DEF SaveTick
  <2>2. QED BY <1>1, <2>1, SameStep
<1>3. ASSUME NEW p \in saves, SaveLands(p) PROVE ChainInv'
  <2>1. UNCHANGED <<mem, cache, todo, crashes>> /\ saves' = saves \ {p} /\ disk' = save_state(disk, p)
    BY <1>3 DEF SaveLands
  <2>2. p \in Tree /\ saves' \subseteq Tree
    BY <1>1, <2>1
  <2>3. /\ disk' \in Disk /\ disk'.current = p /\ disk'.batches = disk.batches
        /\ disk'.snapshots = disk.snapshots /\ disk'.spent = disk.spent
    BY <1>1, <2>1, <2>2, StateWrite
  <2>4. QED BY <2>1, <2>2, <2>3, SameStep
<1>4. QED BY <1>2, <1>3

LEMMA CrashTyped ==
    ASSUME Typed, Crash
    PROVE  Typed' /\ crashes' # 0
<1>1. /\ crashes < MaxCrashes /\ crashes' = crashes + 1 /\ mem' = disk.current /\ cache' = <<>>
      /\ todo' = <<>> /\ saves' = {} /\ disk' = disk
  BY DEF Crash
<1>2. disk \in Disk /\ disk.current \in Tree /\ crashes \in 0..MaxCrashes
  BY DEF Typed, TypeOK
<1>3. crashes' \in 0..MaxCrashes /\ crashes' # 0
  BY <1>1, <1>2, SizeAssumption
<1>4. cache' \in Seq(Tree) /\ Len(cache') <= STATE_CACHE_SIZE
  BY <1>1, SizeAssumption
<1>5. todo' \in Seq(Entry) /\ DOMAIN todo' = {}
  BY <1>1
<1>6. QED BY <1>1, <1>2, <1>3, <1>4, <1>5 DEF Typed, TypeOK

LEMMA CrashStep ==
    ASSUME ChainInv, Crash
    PROVE  ChainInv'
BY CrashTyped DEF ChainInv

LEMMA InitChain == Init => ChainInv
<1> SUFFICES ASSUME Init PROVE ChainInv
  OBVIOUS
<1> DEFINE b == [h \in Height |-> IF h = 0 THEN Genesis ELSE NoBlock]
<1>1. /\ mem = Genesis /\ cache = <<>> /\ todo = <<>> /\ saves = {} /\ crashes = 0
      /\ disk = [batches |-> b, current |-> Genesis, snapshots |-> {}, spent |-> {}]
  BY DEF Init
<1>2. Genesis \in Tree /\ Len(Genesis) = 1 /\ Genesis \in State
  BY GenesisInTree, TreeIsState
<1>3. b \in [Height -> Tree \cup {NoBlock}]
  BY <1>2
<1>4. disk \in Disk /\ disk.current \in Tree
  <2> HIDE DEF b
  <2>1. QED BY <1>1, <1>2, <1>3 DEF Disk, State
<1>5. Typed
  BY <1>1, <1>2, <1>4, SizeAssumption DEF Typed, TypeOK
<1>6. Orderly /\ CacheKept /\ SnapshotsKept /\ KeysKept
  BY <1>1 DEF Orderly, CacheKept, SnapshotsKept, KeysKept
<1>7. BatchesKept
  <2>1. BlockAt(Genesis, 0) = Genesis
    <3>1. BlockAt(Genesis, 0) = StateAt(Genesis, 1)
      BY BlockIsState
    <3>2. QED BY <1>2, <3>1, WholePath
  <2>2. ASSUME NEW h \in Height PROVE IF h < 1 THEN b[h] = BlockAt(Genesis, h) ELSE b[h] = NoBlock
    BY <2>1, Heights
  <2>3. disk.batches = b /\ Len(mem) = 1
    BY <1>1, <1>2
  <2> HIDE DEF b
  <2>4. QED BY <1>1, <2>2, <2>3 DEF BatchesKept
<1>8. QED BY <1>5, <1>6, <1>7 DEF ChainInv

LEMMA NextChain ==
    ASSUME HeavierIsNotShorter, ChainInv, [Next]_vars
    PROVE  ChainInv'
<1>1. ASSUME NEW p \in Tree, NewBatch(p) \/ MinedBatch(p) \/ ApplyOrphan(p) PROVE ChainInv'
  BY <1>1, BlockStep
<1>2. ASSUME NEW p \in Tree, NEW s \in Height, BatchesResponse(p, s) PROVE ChainInv'
  BY <1>2, ResponseStep
<1>3. CASE ApplyNext
  BY <1>3, ApplyNextStep
<1>4. CASE PerformWrite
  BY <1>4, WriteStep
<1>5. CASE SaveTick \/ \E p \in saves : SaveLands(p)
  BY <1>5, SaveStep
<1>6. CASE HealthTick
  BY <1>6, HealthTickStep
<1>7. CASE HealthCheckPasses
  BY <1>7, CheckStep
<1>8. CASE SelfHeal
  BY <1>8, SelfHealStep
<1>9. CASE Crash
  BY <1>9, CrashStep
<1>10. CASE UNCHANGED vars
  <2>1. UNCHANGED <<mem, cache, todo, crashes, disk, saves>>
    BY <1>10 DEF vars
  <2>2. QED BY <2>1, SameStep DEF ChainInv, Typed, TypeOK
<1>11. QED BY <1>1, <1>2, <1>3, <1>4, <1>5, <1>6, <1>7, <1>8, <1>9, <1>10 DEF Next

\* The inductive invariant holds for ever.
LEMMA ChainAlways == ASSUME HeavierIsNotShorter PROVE Spec => []ChainInv
<1>1. Init => ChainInv
  BY InitChain
<1>2. ChainInv /\ [Next]_vars => ChainInv'
  BY NextChain
<1>3. QED BY <1>1, <1>2, PTL DEF Spec
-----------------------------------------------------------------------------
(***************************************************************************)
(* What is stored while nothing is replaced.                               *)
(***************************************************************************)
\* Only a batch that is about to be written can be missing.
LEMMA NothingMissing ==
    ASSUME Typed, Unbroken, Calm \/ todo[1][1] # "batch"
    PROVE  Backed(mem)
<1>1. ~Pending(Write("batch", mem))
  BY DEF Pending, Calm, Write, Unbroken
<1>2. QED BY <1>1 DEF Unbroken, Backed

LEMMA AdvanceUnbroken ==
    ASSUME Typed, Unbroken, Calm, NEW p \in Tree, Len(p) = Len(mem) + 1, IsPrefix(mem, p),
           NEW w, Fits(w, p), Advance(p, w)
    PROVE  Unbroken'
<1>1. mem' = p /\ todo' = w /\ disk' = disk /\ saves' = saves
  BY DEF Advance
<1>2. /\ p \in State /\ mem \in State /\ Len(mem) \in Nat /\ Len(p) \in Nat
      /\ saves \subseteq State /\ disk.current \in State
  <2>1. mem \in Tree /\ saves \subseteq Tree /\ disk.current \in Tree
    BY DEF Typed, TypeOK
  <2>2. QED BY <2>1, TreeIsState, Heights
<1>3. \A i \in DOMAIN w : /\ w[i][1] \in Stored \cup {"check", "extend"}
                          /\ w[i][1] \in Stored => w[i][2] = p
                          /\ w[i][1] = "batch" => i = 1
  BY DEF Fits, FitsEntry
<1>4. ASSUME NEW h \in 0..(Len(p) - 1)
      PROVE  \/ disk.batches[h] = BlockAt(p, h)
             \/ h = Len(p) - 1 /\ \E i \in DOMAIN w : w[i] = Write("batch", p)
  <2>1. CASE h = Len(p) - 1
    BY <2>1 DEF Fits
  <2>2. CASE h # Len(p) - 1
    <3>1. h \in Nat /\ h < Len(mem) /\ h \in 0..(Len(mem) - 1)
      BY <1>2, <2>2
    <3>2. disk.batches[h] = BlockAt(mem, h)
      BY <3>1, NothingMissing DEF Backed
    <3>3. BlockAt(mem, h) = BlockAt(p, h)
      BY <1>2, <3>1, PrefixShares
    <3>4. QED BY <3>2, <3>3
  <2>3. QED BY <2>1, <2>2
<1>5. ASSUME NEW q \in saves \cup {disk.current} PROVE IsPrefix(q, p) /\ Backed(q)
  <2>1. q \in State /\ IsPrefix(q, mem) /\ Backed(q)
    BY <1>2 DEF Unbroken
  <2>2. QED BY <1>2, <2>1, PrefixTrans
<1>6. \A q \in saves \cup {disk.current} : Backed(q) => Backed(q)'
  BY <1>1 DEF Backed
<1>7. QED BY <1>1, <1>3, <1>4, <1>5, <1>6 DEF Unbroken, Pending

LEMMA WriteUnbroken ==
    ASSUME Typed, Unbroken, PerformWrite
    PROVE  Unbroken'
<1> DEFINE w == Head(todo)
           t == Tail(todo)
<1>1. /\ ~Quiet /\ w[1] \notin {"check", "extend"} /\ disk' = Perform(disk, w) /\ todo' = t
      /\ mem' = mem /\ saves' = saves
  BY DEF PerformWrite
<1>2. /\ 1 \in DOMAIN todo /\ w = todo[1] /\ t \in Seq(Entry)
      /\ \A i \in DOMAIN t : i + 1 \in DOMAIN todo /\ t[i] = todo[i + 1]
  BY <1>1, HeadOfTodo
<1> HIDE DEF w, t
<1>3. w[1] \in Stored /\ w[2] = mem
  BY <1>1, <1>2 DEF Unbroken
<1>4. /\ disk \in Disk /\ mem \in Tree /\ mem \in State /\ Len(mem) \in Nat /\ Len(mem) > 0
      /\ saves \subseteq State /\ disk.current \in State
  <2>1. disk \in Disk /\ mem \in Tree /\ saves \subseteq Tree /\ disk.current \in Tree
    BY DEF Typed, TypeOK
  <2>2. QED BY <2>1, TreeIsState, Heights
<1>5. \A i \in DOMAIN t : /\ t[i][1] \in Stored \cup {"check", "extend"}
                          /\ t[i][1] \in Stored => t[i][2] = mem
                          /\ t[i][1] # "batch"
  <2>1. \A i \in DOMAIN t : i + 1 # 1
    BY <1>2
  <2>2. QED BY <1>2, <2>1 DEF Unbroken
<1>6. /\ \A h \in 0..(Len(mem) - 1) : disk'.batches[h] = BlockAt(mem, h)
      /\ disk'.current \in {disk.current, mem}
  <2>1. CASE w[1] = "batch"
    <3>1. disk' = save_batch(disk, mem)
      BY <1>1, <1>3, <2>1, PerformIs
    <3>2. /\ disk'.batches[Len(mem) - 1] = mem /\ disk'.current = disk.current
          /\ \A h \in Height : h # Len(mem) - 1 => disk'.batches[h] = disk.batches[h]
      BY <1>4, <3>1, BatchWrite
    <3>3. BlockAt(mem, Len(mem) - 1) = mem
      <4>1. Len(mem) - 1 \in Nat /\ (Len(mem) - 1) + 1 = Len(mem)
        BY <1>4
      <4>2. QED BY <1>4, <4>1, BlockIsState, WholePath
    <3>4. ASSUME NEW h \in 0..(Len(mem) - 1), h # Len(mem) - 1
          PROVE  disk'.batches[h] = BlockAt(mem, h)
      <4>1. h \in Height
        BY <1>4, Heights
      <4>2. QED BY <3>2, <3>4, <4>1 DEF Unbroken
    <3>5. QED BY <3>2, <3>3, <3>4
  <2>2. CASE w[1] # "batch"
    <3>1. Backed(mem)
      BY <1>2, <2>2, NothingMissing
    <3>2. disk'.batches = disk.batches /\ disk'.current \in {disk.current, mem}
      <4>1. CASE w[1] = "state"
        BY <1>1, <1>3, <1>4, <4>1, PerformIs, StateWrite
      <4>2. CASE w[1] = "snapshot"
        BY <1>1, <1>3, <1>4, <4>2, PerformIs, SnapshotWrite
      <4>3. CASE w[1] = "burn"
        BY <1>1, <1>3, <1>4, <4>3, PerformIs, BurnWrite
      <4>4. QED BY <1>3, <2>2, <4>1, <4>2, <4>3 DEF Stored
    <3>3. QED BY <3>1, <3>2 DEF Backed
  <2>3. QED BY <2>1, <2>2
<1>7. ASSUME NEW q \in saves \cup {disk'.current} PROVE IsPrefix(q, mem) /\ Backed(q)'
  <2>1. q \in State /\ IsPrefix(q, mem)
    BY <1>4, <1>6, PrefixRefl DEF Unbroken
  <2>2. Len(q) \in Nat /\ Len(q) <= Len(mem)
    BY <2>1, Heights DEF IsPrefix
  <2>3. ASSUME NEW h \in 0..(Len(q) - 1) PROVE disk'.batches[h] = BlockAt(q, h)
    <3>1. h \in Nat /\ h < Len(q) /\ h \in 0..(Len(mem) - 1)
      BY <1>4, <2>2
    <3>2. BlockAt(q, h) = BlockAt(mem, h)
      BY <1>4, <2>1, <3>1, PrefixShares
    <3>3. QED BY <1>6, <3>1, <3>2
  <2>4. QED BY <2>1, <2>3 DEF Backed
<1>8. QED BY <1>1, <1>5, <1>6, <1>7 DEF Unbroken

\* A step that touches neither memory nor batches nor what is stored.
LEMMA RestUnbroken ==
    ASSUME Typed, Unbroken, UNCHANGED <<mem, disk, saves>>,
           \A i \in DOMAIN todo' : todo'[i][1] \in {"check", "extend"},
           Calm
    PROVE  Unbroken'
<1>1. \A h \in 0..(Len(mem) - 1) : disk.batches[h] = BlockAt(mem, h)
  BY NothingMissing DEF Backed
<1>2. \A q \in saves \cup {disk.current} : IsPrefix(q, mem) /\ Backed(q)'
  BY DEF Unbroken, Backed
<1>3. \A i \in DOMAIN todo' : todo'[i][1] \notin Stored
  BY DEF Stored
<1>4. QED BY <1>1, <1>2, <1>3 DEF Unbroken, Stored

\* The health check is the last entry, the loop over synced blocks too.
LEMMA PopUnbroken ==
    ASSUME Typed, Unbroken, ~Quiet, Head(todo)[1] = "check", todo' = Tail(todo),
           UNCHANGED <<mem, disk, saves>>
    PROVE  Unbroken'
<1> DEFINE t == Tail(todo)
<1>1. /\ 1 \in DOMAIN todo /\ Head(todo) = todo[1] /\ t \in Seq(Entry)
      /\ \A i \in DOMAIN t : i + 1 \in DOMAIN todo /\ t[i] = todo[i + 1]
  BY HeadOfTodo
<1> HIDE DEF t
<1>2. \A i \in DOMAIN t : /\ t[i][1] \in Stored \cup {"check", "extend"}
                          /\ t[i][1] \in Stored => t[i][2] = mem
                          /\ t[i][1] # "batch"
  <2>1. \A i \in DOMAIN t : i + 1 # 1
    BY <1>1
  <2>2. QED BY <1>1, <2>1 DEF Unbroken
<1>3. \A h \in 0..(Len(mem) - 1) : disk.batches[h] = BlockAt(mem, h)
  BY <1>1, NothingMissing DEF Backed
<1>4. \A q \in saves \cup {disk.current} : IsPrefix(q, mem) /\ Backed(q)'
  BY DEF Unbroken, Backed
<1>5. todo' = t
  BY DEF t
<1>6. QED BY <1>2, <1>3, <1>4, <1>5 DEF Unbroken

LEMMA SaveTyped ==
    ASSUME Typed, SaveTick \/ \E p \in saves : SaveLands(p)
    PROVE  Typed' /\ UNCHANGED replaced
<1>1. saves \subseteq Tree /\ mem \in Tree /\ disk \in Disk /\ disk.current \in Tree
  BY DEF Typed, TypeOK
<1>2. CASE SaveTick
  BY <1>1, <1>2 DEF SaveTick, Typed, TypeOK
<1>3. ASSUME NEW p \in saves, SaveLands(p) PROVE Typed' /\ UNCHANGED replaced
  <2>1. /\ UNCHANGED <<mem, cache, todo, crashes, replaced>> /\ saves' = saves \ {p}
        /\ disk' = save_state(disk, p)
    BY <1>3 DEF SaveLands
  <2>2. disk' \in Disk /\ disk'.current = p
    BY <1>1, <2>1, StateWrite
  <2>3. QED BY <1>1, <2>1, <2>2 DEF Typed, TypeOK
<1>4. QED BY <1>2, <1>3

LEMMA SaveUnbroken ==
    ASSUME Typed, Unbroken, SaveTick \/ \E p \in saves : SaveLands(p)
    PROVE  Unbroken'
<1>1. saves \subseteq Tree /\ mem \in Tree /\ disk \in Disk
  BY DEF Typed, TypeOK
<1>2. CASE SaveTick
  <2>1. UNCHANGED <<mem, disk, todo>> /\ saves' = saves \cup {mem} /\ Calm
    BY <1>2 DEF SaveTick, Quiet, Calm
  <2>2. Backed(mem) /\ IsPrefix(mem, mem)
    BY <1>1, <2>1, NothingMissing, PrefixRefl, TreeIsState
  <2>3. \A q \in saves' \cup {disk.current} : IsPrefix(q, mem) /\ Backed(q)'
    BY <2>1, <2>2 DEF Unbroken, Backed
  <2>4. QED BY <2>1, <2>3 DEF Unbroken, Pending
<1>3. ASSUME NEW p \in saves, SaveLands(p) PROVE Unbroken'
  <2>1. UNCHANGED <<mem, todo>> /\ saves' = saves \ {p} /\ disk' = save_state(disk, p)
    BY <1>3 DEF SaveLands
  <2>2. disk'.current = p /\ disk'.batches = disk.batches
    BY <1>1, <2>1, StateWrite
  <2>3. \A q \in saves' \cup {disk'.current} : IsPrefix(q, mem) /\ Backed(q)'
    BY <2>1, <2>2 DEF Unbroken, Backed
  <2>4. QED BY <2>1, <2>2, <2>3 DEF Unbroken, Pending
<1>4. QED BY <1>2, <1>3

\* A restart resumes on a State whose batches are on disk.
LEMMA CrashUnbroken ==
    ASSUME Typed, Unbroken, Crash
    PROVE  Unbroken'
<1>1. mem' = disk.current /\ todo' = <<>> /\ saves' = {} /\ disk' = disk
  BY DEF Crash
<1>2. IsPrefix(disk.current, disk.current) /\ Backed(disk.current)
  BY PrefixRefl, TreeIsState DEF Typed, Unbroken
<1>3. \A q \in saves' \cup {disk'.current} : IsPrefix(q, mem') /\ Backed(q)'
  BY <1>1, <1>2 DEF Backed
<1>4. \A h \in 0..(Len(mem') - 1) : disk'.batches[h] = BlockAt(mem', h)
  BY <1>1, <1>2 DEF Backed
<1>5. DOMAIN todo' = {}
  BY <1>1
<1>6. QED BY <1>3, <1>4, <1>5 DEF Unbroken

LEMMA InitLine == Init => LineInv
<1> SUFFICES ASSUME Init PROVE LineInv
  OBVIOUS
<1>1. Typed /\ BatchesKept
  BY InitChain DEF ChainInv, Init
<1>2. /\ mem = Genesis /\ todo = <<>> /\ saves = {} /\ disk.current = Genesis
  BY DEF Init
<1>3. Genesis \in State /\ Len(Genesis) = 1 /\ IsPrefix(Genesis, Genesis)
  BY GenesisInTree, TreeIsState, PrefixRefl
<1>4. ASSUME NEW h \in 0..(Len(mem) - 1) PROVE disk.batches[h] = BlockAt(mem, h)
  <2>1. h \in Height /\ h < Len(mem)
    BY <1>1, <1>2, <1>3, Heights DEF Typed, TypeOK
  <2>2. ~Pending(Write("batch", BlockAt(mem, h)))
    BY <1>2 DEF Pending
  <2>3. QED BY <1>1, <2>1, <2>2 DEF BatchesKept
<1>5. Backed(Genesis)
  BY <1>2, <1>4 DEF Backed
<1>6. Unbroken
  BY <1>2, <1>3, <1>4, <1>5 DEF Unbroken
<1>7. QED BY <1>1, <1>6 DEF LineInv

LEMMA ResponseLine ==
    ASSUME LineInv, NEW p \in Tree, NEW s \in Height, BatchesResponse(p, s)
    PROVE  LineInv'
<1>1. Quiet /\ Typed /\ s \in Nat
  BY Heights DEF BatchesResponse, LineInv
<1>2. CASE s <= Len(mem) /\ Len(mem) < Len(p) /\ IsPrefix(mem, p)
  <2>1. LinearExtension(p)
    BY <1>2 DEF BatchesResponse
  <2>2. todo' = <<Write("extend", p)>> /\ UNCHANGED <<mem, cache, disk, saves, crashes, replaced>>
    BY <2>1 DEF LinearExtension
  <2>3. /\ Write("extend", p) \in Entry /\ Write("extend", p)[1] = "extend"
        /\ Write("extend", p)[2] = p
    BY DEF Entry, Write
  <2>4. \E w \in Entry :
            /\ todo' = <<w>> /\ w[1] \in {"extend", "check"}
            /\ w[1] = "extend" => Len(mem) < Len(w[2]) /\ IsPrefix(mem, w[2])
    BY <1>2, <2>2, <2>3
  <2>5. Typed' /\ \A i \in DOMAIN todo' : todo'[i][1] \in {"check", "extend"}
    BY <1>1, <2>2, <2>4, TurnTyped
  <2>6. Calm
    BY <1>1 DEF Calm, Quiet
  <2>7. QED BY <1>1, <2>2, <2>5, <2>6, RestUnbroken DEF LineInv
<1>3. CASE ~(s <= Len(mem) /\ Len(mem) < Len(p) /\ IsPrefix(mem, p))
  <2>1. PICK fork \in evaluate_alternative_chain(disk, cache, mem, p, s) : Reorg(p, fork)
    BY <1>3 DEF BatchesResponse
  <2>2. fork \in find_fork_point(disk, p, s)
    BY <2>1 DEF evaluate_alternative_chain
  <2>3. fork \in s..(Len(p) - 1)
    BY <2>2 DEF find_fork_point
  <2>4. fork \in Nat /\ fork < Len(p)
    <3>1. Len(p) \in Nat
      BY Heights, TreeIsState
    <3>2. QED BY <1>1, <2>3, <3>1
  <2>5. Typed' /\ replaced'
    BY <1>1, <2>1, <2>4, ReorgTyped DEF Reorg
  <2>6. QED BY <2>5 DEF LineInv
<1>4. QED BY <1>2, <1>3

LEMMA NextLine ==
    ASSUME LineInv, [Next]_vars
    PROVE  LineInv'
<1>1. Typed /\ (~replaced => Unbroken)
  BY DEF LineInv
<1>2. ASSUME NEW p \in Tree, NewBatch(p) \/ MinedBatch(p) \/ ApplyOrphan(p) PROVE LineInv'
  <2>1. PICK w : Fits(w, p) /\ Extend(p, w)
    BY <1>2, BlockExtends
  <2>2. Calm /\ Len(p) = Len(mem) + 1 /\ IsPrefix(mem, p) /\ Advance(p, w) /\ UNCHANGED replaced
    BY <2>1 DEF Extend, Advance, Quiet, Calm
  <2>3. Typed'
    BY <1>1, <2>1, <2>2, AdvanceTyped
  <2>4. ~replaced => Unbroken'
    BY <1>1, <2>1, <2>2, AdvanceUnbroken
  <2>5. QED BY <2>2, <2>3, <2>4 DEF LineInv
<1>3. ASSUME NEW p \in Tree, NEW s \in Height, BatchesResponse(p, s) PROVE LineInv'
  BY <1>3, ResponseLine
<1>4. CASE ApplyNext
  <2>1. PICK q \in Tree : /\ Len(q) = Len(mem) + 1 /\ IsPrefix(mem, q)
                          /\ \E w : Fits(w, q) /\ Advance(q, w)
    BY <1>1, <1>4, ApplyNextAdvances
  <2>2. PICK w : Fits(w, q) /\ Advance(q, w)
    BY <2>1
  <2>3. Calm
    <3>1. ~Quiet /\ Head(todo)[1] = "extend"
      BY <1>4 DEF ApplyNext
    <3>2. 1 \in DOMAIN todo /\ Head(todo) = todo[1]
      BY <1>1, <3>1, HeadOfTodo
    <3>3. Len(todo) = 1
      BY <1>1, <3>1, <3>2 DEF Typed
    <3>4. DOMAIN todo = {1}
      BY <1>1, <3>3 DEF Typed
    <3>5. QED BY <3>1, <3>2, <3>4 DEF Calm
  <2>4. Typed' /\ UNCHANGED replaced
    BY <1>1, <2>2, AdvanceTyped DEF Advance
  <2>5. ~replaced => Unbroken'
    BY <1>1, <2>1, <2>2, <2>3, AdvanceUnbroken
  <2>6. QED BY <2>4, <2>5 DEF LineInv
<1>5. CASE PerformWrite
  <2>1. UNCHANGED replaced
    BY <1>5 DEF PerformWrite
  <2>2. QED BY <1>1, <1>5, <2>1, WriteKeepsTypes, WriteUnbroken DEF LineInv
<1>6. CASE SaveTick \/ \E p \in saves : SaveLands(p)
  BY <1>1, <1>6, SaveTyped, SaveUnbroken DEF LineInv
<1>7. CASE HealthTick
  <2>1. /\ Calm /\ todo' = <<Write("check", 0)>>
        /\ UNCHANGED <<mem, cache, disk, saves, crashes, replaced>>
    BY <1>7 DEF HealthTick, Calm, Quiet
  <2>2. Write("check", 0) \in Entry /\ Write("check", 0)[1] = "check"
    BY DEF Entry, Write
  <2>3. Typed' /\ \A i \in DOMAIN todo' : todo'[i][1] \in {"check", "extend"}
    BY <1>1, <2>1, <2>2, TurnTyped
  <2>4. QED BY <1>1, <2>1, <2>3, RestUnbroken DEF LineInv
<1>8. CASE HealthCheckPasses
  <2>1. /\ ~Quiet /\ Head(todo)[1] = "check" /\ todo' = Tail(todo)
        /\ UNCHANGED <<mem, cache, disk, saves, crashes, replaced>>
    BY <1>8 DEF HealthCheckPasses
  <2>2. QED BY <1>1, <2>1, PopTyped, PopUnbroken DEF LineInv
<1>9. CASE SelfHeal
  <2>1. ~Quiet /\ Head(todo)[1] = "check"
    BY <1>9 DEF SelfHeal
  <2>2. QED BY <1>1, <1>9, <2>1, SelfHealTyped, PopUnbroken DEF LineInv
<1>10. CASE Crash
  <2>1. UNCHANGED replaced
    BY <1>10 DEF Crash
  <2>2. QED BY <1>1, <1>10, <2>1, CrashTyped, CrashUnbroken DEF LineInv
<1>11. CASE UNCHANGED vars
  <2>1. UNCHANGED <<mem, cache, todo, crashes, disk, saves, replaced>>
    BY <1>11 DEF vars
  <2>2. QED BY <1>1, <2>1 DEF LineInv, Typed, TypeOK, Unbroken, Pending, Backed
<1>12. QED
  BY <1>2, <1>3, <1>4, <1>5, <1>6, <1>7, <1>8, <1>9, <1>10, <1>11 DEF Next
-----------------------------------------------------------------------------
(***************************************************************************)
(* The theorems.                                                           *)
(***************************************************************************)
LEMMA QuietIsKept ==
    ASSUME ChainInv, Quiet, crashes = 0
    PROVE  Kept(disk, cache, mem) /\ disk.spent \subseteq KeysOn(mem)
<1>1. Calm
  BY DEF Calm, Quiet
<1>2. QED BY <1>1, CalmIsKept

\* While a heavier chain is not a shorter one, memory, cache, batches,
\* snapshots and the table of spent keys stay in step on a node that has not
\* crashed, and the types hold on one that has (node.rs, storage.rs).
THEOREM InStepCorrect == HeavierIsNotShorter => (Spec => []InStep)
<1> SUFFICES ASSUME HeavierIsNotShorter PROVE Spec => []InStep
  OBVIOUS
<1>1. ChainInv => InStep
  <2> SUFFICES ASSUME ChainInv PROVE InStep
    OBVIOUS
  <2>1. TypeOK
    BY DEF ChainInv, Typed
  <2>2. ASSUME Quiet, crashes = 0 PROVE Backed(mem)
    <3>1. Kept(disk, cache, mem)
      BY <2>2, QuietIsKept
    <3>2. Len(mem) \in Nat /\ Len(mem) \in Height
      BY <3>1, Heights, TreeIsState DEF Kept
    <3>3. ASSUME NEW h \in 0..(Len(mem) - 1) PROVE disk.batches[h] = BlockAt(mem, h)
      <4>1. h \in Nat /\ h < Len(mem) /\ h \in Height
        BY <3>2, Heights
      <4>2. QED BY <3>1, <4>1 DEF Kept
    <3>4. QED BY <3>3 DEF Backed
  <2>3. ASSUME Quiet, crashes = 0 PROVE \A p \in disk.snapshots : IsPrefix(p, mem)
    BY <2>3, QuietIsKept DEF Kept
  <2>4. ASSUME Quiet, crashes = 0 PROVE disk.spent \subseteq KeysOn(mem)
    BY <2>4, QuietIsKept
  <2>5. ASSUME Quiet, crashes = 0 PROVE Healthy(disk, mem)
    <3>1. Kept(disk, cache, mem)
      BY <2>5, QuietIsKept
    <3>2. QED BY <3>1, HealthyWhenKept DEF Kept
  <2>6. Aligned /\ SnapshotsOnChain /\ NoGhosts /\ NoFalseAlarm
    BY <2>2, <2>3, <2>4, <2>5 DEF Aligned, SnapshotsOnChain, NoGhosts, NoFalseAlarm
  <2>7. QED BY <2>1, <2>6 DEF InStep
<1>2. Spec => []ChainInv
  BY ChainAlways
<1>3. QED BY <1>1, <1>2, PTL

\* While a heavier chain is not a shorter one, a node that has not crashed
\* adopts any heavier chain offered from a height at or below the fork: what
\* cache, snapshots and batches hold always suffices to rebuild the State
\* there (evaluate_alternative_chain).
THEOREM HeaviestCorrect == HeavierIsNotShorter => (Spec => []HeaviestAccepted)
<1> SUFFICES ASSUME HeavierIsNotShorter PROVE Spec => []HeaviestAccepted
  OBVIOUS
<1>1. ChainInv => HeaviestAccepted
  <2> SUFFICES ASSUME ChainInv, Quiet, crashes = 0, NEW p \in Tree, Depth(p) > Depth(mem),
                      NEW s \in 0..(Len(p) - 1), IsPrefix(StateAt(p, s), mem), ~IsPrefix(mem, p)
               PROVE  evaluate_alternative_chain(disk, cache, mem, p, s) # {}
    BY DEF HeaviestAccepted
  <2>1. Kept(disk, cache, mem) /\ mem \in Tree
    BY QuietIsKept DEF Kept
  <2>2. Len(mem) \in Nat /\ Len(p) \in Nat
    BY <2>1, Heights, TreeIsState
  <2>3. Len(mem) <= Len(p)
    BY <2>1, <2>2 DEF HeavierIsNotShorter
  <2>4. QED BY <2>1, <2>3, HeavierAdopted
<1>2. Spec => []ChainInv
  BY ChainAlways
<1>3. QED BY <1>1, <1>2, PTL
\* Until a reorg or a rollback replaces blocks, the State a restart would load
\* has all its blocks on disk, whatever writes a crash cuts short and however
\* late background saves land (storage.rs; save_interval in node.rs).
THEOREM StoredCorrect == Spec => []StoredBacked
<1>1. Init => LineInv
  BY InitLine
<1>2. LineInv /\ [Next]_vars => LineInv'
  BY NextLine
<1>3. LineInv => StoredBacked
  BY DEF LineInv, Unbroken, StoredBacked
<1>4. QED BY <1>1, <1>2, <1>3, PTL DEF Spec
=============================================================================
