----------------------------- MODULE NodeChain -----------------------------
(***************************************************************************)
(* How one node keeps its chain: the State in memory, the ring buffer of   *)
(* recent States (state_cache), and on disk the batches, the current       *)
(* State, the snapshots and the table of spent one-time keys.  Blocks are  *)
(* mined, arrive, are synced or replace the end of the chain (src/node.rs);*)
(* each handler writes to the disk in several steps (src/storage.rs,       *)
(* src/storage/batch_store.rs), and the process may crash between any two. *)
(*                                                                         *)
(* A block is named by the path of blocks that leads to it (its header     *)
(* hash fixes its ancestors), and a State by the path it was reached by:   *)
(* <<>> is the State before genesis, the block at height h is a path of    *)
(* length h + 1, and what a block does to the State is in Ledger.  The     *)
(* event loop runs one handler at a time and awaits its disk task; only    *)
(* the periodic save_state is not awaited and lands whenever it likes.     *)
(***************************************************************************)
EXTENDS Integers, Sequences, FiniteSets, FiniteSetsExt, Sums

CONSTANTS
    Tree,               \* every valid block anybody may produce, as paths
    Work(_),            \* Work(p): work of p's last block, commit bonus included
    KeysOf(_), Key,     \* KeysOf(p): one-time keys p's last block spends
    SNAPSHOT_INTERVAL, STATE_CACHE_SIZE, KeptSnapshots, Milestone,
    MaxSaves, MaxCrashes        \* bounds

Height == 0..Max({Len(p) : p \in Tree})

ASSUME TreeAssumption ==
    /\ IsFiniteSet(Tree) /\ \A p \in Tree : p \in Seq(Nat) /\ p # <<>>
    /\ \A p \in Tree : \A n \in 1..Len(p) : SubSeq(p, 1, n) \in Tree
    /\ \E g \in Tree : {p \in Tree : Len(p) = 1} = {g}      \* genesis
    /\ \A p \in Tree : Work(p) \in Nat \ {0} /\ KeysOf(p) \subseteq Key

ASSUME SizeAssumption ==
    /\ SNAPSHOT_INTERVAL \in Nat \ {0} /\ STATE_CACHE_SIZE \in Nat \ {0}
    /\ KeptSnapshots \in Nat \ {0} /\ Milestone \in Nat \ {0}
    /\ MaxSaves \in Nat /\ MaxCrashes \in Nat

VARIABLES
    mem,        \* self.state
    cache,      \* self.state_cache, oldest first
    disk,       \* what survives a crash
    todo,       \* the writes the running handler still has to make
    saves,      \* States handed to background saves that have not landed
    crashes,    \* number of crashes so far
    replaced    \* history: perform_reorg or self_heal_rollback has replaced the chain

vars == <<mem, cache, disk, todo, saves, crashes, replaced>>

NoBlock == <<>>
Genesis == CHOOSE p \in Tree : Len(p) = 1
State   == Tree \cup {<<>>}

Disk ==
    [batches : [Height -> Tree \cup {NoBlock}],     \* BATCHES_TABLE
     current : State,                               \* STATE_TABLE
     snapshots : SUBSET Tree,                       \* snapshots/state_<height>.bin
     spent : SUBSET Key]                            \* SPENT_ADDRESSES_TABLE

\* The block of p at height h, and p's ancestor State at height n.
BlockAt(p, h) == SubSeq(p, 1, h + 1)
StateAt(p, n) == SubSeq(p, 1, n)

IsPrefix(p, q) == Len(p) <= Len(q) /\ StateAt(q, Len(p)) = p

\* State::depth.
Depth(p) == SumOf([h \in 0..(Len(p) - 1) |-> Work(BlockAt(p, h))], 0..(Len(p) - 1))

KeysOn(p) == UNION {KeysOf(StateAt(p, n)) : n \in 1..Len(p)}
-----------------------------------------------------------------------------
(***************************************************************************)
(* The disk.                                                               *)
(***************************************************************************)
highest(d) ==
    LET stored == {h \in Height : d.batches[h] # NoBlock}
    IN  IF stored = {} THEN 0 ELSE Max(stored)

save_batch(d, p) == [d EXCEPT !.batches[Len(p) - 1] = p]

save_state(d, p) == [d EXCEPT !.current = p]

\* Replaces the file of that height, then keeps the most recent ones.
save_state_snapshot(d, p) ==
    LET all == {q \in d.snapshots : Len(q) # Len(p)} \cup {p}
    IN  [d EXCEPT !.snapshots =
            {q \in all : Cardinality({r \in all : Len(r) > Len(q)}) < KeptSnapshots}]

delete_snapshots_above(d, n) ==
    [d EXCEPT !.snapshots = {q \in @ : Len(q) < n}]

\* Fault: the batch at the new tip height itself survives.
truncate_strictly_above(d, n) ==
    [d EXCEPT !.batches = [h \in Height |-> IF h > n THEN NoBlock ELSE @[h]]]

\* BatchStore::truncate does nothing when n is the highest batch.
truncate(d, n) ==
    IF n >= highest(d) THEN d
    ELSE [d EXCEPT !.batches = [h \in Height |-> IF h >= n THEN NoBlock ELSE @[h]]]

\* Fault: the entries of an abandoned block stay in the table.
unburn_batch_addresses_none(d, p) == d

burn_batch_addresses(d, p) == [d EXCEPT !.spent = @ \cup KeysOf(p)]

\* A height without a batch has nothing to withdraw.
unburn_batch_addresses(d, p) ==
    IF p = NoBlock THEN d ELSE [d EXCEPT !.spent = @ \ KeysOf(p)]

\* One write of a handler: a name, and the block, State or height it is for.
\* "check", the health check, and "extend", the loop over synced blocks, are
\* the entries that are not writes.
Write(op, arg) == <<op, arg>>

Perform(d, w) ==
    CASE w[1] = "batch"    -> save_batch(d, w[2])
      [] w[1] = "state"    -> save_state(d, w[2])
      [] w[1] = "snapshot" -> save_state_snapshot(d, w[2])
      [] w[1] = "drop"     -> delete_snapshots_above(d, w[2])
      [] w[1] = "truncate" -> truncate(d, w[2])
      [] w[1] = "burn"     -> burn_batch_addresses(d, w[2])
      [] w[1] = "unburn"   -> unburn_batch_addresses(d, w[2])

\* op for each of p's blocks at heights from..(until - 1).
ForBlocks(op, p, from, until) ==
    [i \in 1..(until - from) |-> Write(op, BlockAt(p, from + i - 1))]

SnapshotIfDue(p) ==
    IF Len(p) % SNAPSHOT_INTERVAL = 0 THEN <<Write("snapshot", p)>> ELSE <<>>

CheckIfDue(p) == IF Len(p) % Milestone = 0 THEN <<Write("check", 0)>> ELSE <<>>
-----------------------------------------------------------------------------
(***************************************************************************)
(* The ring buffer, and States rebuilt from the disk.                      *)
(***************************************************************************)
cache_current_state(c, p) ==
    LET kept == IF c # <<>> /\ Len(c[Len(c)]) = Len(p) THEN SubSeq(c, 1, Len(c) - 1) ELSE c
        all  == Append(kept, p)
    IN  IF Len(all) > STATE_CACHE_SIZE THEN Tail(all) ELSE all

\* Fault: the first State of the abandoned branch survives.
trim_cache_above_one_late(c, n) ==
    LET low == {i \in DOMAIN c : Len(c[i]) <= n + 1}
    IN  IF low = {} THEN <<>> ELSE SubSeq(c, 1, Max(low))

\* Pops from the back while the last entry is at n or above.
trim_cache_above(c, n) ==
    LET low == {i \in DOMAIN c : Len(c[i]) < n}
    IN  IF low = {} THEN <<>> ELSE SubSeq(c, 1, Max(low))

\* A snapshot is trusted when the batch below it is on disk and agrees.
TrustedSnapshots(d) ==
    {p \in d.snapshots : Len(p) % SNAPSHOT_INTERVAL = 0 /\ d.batches[Len(p) - 1] = p}

Highest(paths) == CHOOSE p \in paths : \A q \in paths : Len(q) <= Len(p)

\* Where a rebuild for height n starts: the highest cached State that is not
\* above n (the latest, if several), else the highest snapshot, else genesis.
RebuildFrom(d, c, n) ==
    LET hits  == {i \in DOMAIN c : Len(c[i]) <= n}
        snaps == {p \in TrustedSnapshots(d) : Len(p) <= n}
    IN  IF hits # {}
        THEN LET top == Max({Len(c[i]) : i \in hits})
             IN  c[Max({i \in hits : Len(c[i]) = top})]
        ELSE IF snaps # {} THEN Highest(snaps) ELSE <<>>

\* rebuild_state_from_disk: replay the batches up to height n; {} when one is
\* missing or does not extend the State reached so far.
rebuild_state_from_disk(d, c, n) ==
    LET from == RebuildFrom(d, c, n)
        end  == IF n = Len(from) THEN from ELSE d.batches[n - 1]
    IN  {p \in {end} :
            /\ Len(p) = n /\ IsPrefix(from, p)
            /\ \A h \in Len(from)..(n - 1) : d.batches[h] = BlockAt(p, h)}
-----------------------------------------------------------------------------
(***************************************************************************)
(* A peer sends p's blocks from height s on, and mem is not among their    *)
(* parents.                                                                *)
(***************************************************************************)
find_fork_point(d, p, s) ==
    LET differ == {h \in s..(Len(p) - 1) : d.batches[h] # BlockAt(p, h)}
    IN  {h \in differ : \A g \in differ : h <= g}

OurWorkSince(d, n, fork) ==
    SumOf([h \in fork..(n - 1) |-> IF d.batches[h] = NoBlock THEN 0 ELSE Work(d.batches[h])],
          fork..(n - 1))

AltWork(p, fork) ==
    SumOf([h \in fork..(Len(p) - 1) |-> Work(BlockAt(p, h))], fork..(Len(p) - 1))

fork_state(d, c, m, p, fork) ==
    IF fork = Len(m) THEN {m}
    ELSE IF fork = 0 THEN {<<>>}
    ELSE IF AltWork(p, fork) <= OurWorkSince(d, Len(m), fork) THEN {}
    ELSE rebuild_state_from_disk(d, c, fork)

\* evaluate_alternative_chain: the fork heights from which p is adopted.
evaluate_alternative_chain(d, c, m, p, s) ==
    {fork \in find_fork_point(d, p, s) :
        /\ StateAt(p, fork) \in fork_state(d, c, m, p, fork)
        /\ Depth(p) > Depth(m)}
-----------------------------------------------------------------------------
Quiet == todo = <<>>

Init ==
    /\ mem = Genesis
    /\ cache = <<>>
    /\ disk = [batches |-> [h \in Height |-> IF h = 0 THEN Genesis ELSE NoBlock],
               current |-> Genesis, snapshots |-> {}, spent |-> {}]
    /\ todo = <<>>
    /\ saves = {}
    /\ crashes = 0
    /\ replaced = FALSE

Extend(p, writes) ==
    /\ Quiet
    /\ p \in Tree /\ Len(p) = Len(mem) + 1 /\ IsPrefix(mem, p)
    /\ mem' = p
    /\ cache' = cache_current_state(cache, p)
    /\ todo' = writes
    /\ UNCHANGED <<disk, saves, crashes, replaced>>

\* handle_new_batch stores the batch and leaves the State to the next tick.
NewBatch(p) == Extend(p, <<Write("batch", p)>> \o SnapshotIfDue(p))

\* Fault: the State is stored before the batch it includes.
BatchStateBurn_state_first(p) ==
    <<Write("state", p), Write("batch", p), Write("burn", p)>>

BatchStateBurn(p) == <<Write("batch", p), Write("state", p), Write("burn", p)>>

MinedBatch(p) == Extend(p, BatchStateBurn(p) \o SnapshotIfDue(p) \o CheckIfDue(p))

\* try_apply_orphans: a block that waited for its parent.  Which blocks wait
\* is not modelled; the handlers that end with this call apply none or some.
ApplyOrphan(p) == Extend(p, BatchStateBurn(p))

\* process_linear_extension: its loop over the blocks that lead to p.
LinearExtension(p) ==
    /\ todo' = <<Write("extend", p)>>
    /\ UNCHANGED <<mem, cache, disk, saves, crashes, replaced>>

\* One turn of the loop: memory first, then the disk; the milestone is checked
\* after the last one.
ApplyNext ==
    /\ ~Quiet /\ Head(todo)[1] = "extend"
    /\ LET p == Head(todo)[2]
           q == BlockAt(p, Len(mem))
       IN  /\ mem' = q
           /\ cache' = cache_current_state(cache, q)
           /\ todo' = BatchStateBurn(q) \o SnapshotIfDue(q)
                        \o IF q = p THEN CheckIfDue(p) ELSE <<Write("extend", p)>>
    /\ UNCHANGED <<disk, saves, crashes, replaced>>

\* The batches the old branch leaves behind, as far as the disk has them.
Abandoned(fork) ==
    [i \in 1..(Len(mem) - fork) |-> Write("unburn", disk.batches[fork + i - 1])]

\* perform_reorg.
Reorg(p, fork) ==
    /\ cache' = cache_current_state(trim_cache_above(cache, fork), p)
    /\ mem' = p
    /\ todo' = <<Write("drop", fork)>> \o Abandoned(fork)
                 \o ForBlocks("batch", p, fork, Len(p)) \o <<Write("state", p)>>
                 \o ForBlocks("burn", p, fork, Len(p)) \o SnapshotIfDue(p)
    /\ replaced' = TRUE
    /\ UNCHANGED <<disk, saves, crashes>>

\* handle_batches_response.
BatchesResponse(p, s) ==
    /\ Quiet
    /\ s < Len(p)
    /\ IF s <= Len(mem) /\ Len(mem) < Len(p) /\ IsPrefix(mem, p)
       THEN LinearExtension(p)
       ELSE \E fork \in evaluate_alternative_chain(disk, cache, mem, p, s) : Reorg(p, fork)

PerformWrite ==
    /\ ~Quiet /\ Head(todo)[1] \notin {"check", "extend"}
    /\ disk' = Perform(disk, Head(todo))
    /\ todo' = Tail(todo)
    /\ UNCHANGED <<mem, cache, saves, crashes, replaced>>

\* save_interval: hand the State to a thread nobody waits for.
SaveTick ==
    /\ Quiet
    /\ Cardinality(saves) < MaxSaves
    /\ saves' = saves \cup {mem}
    /\ UNCHANGED <<mem, cache, disk, todo, crashes, replaced>>

\* Fault: the thread's error is only logged and the State is not written.
SaveLands_lost(p) ==
    /\ p \in saves
    /\ saves' = saves \ {p}
    /\ UNCHANGED <<mem, cache, disk, todo, crashes, replaced>>

SaveLands(p) ==
    /\ p \in saves
    /\ disk' = save_state(disk, p)
    /\ saves' = saves \ {p}
    /\ UNCHANGED <<mem, cache, todo, crashes, replaced>>

HealthTick ==
    /\ Quiet
    /\ todo' = <<Write("check", 0)>>
    /\ UNCHANGED <<mem, cache, disk, saves, crashes, replaced>>

\* perform_health_check on the State m.
Healthy(d, m) == highest(d) + 1 = Len(m) /\ d.batches[Len(m) - 1] = m

HealthCheckPasses ==
    /\ ~Quiet /\ Head(todo)[1] = "check"
    /\ Healthy(disk, mem)
    /\ todo' = Tail(todo)
    /\ UNCHANGED <<mem, cache, disk, saves, crashes, replaced>>

\* self_heal_rollback to the highest trusted snapshot below the tip, if any.
SelfHeal ==
    /\ ~Quiet /\ Head(todo)[1] = "check"
    /\ ~Healthy(disk, mem)
    /\ LET usable == {p \in TrustedSnapshots(disk) : Len(p) < Len(mem)}
       IN  IF usable = {}
           THEN /\ todo' = Tail(todo)
                /\ UNCHANGED <<mem, cache, replaced>>
           ELSE LET p == Highest(usable)
                IN  /\ mem' = p
                    /\ cache' = cache_current_state(cache, p)
                    /\ todo' = <<Write("state", p), Write("truncate", Len(p)),
                                 Write("drop", Len(p))>>
                    /\ replaced' = TRUE
    /\ UNCHANGED <<disk, saves, crashes>>

\* The process dies and Node::new loads the stored State; nothing is replayed.
Crash ==
    /\ crashes < MaxCrashes
    /\ crashes' = crashes + 1
    /\ mem' = disk.current
    /\ cache' = <<>>
    /\ todo' = <<>>
    /\ saves' = {}
    /\ UNCHANGED <<disk, replaced>>

Next ==
    \/ \E p \in Tree : NewBatch(p) \/ MinedBatch(p) \/ ApplyOrphan(p)
    \/ \E p \in Tree : \E s \in Height : BatchesResponse(p, s)
    \/ ApplyNext
    \/ PerformWrite
    \/ SaveTick
    \/ \E p \in saves : SaveLands(p)
    \/ HealthTick
    \/ HealthCheckPasses
    \/ SelfHeal
    \/ Crash

Spec == Init /\ [][Next]_vars

\* A handler that runs gets to its end, a spawned thread gets to run, and the
\* save timer, one of the branches of the select loop, is not starved by the
\* others (the loop picks among the ready ones at random).
FairSpec ==
    /\ Spec
    /\ WF_vars(PerformWrite \/ ApplyNext) /\ WF_vars(HealthCheckPasses \/ SelfHeal)
    /\ WF_vars(\E p \in saves : SaveLands(p)) /\ SF_vars(SaveTick)
-----------------------------------------------------------------------------
(***************************************************************************)
(* Properties.                                                             *)
(***************************************************************************)
\* Memory, disk and pending writes have the types the code declares.
TypeOK ==
    /\ mem \in Tree /\ cache \in Seq(Tree) /\ Len(cache) <= STATE_CACHE_SIZE
    /\ disk \in Disk
    /\ saves \subseteq Tree /\ crashes \in 0..MaxCrashes

\* The batches on disk below height Len(p) are exactly p's.
Backed(p) == \A h \in 0..(Len(p) - 1) : disk.batches[h] = BlockAt(p, h)

\* Without a crash, and while a heavier chain is not a shorter one, whenever no
\* handler is running the disk holds the whole chain the State in memory was
\* built from: linear blocks, syncs and reorgs leave no gap, no foreign batch.
Aligned == (Quiet /\ crashes = 0) => Backed(mem)

\* Without a crash every snapshot is an ancestor of the State in memory.
SnapshotsOnChain == (Quiet /\ crashes = 0) => \A p \in disk.snapshots : IsPrefix(p, mem)

\* Without a crash a heavier chain is adopted whoever offers it, from
\* whichever height at or below the fork its blocks are sent: the cache, the
\* snapshots and the batches always suffice to rebuild the State at the fork.
HeaviestAccepted ==
    (Quiet /\ crashes = 0) => \A p \in Tree : Depth(p) > Depth(mem) =>
        \A s \in 0..(Len(p) - 1) : IsPrefix(StateAt(p, s), mem) =>
            \/ IsPrefix(mem, p)
            \/ evaluate_alternative_chain(disk, cache, mem, p, s) # {}

\* No key is recorded as spent that the chain has not spent: reorgs withdraw
\* the keys of the blocks they abandon ("ghost entries" in the code).
NoGhosts == (Quiet /\ crashes = 0) => disk.spent \subseteq KeysOn(mem)

\* The health check raises no alarm on a node that has not crashed, which
\* needs a reorg to leave no batch of the old branch above the new tip.
NoFalseAlarm == (Quiet /\ crashes = 0) => Healthy(disk, mem)

\* Memory, cache, batches, snapshots and the spent table stay in step however
\* blocks arrive, are mined, synced, orphaned and reorganised (node.rs).
InStep == TypeOK /\ Aligned /\ SnapshotsOnChain /\ NoGhosts /\ NoFalseAlarm

\* Comment on perform_health_check: a node that passes is aligned with its
\* disk records.
HealthyMeansAligned == (Quiet /\ Healthy(disk, mem)) => Backed(mem)

\* A rollback heals: when its last write is due, memory and disk agree again
\* as far as the health check looks.
RollbackHeals ==
    (Len(todo) = 1 /\ Head(todo)[1] = "drop") => Healthy(disk, mem)

\* Comment on BatchStore::truncate: everything at or above the given height
\* is deleted.
TruncateDeletes ==
    (Len(todo) = 1 /\ Head(todo)[1] = "drop") =>
        \A h \in Head(todo)[2]..Max(Height) : disk.batches[h] = NoBlock

\* The stored State catches up with the one in memory again and again, also
\* when blocks arrive through handle_new_batch, which stores none, and late
\* saves overwrite newer States.
StoredCatchesUp == []<>(disk.current = mem)

\* Until a reorg or a rollback replaces blocks, at every instant, between any
\* two writes, after any crashes and whenever late saves land, the stored State
\* is one whose blocks are all on disk (batch, then State, then one-time keys),
\* so a restart can serve, verify and reorganise the chain it resumes on.
StoredBacked == replaced \/ Backed(disk.current)
=============================================================================
