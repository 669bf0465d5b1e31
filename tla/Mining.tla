------------------------------- MODULE Mining -------------------------------
(***************************************************************************)
(* Block templates and the background miner of src/node.rs: the template   *)
(* of the node's own miner (spawn_mining_task), the cached prefix served   *)
(* to remote miners (build_template_prefix, cached_template_prefix,        *)
(* finish_template), the handle of the running task (trigger_mining,       *)
(* cancel_mining), the blocks that come back (handle_mined_batch,          *)
(* SubmitMinedBlock), and the punishment of a key that signed twice.       *)
(*                                                                         *)
(* The event loop runs one handler at a time; the mining threads run       *)
(* beside it: a thread sees its cancel flag late, and what it found goes   *)
(* through a channel.  A block is named by its number; the pool is what    *)
(* the templates read of it (Mempool has its rules).                       *)
(***************************************************************************)
EXTENDS ChainState, SequencesExt

CONSTANTS
    TxOrder,        \* the pool's priority order, a sequence of all of Tx
    BurnOf,         \* BurnOf[t]: the transaction forged to burn t's coin
    Mode,           \* miner.toml: "solo", "pool" or "stratum"
    MaxBatchCommits, MaxBatchReveals, MaxBatchInputs, MaxBatchOutputs,
    StartHeight, StartCoins, StartCommitted,
    PeerTxs,        \* the contents of other miners' blocks
    MaxHeight, MaxTasks, MaxBlocks, MaxEvents     \* bounds

ASSUME MiningAssumption ==
    /\ Range(TxOrder) = Tx /\ IsInjective(TxOrder)
    /\ Mode \in {"solo", "pool", "stratum"}
    /\ StartHeight \in Nat /\ StartHeight > 1 /\ StartHeight >= ReplayFix
    /\ BurnOf \in [Tx -> Tx]

VARIABLES
    state,          \* the node's State
    tip,            \* header_hash of state: number of the last block
    before,         \* State and tip before the last block (a reorg's fork)
    pool,           \* pending commits and reveals
    bounty_queue,   \* forged burns whose commit is not mined yet
    active_burns,   \* keys under punishment
    forging,        \* burns a background task is grinding
    in_progress,    \* sync.in_progress
    mining_cancel,  \* the handle: id of the current task, or NoTask
    tasks,          \* mining threads that have not ended
    mined,          \* the channel mined_batch_rx
    cache,          \* TEMPLATE_PREFIX_CACHE
    served,         \* the template a remote miner works on
    events          \* what happened to the node so far, for MaxEvents

vars == <<state, tip, before, pool, bounty_queue, active_burns, forging, in_progress,
          mining_cancel, tasks, mined, cache, served, events>>

miner == <<mining_cancel, tasks, mined>>
burns == <<bounty_queue, active_burns, forging>>

NoTask == 0
NoBlock == [parent |-> -1, txs |-> <<>>, fees |-> 0, root |-> <<>>]

commit(t) == [kind |-> "commit", tx |-> t]
reveal(t) == [kind |-> "reveal", tx |-> t]
Entry == [kind : {"commit", "reveal"}, tx : Tx]
-----------------------------------------------------------------------------
(***************************************************************************)
(* Blocks.  The state root covers coins, commitments and, from V4 on, the  *)
(* used keys.  The coins of the reward are left to Ledger.                 *)
(***************************************************************************)
Root(s) == <<s.coins, s.commitments, IF s.height >= V4Act THEN s.burned_wots ELSE {}>>

\* A commit's proof of work is anchored to the block before the tip.
apply_a_commit(s, t) == apply_commit(s, [tx |-> t, t |-> s.height - 1, fmt |-> "v3"])

\* One transaction as apply_batch applies it.
ApplyInBlock(s, e) ==
    IF e.kind = "commit" THEN apply_a_commit(s, e.tx) ELSE apply_transaction_no_sig_check(s, e.tx)

Of(txs, kind) == SelectSeq(txs, LAMBDA e : e.kind = kind)
Sum(seq, f(_)) == FoldLeft(LAMBDA n, e : n + f(e), 0, seq)
ins(e)  == IF TxKind[e.tx] = "Consolidate" THEN 1 ELSE Len(TxIn[e.tx])
outs(e) == Len(TxOut[e.tx]) + Len(TxBurn[e.tx])

\* The checks of apply_batch that precede the first state change.
WithinLimits(txs) ==
    LET reveals == Of(txs, "reveal")
        joins   == SelectSeq(reveals, LAMBDA e : TxKind[e.tx] = "Consolidate")
    IN  /\ txs = Of(txs, "commit") \o reveals
        /\ Len(Of(txs, "commit")) <= MaxBatchCommits /\ Len(reveals) <= MaxBatchReveals
        /\ \A i, j \in DOMAIN joins :
              i # j => Owner[TxIn[joins[i].tx][1]] # Owner[TxIn[joins[j].tx][1]]
        /\ Sum(reveals, ins) <= MaxBatchInputs /\ Sum(reveals, outs) <= MaxBatchOutputs
        /\ \A i \in DOMAIN reveals : state.height >= TxUnlock[reveals[i].tx]

ApplyAll(s, txs) ==
    FoldLeft(LAMBDA r, e : IF r.ok THEN ApplyInBlock(r.state, e) ELSE r, Ok(s), txs)

Fees(txs) == Sum(Of(txs, "reveal"), LAMBDA e : fee(e.tx))

\* apply_batch on a block whose parent is right.  It works in place: the
\* State it leaves behind an error has the transactions applied so far.
apply_batch(s, b) ==
    IF ~WithinLimits(b.txs) THEN Err(s)
    ELSE LET r == ApplyAll(s, b.txs)
         IN  IF ~r.ok \/ b.fees # Fees(b.txs) \/ b.root # Root(r.state)
             THEN Err(r.state) ELSE Ok(EndBlock(r.state))
-----------------------------------------------------------------------------
(***************************************************************************)
(* Templates.  acc carries the candidate State; a transaction that fails   *)
(* is left out of the block, whatever it did to the candidate stays.       *)
(***************************************************************************)
Empty(s) == [state |-> s, txs |-> <<>>, addrs |-> {}, keys |-> {}]

Take(seq, n) == SubSeq(seq, 1, Min({n, Len(seq)}))

AddCommit(acc, t) ==
    LET r == apply_a_commit(acc.state, t)
    IN  [acc EXCEPT !.state = r.state, !.txs = IF r.ok THEN Append(@, commit(t)) ELSE @]

\* Fault: two consolidations of one address may share a block.
Room_any_address(acc, t) ==
    LET reveals == Of(acc.txs, "reveal")
    IN  /\ Sum(reveals, ins) + ins(reveal(t)) <= MaxBatchInputs
        /\ Sum(reveals, outs) + outs(reveal(t)) <= MaxBatchOutputs

\* The limits checked before a reveal is tried.
Room(acc, t) ==
    LET reveals == Of(acc.txs, "reveal")
    IN  /\ TxKind[t] = "Consolidate" => Owner[TxIn[t][1]] \notin acc.addrs
        /\ Sum(reveals, ins) + ins(reveal(t)) <= MaxBatchInputs
        /\ Sum(reveals, outs) + outs(reveal(t)) <= MaxBatchOutputs

AddReveal(acc, t, r) ==
    [acc EXCEPT !.state = r.state,
                !.txs   = IF r.ok THEN Append(@, reveal(t)) ELSE @,
                !.keys  = IF r.ok THEN @ \cup TxKeys[t] ELSE @,
                !.addrs = IF r.ok /\ TxKind[t] = "Consolidate"
                          THEN @ \cup {Owner[TxIn[t][1]]} ELSE @]

\* A reveal in the node's own template.
OwnReveal(acc, t) ==
    IF Room(acc, t)
    THEN AddReveal(acc, t, apply_transaction_no_sig_check(acc.state, t)) ELSE acc

\* A reveal in a template for remote miners: no key twice in a block.
PrefixReveal(acc, t) ==
    IF Room(acc, t) /\ TxKeys[t] \cap acc.keys = {}
    THEN AddReveal(acc, t, apply_transaction(acc.state, t)) ELSE acc

Ordered(set) == SelectSeq(TxOrder, LAMBDA t : t \in set)

BlockOf(acc, parent) ==
    [parent |-> parent, txs |-> acc.txs, fees |-> Fees(acc.txs), root |-> Root(acc.state)]

\* spawn_mining_task, up to the header.
own_template(s, p, parent) ==
    BlockOf(FoldLeft(OwnReveal,
                     FoldLeft(AddCommit, Empty(s), Take(Ordered(p.commits), MaxBatchCommits)),
                     Take(Ordered(p.reveals), MaxBatchReveals)), parent)

\* build_template_prefix: the bounties come first.
build_template_prefix(s, p, bounties, parent) ==
    BlockOf(FoldLeft(PrefixReveal,
                FoldLeft(AddCommit, Empty(s),
                         Take(bounties \o Ordered(p.commits), MaxBatchCommits)),
                Take(bounties \o Ordered(p.reveals), MaxBatchReveals)), parent)

Size(p) == Cardinality(p.commits) + Cardinality(p.reveals)

NoCache == [height |-> -1, hash |-> -1, mempool_len |-> 0, bounty_len |-> 0, prefix |-> NoBlock]

\* Fault: the tip is told apart by its height only.
CacheHit_by_height ==
    /\ cache.height = state.height
    /\ cache.mempool_len = Size(pool) /\ cache.bounty_len = Len(bounty_queue)

CacheHit ==
    /\ cache.height = state.height /\ cache.hash = tip
    /\ cache.mempool_len = Size(pool) /\ cache.bounty_len = Len(bounty_queue)
-----------------------------------------------------------------------------
(***************************************************************************)
(* The miner's handle.  cancel_mining raises the flag of the task it holds *)
(* and empties the channel; trigger_mining starts a task unless there is a *)
(* handle, a sync, or a chain shorter than at start-up.                    *)
(***************************************************************************)
Flagged(id) == {IF t.id = id THEN [t EXCEPT !.cancelled = TRUE] ELSE t : t \in tasks}

FreeIds(ts) == (1..MaxTasks) \ {t.id : t \in ts}

\* A stratum client mines for the pool and never looks at the flag.
NewTask(ts, s, p, parent) ==
    [id |-> Min(FreeIds(ts)), cancelled |-> FALSE,
     block |-> IF Mode = "stratum" THEN NoBlock ELSE own_template(s, p, parent)]

MayMine(syncing, s) == ~syncing /\ s.height >= StartHeight

\* trigger_mining with handle id and threads ts, after the rest of a handler.
trigger_mining(id, ts, syncing, s, p, parent) ==
    IF id = NoTask /\ MayMine(syncing, s)
    THEN LET t == NewTask(ts, s, p, parent)
         IN  mining_cancel' = t.id /\ tasks' = ts \cup {t}
    ELSE mining_cancel' = id /\ tasks' = ts

\* Fault: the flag is raised and the handle kept.
cancel_mining_keeps_handle ==
    [id |-> mining_cancel, tasks |-> Flagged(mining_cancel),
     mined |-> IF mining_cancel = NoTask THEN mined ELSE <<>>]

cancel_mining ==
    [id |-> NoTask, tasks |-> Flagged(mining_cancel),
     mined |-> IF mining_cancel = NoTask THEN mined ELSE <<>>]

cancel_and_trigger(s, p, parent) ==
    /\ trigger_mining(cancel_mining.id, cancel_mining.tasks, in_progress, s, p, parent)
    /\ mined' = cancel_mining.mined

Bounded == FreeIds(tasks) # {}
-----------------------------------------------------------------------------
Init ==
    /\ state = deserialize_state(
         [coins |-> StartCoins, commitments |-> StartCommitted,
          commitment_heights |-> [t \in Tx |-> IF t \in StartCommitted THEN StartHeight - 1 ELSE None],
          expirations |-> {}, burned_wots |-> {}, height |-> StartHeight,
          coins_cache |-> "none", commitments_cache |-> "none"])
    /\ tip = 0
    /\ before = [state |-> state, tip |-> 0]
    /\ pool = [commits |-> {}, reveals |-> {}]
    /\ bounty_queue = <<>> /\ active_burns = {} /\ forging = {}
    /\ in_progress = FALSE
    /\ mining_cancel = 1 /\ tasks = {NewTask({}, state, pool, 0)}
    /\ mined = <<>>
    /\ cache = NoCache
    /\ served = NoBlock
    /\ events = 0

(***************************************************************************)
(* A transaction reaches the pool.  A reveal whose key is seen in a        *)
(* pending reveal puts the key under punishment instead; a key already     *)
(* there makes every transaction with it fail, the forged burn included.   *)
(* The fluff of the stem phase and the restore after a reorg do not look.  *)
(***************************************************************************)
Valid(t) == CommitmentLive(state, t) /\ InputsExist(state, t) /\ state.height >= TxUnlock[t]

NoConflict(t) == \A u \in pool.reveals : Range(TxIn[u]) \cap Range(TxIn[t]) = {}

Add(e) == IF e.kind = "commit" THEN [pool EXCEPT !.commits = @ \cup {e.tx}]
          ELSE [pool EXCEPT !.reveals = @ \cup {e.tx}]

Admit(e) ==
    /\ Bounded
    /\ e.tx \notin (IF e.kind = "commit" THEN pool.commits ELSE pool.reveals)
    /\ IF e.kind = "commit" THEN e.tx \notin state.commitments
       ELSE Valid(e.tx) /\ NoConflict(e.tx)
    /\ pool' = Add(e)
    /\ cancel_and_trigger(state, pool', tip)
    /\ UNCHANGED <<state, tip, before, burns, in_progress, cache, served>>

KeySeen(t, k) == \E u \in pool.reveals \ {t} : k \in TxKeys[u]

NewTransaction(e) ==
    /\ e.kind = "reveal" => \A k \in TxKeys[e.tx] : k \notin active_burns /\ ~KeySeen(e.tx, k)
    /\ Admit(e)

FluffTransaction(e) == Admit(e)

PunishReuse(t, k) ==
    /\ Valid(t) /\ k \in TxKeys[t] \ active_burns /\ KeySeen(t, k)
    /\ active_burns' = active_burns \cup {k}
    /\ forging' = forging \cup {BurnOf[t]}
    /\ UNCHANGED <<state, tip, before, pool, bounty_queue, in_progress, miner, cache, served>>

\* NodeCommand::InjectBounty; the other case is that no salt was found.
InjectBounty(t) ==
    /\ t \in forging /\ Bounded
    /\ forging' = forging \ {t}
    /\ bounty_queue' = Append(bounty_queue, t)
    /\ cancel_and_trigger(state, pool, tip)
    /\ UNCHANGED <<state, tip, before, pool, active_burns, in_progress, cache, served>>

ForgeFails(t) ==
    /\ t \in forging
    /\ forging' = forging \ {t}
    /\ UNCHANGED <<state, tip, before, pool, bounty_queue, active_burns, in_progress, miner, cache, served>>
-----------------------------------------------------------------------------
(***************************************************************************)
(* Blocks.  Advance is the common end of the handlers that adopt one: the  *)
(* pool is pruned, bounties whose commit is mined leave the queue (their   *)
(* reveal is refused by NewTransaction: its key is in active_burns).       *)
(***************************************************************************)
Pruned(p, s, txs) ==
    LET used == UNION {Range(TxIn[txs[i].tx]) : i \in {j \in DOMAIN txs : txs[j].kind = "reveal"}}
        keys == UNION {TxKeys[txs[i].tx] : i \in {j \in DOMAIN txs : txs[j].kind = "reveal"}}
        done == {txs[i].tx : i \in {j \in DOMAIN txs : txs[j].kind = "commit"}}
    IN  [commits |-> p.commits \ done,
         reveals |-> {t \in p.reveals :
            /\ Range(TxIn[t]) \cap used = {} /\ TxKeys[t] \cap keys = {}
            /\ s.commitment_heights[t] # None
            /\ saturating_sub(s.height, s.commitment_heights[t]) <= TTL}]

Advance(s, txs) ==
    /\ state' = s
    /\ tip' = tip + 1
    /\ before' = [state |-> state, tip |-> tip]
    /\ pool' = Pruned(pool, s, txs)
    /\ bounty_queue' = SelectSeq(bounty_queue, LAMBDA t : t \notin s.commitments)

\* A block some other miner could have made.
PeerBlock(s, parent, txs) ==
    LET r == ApplyAll(s, txs)
    IN  [parent |-> parent, txs |-> txs, fees |-> Fees(txs), root |-> Root(r.state)]

\* handle_new_batch on a block that extends the tip.
NewBatch(txs) ==
    LET r == apply_batch(state, PeerBlock(state, tip, txs))
    IN  /\ Bounded /\ tip < MaxBlocks /\ state.height < MaxHeight
        /\ r.ok
        /\ Advance(r.state, txs)
        /\ cancel_and_trigger(state', pool', tip')
        /\ UNCHANGED <<active_burns, forging, in_progress, cache, served>>

\* perform_reorg: another block in the place of the last one.  In
\* handle_batches_response orphans may follow, which cancel the task that
\* perform_reorg has started and start none.
Reorg(txs, follow) ==
    LET r == apply_batch(before.state, PeerBlock(before.state, before.tip, txs))
        r2 == IF follow THEN apply_batch(r.state, PeerBlock(r.state, tip + 1, <<>>)) ELSE r
    IN  /\ Bounded /\ tip < MaxBlocks - 1 /\ before.tip < tip /\ state.height < MaxHeight
        /\ r.ok /\ r2.ok
        /\ state' = r2.state
        /\ tip' = IF follow THEN tip + 2 ELSE tip + 1
        /\ before' = IF follow THEN [state |-> r.state, tip |-> tip + 1] ELSE before
        /\ pool' = [commits |-> pool.commits \ r2.state.commitments,
                    reveals |-> {t \in pool.reveals : CommitmentLive(r2.state, t) /\ InputsExist(r2.state, t)}]
        /\ in_progress' = FALSE
        /\ mined' = <<>>
        /\ IF follow THEN mining_cancel' = NoTask /\ tasks' = Flagged(mining_cancel)
           ELSE trigger_mining(NoTask, Flagged(mining_cancel), FALSE, state', pool', tip')
        /\ UNCHANGED <<burns, cache, served>>

\* start_sync_session, and the end of a session that adopts nothing.
SyncStart ==
    /\ ~in_progress
    /\ in_progress' = TRUE
    /\ mining_cancel' = cancel_mining.id /\ tasks' = cancel_mining.tasks /\ mined' = cancel_mining.mined
    /\ UNCHANGED <<state, tip, before, pool, burns, cache, served>>

SyncEnd ==
    /\ in_progress /\ Bounded
    /\ in_progress' = FALSE
    /\ trigger_mining(mining_cancel, tasks, FALSE, state, pool, tip)
    /\ UNCHANGED <<state, tip, before, pool, burns, mined, cache, served>>

\* StateInfo from a peer on the same tip.
PeerAgrees ==
    /\ ~in_progress /\ Bounded /\ mining_cancel = NoTask
    /\ trigger_mining(mining_cancel, tasks, FALSE, state, pool, tip)
    /\ UNCHANGED <<state, tip, before, pool, burns, in_progress, mined, cache, served>>
-----------------------------------------------------------------------------
(***************************************************************************)
(* The threads.  A thread that found something sends it and ends, whether  *)
(* or not its flag was raised meanwhile; a flagged one may just end.       *)
(***************************************************************************)
Finds(t, kind) ==
    /\ t \in tasks /\ t.block # NoBlock
    /\ kind = "share" => Mode = "pool"
    /\ tasks' = tasks \ {t}
    /\ mined' = Append(mined, [kind |-> kind, block |-> t.block])
    /\ UNCHANGED <<state, tip, before, pool, burns, in_progress, mining_cancel, cache, served>>

Stops(t) ==
    /\ t \in tasks /\ t.cancelled /\ t.block # NoBlock
    /\ tasks' = tasks \ {t}
    /\ UNCHANGED <<state, tip, before, pool, burns, in_progress, mining_cancel, mined, cache, served>>

\* A share goes to the pool; the same template is mined again.
MinedShare ==
    /\ mined # <<>> /\ Head(mined).kind = "share" /\ Bounded
    /\ mined' = Tail(mined)
    /\ trigger_mining(NoTask, tasks, in_progress, state, pool, tip)
    /\ UNCHANGED <<state, tip, before, pool, burns, in_progress, cache, served>>

Current(b) == b.parent = tip

\* handle_mined_batch.  The block is applied to the node's own State: when
\* it fails, state keeps what was applied.
MinedBlock ==
    /\ mined # <<>> /\ Head(mined).kind = "block"
    /\ LET b == Head(mined).block
           r == apply_batch(state, b)
       IN  IF ~Current(b)
           THEN UNCHANGED <<state, tip, before, pool, bounty_queue, mining_cancel, tasks>>
           ELSE /\ Bounded /\ tip < MaxBlocks /\ state.height < MaxHeight
                /\ IF r.ok THEN Advance(r.state, b.txs)
                   ELSE /\ state' = r.state
                        /\ UNCHANGED <<tip, before, pool, bounty_queue>>
                /\ trigger_mining(NoTask, tasks, in_progress, state', pool', tip')
    /\ mined' = Tail(mined)
    /\ UNCHANGED <<active_burns, forging, in_progress, cache, served>>
-----------------------------------------------------------------------------
(***************************************************************************)
(* Remote miners.  A cached prefix younger than its time to live is served *)
(* again when its key matches.                                             *)
(***************************************************************************)
BlockTemplate(young) ==
    LET hit == young /\ CacheHit
        prefix == IF hit THEN cache.prefix
                  ELSE build_template_prefix(state, pool, bounty_queue, tip)
    IN  /\ cache' = IF hit THEN cache
                    ELSE [height |-> state.height, hash |-> tip, mempool_len |-> Size(pool),
                          bounty_len |-> Len(bounty_queue), prefix |-> prefix]
        /\ served' = prefix
        /\ UNCHANGED <<state, tip, before, pool, burns, in_progress, miner>>

\* NodeCommand::SubmitMinedBlock: a block on another parent waits as an
\* orphan, one that fails is dropped.
SubmitMinedBlock ==
    LET r == apply_batch(state, served)
    IN  /\ served # NoBlock /\ Bounded /\ tip < MaxBlocks /\ state.height < MaxHeight
        /\ served' = NoBlock
        /\ IF Current(served) /\ r.ok
           THEN /\ Advance(r.state, served.txs)
                /\ cancel_and_trigger(state', pool', tip')
           ELSE UNCHANGED <<state, tip, before, pool, bounty_queue, miner>>
        /\ UNCHANGED <<active_burns, forging, in_progress, cache>>

\* What comes from outside, each at most MaxEvents times in all.
Environment ==
    /\ events < MaxEvents /\ events' = events + 1
    /\ \/ \E e \in Entry : NewTransaction(e) \/ FluffTransaction(e)
       \/ \E t \in Tx, k \in Key : PunishReuse(t, k)
       \/ \E txs \in PeerTxs : NewBatch(txs)
       \/ \E txs \in PeerTxs, follow \in BOOLEAN : Reorg(txs, follow)
       \/ SyncStart
       \/ \E young \in BOOLEAN : BlockTemplate(young)
       \/ SubmitMinedBlock

Inside ==
    /\ UNCHANGED events
    /\ \/ \E t \in Tx : InjectBounty(t) \/ ForgeFails(t)
       \/ SyncEnd \/ PeerAgrees
       \/ \E t \in tasks : Stops(t) \/ \E kind \in {"block", "share"} : Finds(t, kind)
       \/ MinedShare \/ MinedBlock

Next == Environment \/ Inside

Spec == Init /\ [][Next]_vars
-----------------------------------------------------------------------------
\* Where every variable lives (the root of a block is left open).
TypeOK ==
    /\ state \in State /\ before.state \in State
    /\ tip \in 0..MaxBlocks /\ before.tip \in 0..tip
    /\ pool \in [commits : SUBSET Tx, reveals : SUBSET Tx]
    /\ bounty_queue \in Seq(Tx) /\ active_burns \subseteq Key /\ forging \subseteq Tx
    /\ in_progress \in BOOLEAN
    /\ mining_cancel \in 0..MaxTasks
    /\ \A t \in tasks : t.id \in 1..MaxTasks /\ t.cancelled \in BOOLEAN /\ t.block.fees \in Nat
    /\ \A i \in DOMAIN mined : mined[i].kind \in {"block", "share"}
    /\ {cache.prefix.parent, served.parent} \subseteq -1..tip

Results == {mined[i] : i \in DOMAIN mined}

\* A handle in mining_cancel means work on the current tip: its thread is
\* running, is not flagged and extends the tip, or what it found for the tip
\* is waiting in the channel.  Every handler that moves the tip or drops the
\* handle must leave it so (trigger_mining starts nothing while there is a
\* handle, so a dead one stops mining for good).
HandleWorksOnTip ==
    mining_cancel # NoTask =>
        \/ \E t \in tasks : t.id = mining_cancel /\ ~t.cancelled /\ t.block.parent \in {tip, -1}
        \/ \E r \in Results : r.block.parent = tip

\* Handle, threads and pool are well formed, and a handle works on the tip
\* (trigger_mining, cancel_mining).
HandleSound == TypeOK /\ HandleWorksOnTip

\* A block the node is mining on its tip, or has found there, is one that
\* apply_batch accepts: spawn_mining_task selects by other code than
\* apply_batch checks by, and handle_mined_batch applies it in place, so a
\* refusal would leave the State half changed.
OwnBlockApplies ==
    \A b \in {t.block : t \in tasks} \cup {r.block : r \in Results} :
        b.parent = tip => apply_batch(state, b).ok

\* A cached prefix that cached_template_prefix would serve now was built on
\* this tip, and its transactions apply here in order: the key is made of
\* the height, the tip and two lengths, and a reorg may bring back all but
\* the tip.
ServableFresh ==
    CacheHit => /\ cache.prefix.parent = tip
                /\ ApplyAll(state, cache.prefix.txs).ok

\* A template for the current tip makes a block that apply_batch accepts
\* ("never an invalid block", src/node.rs above TEMPLATE_CACHE_TTL).
TemplateAccepted ==
    served # NoBlock /\ served.parent = tip => apply_batch(state, served).ok

\* At most one thread mines with no reason to stop (the handle exists "so we
\* don't spawn multiple instances").
OneMiner ==
    LET Unstopped == {t \in tasks : ~t.cancelled \/ t.block = NoBlock}
    IN  \A t, u \in Unstopped : t = u
=============================================================================
